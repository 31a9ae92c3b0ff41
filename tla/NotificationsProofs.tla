------------------------- MODULE NotificationsProofs ------------------------
(***************************************************************************)
(* What TLAPS proves of Notifications, for any events, queues, users,      *)
(* connections, readers and faults.                                        *)
(***************************************************************************)
EXTENDS Notifications, SequenceTheorems, FiniteSetTheorems, TLAPS


(* Queues hold each event that was published and not acknowledged, once,   *)
(* and the handler works on the head of one of them.                       *)
Queues ==
    \A q \in Queue :
        /\ IsInjective(queue[q])
        /\ \A e \in Range(queue[q]) : e \in published /\ QueueOf[e] = q
Rows == Range(rows) \subseteq Readable \cap published
Stored == job.pc \notin {"idle", "store"}
Handling ==
    /\ job.pc = "idle" => job = Idle
    /\ job.pc # "idle" => /\ job.event \in Readable
                          /\ queue[QueueOf[job.event]] # <<>>
                          /\ Head(queue[QueueOf[job.event]]) = job.event
    /\ ~Stored => job.row = 0
    /\ Stored => job.row = Len(rows) /\ job.row # 0 /\ rows[job.row] = job.event
    /\ job.pc # "send" => job.targets = {}
    /\ job.pc \notin {"send", "forget"} => job.broken = {}
    /\ \A c \in job.targets : ConnUser[c] = UserOf[job.event]
Inv == TypeOK /\ Queues /\ Rows /\ Handling

(* An event that is stored, and will be stored again for it is still in its *)
(* queue and its handler is gone, has cost a fault; so has a broker that    *)
(* does not get the acknowledgement.                                       *)
Again == {e \in Range(rows) : e \in Range(queue[QueueOf[e]]) /\ ~(job.event = e /\ Stored)}
Unheard == IF job.acks THEN 0 ELSE 1
DuplicatesPaid ==
    /\ IsFiniteSet(Range(rows))
    /\ Len(rows) + Cardinality(Again) + Unheard <= Cardinality(Range(rows)) + faults

(* What was pushed to a connection, forwarded or not.                      *)
Pushed(c) == got[c] \o sent[c]
Due(c) == job.pc \in {"uncache", "copy"} \/ c \in job.targets
InOrder ==
    \A c \in Conn :
        /\ Increasing(Pushed(c))
        /\ \A i \in DOMAIN Pushed(c) : /\ Pushed(c)[i] \in DOMAIN rows
                                       /\ UserOf[rows[Pushed(c)[i]]] = ConnUser[c]
                                       /\ Due(c) => Pushed(c)[i] # job.row
(* WholeSocketMissesNothing, in these words.                               *)
Heard ==
    \A c \in Conn : Whole(c) =>
        \A n \in since[c] + 1 .. Len(rows) :
            UserOf[rows[n]] = ConnUser[c] =>
                (\E i \in DOMAIN Pushed(c) : Pushed(c)[i] = n) \/ (job.row = n /\ Due(c))

(* The ends of a connection, the registry and the handler fit together.    *)
Ends ==
    /\ \A c \in registry : service[c] \in {"listening", "leaving"}
    /\ \A c \in Conn : service[c] = "listening" => c \in registry \/ gateway[c] = "over"
    /\ \A c \in Conn : /\ client[c] = "new" => gateway[c] = "none"
                       /\ gateway[c] \in {"none", "dialing"} => service[c] = "none"
Broken == \A c \in job.broken : gateway[c] = "over" \/ service[c] = "over"
SocketInv == InOrder /\ Heard /\ Ends /\ Broken
-----------------------------------------------------------------------------
(* Queues and rows grow at their end, queues shrink at their head.         *)

LEMMA AppendElements ==
    ASSUME NEW S, NEW s \in Seq(S), NEW e \in S
    PROVE  /\ Append(s, e) \in Seq(S) /\ Append(s, e) # <<>>
           /\ Range(Append(s, e)) = Range(s) \cup {e}
           /\ s # <<>> => Head(Append(s, e)) = Head(s)
           /\ IsInjective(s) /\ e \notin Range(s) => IsInjective(Append(s, e))
<1> DEFINE t == Append(s, e)
           n == Len(s)
<1>1. /\ n \in Nat /\ t \in Seq(S) /\ t # <<>> /\ Len(t) = n + 1
      /\ \A i \in 1..n : t[i] = s[i]
      /\ t[n + 1] = e
      /\ DOMAIN s = 1..n /\ DOMAIN t = 1..(n + 1)
  <2>1. n \in Nat /\ DOMAIN s = 1..n
    BY LenProperties
  <2>2. /\ t \in Seq(S) /\ t # <<>> /\ Len(t) = n + 1
        /\ \A i \in 1..n : t[i] = s[i]
        /\ t[n + 1] = e
    BY AppendProperties
  <2>3. DOMAIN t = 1..Len(t)
    BY <2>2, LenProperties
  <2> QED BY <2>1, <2>2, <2>3
<1>2. s # <<>> => Head(t) = Head(s)
  BY HeadTailAppend
<1> HIDE DEF t, n
<1>3. Range(t) = Range(s) \cup {e}
  <2>1. ASSUME NEW x \in Range(t) PROVE x \in Range(s) \cup {e}
    <3>1. PICK i \in 1..(n + 1) : x = t[i]
      BY <1>1, <2>1 DEF Range
    <3>2. i \in 1..n \/ i = n + 1
      BY <1>1
    <3> QED BY <1>1, <3>1, <3>2 DEF Range
  <2>2. ASSUME NEW x \in Range(s) PROVE x \in Range(t)
    <3>1. PICK i \in 1..n : x = s[i]
      BY <1>1, <2>2 DEF Range
    <3>2. i \in 1..(n + 1)
      BY <1>1
    <3> QED BY <1>1, <3>1, <3>2 DEF Range
  <2>3. n + 1 \in 1..(n + 1)
    BY <1>1
  <2>4. e \in Range(t)
    BY <1>1, <2>3 DEF Range
  <2> QED BY <2>1, <2>2, <2>4
<1>4. ASSUME IsInjective(s), e \notin Range(s) PROVE IsInjective(t)
  <2> SUFFICES ASSUME NEW i \in 1..(n + 1), NEW j \in 1..(n + 1), t[i] = t[j] PROVE i = j
    BY <1>1 DEF IsInjective
  <2>1. \A k \in 1..n : s[k] \in Range(s)
    BY <1>1 DEF Range
  <2>2. (i \in 1..n \/ i = n + 1) /\ (j \in 1..n \/ j = n + 1)
    BY <1>1
  <2> QED BY <1>1, <1>4, <2>1, <2>2 DEF IsInjective
<1> QED BY <1>1, <1>2, <1>3, <1>4 DEF t

LEMMA TailElements ==
    ASSUME NEW S, NEW s \in Seq(S), s # <<>>
    PROVE  /\ Tail(s) \in Seq(S) /\ Head(s) \in S /\ Head(s) \in Range(s)
           /\ Range(Tail(s)) \subseteq Range(s)
           /\ IsInjective(s) => IsInjective(Tail(s)) /\ Range(Tail(s)) = Range(s) \ {Head(s)}
<1> DEFINE t == Tail(s)
           n == Len(s)
<1>1. /\ n \in Nat \ {0} /\ t \in Seq(S) /\ Head(s) \in S
      /\ \A i \in 1..(n - 1) : t[i] = s[i + 1]
      /\ DOMAIN s = 1..n /\ DOMAIN t = 1..(n - 1)
      /\ Head(s) = s[1]
  <2>1. n \in Nat \ {0} /\ DOMAIN s = 1..n
    BY LenProperties, EmptySeq
  <2>2. /\ Head(s) \in S /\ t \in Seq(S) /\ Len(t) = n - 1
        /\ \A i \in 1..Len(t) : t[i] = s[i + 1]
    BY HeadTailProperties
  <2>3. DOMAIN t = 1..Len(t)
    BY <2>2, LenProperties
  <2>4. Head(s) = s[1]
    OBVIOUS
  <2> QED BY <2>1, <2>2, <2>3, <2>4
<1> HIDE DEF t, n
<1>2. 1 \in 1..n /\ Head(s) \in Range(s)
  BY <1>1 DEF Range
<1>3. ASSUME NEW x \in Range(t) PROVE x \in Range(s)
  <2>1. PICK i \in 1..(n - 1) : x = t[i]
    BY <1>1, <1>3 DEF Range
  <2>2. i + 1 \in 1..n
    BY <1>1
  <2> QED BY <1>1, <2>1, <2>2 DEF Range
<1>4. ASSUME IsInjective(s) PROVE IsInjective(t) /\ Range(t) = Range(s) \ {Head(s)}
  <2>1. ASSUME NEW i \in 1..(n - 1), NEW j \in 1..(n - 1), t[i] = t[j] PROVE i = j
    <3>1. i + 1 \in 1..n /\ j + 1 \in 1..n /\ s[i + 1] = s[j + 1]
      BY <1>1, <2>1
    <3>2. i + 1 = j + 1
      BY <1>1, <1>4, <3>1 DEF IsInjective
    <3> QED BY <3>2
  <2>2. ASSUME NEW x \in Range(t) PROVE x # Head(s)
    <3>1. PICK i \in 1..(n - 1) : x = t[i]
      BY <1>1, <2>2 DEF Range
    <3>2. i + 1 \in 1..n /\ i + 1 # 1 /\ x = s[i + 1]
      BY <1>1, <3>1
    <3> QED BY <1>1, <1>2, <1>4, <3>2 DEF IsInjective
  <2>3. ASSUME NEW x \in Range(s), x # Head(s) PROVE x \in Range(t)
    <3>1. PICK i \in 1..n : x = s[i]
      BY <1>1, <2>3 DEF Range
    <3>2. i # 1
      BY <1>1, <2>3, <3>1
    <3>3. i - 1 \in 1..(n - 1) /\ (i - 1) + 1 = i
      BY <1>1, <3>2
    <3>4. t[i - 1] = s[(i - 1) + 1]
      BY <1>1, <3>3
    <3> QED BY <1>1, <3>1, <3>3, <3>4 DEF Range
  <2> QED BY <1>1, <1>3, <2>1, <2>2, <2>3 DEF IsInjective
<1> QED BY <1>1, <1>2, <1>3, <1>4 DEF t

(* A finite set has an order to stand in a queue in.                       *)
LEMMA InAnyOrder ==
    ASSUME NEW S, IsFiniteSet(S)
    PROVE  SetToSeq(S) \in Seq(S) /\ IsInjective(SetToSeq(S))
<1> DEFINE n == Cardinality(S)
<1>1. n \in Nat /\ ExistsBijection(1..n, S)
  BY FS_CardinalityType
<1>2. \E f \in [1..n -> S] : IsInjective(f)
  BY <1>1 DEF ExistsBijection, Bijection, Injection, IsInjective
<1>3. SetToSeq(S) \in [1..n -> S] /\ IsInjective(SetToSeq(S))
  BY <1>2 DEF SetToSeq
<1>4. SetToSeq(S) \in Seq(S)
  BY <1>1, <1>3, SeqDef
<1> QED BY <1>3, <1>4

(* What is sent is appended to what is pushed; forwarding it changes nothing.*)
LEMMA SendAppends ==
    ASSUME NEW s \in Seq(Nat), NEW t \in Seq(Nat), NEW n \in Nat
    PROVE  s \o Append(t, n) = Append(s \o t, n)
<1>1. /\ <<n>> \in Seq(Nat) /\ s \o t \in Seq(Nat)
      /\ Append(t, n) = t \o <<n>> /\ Append(s \o t, n) = (s \o t) \o <<n>>
  BY ConcatProperties, AppendIsConcat
<1> QED BY <1>1, ConcatAssociative

LEMMA ConcatTwice ==
    \A s, t, u \in Seq(Nat) : (s \o t) \o u = s \o (t \o u)
BY ConcatAssociative

LEMMA ForwardMoves ==
    ASSUME NEW s \in Seq(Nat), NEW t \in Seq(Nat), t # <<>>
    PROVE  Append(s, Head(t)) \o Tail(t) = s \o t
<1>1. Head(t) \in Nat /\ Tail(t) \in Seq(Nat) /\ <<Head(t)>> \in Seq(Nat)
  BY HeadTailProperties
<1>2. Append(s, Head(t)) = s \o <<Head(t)>>
  BY <1>1, AppendIsConcat
<1>3. <<Head(t)>> \o Tail(t) = t
  <2>1. Len(<<Head(t)>>) = 1 /\ <<Head(t)>>[1] = Head(t)
    OBVIOUS
  <2>2. /\ Len(t) \in Nat \ {0} /\ Len(Tail(t)) = Len(t) - 1
        /\ \A i \in 1..Len(Tail(t)) : Tail(t)[i] = t[i + 1]
        /\ Head(t) = t[1]
    BY HeadTailProperties, EmptySeq
  <2> DEFINE u == <<Head(t)>> \o Tail(t)
  <2>3. /\ u \in Seq(Nat) /\ Len(u) = 1 + Len(Tail(t))
        /\ \A i \in 1..(1 + Len(Tail(t))) : u[i] = IF i <= 1 THEN <<Head(t)>>[i] ELSE Tail(t)[i - 1]
    BY <1>1, <2>1, ConcatProperties
  <2> HIDE DEF u
  <2>4. Len(u) = Len(t)
    BY <2>2, <2>3
  <2>5. ASSUME NEW i \in 1..Len(u) PROVE u[i] = t[i]
    <3>1. CASE i = 1
      BY <2>1, <2>2, <2>3, <2>5, <3>1
    <3>2. CASE i # 1
      <4>1. i - 1 \in 1..Len(Tail(t)) /\ (i - 1) + 1 = i /\ ~(i <= 1)
        BY <2>2, <2>4, <2>5, <3>2
      <4>2. u[i] = Tail(t)[i - 1]
        BY <2>2, <2>3, <2>4, <4>1
      <4>3. Tail(t)[i - 1] = t[(i - 1) + 1]
        BY <2>2, <4>1
      <4> QED BY <4>1, <4>2, <4>3
    <3> QED BY <3>1, <3>2
  <2>6. u = t
    BY <2>3, <2>4, <2>5, SeqEqual
  <2> QED BY <2>6 DEF u
<1>4. (s \o <<Head(t)>>) \o Tail(t) = s \o (<<Head(t)>> \o Tail(t))
  BY <1>1, ConcatTwice
<1> QED BY <1>2, <1>3, <1>4
-----------------------------------------------------------------------------
(* The handler works on the head of a queue.                               *)
Pcs == {"idle", "store", "uncache", "copy", "send", "forget"}
Jobs(n) == [pc : Pcs, event : Event \cup {None}, row : 0..n,
            targets : SUBSET Conn, broken : SUBSET Conn, acks : BOOLEAN]

LEMMA IdleFits ==
    /\ \A n \in Nat : Idle \in Jobs(n)
    /\ Idle.pc = "idle" /\ Idle.event = None /\ Idle.row = 0
    /\ Idle.targets = {} /\ Idle.broken = {} /\ Idle.acks
<1>1. \A n \in Nat : 0 \in 0..n
  OBVIOUS
<1> QED BY <1>1 DEF Idle, Jobs, Pcs

LEMMA InitInv == Init => Inv
<1> SUFFICES ASSUME Init PROVE Inv
  OBVIOUS
<1>1. <<>> \in Seq(Nat) /\ <<>> \in Seq(Event) /\ Len(<<>>) = 0 /\ Range(<<>>) = {}
  BY EmptySeq DEF Range
<1>2. SocketsTypeOK
  BY <1>1 DEF Init, SocketsInit, SocketsTypeOK
<1>3. ASSUME NEW q \in Queue
      PROVE  /\ queue[q] \in Seq(Event) /\ IsInjective(queue[q])
             /\ \A e \in Range(queue[q]) : e \in Waiting /\ QueueOf[e] = q
  <2> DEFINE S == {e \in Waiting : QueueOf[e] = q}
  <2>1. IsFiniteSet(S) /\ S \subseteq Event
    BY NotificationsAssumption, FS_Subset
  <2>2. queue[q] = SetToSeq(S)
    BY DEF Init
  <2> HIDE DEF S
  <2>3. queue[q] \in Seq(S) /\ IsInjective(queue[q])
    BY <2>1, <2>2, InAnyOrder
  <2>4. queue[q] \in Seq(Event)
    BY <2>1, <2>3, SeqDef
  <2>5. \A i \in DOMAIN queue[q] : queue[q][i] \in S
    BY <2>3, LenProperties, ElementOfSeq
  <2>6. \A e \in Range(queue[q]) : e \in S
    BY <2>5 DEF Range
  <2> QED BY <2>3, <2>4, <2>6 DEF S
<1>4. queue \in [Queue -> Seq(Event)]
  BY <1>3 DEF Init
<1>5. Queues
  BY <1>3 DEF Init, Queues
<1>6. /\ rows = <<>> /\ job = Idle /\ kept = FALSE /\ faults = 0 /\ published = Waiting
      /\ since = [c \in Conn |-> 0]
  BY DEF Init, Cache!CacheInit
<1>7. job \in Jobs(Len(rows)) /\ rows \in Seq(Event)
  BY <1>1, <1>6, IdleFits
<1>8. TypeOK
  <2>1. published \subseteq Event /\ kept \in BOOLEAN
    BY <1>6, NotificationsAssumption
  <2>2. since \in [Conn -> Nat] /\ faults \in 0..MaxFaults
    BY <1>6, NotificationsAssumption
  <2> QED BY <1>2, <1>4, <1>7, <2>1, <2>2 DEF TypeOK, Jobs, Pcs
<1>9. Rows /\ Handling
  BY <1>1, <1>6, IdleFits DEF Rows, Handling, Stored
<1> QED BY <1>5, <1>8, <1>9 DEF Inv

(* The parts of Inv that a step of the handler or of a socket changes.     *)
Around == SocketsTypeOK /\ kept \in BOOLEAN /\ since \in [Conn -> Nat] /\ faults \in 0..MaxFaults

LEMMA Steps ==
    ASSUME Inv, UNCHANGED <<published, queue, rows>>, Around', job' \in Jobs(Len(rows)), Handling'
    PROVE  Inv'
<1>1. TypeOK'
  BY DEF Inv, TypeOK, Around, Jobs, Pcs
<1>2. Queues' /\ Rows'
  BY DEF Inv, Queues, Rows
<1> QED BY <1>1, <1>2 DEF Inv

LEMMA JobFields ==
    ASSUME Inv
    PROVE  /\ job \in Jobs(Len(rows)) /\ Around /\ Len(rows) \in Nat
           /\ published \subseteq Event /\ queue \in [Queue -> Seq(Event)] /\ rows \in Seq(Event)
           /\ job.pc \in Pcs /\ job.row \in 0..Len(rows)
           /\ job.targets \subseteq Conn /\ job.broken \subseteq Conn /\ job.acks \in BOOLEAN
<1>1. job \in Jobs(Len(rows)) /\ Around /\ rows \in Seq(Event)
      /\ published \subseteq Event /\ queue \in [Queue -> Seq(Event)]
  BY DEF Inv, TypeOK, Around, Jobs, Pcs
<1>2. Len(rows) \in Nat
  BY <1>1, LenProperties
<1>3. /\ job.pc \in Pcs /\ job.row \in 0..Len(rows)
      /\ job.targets \subseteq Conn /\ job.broken \subseteq Conn /\ job.acks \in BOOLEAN
  BY <1>1 DEF Jobs
<1> QED BY <1>1, <1>2, <1>3

(* The handler gives up or is done: it is idle.                            *)
LEMMA Idles ==
    ASSUME Inv, UNCHANGED <<published, queue, rows>>, Around', job' = Idle
    PROVE  Inv'
<1>1. job' \in Jobs(Len(rows)) /\ Handling'
  BY JobFields, IdleFits DEF Handling, Stored
<1> QED BY <1>1, Steps

(* What is handled is well-formed, published and the head of its queue.    *)
LEMMA Handled ==
    ASSUME Inv, job.pc # "idle"
    PROVE  /\ job.event \in Readable /\ job.event \in Event /\ job.event \in published
           /\ QueueOf[job.event] \in Queue
           /\ queue[QueueOf[job.event]] # <<>>
           /\ queue[QueueOf[job.event]] \in Seq(Event)
           /\ Head(queue[QueueOf[job.event]]) = job.event
           /\ job.event \in Range(queue[QueueOf[job.event]])
<1> DEFINE q == QueueOf[job.event]
           s == queue[q]
<1>1. /\ job.event \in Readable /\ job.event \in Event /\ q \in Queue
      /\ s # <<>> /\ Head(s) = job.event
  BY NotificationsAssumption DEF Inv, Handling
<1>2. s \in Seq(Event)
  BY <1>1, JobFields
<1> HIDE DEF s
<1>3. Head(s) \in Range(s)
  BY <1>1, <1>2, TailElements
<1>4. job.event \in published
  BY <1>1, <1>3 DEF Inv, Queues, s
<1> QED BY <1>1, <1>2, <1>3, <1>4 DEF s

(* The handler goes on to another line of its event, or hears less.        *)
LEMMA JobMoves ==
    ASSUME Inv, UNCHANGED <<published, queue, rows>>, Around', job.pc # "idle",
           NEW p \in Pcs \ {"idle"}, p = "store" <=> job.pc = "store",
           NEW T \in SUBSET Conn, NEW B \in SUBSET Conn, NEW a \in BOOLEAN,
           job' = [pc |-> p, event |-> job.event, row |-> job.row, targets |-> T,
                   broken |-> B, acks |-> a],
           p # "send" => T = {}, p \notin {"send", "forget"} => B = {},
           \A c \in T : ConnUser[c] = UserOf[job.event]
    PROVE  Inv'
<1>1. /\ job'.pc = p /\ job'.event = job.event /\ job'.row = job.row
      /\ job'.targets = T /\ job'.broken = B /\ job'.acks = a
  OBVIOUS
<1>2. job.event \in Event \cup {None} /\ job.row \in 0..Len(rows)
  BY Handled, JobFields
<1>3. job' \in Jobs(Len(rows))
  BY <1>2 DEF Jobs
<1>4. Handling'
  BY <1>1 DEF Inv, Handling, Stored
<1> QED BY <1>3, <1>4, Steps
-----------------------------------------------------------------------------
(* The sockets.  What was pushed to a connection is cut only when its proxy *)
(* is over; what is over stays over; only Register makes a connection whole.*)
Begins(s, t) == Len(s) <= Len(t) /\ \A i \in 1..Len(s) : s[i] = t[i]
Carried ==
    \A c \in Conn :
        /\ Begins(Pushed(c)', Pushed(c))
        /\ gateway'[c] # "over" => Pushed(c)' = Pushed(c)
        /\ gateway[c] = "over" => gateway'[c] = "over"
        /\ service[c] = "over" => service'[c] = "over"
        /\ Whole(c)' => Whole(c) \/ c \in registry' \ registry

LEMMA PushedFits ==
    ASSUME SocketsTypeOK, NEW c \in Conn
    PROVE  /\ got[c] \in Seq(Nat) /\ sent[c] \in Seq(Nat) /\ Pushed(c) \in Seq(Nat)
           /\ Len(Pushed(c)) \in Nat /\ DOMAIN Pushed(c) = 1..Len(Pushed(c))
<1>1. got[c] \in Seq(Nat) /\ sent[c] \in Seq(Nat)
  BY DEF SocketsTypeOK
<1>2. Pushed(c) \in Seq(Nat)
  BY <1>1, ConcatProperties DEF Pushed
<1>3. Len(Pushed(c)) \in Nat /\ DOMAIN Pushed(c) = 1..Len(Pushed(c))
  BY <1>2, LenProperties
<1> QED BY <1>1, <1>2, <1>3

LEMMA CutBegins ==
    ASSUME NEW s \in Seq(Nat), NEW t \in Seq(Nat)
    PROVE  Begins(s, s \o t)
<1> DEFINE m == Len(s)
           n == Len(t)
           u == s \o t
<1>1. m \in Nat /\ n \in Nat /\ Len(u) = m + n
  BY LenProperties, ConcatProperties
<1>2. \A i \in 1..(m + n) : u[i] = IF i <= m THEN s[i] ELSE t[i - m]
  BY ConcatProperties
<1> HIDE DEF m, n, u
<1>3. \A i \in 1..m : i \in 1..(m + n) /\ i <= m
  BY <1>1
<1>4. m <= Len(u)
  BY <1>1
<1>5. \A i \in 1..m : s[i] = u[i]
  BY <1>2, <1>3
<1> QED BY <1>4, <1>5 DEF Begins, m, u

LEMMA BeginsItself == \A s \in Seq(Nat) : Begins(s, s)
<1>1. \A s \in Seq(Nat) : Len(s) \in Nat
  BY LenProperties
<1> QED BY <1>1 DEF Begins

(* A step that sends nothing, forwards nothing and brings nothing back.    *)
LEMMA Quiet ==
    ASSUME SocketsTypeOK, UNCHANGED <<sent, got>>,
           \A c \in Conn : /\ gateway[c] = "over" => gateway'[c] = "over"
                           /\ service[c] = "over" => service'[c] = "over"
                           /\ Whole(c)' => Whole(c) \/ c \in registry' \ registry
    PROVE  Carried
<1>1. ASSUME NEW c \in Conn PROVE Pushed(c)' = Pushed(c) /\ Begins(Pushed(c)', Pushed(c))
  <2>1. Pushed(c)' = Pushed(c)
    BY DEF Pushed
  <2>2. Begins(Pushed(c), Pushed(c))
    BY PushedFits, BeginsItself
  <2> QED BY <2>1, <2>2
<1> QED BY <1>1 DEF Carried

LEMMA BrowserStep ==
    ASSUME SocketsTypeOK, Ends, NEW c \in Conn, Connect(c) \/ Leave(c) \/ Unavailable(c)
    PROVE  SocketsTypeOK' /\ Ends' /\ Carried /\ registry' = registry
<1>1. SocketsTypeOK' /\ registry' = registry
  BY DEF SocketsTypeOK, Connect, Leave, Unavailable
<1>2. Ends'
  BY DEF SocketsTypeOK, Ends, Connect, Leave, Unavailable
<1>3. Carried
  BY Quiet DEF SocketsTypeOK, Ends, Connect, Leave, Unavailable, Whole
<1> QED BY <1>1, <1>2, <1>3

LEMMA ServiceStep ==
    ASSUME SocketsTypeOK, Ends, NEW c \in Conn,
           AcceptService(c) \/ Register(c) \/ AcceptClient(c) \/ Notice(c) \/ Unregister(c)
    PROVE  SocketsTypeOK' /\ Ends' /\ Carried
<1>1. SocketsTypeOK'
  BY DEF SocketsTypeOK, AcceptService, Register, AcceptClient, Notice, Unregister
<1>2. Ends'
  <2>1. CASE AcceptService(c)
    BY <2>1 DEF SocketsTypeOK, Ends, AcceptService
  <2>2. CASE Register(c)
    BY <2>2 DEF SocketsTypeOK, Ends, Register
  <2>3. CASE AcceptClient(c)
    BY <2>3 DEF SocketsTypeOK, Ends, AcceptClient
  <2>4. CASE Notice(c)
    BY <2>4 DEF SocketsTypeOK, Ends, Notice
  <2>5. CASE Unregister(c)
    BY <2>5 DEF SocketsTypeOK, Ends, Unregister
  <2> QED BY <2>1, <2>2, <2>3, <2>4, <2>5
<1>3. UNCHANGED <<sent, got>>
  BY DEF AcceptService, Register, AcceptClient, Notice, Unregister
<1>4. \A d \in Conn : /\ gateway[d] = "over" => gateway'[d] = "over"
                      /\ service[d] = "over" => service'[d] = "over"
                      /\ Whole(d)' => Whole(d) \/ d \in registry' \ registry
  BY DEF SocketsTypeOK, Ends, AcceptService, Register, AcceptClient, Notice, Unregister, Whole
<1>5. Carried
  BY <1>3, <1>4, Quiet
<1> QED BY <1>1, <1>2, <1>5

LEMMA ForwardStep ==
    ASSUME SocketsTypeOK, Ends, NEW c \in Conn, Forward(c)
    PROVE  SocketsTypeOK' /\ Ends' /\ Carried
<1>1. /\ sent[c] # <<>> /\ UNCHANGED <<client, gateway, service, registry>>
      /\ got' = [got EXCEPT ![c] = Append(@, Head(sent[c]))]
      /\ sent' = [sent EXCEPT ![c] = Tail(@)]
  BY DEF Forward
<1>2. /\ got[c] \in Seq(Nat) /\ sent[c] \in Seq(Nat)
      /\ Head(sent[c]) \in Nat /\ Tail(sent[c]) \in Seq(Nat)
      /\ Append(got[c], Head(sent[c])) \in Seq(Nat)
  BY <1>1, PushedFits, HeadTailProperties, AppendProperties
<1>3. SocketsTypeOK'
  BY <1>1, <1>2 DEF SocketsTypeOK
<1>4. Ends'
  BY <1>1 DEF Ends
<1>5. ASSUME NEW d \in Conn PROVE Pushed(d)' = Pushed(d)
  <2>1. CASE d = c
    <3>1. got'[d] = Append(got[c], Head(sent[c])) /\ sent'[d] = Tail(sent[c])
      BY <1>1, <2>1 DEF SocketsTypeOK
    <3>2. Append(got[c], Head(sent[c])) \o Tail(sent[c]) = got[c] \o sent[c]
      BY <1>1, <1>2, ForwardMoves
    <3> QED BY <2>1, <3>1, <3>2 DEF Pushed
  <2>2. CASE d # c
    BY <1>1, <2>2 DEF SocketsTypeOK, Pushed
  <2> QED BY <2>1, <2>2
<1>6. \A d \in Conn : Begins(Pushed(d)', Pushed(d))
  BY <1>5, PushedFits, BeginsItself
<1>7. Carried
  BY <1>1, <1>5, <1>6 DEF Carried, Whole
<1> QED BY <1>3, <1>4, <1>7

LEMMA EndProxyStep ==
    ASSUME SocketsTypeOK, Ends, NEW c \in Conn, EndProxy(c)
    PROVE  SocketsTypeOK' /\ Ends' /\ Carried
<1>1. /\ gateway[c] = "piping" /\ UNCHANGED <<service, registry, got>>
      /\ gateway' = [gateway EXCEPT ![c] = "over"] /\ client' = [client EXCEPT ![c] = "gone"]
      /\ sent' = [sent EXCEPT ![c] = <<>>]
  BY DEF EndProxy
<1>2. SocketsTypeOK'
  BY <1>1, EmptySeq DEF SocketsTypeOK
<1>3. Ends'
  BY <1>1 DEF SocketsTypeOK, Ends
<1>4. ASSUME NEW d \in Conn
      PROVE  Begins(Pushed(d)', Pushed(d)) /\ (gateway'[d] # "over" => Pushed(d)' = Pushed(d))
  <2>1. CASE d = c
    <3>1. got'[d] = got[c] /\ sent'[d] = <<>> /\ gateway'[d] = "over"
      BY <1>1, <2>1 DEF SocketsTypeOK
    <3>2. Pushed(d)' = got[c]
      BY <3>1, PushedFits, ConcatEmptySeq DEF Pushed
    <3>3. Begins(got[c], Pushed(c))
      BY PushedFits, CutBegins DEF Pushed
    <3> QED BY <2>1, <3>1, <3>2, <3>3
  <2>2. CASE d # c
    <3>1. Pushed(d)' = Pushed(d)
      BY <1>1, <2>2 DEF SocketsTypeOK, Pushed
    <3>2. Begins(Pushed(d), Pushed(d))
      BY PushedFits, BeginsItself
    <3> QED BY <3>1, <3>2
  <2> QED BY <2>1, <2>2
<1>5. \A d \in Conn : /\ gateway[d] = "over" => gateway'[d] = "over"
                      /\ service[d] = "over" => service'[d] = "over"
                      /\ Whole(d)' => Whole(d)
  BY <1>1 DEF SocketsTypeOK, Whole
<1>6. Carried
  BY <1>4, <1>5 DEF Carried
<1> QED BY <1>2, <1>3, <1>6
-----------------------------------------------------------------------------
(* Steps of the sockets.                                                   *)

LEMMA SocketStep ==
    ASSUME Inv, SocketInv, SocketsTypeOK', Ends', Carried, Registered,
           UNCHANGED <<published, queue, rows, job, faults, cached>>
    PROVE  Inv' /\ SocketInv'
<1>1. Len(rows) \in Nat /\ SocketsTypeOK /\ since \in [Conn -> Nat]
  BY JobFields DEF Around
<1>2. since' \in [Conn -> Nat]
       /\ \A c \in Conn : since'[c] = IF c \in registry' \ registry THEN Len(rows) ELSE since[c]
  BY <1>1 DEF Registered
<1>3. Inv'
  <2>1. Around'
    BY <1>2, JobFields DEF Around, cached
  <2>2. job' \in Jobs(Len(rows)) /\ Handling'
    BY JobFields DEF Inv, Handling, Stored
  <2> QED BY <2>1, <2>2, Steps
<1>4. ASSUME NEW c \in Conn PROVE Due(c)' = Due(c)
  BY DEF Due
<1>5. InOrder'
  <2> SUFFICES ASSUME NEW c \in Conn
               PROVE  /\ Increasing(Pushed(c)')
                      /\ \A i \in DOMAIN Pushed(c)' :
                             /\ Pushed(c)'[i] \in DOMAIN rows
                             /\ UserOf[rows[Pushed(c)'[i]]] = ConnUser[c]
                             /\ Due(c) => Pushed(c)'[i] # job.row
    BY <1>4 DEF InOrder, Increasing
  <2>1. PICK s \in Seq(Nat) : s = Pushed(c)
    BY <1>1, PushedFits
  <2>2. PICK t \in Seq(Nat) : t = Pushed(c)'
    <3>1. got'[c] \in Seq(Nat) /\ sent'[c] \in Seq(Nat)
      BY DEF SocketsTypeOK
    <3>2. got'[c] \o sent'[c] \in Seq(Nat)
      BY <3>1, ConcatProperties
    <3> QED BY <3>2 DEF Pushed
  <2>3. Begins(t, s)
    BY <2>1, <2>2 DEF Carried
  <2>4. \A i \in DOMAIN t : i \in DOMAIN s /\ t[i] = s[i]
    <3>1. /\ DOMAIN t = 1..Len(t) /\ DOMAIN s = 1..Len(s)
          /\ Len(t) \in Nat /\ Len(s) \in Nat
      BY LenProperties
    <3> QED BY <2>3, <3>1 DEF Begins
  <2>5. /\ Increasing(s)
        /\ \A i \in DOMAIN s : /\ s[i] \in DOMAIN rows /\ UserOf[rows[s[i]]] = ConnUser[c]
                               /\ Due(c) => s[i] # job.row
    BY <2>1 DEF SocketInv, InOrder
  <2> QED BY <2>2, <2>4, <2>5 DEF Increasing
<1>6. Heard'
  <2> SUFFICES ASSUME NEW c \in Conn, Whole(c)',
                      NEW n \in since'[c] + 1 .. Len(rows), UserOf[rows[n]] = ConnUser[c]
               PROVE  (\E i \in DOMAIN Pushed(c)' : Pushed(c)'[i] = n) \/ (job.row = n /\ Due(c))
    BY <1>4 DEF Heard
  <2>1. Pushed(c)' = Pushed(c)
    BY DEF Carried, Whole
  <2>2. CASE c \in registry' \ registry
    BY <1>1, <1>2, <2>2
  <2>3. CASE c \notin registry' \ registry
    <3>1. Whole(c) /\ since'[c] = since[c]
      BY <1>2, <2>3 DEF Carried
    <3> QED BY <2>1, <3>1 DEF SocketInv, Heard
  <2> QED BY <2>2, <2>3
<1>7. Broken'
  BY JobFields DEF SocketInv, Broken, Carried
<1> QED BY <1>3, <1>5, <1>6, <1>7 DEF SocketInv

LEMMA BrowsingStep ==
    ASSUME Inv, SocketInv, Socket(Browsing)
    PROVE  Inv' /\ SocketInv'
<1>1. SocketsTypeOK /\ Ends
  BY JobFields DEF Around, SocketInv
<1>2. PICK c \in Conn : Connect(c) \/ Leave(c) \/ Unavailable(c)
  BY DEF Socket, Browsing
<1>3. SocketsTypeOK' /\ Ends' /\ Carried
  BY <1>1, <1>2, BrowserStep
<1>4. Registered /\ UNCHANGED <<published, queue, rows, job, faults, cached>>
  BY DEF Socket
<1> QED BY <1>3, <1>4, SocketStep

LEMMA ServingStep ==
    ASSUME Inv, SocketInv, NEW c \in Conn, Serve(c)
    PROVE  Inv' /\ SocketInv'
<1>1. SocketsTypeOK /\ Ends
  BY JobFields DEF Around, SocketInv
<1>2. Serving(c) /\ Registered /\ UNCHANGED <<published, queue, rows, job, faults, cached>>
  BY DEF Serve, Socket
<1>3. SocketsTypeOK' /\ Ends' /\ Carried
  BY <1>1, <1>2, ServiceStep, ForwardStep, EndProxyStep DEF Serving
<1> QED BY <1>2, <1>3, SocketStep
-----------------------------------------------------------------------------
(* Steps of the handler.                                                   *)

(* One that leaves the rows and the sockets, and forgets no connection that *)
(* the notification it handles is due to.                                  *)
LEMMA HandlerStep ==
    ASSUME Inv, SocketInv, UNCHANGED <<rows, since, sockets>>, job'.broken \subseteq job.broken,
           \A c \in Conn : Due(c)' => Due(c) /\ job'.row = job.row,
           \A c \in Conn : /\ Due(c) /\ Whole(c) /\ job.row \in 1..Len(rows)
                           /\ UserOf[rows[job.row]] = ConnUser[c]
                           => Due(c)' /\ job'.row = job.row
    PROVE  SocketInv'
<1>1. \A c \in Conn : Pushed(c)' = Pushed(c) /\ Whole(c)' = Whole(c)
  BY DEF sockets, Pushed, Whole
<1>2. InOrder'
  BY <1>1 DEF SocketInv, InOrder
<1>3. Heard'
  <2> SUFFICES ASSUME NEW c \in Conn, Whole(c),
                      NEW n \in since[c] + 1 .. Len(rows), UserOf[rows[n]] = ConnUser[c]
               PROVE  \/ \E i \in DOMAIN Pushed(c) : Pushed(c)[i] = n
                      \/ job'.row = n /\ Due(c)'
    BY <1>1 DEF Heard
  <2>1. n \in 1..Len(rows)
    BY JobFields DEF Around
  <2>2. (\E i \in DOMAIN Pushed(c) : Pushed(c)[i] = n) \/ (job.row = n /\ Due(c))
    BY DEF SocketInv, Heard
  <2> QED BY <2>1, <2>2
<1>4. Ends' /\ Broken'
  BY DEF SocketInv, Ends, Broken, sockets
<1> QED BY <1>2, <1>3, <1>4 DEF SocketInv

(* A queue loses its head.                                                 *)
LEMMA TailQueue ==
    ASSUME Inv, NEW q \in Queue, queue[q] # <<>>, queue' = [queue EXCEPT ![q] = Tail(@)],
           published' = published
    PROVE  /\ queue' \in [Queue -> Seq(Event)] /\ Queues'
           /\ Range(queue'[q]) = Range(queue[q]) \ {Head(queue[q])}
           /\ \A p \in Queue : p # q => queue'[p] = queue[p]
<1>1. queue[q] \in Seq(Event) /\ queue \in [Queue -> Seq(Event)]
  BY JobFields
<1>2. IsInjective(queue[q])
  BY DEF Inv, Queues
<1>3. /\ Tail(queue[q]) \in Seq(Event) /\ IsInjective(Tail(queue[q]))
      /\ Range(Tail(queue[q])) = Range(queue[q]) \ {Head(queue[q])}
  BY <1>1, <1>2, TailElements
<1>4. queue'[q] = Tail(queue[q]) /\ \A p \in Queue : p # q => queue'[p] = queue[p]
  BY <1>1
<1>5. queue' \in [Queue -> Seq(Event)]
  BY <1>1, <1>3
<1>6. Queues'
  BY <1>3, <1>4 DEF Inv, Queues
<1> QED BY <1>3, <1>4, <1>5, <1>6

(* The cache keeps its flag a flag, whatever the step.                     *)
LEMMA Flags ==
    ASSUME kept \in BOOLEAN,
           UNCHANGED cached \/ Cache!Change \/ Cache!Delete \/ Cache!LoseDelete
    PROVE  kept' \in BOOLEAN
BY DEF cached, Cache!Change, Cache!Delete, Cache!LoseDelete

LEMMA AroundKept ==
    ASSUME Inv, UNCHANGED <<since, sockets>>, kept' \in BOOLEAN,
           faults' = faults \/ Fault
    PROVE  Around'
<1>1. Around
  BY JobFields
<1>2. SocketsTypeOK' /\ since' \in [Conn -> Nat]
  BY <1>1 DEF Around, SocketsTypeOK, sockets
<1>3. faults' \in 0..MaxFaults
  <2>1. PICK f \in Nat : f = faults
    BY <1>1, NotificationsAssumption DEF Around
  <2>2. PICK m \in Nat : m = MaxFaults
    BY NotificationsAssumption
  <2>3. faults' = f \/ (f < m /\ faults' = f + 1)
    BY <2>1, <2>2 DEF Fault
  <2>4. f \in 0..m
    BY <1>1, <2>1, <2>2 DEF Around
  <2> QED BY <2>2, <2>3, <2>4
<1> QED BY <1>2, <1>3 DEF Around

LEMMA PublishStep ==
    ASSUME Inv, SocketInv, NEW e \in Event, Publish(e)
    PROVE  Inv' /\ SocketInv'
<1> DEFINE q == QueueOf[e]
<1>1. /\ e \notin published /\ published' = published \cup {e}
      /\ queue' = [queue EXCEPT ![q] = Append(@, e)]
      /\ UNCHANGED <<rows, job, since, faults, cached, sockets>>
  BY DEF Publish
<1>2. q \in Queue /\ queue \in [Queue -> Seq(Event)]
  BY JobFields, NotificationsAssumption
<1>3. queue[q] \in Seq(Event) /\ e \notin Range(queue[q])
  BY <1>1, <1>2 DEF Inv, Queues
<1>4. /\ queue'[q] \in Seq(Event) /\ queue'[q] # <<>>
      /\ Range(queue'[q]) = Range(queue[q]) \cup {e}
      /\ queue[q] # <<>> => Head(queue'[q]) = Head(queue[q])
      /\ IsInjective(queue'[q])
  <2>1. queue'[q] = Append(queue[q], e)
    BY <1>1, <1>2
  <2>2. IsInjective(queue[q])
    BY <1>2 DEF Inv, Queues
  <2> QED BY <1>3, <2>1, <2>2, AppendElements
<1>5. \A p \in Queue : p # q => queue'[p] = queue[p]
  BY <1>1, <1>2
<1>6. queue' \in [Queue -> Seq(Event)]
  BY <1>1, <1>2, <1>4
<1> HIDE DEF q
<1>7. Queues'
  <2> SUFFICES ASSUME NEW p \in Queue
               PROVE  /\ IsInjective(queue'[p])
                      /\ \A f \in Range(queue'[p]) : f \in published' /\ QueueOf[f] = p
    BY DEF Queues
  <2>1. CASE p = q
    BY <1>1, <1>2, <1>4, <2>1 DEF Inv, Queues, q
  <2>2. CASE p # q
    BY <1>1, <1>5, <2>2 DEF Inv, Queues
  <2> QED BY <2>1, <2>2
<1>8. kept' \in BOOLEAN
  BY <1>1, JobFields, Flags DEF Around
<1>9. TypeOK'
  <2>1. Around'
    BY <1>1, <1>8, AroundKept
  <2>2. job' \in Jobs(Len(rows')) /\ rows' \in Seq(Event) /\ published' \subseteq Event
    BY <1>1, JobFields
  <2> QED BY <1>6, <2>1, <2>2 DEF TypeOK, Around, Jobs, Pcs
<1>10. Rows' /\ Handling'
  <2>1. Rows'
    BY <1>1 DEF Inv, Rows
  <2>2. ASSUME job.pc # "idle"
        PROVE  queue'[QueueOf[job.event]] # <<>> /\ Head(queue'[QueueOf[job.event]]) = job.event
    BY <1>4, <1>5, <2>2, Handled
  <2> QED BY <1>1, <2>1, <2>2 DEF Inv, Handling, Stored
<1>11. SocketInv'
  BY <1>1, HandlerStep DEF Due
<1> QED BY <1>7, <1>9, <1>10, <1>11 DEF Inv

LEMMA TakeStep ==
    ASSUME Inv, SocketInv, NEW q \in Queue, Take(q)
    PROVE  Inv' /\ SocketInv'
<1> DEFINE e == Head(queue[q])
           j == [pc |-> "store", event |-> e, row |-> 0, targets |-> {}, broken |-> {}, acks |-> TRUE]
<1>1. /\ job.pc = "idle" /\ job = Idle /\ queue[q] # <<>>
      /\ UNCHANGED <<published, rows, since, faults, cached, sockets>>
  BY DEF Take, Inv, Handling
<1>2. queue[q] \in Seq(Event) /\ queue \in [Queue -> Seq(Event)]
  BY JobFields
<1>3. e \in Event /\ e \in Range(queue[q]) /\ QueueOf[e] = q
  BY <1>1, <1>2, TailElements DEF Inv, Queues
<1>4. Around'
  <2>1. kept' \in BOOLEAN
    BY <1>1, JobFields, Flags DEF Around
  <2> QED BY <1>1, <2>1, AroundKept
<1>5. CASE e \in Readable /\ job' = [Idle EXCEPT !.pc = "store", !.event = e] /\ UNCHANGED queue
  <2>1. job' = j
    BY <1>5 DEF Idle
  <2>2. /\ j.pc = "store" /\ j.event = e /\ j.row = 0
        /\ j.targets = {} /\ j.broken = {} /\ j.acks
    OBVIOUS
  <2>3. j \in Jobs(Len(rows))
    <3>1. 0 \in 0..Len(rows)
      BY JobFields
    <3> QED BY <1>3, <3>1 DEF Jobs, Pcs
  <2> HIDE DEF j, e
  <2>4. Handling'
    <3> HIDE <1>5
    <3>1. /\ job'.pc = "store" /\ job'.event = e /\ job'.row = 0
          /\ job'.targets = {} /\ job'.broken = {}
      BY <2>1, <2>2
    <3>2. e \in Readable /\ QueueOf[e] = q /\ queue' = queue /\ queue[q] # <<>> /\ Head(queue[q]) = e
      BY <1>1, <1>3, <1>5 DEF e
    <3> QED BY <3>1, <3>2 DEF Handling, Stored
  <2>5. Inv'
    BY <1>1, <1>4, <1>5, <2>1, <2>3, <2>4, Steps
  <2>6. SocketInv'
    <3>1. \A c \in Conn : ~Due(c) /\ ~Due(c)'
      BY <1>1, <2>1, <2>2, IdleFits DEF Due
    <3>2. job'.broken \subseteq job.broken
      BY <2>1, <2>2
    <3> QED BY <1>1, <3>1, <3>2, HandlerStep
  <2> QED BY <2>5, <2>6
<1>6. CASE e \notin Readable /\ queue' = Acknowledged(q) /\ UNCHANGED job
  <2> HIDE DEF e, j
  <2>1. queue' = [queue EXCEPT ![q] = Tail(@)]
    BY <1>6 DEF Acknowledged
  <2>2. queue' \in [Queue -> Seq(Event)] /\ Queues'
    BY <1>1, <2>1, TailQueue
  <2>3. TypeOK'
    BY <1>1, <1>4, <1>6, <2>2, JobFields DEF TypeOK, Around, Jobs, Pcs
  <2>4. Rows' /\ Handling'
    BY <1>1, <1>6, IdleFits DEF Inv, Rows, Handling, Stored
  <2>5. SocketInv'
    <3>1. \A c \in Conn : Due(c)' = Due(c) /\ job'.row = job.row
      BY <1>6 DEF Due
    <3> QED BY <1>1, <1>6, <3>1, HandlerStep
  <2> QED BY <2>2, <2>3, <2>4, <2>5 DEF Inv
<1> QED BY <1>5, <1>6 DEF Take

LEMMA StoreStep ==
    ASSUME Inv, SocketInv, Store
    PROVE  Inv' /\ SocketInv'
<1> DEFINE e == job.event
           m == Len(rows)
           n == Len(rows')
           j == [pc |-> "uncache", event |-> e, row |-> n, targets |-> {}, broken |-> {}, acks |-> job.acks]
<1>1. /\ job.pc = "store" /\ rows' = Append(rows, e)
      /\ job' = [job EXCEPT !.pc = "uncache", !.row = n]
      /\ UNCHANGED <<published, queue, since, faults, sockets>>
      /\ UNCHANGED cached \/ Cache!Change
  BY DEF Store
<1>2. /\ e \in Readable /\ e \in Event /\ e \in published /\ QueueOf[e] \in Queue
      /\ queue[QueueOf[e]] # <<>> /\ Head(queue[QueueOf[e]]) = e
  BY <1>1, Handled
<1>3. job.row = 0 /\ job.targets = {} /\ job.broken = {}
  BY <1>1 DEF Inv, Handling, Stored
<1>4. rows \in Seq(Event) /\ m \in Nat /\ DOMAIN rows = 1..m
  BY JobFields, LenProperties
<1>5. /\ rows' \in Seq(Event) /\ n = m + 1 /\ Range(rows') = Range(rows) \cup {e}
      /\ \A i \in 1..m : rows'[i] = rows[i]
      /\ rows'[n] = e /\ n \in Nat /\ DOMAIN rows' = 1..n
  <2>1. /\ rows' \in Seq(Event) /\ n = m + 1 /\ \A i \in 1..m : rows'[i] = rows[i]
        /\ rows'[n] = e
    BY <1>1, <1>2, <1>4, AppendProperties
  <2>2. Range(rows') = Range(rows) \cup {e}
    BY <1>1, <1>2, <1>4, AppendElements
  <2>3. n \in Nat /\ DOMAIN rows' = 1..n
    BY <2>1, LenProperties
  <2> QED BY <2>1, <2>2, <2>3
<1>6. job' = j
  BY <1>1, <1>3, JobFields DEF Jobs
<1>7. /\ j.pc = "uncache" /\ j.event = e /\ j.row = n
      /\ j.targets = {} /\ j.broken = {} /\ j.acks = job.acks
  OBVIOUS
<1>8. j \in Jobs(n)
  <2>1. n \in 0..n /\ job.acks \in BOOLEAN
    BY <1>5, JobFields
  <2> QED BY <1>2, <2>1 DEF Jobs, Pcs
<1> HIDE DEF j, n, m, e
<1>9. Around'
  <2>1. kept' \in BOOLEAN
    BY <1>1, JobFields, Flags DEF Around
  <2> QED BY <1>1, <2>1, AroundKept
<1>10. TypeOK'
  BY <1>1, <1>5, <1>6, <1>8, <1>9, JobFields DEF TypeOK, Around, Jobs, Pcs, n
<1>11. Queues' /\ Rows'
  BY <1>1, <1>2, <1>5 DEF Inv, Queues, Rows
<1>12. Handling'
  <2>1. n # 0
    BY <1>4, <1>5
  <2>2. /\ job'.pc = "uncache" /\ job'.event = e /\ job'.row = n
        /\ job'.targets = {} /\ job'.broken = {}
    BY <1>6, <1>7
  <2>3. rows'[job'.row] = e /\ job'.row = Len(rows') /\ job'.row # 0
    BY <1>5, <2>1, <2>2 DEF n
  <2> QED BY <1>1, <1>2, <2>2, <2>3 DEF Handling, Stored
<1>13. \A c \in Conn : Pushed(c)' = Pushed(c) /\ Whole(c)' = Whole(c)
  BY <1>1 DEF sockets, Pushed, Whole
<1>14. InOrder'
  <2> SUFFICES ASSUME NEW c \in Conn, NEW i \in DOMAIN Pushed(c)
               PROVE  /\ Pushed(c)[i] \in DOMAIN rows'
                      /\ UserOf[rows'[Pushed(c)[i]]] = ConnUser[c]
                      /\ Pushed(c)[i] # n
    <3>1. \A c \in Conn : Increasing(Pushed(c))
      BY DEF SocketInv, InOrder
    <3> QED BY <1>6, <1>7, <1>13, <3>1 DEF InOrder
  <2>1. Pushed(c)[i] \in 1..m /\ UserOf[rows[Pushed(c)[i]]] = ConnUser[c]
    BY <1>4 DEF SocketInv, InOrder
  <2>2. PICK k \in 1..m : k = Pushed(c)[i]
    BY <2>1
  <2>3. k \in 1..n /\ k # n
    BY <1>4, <1>5
  <2> QED BY <1>5, <2>1, <2>2, <2>3
<1>15. Heard'
  <2> SUFFICES ASSUME NEW c \in Conn, Whole(c), NEW k \in since[c] + 1 .. n,
                      UserOf[rows'[k]] = ConnUser[c]
               PROVE  (\E i \in DOMAIN Pushed(c) : Pushed(c)[i] = k) \/ k = n
    <3>1. /\ \A c \in Conn : Due(c)' /\ Whole(c)' = Whole(c) /\ Pushed(c)' = Pushed(c)
          /\ since' = since /\ job'.row = n /\ Len(rows') = n
      BY <1>1, <1>6, <1>7, <1>13 DEF Due, n
    <3> HIDE <1>1, <1>6, <1>7
    <3> QED BY <3>1 DEF Heard
  <2>1. PICK s \in Nat : s = since[c]
    BY JobFields DEF Around
  <2>2. CASE k # n
    <3>1. k \in s + 1 .. m /\ k \in 1..m
      BY <1>4, <1>5, <2>1, <2>2
    <3>2. UserOf[rows[k]] = ConnUser[c]
      BY <1>5, <3>1
    <3>3. (\E i \in DOMAIN Pushed(c) : Pushed(c)[i] = k) \/ job.row = k
      BY <2>1, <3>1, <3>2 DEF SocketInv, Heard, m
    <3> QED BY <1>3, <3>1, <3>3
  <2> QED BY <2>2
<1>16. Ends' /\ Broken'
  BY <1>1, <1>6, <1>7 DEF SocketInv, Ends, Broken, sockets
<1> QED BY <1>10, <1>11, <1>12, <1>14, <1>15, <1>16 DEF Inv, SocketInv

(* Another line of the same event: what HandlerStep and JobMoves ask.      *)
LEMMA LineStep ==
    ASSUME Inv, SocketInv, UNCHANGED <<published, queue, rows, since, sockets>>, Around',
           job.pc # "idle",
           NEW p \in Pcs \ {"idle"}, p = "store" <=> job.pc = "store",
           NEW T \in SUBSET Conn, NEW a \in BOOLEAN,
           job' = [pc |-> p, event |-> job.event, row |-> job.row, targets |-> T,
                   broken |-> job.broken, acks |-> a],
           p # "send" => T = {}, p \notin {"send", "forget"} => job.broken = {},
           \A c \in T : ConnUser[c] = UserOf[job.event],
           \A c \in Conn : p \in {"uncache", "copy"} \/ c \in T => Due(c),
           \A c \in Conn : /\ Due(c) /\ Whole(c) /\ job.row \in 1..Len(rows)
                           /\ UserOf[rows[job.row]] = ConnUser[c]
                           => p \in {"uncache", "copy"} \/ c \in T
    PROVE  Inv' /\ SocketInv'
<1>1. job.broken \in SUBSET Conn
  BY JobFields
<1>2. Inv'
  BY <1>1, JobMoves
<1>3. /\ job'.pc = p /\ job'.row = job.row /\ job'.targets = T /\ job'.broken = job.broken
  OBVIOUS
<1>4. \A c \in Conn : Due(c)' <=> p \in {"uncache", "copy"} \/ c \in T
  BY <1>3 DEF Due
<1>5. SocketInv'
  BY <1>3, <1>4, HandlerStep
<1> QED BY <1>2, <1>5

LEMMA UncacheStep ==
    ASSUME Inv, SocketInv, DeleteList \/ DeleteFails
    PROVE  Inv' /\ SocketInv'
<1>1. /\ job.pc = "uncache" /\ job' = [job EXCEPT !.pc = "copy"]
      /\ UNCHANGED <<published, queue, rows, since, sockets>>
      /\ UNCHANGED cached \/ Cache!Delete \/ Cache!LoseDelete
      /\ faults' = faults \/ Fault
  BY DEF DeleteList, DeleteFails
<1>2. job.targets = {} /\ job.broken = {}
  BY <1>1 DEF Inv, Handling
<1>3. job' = [pc |-> "copy", event |-> job.event, row |-> job.row, targets |-> {},
              broken |-> job.broken, acks |-> job.acks]
  BY <1>1, <1>2, JobFields DEF Jobs
<1>4. Around'
  <2>1. kept' \in BOOLEAN
    BY <1>1, JobFields, Flags DEF Around
  <2> QED BY <1>1, <2>1, AroundKept
<1>5. \A c \in Conn : Due(c)
  BY <1>1 DEF Due
<1>6. "copy" \in Pcs \ {"idle"} /\ job.acks \in BOOLEAN /\ {} \in SUBSET Conn
  BY JobFields DEF Pcs
<1>7. UNCHANGED <<published, queue, rows, since, sockets>> /\ job.pc = "uncache"
  BY <1>1
<1> HIDE <1>1
<1> QED BY <1>2, <1>3, <1>4, <1>5, <1>6, <1>7, LineStep

LEMMA CopyStep ==
    ASSUME Inv, SocketInv, CopyTargets
    PROVE  Inv' /\ SocketInv'
<1> DEFINE T == {c \in registry : ConnUser[c] = UserOf[job.event]}
<1>1. /\ job.pc = "copy" /\ job' = [job EXCEPT !.pc = "send", !.targets = T]
      /\ UNCHANGED <<published, queue, rows, since, faults, cached, sockets>>
  BY DEF CopyTargets
<1>2. job.broken = {} /\ rows[job.row] = job.event
  BY <1>1 DEF Inv, Handling, Stored
<1>3. job' = [pc |-> "send", event |-> job.event, row |-> job.row, targets |-> T,
              broken |-> job.broken, acks |-> job.acks]
  BY <1>1, JobFields DEF Jobs
<1>4. Around'
  <2>1. kept' \in BOOLEAN
    BY <1>1, JobFields, Flags DEF Around
  <2> QED BY <1>1, <2>1, AroundKept
<1>5. \A c \in Conn : Due(c)
  BY <1>1 DEF Due
<1>6. "send" \in Pcs \ {"idle"} /\ job.acks \in BOOLEAN /\ T \in SUBSET Conn
  BY JobFields DEF Pcs, Around, SocketsTypeOK
<1>7. \A c \in Conn : Whole(c) /\ UserOf[rows[job.row]] = ConnUser[c] => c \in T
  BY <1>2 DEF SocketInv, Ends, Whole
<1>8. UNCHANGED <<published, queue, rows, since, sockets>> /\ job.pc = "copy"
  BY <1>1
<1>9. \A c \in T : ConnUser[c] = UserOf[job.event]
  OBVIOUS
<1> HIDE <1>1
<1> HIDE DEF T
<1> QED BY <1>2, <1>3, <1>4, <1>5, <1>6, <1>7, <1>8, <1>9, LineStep

LEMMA SentStep ==
    ASSUME Inv, SocketInv, SendNoMore
    PROVE  Inv' /\ SocketInv'
<1>1. /\ job.pc = "send" /\ job.targets = {} /\ job' = [job EXCEPT !.pc = "forget"]
      /\ UNCHANGED <<published, queue, rows, since, faults, cached, sockets>>
  BY DEF SendNoMore
<1>2. job' = [pc |-> "forget", event |-> job.event, row |-> job.row, targets |-> {},
              broken |-> job.broken, acks |-> job.acks]
  BY <1>1, JobFields DEF Jobs
<1>3. Around'
  <2>1. kept' \in BOOLEAN
    BY <1>1, JobFields, Flags DEF Around
  <2> QED BY <1>1, <2>1, AroundKept
<1>4. \A c \in Conn : ~Due(c)
  BY <1>1 DEF Due
<1>5. "forget" \in Pcs \ {"idle"} /\ job.acks \in BOOLEAN /\ {} \in SUBSET Conn
  BY JobFields DEF Pcs
<1>6. UNCHANGED <<published, queue, rows, since, sockets>> /\ job.pc = "send"
  BY <1>1
<1> HIDE <1>1
<1> QED BY <1>2, <1>3, <1>4, <1>5, <1>6, LineStep

LEMMA LoseBrokerStep ==
    ASSUME Inv, SocketInv, LoseBroker
    PROVE  Inv' /\ SocketInv'
<1>1. /\ Fault /\ job.pc # "idle" /\ job' = [job EXCEPT !.acks = FALSE]
      /\ UNCHANGED <<published, queue, rows, since, cached, sockets>>
  BY DEF LoseBroker
<1>2. /\ job.pc # "send" => job.targets = {}
      /\ job.pc \notin {"send", "forget"} => job.broken = {}
      /\ \A c \in job.targets : ConnUser[c] = UserOf[job.event]
  BY DEF Inv, Handling
<1>3. job' = [pc |-> job.pc, event |-> job.event, row |-> job.row, targets |-> job.targets,
              broken |-> job.broken, acks |-> FALSE]
  BY <1>1, JobFields DEF Jobs
<1>4. Around'
  <2>1. kept' \in BOOLEAN
    BY <1>1, JobFields, Flags DEF Around
  <2> QED BY <1>1, <2>1, AroundKept
<1>5. \A c \in Conn : Due(c) <=> job.pc \in {"uncache", "copy"} \/ c \in job.targets
  BY DEF Due
<1>6. job.pc \in Pcs \ {"idle"} /\ FALSE \in BOOLEAN /\ job.targets \in SUBSET Conn
  BY <1>1, JobFields
<1>7. UNCHANGED <<published, queue, rows, since, sockets>> /\ job.pc # "idle"
  BY <1>1
<1> HIDE <1>1
<1> QED BY <1>2, <1>3, <1>4, <1>5, <1>6, <1>7, LineStep

LEMMA StoreFailsStep ==
    ASSUME Inv, SocketInv, StoreFails
    PROVE  Inv' /\ SocketInv'
<1>1. /\ Fault /\ job.pc = "store" /\ job' = Idle
      /\ UNCHANGED <<published, queue, rows, since, cached, sockets>>
  BY DEF StoreFails
<1>2. Around'
  <2>1. kept' \in BOOLEAN
    BY <1>1, JobFields, Flags DEF Around
  <2> QED BY <1>1, <2>1, AroundKept
<1>3. Inv'
  BY <1>1, <1>2, Idles
<1>4. \A c \in Conn : ~Due(c) /\ ~Due(c)'
  BY <1>1, IdleFits DEF Due, Inv, Handling
<1>5. job'.broken \subseteq job.broken
  BY <1>1, IdleFits
<1> QED BY <1>1, <1>3, <1>4, <1>5, HandlerStep

LEMMA AckStep ==
    ASSUME Inv, SocketInv, Ack
    PROVE  Inv' /\ SocketInv'
<1> DEFINE q == QueueOf[job.event]
<1>1. /\ job.pc = "forget" /\ job.broken = {} /\ job' = Idle
      /\ queue' = IF job.acks THEN [queue EXCEPT ![q] = Tail(@)] ELSE queue
      /\ UNCHANGED <<published, rows, since, faults, cached, sockets>>
  BY DEF Ack, Acknowledged
<1>2. Around'
  <2>1. kept' \in BOOLEAN
    BY <1>1, JobFields, Flags DEF Around
  <2> QED BY <1>1, <2>1, AroundKept
<1>3. Inv'
  <2>1. CASE queue' = queue
    BY <1>1, <1>2, <2>1, Idles
  <2>2. CASE queue' = [queue EXCEPT ![q] = Tail(@)]
    <3>1. q \in Queue /\ queue[q] # <<>>
      BY <1>1, Handled
    <3> HIDE DEF q
    <3>2. queue' \in [Queue -> Seq(Event)] /\ Queues'
      BY <1>1, <2>2, <3>1, TailQueue
    <3>3. job' \in Jobs(Len(rows)) /\ rows' \in Seq(Event) /\ published' \subseteq Event
      BY <1>1, JobFields, IdleFits
    <3>4. TypeOK'
      BY <1>1, <1>2, <3>2, <3>3 DEF TypeOK, Around, Jobs, Pcs
    <3>5. Rows' /\ Handling'
      BY <1>1, IdleFits DEF Inv, Rows, Handling, Stored
    <3> QED BY <3>2, <3>4, <3>5 DEF Inv
  <2> QED BY <1>1, <2>1, <2>2
<1>4. \A c \in Conn : ~Due(c) /\ ~Due(c)'
  BY <1>1, IdleFits DEF Due, Inv, Handling
<1>5. job'.broken \subseteq job.broken
  BY <1>1, IdleFits
<1> QED BY <1>1, <1>3, <1>4, <1>5, HandlerStep

LEMMA CrashStep ==
    ASSUME Inv, SocketInv, Crash
    PROVE  Inv' /\ SocketInv'
<1>1. /\ Fault /\ job' = Idle /\ kept' = kept /\ entry' = entry
      /\ service' = [c \in Conn |-> IF service[c] = "none" THEN "none" ELSE "over"]
      /\ registry' = {}
      /\ UNCHANGED <<client, gateway, sent, got, published, queue, rows, since>>
  BY DEF Crash, Cache!NobodyFills, DropAll
<1>2. \A c \in Conn : service'[c] \in {"none", "over"} /\ (service[c] = "none" => service'[c] = "none")
  BY <1>1
<1>3. Around'
  <2>1. SocketsTypeOK'
    BY <1>1, <1>2, JobFields DEF Around, SocketsTypeOK
  <2>2. since' \in [Conn -> Nat] /\ kept' \in BOOLEAN
    BY <1>1, JobFields DEF Around
  <2>3. faults' \in 0..MaxFaults
    <3>1. PICK f \in Nat : f = faults
      BY JobFields, NotificationsAssumption DEF Around
    <3>2. PICK m \in Nat : m = MaxFaults
      BY NotificationsAssumption
    <3>3. f < m /\ faults' = f + 1
      BY <1>1, <3>1, <3>2 DEF Fault
    <3> QED BY <3>2, <3>3
  <2> QED BY <2>1, <2>2, <2>3 DEF Around
<1>4. Inv'
  BY <1>1, <1>3, Idles
<1>5. \A c \in Conn : ~Due(c)' /\ Pushed(c)' = Pushed(c) /\ ~Whole(c)'
  BY <1>1, <1>2, IdleFits DEF Due, Pushed, Whole
<1>6. InOrder'
  BY <1>1, <1>5 DEF SocketInv, InOrder
<1>7. Heard'
  BY <1>5 DEF Heard
<1>8. Ends' /\ Broken'
  BY <1>1, <1>2, IdleFits DEF SocketInv, Ends, Broken
<1> QED BY <1>4, <1>6, <1>7, <1>8 DEF SocketInv

(* The two ways a Send can go.                                             *)
SendFails(c) ==
    /\ job.pc = "send" /\ c \in job.targets /\ PushFails(c)
    /\ job' = [job EXCEPT !.targets = @ \ {c}, !.broken = @ \cup {c}]
    /\ UNCHANGED <<published, queue, rows, since, faults, cached>>
SendSucceeds(c) ==
    /\ job.pc = "send" /\ c \in job.targets /\ PushOk(c, job.row)
    /\ job' = [job EXCEPT !.targets = @ \ {c}]
    /\ UNCHANGED <<published, queue, rows, since, faults, cached>>

LEMMA SendFailsStep ==
    ASSUME Inv, SocketInv, NEW c \in Conn, SendFails(c)
    PROVE  Inv' /\ SocketInv'
<1> DEFINE T == job.targets \ {c}
           B == job.broken \cup {c}
<1>1. /\ gateway[c] = "over" \/ service[c] = "over"
      /\ UNCHANGED sockets /\ UNCHANGED <<published, queue, rows, since, faults, cached>>
      /\ job.pc = "send" /\ c \in job.targets
      /\ job' = [job EXCEPT !.targets = @ \ {c}, !.broken = @ \cup {c}]
  BY DEF SendFails, PushFails
<1>2. job' = [pc |-> "send", event |-> job.event, row |-> job.row, targets |-> T,
              broken |-> B, acks |-> job.acks]
  BY <1>1, JobFields DEF Jobs
<1>3. job'.row = job.row /\ job'.targets = T /\ job'.broken = B /\ job'.pc = "send"
  BY <1>2
<1>4. "send" \in Pcs \ {"idle"} /\ T \in SUBSET Conn /\ B \in SUBSET Conn /\ job.acks \in BOOLEAN
  BY JobFields DEF Pcs
<1>5. \A d \in T : ConnUser[d] = UserOf[job.event]
  BY <1>1 DEF Inv, Handling
<1>6. Around'
  <2>1. kept' \in BOOLEAN
    BY <1>1, JobFields, Flags DEF Around
  <2> QED BY <1>1, <2>1, AroundKept
<1>7. T = job.targets \ {c} /\ B = job.broken \cup {c}
  OBVIOUS
<1> HIDE DEF T, B
<1>8. Inv'
  <2>1. job.pc # "idle" /\ ("send" = "store" <=> job.pc = "store")
    BY <1>1
  <2>2. ("send" # "send" => T = {}) /\ ("send" \notin {"send", "forget"} => B = {})
    OBVIOUS
  <2>3. UNCHANGED <<published, queue, rows>>
    BY <1>1
  <2> QED BY <1>2, <1>4, <1>5, <1>6, <2>1, <2>2, <2>3, JobMoves, Zenon
<1>9. \A d \in Conn : /\ Pushed(d)' = Pushed(d) /\ Whole(d)' = Whole(d)
                      /\ Due(d)' => Due(d)
                      /\ Due(d) /\ d # c => Due(d)'
  BY <1>1, <1>3, <1>7 DEF sockets, Pushed, Whole, Due
<1>10. InOrder'
  BY <1>1, <1>3, <1>9 DEF SocketInv, InOrder
<1>11. ~Whole(c)
  BY <1>1 DEF Whole
<1>12. Heard'
  BY <1>1, <1>3, <1>9, <1>11 DEF SocketInv, Heard
<1>13. Ends' /\ Broken'
  BY <1>1, <1>3, <1>7 DEF SocketInv, Ends, Broken, sockets
<1> QED BY <1>8, <1>10, <1>12, <1>13 DEF SocketInv

(* The number of the notification is appended to what was pushed.          *)
LEMMA PushAppends ==
    ASSUME SocketsTypeOK, NEW c \in Conn, NEW n \in Nat, gateway[c] # "over",
           sent' = [sent EXCEPT ![c] = Append(@, n)], got' = got
    PROVE  /\ sent' \in [Conn -> Seq(Nat)]
           /\ Pushed(c)' = Append(Pushed(c), n)
           /\ \A d \in Conn : d # c => Pushed(d)' = Pushed(d)
<1>1. got[c] \in Seq(Nat) /\ sent[c] \in Seq(Nat) /\ Append(sent[c], n) \in Seq(Nat)
  BY PushedFits, AppendProperties
<1>2. sent' \in [Conn -> Seq(Nat)]
  BY <1>1 DEF SocketsTypeOK
<1>3. sent'[c] = Append(sent[c], n) /\ \A d \in Conn : d # c => sent'[d] = sent[d]
  BY DEF SocketsTypeOK
<1>4. got[c] \o Append(sent[c], n) = Append(got[c] \o sent[c], n)
  BY <1>1, SendAppends
<1> QED BY <1>2, <1>3, <1>4 DEF Pushed

LEMMA SendSucceedsStep ==
    ASSUME Inv, SocketInv, NEW c \in Conn, SendSucceeds(c)
    PROVE  Inv' /\ SocketInv'
<1> DEFINE T == job.targets \ {c}
<1>1. /\ service[c] # "over" /\ UNCHANGED <<client, gateway, service, registry, got>>
      /\ UNCHANGED <<published, queue, rows, since, faults, cached>>
      /\ job.pc = "send" /\ c \in job.targets /\ job' = [job EXCEPT !.targets = @ \ {c}]
      /\ sent' = IF gateway[c] = "over" THEN sent ELSE [sent EXCEPT ![c] = Append(@, job.row)]
  BY DEF SendSucceeds, PushOk
<1>2. job' = [pc |-> "send", event |-> job.event, row |-> job.row, targets |-> T,
              broken |-> job.broken, acks |-> job.acks]
  BY <1>1, JobFields DEF Jobs
<1>3. job'.row = job.row /\ job'.targets = T /\ job'.broken = job.broken /\ job'.pc = "send"
  BY <1>2
<1>4. "send" \in Pcs \ {"idle"} /\ T \in SUBSET Conn /\ job.broken \in SUBSET Conn
      /\ job.acks \in BOOLEAN
  BY JobFields DEF Pcs
<1>5. /\ \A d \in job.targets : ConnUser[d] = UserOf[job.event]
      /\ job.row = Len(rows) /\ job.row # 0 /\ rows[job.row] = job.event
  BY <1>1 DEF Inv, Handling, Stored
<1>6. PICK n \in Nat : n = job.row /\ n = Len(rows) /\ n \in 1..n /\ DOMAIN rows = 1..n
  <2>1. rows \in Seq(Event) /\ Len(rows) \in Nat
    BY JobFields
  <2>2. DOMAIN rows = 1..Len(rows)
    BY <2>1, LenProperties
  <2>3. PICK n \in Nat : n = Len(rows)
    BY <2>1
  <2>4. n \in 1..n
    BY <1>5, <2>3
  <2> QED BY <1>5, <2>2, <2>3, <2>4
<1>7. SocketsTypeOK
  BY JobFields DEF Around
<1>8. T = job.targets \ {c}
  OBVIOUS
<1> HIDE DEF T
<1>9. /\ \A d \in Conn : Whole(d)' = Whole(d) /\ (Due(d)' <=> d \in T)
      /\ \A d \in Conn : Due(d) <=> d \in job.targets
  BY <1>1, <1>3 DEF Whole, Due
<1>10. /\ SocketsTypeOK'
       /\ \A d \in Conn : Pushed(d)' # Pushed(d) => d = c /\ Pushed(d)' = Append(Pushed(d), n)
       /\ gateway[c] # "over" => Pushed(c)' = Append(Pushed(c), n)
  <2>1. CASE gateway[c] = "over"
    BY <1>1, <1>7, <2>1 DEF SocketsTypeOK, Pushed
  <2>2. CASE gateway[c] # "over"
    <3>1. sent' = [sent EXCEPT ![c] = Append(@, n)] /\ got' = got
      BY <1>1, <1>6, <2>2
    <3>2. /\ sent' \in [Conn -> Seq(Nat)]
          /\ Pushed(c)' = Append(Pushed(c), n)
          /\ \A d \in Conn : d # c => Pushed(d)' = Pushed(d)
      BY <1>7, <2>2, <3>1, PushAppends
    <3>3. SocketsTypeOK'
      BY <1>1, <1>7, <3>2 DEF SocketsTypeOK
    <3> QED BY <3>2, <3>3
  <2> QED BY <2>1, <2>2
<1>11. Around'
  BY <1>1, <1>10, JobFields DEF Around, cached
<1>12. Inv'
  <2>1. \A d \in T : ConnUser[d] = UserOf[job.event]
    BY <1>5, <1>8
  <2>2. job.pc # "idle" /\ ("send" = "store" <=> job.pc = "store")
    BY <1>1
  <2>3. ("send" # "send" => T = {}) /\ ("send" \notin {"send", "forget"} => job.broken = {})
    OBVIOUS
  <2>4. UNCHANGED <<published, queue, rows>>
    BY <1>1
  <2> QED BY <1>2, <1>4, <1>11, <2>1, <2>2, <2>3, <2>4, JobMoves, Zenon
<1>13. InOrder'
  <2> SUFFICES ASSUME NEW d \in Conn
               PROVE  /\ Increasing(Pushed(d)')
                      /\ \A i \in DOMAIN Pushed(d)' :
                             /\ Pushed(d)'[i] \in DOMAIN rows
                             /\ UserOf[rows[Pushed(d)'[i]]] = ConnUser[d]
                             /\ d \in T => Pushed(d)'[i] # n
    BY <1>1, <1>3, <1>6, <1>9 DEF InOrder, Increasing
  <2>1. PICK s \in Seq(Nat) : s = Pushed(d)
    BY <1>7, PushedFits
  <2>2. /\ Increasing(s)
        /\ \A i \in DOMAIN s : /\ s[i] \in DOMAIN rows /\ UserOf[rows[s[i]]] = ConnUser[d]
                               /\ d \in job.targets => s[i] # n
    BY <1>6, <1>9, <2>1 DEF SocketInv, InOrder
  <2>3. CASE Pushed(d)' = Pushed(d)
    BY <1>8, <2>1, <2>2, <2>3
  <2>4. CASE Pushed(d)' # Pushed(d)
    <3>1. d = c /\ Pushed(d)' = Append(s, n)
      BY <1>10, <2>1, <2>4
    <3>2. \A i \in DOMAIN s : s[i] \in 1..n /\ s[i] # n
      BY <1>1, <1>6, <2>2, <3>1
    <3>3. UserOf[rows[n]] = ConnUser[d]
      BY <1>1, <1>5, <1>6, <3>1
    <3>4. PICK t \in Seq(Nat) : t = Append(s, n)
      BY AppendProperties
    <3>5. \A i \in DOMAIN t : \/ i \in DOMAIN s /\ t[i] = s[i]
                              \/ i = Len(s) + 1 /\ t[i] = n
      <4>1. /\ DOMAIN t = 1..(Len(s) + 1) /\ DOMAIN s = 1..Len(s) /\ Len(s) \in Nat
            /\ \A i \in 1..Len(s) : t[i] = s[i]
            /\ t[Len(s) + 1] = n
        BY <3>4, AppendProperties, LenProperties
      <4> QED BY <4>1
    <3>6. Increasing(t)
      <4> SUFFICES ASSUME NEW i \in DOMAIN t, NEW j \in DOMAIN t, i < j PROVE t[i] < t[j]
        BY DEF Increasing
      <4>1. DOMAIN s = 1..Len(s) /\ Len(s) \in Nat /\ DOMAIN t = 1..Len(t) /\ Len(t) = Len(s) + 1
        BY <3>4, AppendProperties, LenProperties
      <4>2. i \in DOMAIN s /\ t[i] = s[i]
        BY <3>5, <4>1
      <4>3. CASE j \in DOMAIN s /\ t[j] = s[j]
        BY <2>2, <4>2, <4>3 DEF Increasing
      <4>4. CASE t[j] = n
        <5>1. PICK k \in 1..n : k = s[i]
          BY <3>2, <4>2
        <5> QED BY <3>2, <4>2, <4>4, <5>1
      <4> QED BY <3>5, <4>3, <4>4
    <3>7. \A i \in DOMAIN t : t[i] \in DOMAIN rows /\ UserOf[rows[t[i]]] = ConnUser[d]
      BY <1>6, <2>2, <3>3, <3>5
    <3>8. d \notin T /\ Pushed(d)' = t
      BY <1>8, <3>1, <3>4
    <3> QED BY <3>6, <3>7, <3>8
  <2> QED BY <2>3, <2>4
<1>14. Heard'
  <2> SUFFICES ASSUME NEW d \in Conn, Whole(d),
                      NEW k \in since[d] + 1 .. Len(rows), UserOf[rows[k]] = ConnUser[d]
               PROVE  \/ \E i \in DOMAIN Pushed(d)' : Pushed(d)'[i] = k
                      \/ n = k /\ d \in T
    BY <1>1, <1>3, <1>6, <1>9 DEF Heard
  <2>1. (\E i \in DOMAIN Pushed(d) : Pushed(d)[i] = k) \/ (n = k /\ d \in job.targets)
    BY <1>6, <1>9 DEF SocketInv, Heard
  <2>2. PICK s \in Seq(Nat) : s = Pushed(d)
    BY <1>7, PushedFits
  <2>3. /\ Append(s, n) \in Seq(Nat)
        /\ \A i \in DOMAIN s : i \in DOMAIN Append(s, n) /\ Append(s, n)[i] = s[i]
        /\ Len(s) + 1 \in DOMAIN Append(s, n) /\ Append(s, n)[Len(s) + 1] = n
    <3>1. PICK t \in Seq(Nat) : t = Append(s, n)
      BY AppendProperties
    <3>2. /\ DOMAIN t = 1..Len(t) /\ DOMAIN s = 1..Len(s) /\ Len(s) \in Nat /\ Len(t) = Len(s) + 1
          /\ \A i \in 1..Len(s) : t[i] = s[i]
          /\ t[Len(s) + 1] = n
      BY <3>1, AppendProperties, LenProperties
    <3> QED BY <3>1, <3>2
  <2>4. CASE \E i \in DOMAIN Pushed(d) : Pushed(d)[i] = k
    BY <1>10, <2>2, <2>3, <2>4
  <2>5. CASE n = k /\ d = c
    <3>1. Pushed(d)' = Append(s, n)
      BY <1>10, <2>2, <2>5 DEF Whole
    <3> QED BY <2>3, <2>5, <3>1
  <2>6. CASE n = k /\ d \in job.targets /\ d # c
    BY <1>8, <2>6
  <2> QED BY <2>1, <2>4, <2>5, <2>6
<1>15. Ends' /\ Broken'
  BY <1>1, <1>3 DEF SocketInv, Ends, Broken
<1> QED BY <1>12, <1>13, <1>14, <1>15 DEF SocketInv

LEMMA ForgetStep ==
    ASSUME Inv, SocketInv, NEW c \in Conn, ForgetBroken(c)
    PROVE  Inv' /\ SocketInv'
<1> DEFINE B == job.broken \ {c}
<1>1. /\ job.pc = "forget" /\ c \in job.broken /\ job' = [job EXCEPT !.broken = @ \ {c}]
      /\ registry' = registry \ {c}
      /\ UNCHANGED <<client, gateway, service, sent, got>>
      /\ UNCHANGED <<published, queue, rows, since, faults, cached>>
  BY DEF ForgetBroken, Forget
<1>2. job' = [pc |-> "forget", event |-> job.event, row |-> job.row, targets |-> {},
              broken |-> B, acks |-> job.acks]
  BY <1>1, JobFields DEF Jobs, Inv, Handling
<1>3. job'.row = job.row /\ job'.targets = {} /\ job'.broken = B /\ job'.pc = "forget"
  BY <1>2
<1>4. "forget" \in Pcs \ {"idle"} /\ {} \in SUBSET Conn /\ B \in SUBSET Conn /\ job.acks \in BOOLEAN
  BY JobFields DEF Pcs
<1>5. B = job.broken \ {c}
  OBVIOUS
<1> HIDE DEF B
<1>6. Around'
  BY <1>1, JobFields DEF Around, SocketsTypeOK, cached
<1>7. Inv'
  <2>1. job.pc # "idle" /\ ("forget" = "store" <=> job.pc = "store")
    BY <1>1
  <2>2. ("forget" # "send" => {} = {}) /\ ("forget" \notin {"send", "forget"} => B = {})
    OBVIOUS
  <2>3. UNCHANGED <<published, queue, rows>> /\ \A d \in {} : ConnUser[d] = UserOf[job.event]
    BY <1>1
  <2> QED BY <1>2, <1>4, <1>6, <2>1, <2>2, <2>3, JobMoves, Zenon
<1>8. \A d \in Conn : /\ Pushed(d)' = Pushed(d) /\ Whole(d)' = Whole(d)
                      /\ ~Due(d) /\ ~Due(d)'
  BY <1>1, <1>3 DEF Pushed, Whole, Due, Inv, Handling
<1>9. InOrder'
  BY <1>1, <1>8 DEF SocketInv, InOrder
<1>10. Heard'
  BY <1>1, <1>8 DEF SocketInv, Heard
<1>11. gateway[c] = "over" \/ service[c] = "over"
  BY <1>1 DEF SocketInv, Broken
<1>12. Ends' /\ Broken'
  BY <1>1, <1>3, <1>5, <1>11 DEF SocketInv, Ends, Broken
<1> QED BY <1>7, <1>9, <1>10, <1>12 DEF SocketInv

LEMMA ReadingStep ==
    ASSUME Inv, SocketInv, Read
    PROVE  Inv' /\ SocketInv'
<1>1. UNCHANGED <<published, queue, rows, job, since, faults, sockets>>
  BY DEF Read, ExpireList, ReadList, FillList, DropRead, handler
<1>2. kept' \in BOOLEAN
  <2>1. kept \in BOOLEAN
    BY JobFields DEF Around
  <2> QED BY <2>1 DEF Read, ExpireList, ReadList, FillList, DropRead,
                      Cache!Load, Cache!Fill, Cache!NoFill, Cache!Expire
<1>3. Around'
  BY <1>1, <1>2, AroundKept
<1>4. Inv'
  BY <1>1, <1>3, JobFields, Steps DEF Inv, Handling, Stored
<1>5. \A c \in Conn : Due(c)' = Due(c)
  BY <1>1 DEF Due
<1> QED BY <1>1, <1>4, <1>5, HandlerStep

LEMMA InitSocketInv == Init => SocketInv
<1> SUFFICES ASSUME Init PROVE SocketInv
  OBVIOUS
<1>1. /\ \A c \in Conn : /\ client[c] = "new" /\ gateway[c] = "none" /\ service[c] = "none"
                         /\ Pushed(c) = <<>>
      /\ registry = {} /\ job = Idle
  <2>1. <<>> \o <<>> = <<>>
    BY EmptySeq, ConcatEmptySeq
  <2> QED BY <2>1 DEF Init, SocketsInit, Pushed
<1>2. DOMAIN <<>> = {}
  OBVIOUS
<1> QED BY <1>1, <1>2, IdleFits DEF SocketInv, InOrder, Increasing, Heard, Whole, Ends, Broken

LEMMA NextInv == Inv /\ SocketInv /\ [Next]_vars => Inv' /\ SocketInv'
<1> SUFFICES ASSUME Inv, SocketInv, [Next]_vars PROVE Inv' /\ SocketInv'
  OBVIOUS
<1>1. ASSUME NEW e \in Event, Publish(e) PROVE Inv' /\ SocketInv'
  BY <1>1, PublishStep
<1>2. ASSUME NEW q \in Queue, Take(q) PROVE Inv' /\ SocketInv'
  BY <1>2, TakeStep
<1>3. CASE Store
  BY <1>3, StoreStep
<1>4. CASE DeleteList \/ DeleteFails
  BY <1>4, UncacheStep
<1>5. CASE CopyTargets
  BY <1>5, CopyStep
<1>6. CASE SendNoMore
  BY <1>6, SentStep
<1>7. CASE Ack
  BY <1>7, AckStep
<1>8. ASSUME NEW c \in Conn, Send(c) PROVE Inv' /\ SocketInv'
  BY <1>8, SendSucceedsStep, SendFailsStep DEF Send, SendSucceeds, SendFails
<1>9. ASSUME NEW c \in Conn, ForgetBroken(c) PROVE Inv' /\ SocketInv'
  BY <1>9, ForgetStep
<1>10. CASE Read
  BY <1>10, ReadingStep
<1>11. CASE Socket(Browsing)
  BY <1>11, BrowsingStep
<1>12. ASSUME NEW c \in Conn, Serve(c) PROVE Inv' /\ SocketInv'
  BY <1>12, ServingStep
<1>13. CASE StoreFails
  BY <1>13, StoreFailsStep
<1>14. CASE LoseBroker
  BY <1>14, LoseBrokerStep
<1>15. CASE Crash
  BY <1>15, CrashStep
<1>16. CASE UNCHANGED vars
  <2>1. UNCHANGED <<published, queue, rows, job, since, faults, cached, sockets>>
    BY <1>16 DEF vars, handler
  <2>2. Around'
    BY <2>1, JobFields, Flags, AroundKept DEF Around
  <2>3. Inv'
    BY <2>1, <2>2, JobFields, Steps DEF Inv, Handling, Stored
  <2>4. \A c \in Conn : Due(c)' = Due(c)
    BY <2>1 DEF Due
  <2> QED BY <2>1, <2>3, <2>4, HandlerStep
<1> QED BY <1>1, <1>2, <1>3, <1>4, <1>5, <1>6, <1>7, <1>8, <1>9, <1>10, <1>11, <1>12,
           <1>13, <1>14, <1>15, <1>16 DEF Next, Handle

(* For any events, queues, connections and faults, the consumer, its       *)
(* broker, the registry and the proxy keep the types of their state.       *)
THEOREM NotificationsTyped == Spec => []TypeOK
<1>1. Inv => TypeOK
  BY DEF Inv
<1> QED BY InitInv, InitSocketInv, NextInv, <1>1, PTL DEF Spec

(* Whatever the two queues and the sockets do, and however often the       *)
(* process dies or the broker redelivers, a browser gets stored            *)
(* notifications of its own user, each number once and in the order of     *)
(* the commits (send_to_user and _forward_service_messages).               *)
THEOREM PushesInOrder == Spec => []PushedInOrder
<1>1. SocketInv => PushedInOrder
  BY DEF SocketInv, InOrder, PushedInOrder, Pushed
<1> QED BY InitInv, InitSocketInv, NextInv, <1>1, PTL DEF Spec

(* A connection nobody has given up was sent every notification of its     *)
(* user committed since connect registered it, but for the one the handler *)
(* has not sent it yet: copying the connections and sending to them        *)
(* outside the lock of the registry loses nothing.                         *)
THEOREM WholeSocketsMissNothing == Spec => []WholeSocketMissesNothing
<1>1. SocketInv => WholeSocketMissesNothing
  BY DEF SocketInv, Heard, WholeSocketMissesNothing, Pushed, Due
<1> QED BY InitInv, InitSocketInv, NextInv, <1>1, PTL DEF Spec
-----------------------------------------------------------------------------
(* Every notification stored twice has cost a fault.                       *)

LEMMA Numbers ==
    ASSUME Inv, IsFiniteSet(Range(rows))
    PROVE  /\ IsFiniteSet(Again) /\ Cardinality(Again) \in Nat
           /\ Cardinality(Range(rows)) \in Nat /\ Len(rows) \in Nat
           /\ Unheard \in {0, 1} /\ faults \in Nat
<1>1. IsFiniteSet(Again)
  BY FS_Subset DEF Again
<1>2. Cardinality(Again) \in Nat /\ Cardinality(Range(rows)) \in Nat
  BY <1>1, FS_CardinalityType
<1>3. faults \in Nat
  BY JobFields, NotificationsAssumption DEF Around
<1> QED BY <1>1, <1>2, <1>3, JobFields DEF Unheard

(* The rows stay, and what will be stored again is paid for.               *)
LEMMA DuplicatesKept ==
    ASSUME Inv, Inv', DuplicatesPaid, rows' = rows,
           \/ Again' \subseteq Again /\ Unheard' <= Unheard /\ (faults' = faults \/ faults' = faults + 1)
           \/ Again' \subseteq Again /\ faults' = faults + 1
           \/ /\ Again' \subseteq Again \cup {job.event} /\ Unheard' = 0
              /\ (Unheard = 1 /\ faults' = faults) \/ faults' = faults + 1
    PROVE  DuplicatesPaid'
<1>1. IsFiniteSet(Range(rows)) /\ Range(rows)' = Range(rows) /\ Len(rows') = Len(rows)
  BY DEF DuplicatesPaid, Range
<1>2. PICK l \in Nat, a \in Nat, u \in {0, 1}, r \in Nat, f \in Nat :
          /\ l = Len(rows) /\ a = Cardinality(Again) /\ u = Unheard
          /\ r = Cardinality(Range(rows)) /\ f = faults
  BY <1>1, Numbers
<1>3. IsFiniteSet(Range(rows'))
  BY <1>1 DEF Range
<1>4. IsFiniteSet(Again') /\ Cardinality(Again') \in Nat /\ Unheard' \in {0, 1}
  <2>1. IsFiniteSet(Again')
    BY <1>3, FS_Subset DEF Again
  <2> QED BY <2>1, FS_CardinalityType DEF Unheard
<1>5. PICK b \in Nat, v \in {0, 1} : b = Cardinality(Again') /\ v = Unheard'
  BY <1>4
<1>6. IsFiniteSet(Again)
  BY <1>1, Numbers
<1>7. Again' \subseteq Again => b <= a
  BY <1>2, <1>5, <1>6, FS_Subset
<1>8. Again' \subseteq Again \cup {job.event} => b <= a + 1
  <2>1. /\ IsFiniteSet(Again \cup {job.event})
        /\ Cardinality(Again \cup {job.event}) = a \/ Cardinality(Again \cup {job.event}) = a + 1
    BY <1>2, <1>6, FS_AddElement
  <2>2. PICK k \in Nat : k = Cardinality(Again \cup {job.event})
    BY <2>1, FS_CardinalityType
  <2>3. Again' \subseteq Again \cup {job.event} => b <= k
    BY <1>5, <2>1, <2>2, FS_Subset
  <2>4. k = a \/ k = a + 1
    BY <2>1, <2>2
  <2>5. k <= a + 1
    BY <2>4
  <2> HIDE <2>1
  <2> QED BY <2>3, <2>5
<1>9. l + a + u <= r + f
  BY <1>2 DEF DuplicatesPaid
<1>10. PICK g \in {f, f + 1} : g = faults'
  BY <1>2
<1>11. \/ b <= a /\ v <= u
       \/ b <= a /\ g = f + 1
       \/ b <= a + 1 /\ v = 0 /\ (u = 1 \/ g = f + 1)
  BY <1>2, <1>5, <1>7, <1>8, <1>10
<1>12. l + b + v <= r + g
  BY <1>9, <1>11
<1>13. /\ l = Len(rows') /\ b = Cardinality(Again') /\ v = Unheard'
       /\ r = Cardinality(Range(rows')) /\ g = faults'
  BY <1>1, <1>2, <1>5, <1>10 DEF Range
<1> QED BY <1>3, <1>12, <1>13 DEF DuplicatesPaid

LEMMA AgainSame ==
    ASSUME rows' = rows, queue' = queue,
           \/ ~Stored /\ ~Stored'
           \/ Stored /\ Stored' /\ job'.event = job.event
    PROVE  Again' = Again
BY DEF Again, Range

LEMMA StoreDuplicates ==
    ASSUME Inv, Inv', DuplicatesPaid, Store
    PROVE  DuplicatesPaid'
<1> DEFINE e == job.event
<1>1. /\ job.pc = "store" /\ rows' = Append(rows, e)
      /\ job'.pc = "uncache" /\ job'.event = e /\ job'.acks = job.acks
      /\ UNCHANGED <<queue, faults>>
  BY JobFields DEF Store, Jobs
<1>2. e \in Event /\ e \in Range(queue[QueueOf[e]])
  BY <1>1, Handled
<1>3. rows \in Seq(Event)
  BY JobFields
<1>4. Range(rows') = Range(rows) \cup {e}
  BY <1>1, <1>2, <1>3, AppendElements
<1>5. Len(rows') = Len(rows) + 1
  BY <1>1, <1>2, <1>3, AppendProperties
<1>6. Stored' /\ ~Stored /\ Unheard' = Unheard
  BY <1>1 DEF Stored, Unheard
<1>7. IsFiniteSet(Range(rows))
  BY DEF DuplicatesPaid
<1>8. PICK l \in Nat, a \in Nat, u \in {0, 1}, r \in Nat, f \in Nat :
          /\ l = Len(rows) /\ a = Cardinality(Again) /\ u = Unheard
          /\ r = Cardinality(Range(rows)) /\ f = faults
  BY <1>7, Numbers
<1>9. l + a + u <= r + f /\ IsFiniteSet(Again)
  BY <1>7, <1>8, Numbers DEF DuplicatesPaid
<1> HIDE DEF e
<1>10. Again' = Again \ {e}
  BY <1>1, <1>2, <1>4, <1>6 DEF Again, e
<1>11. CASE e \in Range(rows)
  <2>1. e \in Again
    BY <1>2, <1>6, <1>11 DEF Again
  <2>2. Cardinality(Again') = a - 1
    BY <1>8, <1>9, <1>10, <2>1, FS_RemoveElement
  <2>3. Range(rows') = Range(rows)
    BY <1>4, <1>11
  <2>4. l + 1 + (a - 1) + u <= r + f
    BY <1>9
  <2>5. IsFiniteSet(Range(rows'))
    BY <1>7, <2>3
  <2>6. /\ Len(rows') = l + 1 /\ Unheard' = u /\ faults' = f /\ Cardinality(Range(rows')) = r
    BY <1>1, <1>5, <1>6, <1>8, <2>3
  <2> QED BY <2>2, <2>4, <2>5, <2>6 DEF DuplicatesPaid
<1>12. CASE e \notin Range(rows)
  <2>1. Again' = Again
    BY <1>10, <1>12 DEF Again
  <2>2. IsFiniteSet(Range(rows')) /\ Cardinality(Range(rows')) = r + 1
    BY <1>4, <1>7, <1>8, <1>12, FS_AddElement
  <2>3. l + 1 + a + u <= r + 1 + f
    BY <1>9
  <2>4. Len(rows') = l + 1 /\ Unheard' = u /\ faults' = f /\ Cardinality(Again') = a
    BY <1>1, <1>5, <1>6, <1>8, <2>1
  <2> QED BY <2>2, <2>3, <2>4 DEF DuplicatesPaid
<1> QED BY <1>11, <1>12

LEMMA NextDuplicates ==
    ASSUME Inv, Inv', DuplicatesPaid, [Next]_vars
    PROVE  DuplicatesPaid'
<1>1. ASSUME NEW e \in Event, Publish(e) PROVE DuplicatesPaid'
  <2>1. /\ e \notin Range(rows) /\ UNCHANGED <<rows, job, faults>>
        /\ queue' = [queue EXCEPT ![QueueOf[e]] = Append(@, e)]
    BY <1>1 DEF Publish, Inv, Rows
  <2>2. \A f \in Range(rows) : f \in Range(queue'[QueueOf[f]]) => f \in Range(queue[QueueOf[f]])
    <3> SUFFICES ASSUME NEW f \in Range(rows), f \in Range(queue'[QueueOf[f]])
                 PROVE  f \in Range(queue[QueueOf[f]])
      OBVIOUS
    <3>1. QueueOf[e] \in Queue /\ QueueOf[f] \in Queue /\ f # e
      BY <2>1, NotificationsAssumption DEF Inv, Rows
    <3>2. CASE QueueOf[f] = QueueOf[e]
      <4>1. queue'[QueueOf[f]] = Append(queue[QueueOf[f]], e)
        BY <2>1, <3>1, <3>2, JobFields
      <4>2. queue[QueueOf[f]] \in Seq(Event)
        BY <3>1, JobFields
      <4>3. Range(queue'[QueueOf[f]]) = Range(queue[QueueOf[f]]) \cup {e}
        BY <4>1, <4>2, AppendElements
      <4> QED BY <3>1, <4>3
    <3>3. CASE QueueOf[f] # QueueOf[e]
      BY <2>1, <3>1, <3>3, JobFields
    <3> QED BY <3>2, <3>3
  <2>3. Again' \subseteq Again
    BY <2>1, <2>2 DEF Again, Stored, Range
  <2>4. Unheard' = Unheard /\ Unheard \in {0, 1} /\ faults' = faults
    BY <2>1 DEF Unheard
  <2> QED BY <2>1, <2>3, <2>4, DuplicatesKept
<1>2. ASSUME NEW q \in Queue, Take(q) PROVE DuplicatesPaid'
  <2>1. /\ ~Stored /\ rows' = rows /\ faults' = faults
        /\ job = Idle /\ queue[q] # <<>> /\ Unheard = 0
    BY <1>2, IdleFits DEF Take, Stored, Inv, Handling, Unheard
  <2>2. ~Stored' /\ Unheard' = 0
    BY <1>2, <2>1 DEF Take, Stored, Unheard, Idle
  <2>3. Again' \subseteq Again
    <3>1. CASE queue' = queue
      BY <2>1, <2>2, <3>1, AgainSame
    <3>2. CASE queue' = Acknowledged(q)
      <4>1. /\ Range(queue'[q]) = Range(queue[q]) \ {Head(queue[q])}
            /\ \A p \in Queue : p # q => queue'[p] = queue[p]
        BY <1>2, <2>1, <3>2, TailQueue DEF Acknowledged, Take
      <4>2. \A f \in Range(rows) : QueueOf[f] \in Queue
        BY NotificationsAssumption DEF Inv, Rows
      <4> QED BY <2>1, <2>2, <4>1, <4>2 DEF Again
    <3> QED BY <1>2, <3>1, <3>2 DEF Take
  <2> QED BY <2>1, <2>2, <2>3, DuplicatesKept
<1>3. CASE Store
  BY <1>3, StoreDuplicates
<1>4. CASE Ack
  <2> DEFINE q == QueueOf[job.event]
  <2>1. /\ Stored /\ ~Stored' /\ rows' = rows /\ faults' = faults /\ Unheard' = 0
        /\ q \in Queue /\ queue[q] # <<>> /\ Head(queue[q]) = job.event
    BY <1>4, IdleFits, Handled DEF Ack, Stored, Unheard
  <2>2. CASE job.acks /\ queue' = Acknowledged(q)
    <3>1. /\ Range(queue'[q]) = Range(queue[q]) \ {job.event}
          /\ \A p \in Queue : p # q => queue'[p] = queue[p]
      BY <1>4, <2>1, <2>2, TailQueue DEF Acknowledged, Ack
    <3>2. \A f \in Range(rows) : QueueOf[f] \in Queue
      BY NotificationsAssumption DEF Inv, Rows
    <3>3. Again' \subseteq Again
      BY <2>1, <3>1, <3>2 DEF Again
    <3>4. Unheard = 0
      BY <2>2 DEF Unheard
    <3> QED BY <2>1, <3>3, <3>4, DuplicatesKept
  <2>3. CASE ~job.acks /\ queue' = queue
    <3>1. Again' \subseteq Again \cup {job.event}
      BY <2>1, <2>3 DEF Again
    <3>2. Unheard = 1
      BY <2>3 DEF Unheard
    <3> QED BY <2>1, <3>1, <3>2, DuplicatesKept
  <2> QED BY <1>4, <2>2, <2>3 DEF Ack
<1>5. CASE DeleteList \/ DeleteFails \/ CopyTargets \/ SendNoMore
            \/ \E c \in Conn : Send(c) \/ ForgetBroken(c)
  <2>1. /\ job.pc \notin {"idle", "store"} /\ job'.pc \notin {"idle", "store"}
        /\ job'.event = job.event /\ job'.acks = job.acks
    BY <1>5, JobFields DEF DeleteList, DeleteFails, CopyTargets, SendNoMore, Send, ForgetBroken, Jobs
  <2>2. rows' = rows /\ queue' = queue /\ (faults' = faults \/ faults' = faults + 1)
    BY <1>5 DEF DeleteList, DeleteFails, CopyTargets, SendNoMore, Send, ForgetBroken, Fault
  <2>3. Again' = Again
    BY <2>1, <2>2, AgainSame DEF Stored
  <2>4. Unheard' = Unheard /\ Unheard \in {0, 1}
    BY <2>1 DEF Unheard
  <2> QED BY <2>2, <2>3, <2>4, DuplicatesKept
<1>6. CASE LoseBroker
  <2>1. /\ job'.pc = job.pc /\ job'.event = job.event
        /\ rows' = rows /\ queue' = queue /\ faults' = faults + 1
    BY <1>6, JobFields DEF LoseBroker, Jobs, Fault
  <2>2. Again' = Again
    BY <2>1, AgainSame DEF Stored
  <2> QED BY <2>1, <2>2, DuplicatesKept
<1>7. CASE StoreFails \/ Crash
  <2>1. job' = Idle /\ rows' = rows /\ queue' = queue /\ faults' = faults + 1
    BY <1>7 DEF StoreFails, Crash, Fault
  <2>2. Again' \subseteq Again \cup {job.event} /\ Unheard' = 0
    BY <2>1, IdleFits DEF Again, Unheard
  <2> QED BY <2>1, <2>2, DuplicatesKept
<1>8. CASE Read \/ Socket(Browsing) \/ (\E c \in Conn : Serve(c)) \/ UNCHANGED vars
  <2>1. UNCHANGED <<rows, queue, job, faults>>
    BY <1>8 DEF Read, ExpireList, ReadList, FillList, DropRead, Serve, Socket, vars, handler
  <2>2. Again' = Again /\ Unheard' = Unheard /\ Unheard \in {0, 1}
    BY <2>1 DEF Again, Stored, Unheard, Range
  <2> QED BY <2>1, <2>2, DuplicatesKept
<1> QED BY <1>1, <1>2, <1>3, <1>4, <1>5, <1>6, <1>7, <1>8 DEF Next, Handle

LEMMA InitDuplicates == Init => DuplicatesPaid
<1> SUFFICES ASSUME Init PROVE DuplicatesPaid
  OBVIOUS
<1>1. rows = <<>> /\ job = Idle /\ faults = 0 /\ Len(<<>>) = 0
  BY DEF Init
<1>2. Range(rows) = {} /\ Again = {} /\ Unheard = 0
  BY <1>1, IdleFits DEF Range, Again, Unheard
<1>3. IsFiniteSet({}) /\ Cardinality({}) = 0
  BY FS_EmptySet
<1> QED BY <1>1, <1>2, <1>3 DEF DuplicatesPaid

(* For any number of events and faults, second notifications of an event   *)
(* never outnumber the faults: only an event that is delivered again after *)
(* its commit, its acknowledgement lost, is stored twice.                  *)
THEOREM DuplicatesNeedFaults == Spec => []DuplicateNeedsFault
<1>1. Inv /\ DuplicatesPaid => DuplicateNeedsFault
  <2> SUFFICES ASSUME Inv, DuplicatesPaid PROVE DuplicateNeedsFault
    OBVIOUS
  <2>1. IsFiniteSet(Range(rows))
    BY DEF DuplicatesPaid
  <2>2. PICK l \in Nat, a \in Nat, u \in {0, 1}, r \in Nat, f \in Nat :
            /\ l = Len(rows) /\ a = Cardinality(Again) /\ u = Unheard
            /\ r = Cardinality(Range(rows)) /\ f = faults
    BY <2>1, Numbers
  <2>3. l + a + u <= r + f
    BY <2>2 DEF DuplicatesPaid
  <2>4. l <= r + f
    BY <2>3
  <2> QED BY <2>2, <2>4 DEF DuplicateNeedsFault
<1>2. Inv /\ SocketInv /\ DuplicatesPaid /\ [Next]_vars => DuplicatesPaid'
  BY NextInv, NextDuplicates
<1> QED BY InitInv, InitSocketInv, NextInv, InitDuplicates, <1>1, <1>2, PTL DEF Spec
-----------------------------------------------------------------------------
(* The cached list.  A reader that is about to fill the cache has the list *)
(* as it is now, or knows that it was late.                                *)
Lists == SUBSET Nat
Deleting == \E e \in published : UserOf[e] = Watched /\ DeleteToCome(e)

CacheTyped == reader \in [Reader -> [pc : {"idle", "fill"}, value : Lists \cup {None}, late : BOOLEAN]]
FillsKnown ==
    \A r \in Reader : reader[r].pc = "fill" => reader[r].late \/ reader[r].value = List
CacheInv == CacheTyped /\ FillsKnown /\ CachedListStaleOnlyIfLate

LEMMA ListFits == Inv => List \in Lists
<1> SUFFICES ASSUME Inv PROVE List \in Lists
  OBVIOUS
<1>1. DOMAIN rows = 1..Len(rows)
  BY JobFields, LenProperties
<1> QED BY <1>1 DEF List, Lists

LEMMA InitCacheInv == Init => CacheInv
<1> SUFFICES ASSUME Init PROVE CacheInv
  OBVIOUS
<1>1. entry = None /\ reader = [r \in Reader |-> [pc |-> "idle", value |-> None, late |-> FALSE]]
  BY DEF Init, Cache!CacheInit, Cache!At
<1>2. CacheTyped /\ FillsKnown
  BY <1>1 DEF CacheTyped, FillsKnown
<1>3. CachedListStaleOnlyIfLate
  BY <1>1 DEF CachedListStaleOnlyIfLate, Cache!StaleOnlyIfLate
<1> QED BY <1>2, <1>3 DEF CacheInv

(* The cache and the list stay, and no delete is given up.                 *)
LEMMA CacheKept ==
    ASSUME CacheInv, UNCHANGED <<entry, reader, kept>>, List' = List, Deleting => Deleting'
    PROVE  CacheInv'
BY DEF CacheInv, CacheTyped, FillsKnown, CachedListStaleOnlyIfLate, Cache!StaleOnlyIfLate, Deleting

(* The list changes, and its delete is to come.                            *)
LEMMA CacheLate ==
    ASSUME CacheInv, entry' = entry,
           reader' = [r \in Reader |-> [reader[r] EXCEPT !.late = reader[r].pc = "fill"]],
           Deleting'
    PROVE  CacheInv'
<1>1. \A r \in Reader :
          /\ reader'[r] \in [pc : {"idle", "fill"}, value : Lists \cup {None}, late : BOOLEAN]
          /\ reader'[r].pc = reader[r].pc /\ (reader[r].pc = "fill" => reader'[r].late)
  BY DEF CacheInv, CacheTyped
<1>2. CacheTyped' /\ FillsKnown'
  BY <1>1 DEF CacheTyped, FillsKnown
<1>3. CachedListStaleOnlyIfLate'
  BY DEF CachedListStaleOnlyIfLate, Cache!StaleOnlyIfLate, Deleting
<1> QED BY <1>2, <1>3 DEF CacheInv

(* The readers forget what they loaded, or one of them does; a delete that *)
(* is given up leaves its mark.                                            *)
LEMMA CacheForgets ==
    ASSUME CacheInv, List' = List, CacheTyped',
           \A r \in Reader : reader'[r].pc = "fill" => reader'[r] = reader[r],
           \/ entry' = None
           \/ entry' = entry /\ (entry # None => kept')
           \/ entry' = entry /\ (kept => kept') /\ (Deleting => Deleting')
    PROVE  CacheInv'
<1>1. FillsKnown'
  BY DEF CacheInv, FillsKnown
<1>2. CachedListStaleOnlyIfLate'
  BY DEF CacheInv, CachedListStaleOnlyIfLate, Cache!StaleOnlyIfLate, Deleting
<1> QED BY <1>1, <1>2 DEF CacheInv

(* A delete is to come as long as its event waits and is not handled.      *)
LEMMA DeletingStays ==
    ASSUME rows' = rows, published \subseteq published',
           \A e \in published : UserOf[e] = Watched /\ DeleteToCome(e) =>
               /\ e \in Range(queue'[QueueOf[e]])
               /\ job'.event = e => job'.pc \in {"store", "uncache"}
    PROVE  Deleting => Deleting'
BY DEF Deleting, DeleteToCome, Range

LEMMA ReaderIdles ==
    ASSUME CacheTyped, NEW r \in Reader, reader' = [reader EXCEPT ![r] = Cache!At("idle", None)]
    PROVE  CacheTyped' /\ \A q \in Reader : reader'[q].pc = "fill" => reader'[q] = reader[q]
BY DEF CacheTyped, Cache!At

LEMMA NothingStored ==
    ASSUME UNCHANGED handler
    PROVE  List' = List /\ (Deleting <=> Deleting')
BY DEF handler, List, Deleting, DeleteToCome, Range

LEMMA ReadStep ==
    ASSUME CacheInv, List \in Lists, NEW r \in Reader, ReadList(r)
    PROVE  CacheInv'
<1> DEFINE w == [pc |-> "fill", value |-> List, late |-> FALSE]
<1>1. /\ reader' = [reader EXCEPT ![r] = w] /\ UNCHANGED <<entry, kept>>
      /\ List' = List /\ (Deleting <=> Deleting')
  BY NothingStored DEF ReadList, Cache!Load, Cache!At
<1>2. w \in [pc : {"idle", "fill"}, value : Lists \cup {None}, late : BOOLEAN] /\ w.value = List
  OBVIOUS
<1> HIDE DEF w
<1>3. CacheTyped' /\ reader'[r] = w /\ \A q \in Reader : q # r => reader'[q] = reader[q]
  BY <1>1, <1>2 DEF CacheInv, CacheTyped
<1>4. FillsKnown'
  BY <1>1, <1>2, <1>3 DEF CacheInv, FillsKnown
<1>5. CachedListStaleOnlyIfLate'
  BY <1>1 DEF CacheInv, CachedListStaleOnlyIfLate, Cache!StaleOnlyIfLate, Deleting
<1> QED BY <1>3, <1>4, <1>5 DEF CacheInv

LEMMA FillStep ==
    ASSUME CacheInv, NEW r \in Reader, FillList(r)
    PROVE  CacheInv'
<1>1. /\ reader[r].pc = "fill" /\ entry' = [value |-> reader[r].value, late |-> reader[r].late]
      /\ List' = List
  BY NothingStored DEF FillList, Cache!Fill
<1>2. CacheTyped' /\ \A q \in Reader : reader'[q].pc = "fill" => reader'[q] = reader[q]
  BY ReaderIdles DEF FillList, Cache!Fill, CacheInv
<1>3. FillsKnown'
  BY <1>1, <1>2 DEF CacheInv, FillsKnown
<1>4. CachedListStaleOnlyIfLate'
  <2>1. entry'.value = reader[r].value /\ entry'.late = reader[r].late
    BY <1>1
  <2>2. entry'.value # List => entry'.late
    BY <1>1, <2>1 DEF CacheInv, FillsKnown
  <2> QED BY <1>1, <2>2 DEF CachedListStaleOnlyIfLate, Cache!StaleOnlyIfLate
<1> QED BY <1>2, <1>3, <1>4 DEF CacheInv

LEMMA StoreCached ==
    ASSUME Inv, CacheInv, Store
    PROVE  CacheInv'
<1> DEFINE e == job.event
           m == Len(rows)
<1>1. /\ job.pc = "store" /\ rows' = Append(rows, e)
      /\ job'.pc = "uncache" /\ job'.event = e
      /\ UNCHANGED <<published, queue>>
      /\ IF UserOf[e] = Watched THEN Cache!Change ELSE UNCHANGED cached
  BY JobFields DEF Store, Jobs
<1>2. e \in Event /\ e \in published /\ e \in Range(queue[QueueOf[e]])
  BY <1>1, Handled
<1>3. rows \in Seq(Event) /\ m \in Nat /\ DOMAIN rows = 1..m
  BY JobFields, LenProperties
<1>4. /\ Range(rows') = Range(rows) \cup {e} /\ DOMAIN rows' = 1..(m + 1)
      /\ \A i \in 1..m : rows'[i] = rows[i]
      /\ rows'[m + 1] = e
  <2>1. /\ rows' \in Seq(Event) /\ Len(rows') = m + 1 /\ \A i \in 1..m : rows'[i] = rows[i]
        /\ rows'[m + 1] = e
    BY <1>1, <1>2, <1>3, AppendProperties
  <2>2. Range(rows') = Range(rows) \cup {e}
    BY <1>1, <1>2, <1>3, AppendElements
  <2>3. DOMAIN rows' = 1..(m + 1)
    BY <2>1, LenProperties
  <2> QED BY <2>1, <2>2, <2>3
<1> HIDE DEF e, m
<1>5. CASE UserOf[e] = Watched
  <2>1. Deleting'
    BY <1>1, <1>2, <1>4, <1>5 DEF Deleting, DeleteToCome
  <2>2. /\ entry' = entry
        /\ reader' = [r \in Reader |-> [reader[r] EXCEPT !.late = reader[r].pc = "fill"]]
    BY <1>1, <1>5 DEF Cache!Change
  <2> QED BY <2>1, <2>2, CacheLate
<1>6. CASE UserOf[e] # Watched
  <2>1. List' = List
    <3>1. \A i \in 1..(m + 1) : i \in 1..m \/ i = m + 1
      BY <1>3
    <3>2. \A i \in 1..m : i \in 1..(m + 1)
      BY <1>3
    <3> QED BY <1>3, <1>4, <1>6, <3>1, <3>2 DEF List
  <2>2. Deleting => Deleting'
    BY <1>1, <1>4 DEF Deleting, DeleteToCome
  <2> QED BY <1>1, <1>6, <2>1, <2>2, CacheKept DEF cached
<1> QED BY <1>5, <1>6

LEMMA NextCacheInv ==
    ASSUME Inv, CacheInv, [Next]_vars
    PROVE  CacheInv'
<1>1. ASSUME NEW e \in Event, Publish(e) PROVE CacheInv'
  <2>1. /\ published \subseteq published' /\ UNCHANGED <<rows, job, entry, reader, kept>>
        /\ queue' = [queue EXCEPT ![QueueOf[e]] = Append(@, e)]
    BY <1>1 DEF Publish, cached
  <2>2. \A f \in published : f \in Range(queue[QueueOf[f]]) => f \in Range(queue'[QueueOf[f]])
    <3> SUFFICES ASSUME NEW f \in published, f \in Range(queue[QueueOf[f]])
                 PROVE  f \in Range(queue'[QueueOf[f]])
      OBVIOUS
    <3>1. QueueOf[e] \in Queue /\ QueueOf[f] \in Queue
      BY NotificationsAssumption, JobFields
    <3>2. CASE QueueOf[f] = QueueOf[e]
      <4>1. queue'[QueueOf[f]] = Append(queue[QueueOf[f]], e)
        BY <2>1, <3>1, <3>2, JobFields
      <4>2. queue[QueueOf[f]] \in Seq(Event)
        BY <3>1, JobFields
      <4>3. Range(queue'[QueueOf[f]]) = Range(queue[QueueOf[f]]) \cup {e}
        BY <4>1, <4>2, AppendElements
      <4> QED BY <4>3
    <3>3. CASE QueueOf[f] # QueueOf[e]
      BY <2>1, <3>1, <3>3, JobFields
    <3> QED BY <3>2, <3>3
  <2>3. Deleting => Deleting'
    BY <2>1, <2>2, DeletingStays DEF DeleteToCome
  <2>4. List' = List
    BY <2>1 DEF List
  <2> QED BY <2>1, <2>3, <2>4, CacheKept
<1>2. ASSUME NEW q \in Queue, Take(q) PROVE CacheInv'
  <2>1. /\ UNCHANGED <<published, rows, entry, reader, kept>>
        /\ queue[q] # <<>> /\ job = Idle
    BY <1>2 DEF Take, cached, Inv, Handling
  <2>2. Deleting => Deleting'
    <3>1. CASE queue' = queue /\ job' = [Idle EXCEPT !.pc = "store", !.event = Head(queue[q])]
      <4>1. job'.pc = "store"
        BY <3>1 DEF Idle
      <4> HIDE <3>1
      <4>2. queue' = queue
        BY <3>1
      <4> QED BY <2>1, <4>1, <4>2, DeletingStays DEF DeleteToCome
    <3>2. CASE Head(queue[q]) \notin Readable /\ queue' = Acknowledged(q) /\ job' = job
      <4>1. /\ Range(queue'[q]) = Range(queue[q]) \ {Head(queue[q])}
            /\ \A p \in Queue : p # q => queue'[p] = queue[p]
        BY <2>1, <3>2, TailQueue DEF Acknowledged
      <4>2. \A f \in Range(rows) : f \in Readable /\ QueueOf[f] \in Queue
        BY NotificationsAssumption DEF Inv, Rows
      <4>3. \A f \in Range(rows) : f \in Range(queue[QueueOf[f]]) => f \in Range(queue'[QueueOf[f]])
        BY <3>2, <4>1, <4>2
      <4> QED BY <2>1, <3>2, <4>3, DeletingStays DEF DeleteToCome
    <3> QED BY <1>2, <3>1, <3>2 DEF Take
  <2>3. List' = List
    BY <2>1 DEF List
  <2> QED BY <2>1, <2>2, <2>3, CacheKept
<1>3. CASE Store
  BY <1>3, StoreCached
<1>4. CASE DeleteList \/ DeleteFails
  <2>1. /\ UNCHANGED <<published, queue, rows>>
        /\ job.pc = "uncache" /\ job'.event = job.event
    BY <1>4, JobFields DEF DeleteList, DeleteFails, Jobs
  <2>2. List' = List
    BY <2>1 DEF List
  <2>3. CASE UserOf[job.event] # Watched
    <3>1. UNCHANGED <<entry, reader, kept>>
      BY <1>4, <2>3 DEF DeleteList, DeleteFails, cached
    <3>2. Deleting => Deleting'
      BY <2>1, <2>3, DeletingStays DEF DeleteToCome
    <3> QED BY <2>2, <3>1, <3>2, CacheKept
  <2>4. CASE UserOf[job.event] = Watched
    <3>1. reader' = reader /\ (entry' = None \/ (entry' = entry /\ (entry # None => kept')))
      BY <1>4, <2>4 DEF DeleteList, DeleteFails, Cache!Delete, Cache!LoseDelete
    <3>2. CacheTyped' /\ \A r \in Reader : reader'[r].pc = "fill" => reader'[r] = reader[r]
      BY <3>1 DEF CacheInv, CacheTyped
    <3> QED BY <2>2, <3>1, <3>2, CacheForgets
  <2> QED BY <2>3, <2>4
<1>5. CASE CopyTargets \/ SendNoMore \/ LoseBroker
            \/ \E c \in Conn : Send(c) \/ ForgetBroken(c)
  <2>1. /\ UNCHANGED <<published, queue, rows, entry, reader, kept>>
        /\ job'.event = job.event
        /\ job'.pc = job.pc \/ job.pc \notin {"store", "uncache"}
    BY <1>5, JobFields DEF CopyTargets, SendNoMore, LoseBroker, Send, ForgetBroken, Jobs, cached
  <2>2. Deleting => Deleting'
    BY <2>1, DeletingStays DEF DeleteToCome
  <2>3. List' = List
    BY <2>1 DEF List
  <2> QED BY <2>1, <2>2, <2>3, CacheKept
<1>6. CASE StoreFails \/ Ack
  <2> DEFINE q == QueueOf[job.event]
  <2>1. /\ UNCHANGED <<published, rows, entry, reader, kept>>
        /\ job.pc \in {"store", "forget"} /\ job'.event = None
        /\ queue' = queue \/ (job.pc = "forget" /\ queue' = Acknowledged(q))
    BY <1>6, IdleFits DEF StoreFails, Ack, cached
  <2>2. q \in Queue /\ queue[q] # <<>> /\ Head(queue[q]) = job.event
    BY <2>1, Handled
  <2>3. \A f \in published : DeleteToCome(f) => f \in Range(queue'[QueueOf[f]])
    <3>1. CASE queue' = queue
      BY <3>1 DEF DeleteToCome
    <3>2. CASE job.pc = "forget" /\ queue' = Acknowledged(q)
      <4>1. /\ Range(queue'[q]) = Range(queue[q]) \ {job.event}
            /\ \A p \in Queue : p # q => queue'[p] = queue[p]
        BY <2>1, <2>2, <3>2, TailQueue DEF Acknowledged
      <4>2. \A f \in published : QueueOf[f] \in Queue
        BY NotificationsAssumption, JobFields
      <4> QED BY <3>2, <4>1, <4>2 DEF DeleteToCome
    <3> QED BY <2>1, <3>1, <3>2
  <2>4. None \notin published
    BY NotificationsAssumption, JobFields
  <2>5. Deleting => Deleting'
    BY <2>1, <2>3, <2>4, DeletingStays
  <2>6. List' = List
    BY <2>1 DEF List
  <2> QED BY <2>1, <2>5, <2>6, CacheKept
<1>7. CASE Crash
  <2>1. /\ UNCHANGED <<published, queue, rows, entry, kept>> /\ job'.event = None
        /\ reader' = [r \in Reader |-> [pc |-> "idle", value |-> None, late |-> FALSE]]
    BY <1>7, IdleFits DEF Crash, Cache!NobodyFills, Cache!At
  <2>2. None \notin published
    BY NotificationsAssumption, JobFields
  <2>3. Deleting => Deleting'
    BY <2>1, <2>2, DeletingStays DEF DeleteToCome
  <2>4. List' = List
    BY <2>1 DEF List
  <2>5. CacheTyped' /\ \A r \in Reader : reader'[r].pc = "fill" => reader'[r] = reader[r]
    BY <2>1 DEF CacheTyped
  <2> QED BY <2>1, <2>3, <2>4, <2>5, CacheForgets
<1>8. ASSUME NEW r \in Reader, ReadList(r) PROVE CacheInv'
  BY <1>8, ReadStep, ListFits
<1>9. ASSUME NEW r \in Reader, FillList(r) PROVE CacheInv'
  BY <1>9, FillStep
<1>10. ASSUME NEW r \in Reader, DropRead(r) PROVE CacheInv'
  <2>1. CacheTyped' /\ \A q \in Reader : reader'[q].pc = "fill" => reader'[q] = reader[q]
    BY <1>10, ReaderIdles DEF DropRead, Cache!NoFill, CacheInv
  <2>2. entry' = entry /\ kept' = kept /\ List' = List /\ (Deleting <=> Deleting')
    BY <1>10, NothingStored DEF DropRead, Cache!NoFill
  <2> QED BY <2>1, <2>2, CacheForgets
<1>11. CASE ExpireList
  <2>1. reader' = reader /\ entry' = None /\ List' = List
    BY <1>11, NothingStored DEF ExpireList, Cache!Expire
  <2>2. CacheTyped' /\ \A r \in Reader : reader'[r].pc = "fill" => reader'[r] = reader[r]
    BY <2>1 DEF CacheInv, CacheTyped
  <2> QED BY <2>1, <2>2, CacheForgets
<1>12. CASE Socket(Browsing) \/ (\E c \in Conn : Serve(c)) \/ UNCHANGED vars
  <2>1. UNCHANGED <<published, queue, rows, job, entry, reader, kept>>
    BY <1>12 DEF Serve, Socket, vars, handler, cached
  <2>2. List' = List /\ (Deleting => Deleting')
    BY <2>1, DeletingStays DEF List, DeleteToCome
  <2> QED BY <2>1, <2>2, CacheKept
<1> QED BY <1>1, <1>2, <1>3, <1>4, <1>5, <1>6, <1>7, <1>8, <1>9, <1>10, <1>11, <1>12
        DEF Next, Handle, Read

(* For any readers, events and faults, a cached list lacks a notification  *)
(* only when it was filled late, or the delete is still to come - with the *)
(* event that waits in its queue, if the process died - or was lost.       *)
THEOREM CachedListsStaleOnlyIfLate == Spec => []CachedListStaleOnlyIfLate
<1>1. CacheInv => CachedListStaleOnlyIfLate
  BY DEF CacheInv
<1>2. Inv /\ SocketInv /\ CacheInv /\ [Next]_vars => CacheInv'
  BY NextCacheInv
<1> QED BY InitInv, InitSocketInv, NextInv, InitCacheInv, <1>1, <1>2, PTL DEF Spec
=============================================================================
