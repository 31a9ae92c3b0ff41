---------------------------- MODULE WalletProofs ----------------------------
(***************************************************************************)
(* What TLAPS proves of Wallet and of the Ledger it implements, for every  *)
(* set of users, references, amounts and concurrent requests.              *)
(***************************************************************************)
EXTENDS Wallet, SequenceTheorems, TLAPS

(* The Ledger, which Wallet is to implement: an atomic, idempotent change  *)
(* cannot lose an update.                                                  *)

(* One change leaves well-formed rows and natural balances. *)
LEMMA ApplyTyped ==
    ASSUME Journal!TypeOK,
           NEW u \in User, NEW ref \in Reference, NEW d \in Delta, Journal!Apply(u, ref, d)
    PROVE  Journal!TypeOK'
<1> DEFINE op == [reference |-> ref, delta |-> d, after |-> balance[u] + d]
<1>1. balance[u] + d \in Nat
  BY WalletAssumption DEF Journal!TypeOK, Journal!Apply
<1>2. op \in Journal!Operation
  BY <1>1 DEF Journal!Operation
<1>3. Append(operations[u], op) \in Seq(Journal!Operation)
  BY <1>2, AppendProperties DEF Journal!TypeOK
<1> HIDE DEF op
<1>4. operations' = [operations EXCEPT ![u] = Append(operations[u], op)]
  BY DEF Journal!Apply, op
<1> QED BY <1>1, <1>3, <1>4 DEF Journal!TypeOK, Journal!Apply

(* Balances are natural numbers and the journal holds well-formed rows. *)
THEOREM LedgerTyped == Journal!Spec => []Journal!TypeOK
<1>1. Journal!Init => Journal!TypeOK
  BY DEF Journal!Init, Journal!TypeOK
<1>2. Journal!TypeOK /\ [Journal!Next]_(Journal!vars) => Journal!TypeOK'
  <2>1. ASSUME Journal!TypeOK, UNCHANGED Journal!vars PROVE Journal!TypeOK'
    BY <2>1 DEF Journal!TypeOK, Journal!vars
  <2> QED BY <2>1, ApplyTyped DEF Journal!Next
<1> QED BY <1>1, <1>2, PTL DEF Journal!Spec

(* One change keeps the journal an explanation of the balance: the row it  *)
(* appends starts from the balance, which is where the last row ended.     *)
LEMMA ApplyExplains ==
    ASSUME Journal!TypeOK, Journal!JournalExplainsBalance,
           NEW u \in User, NEW ref \in Reference, NEW d \in Delta,
           Journal!Apply(u, ref, d)
    PROVE  Journal!JournalExplainsBalance'
<1> DEFINE op == [reference |-> ref, delta |-> d, after |-> balance[u] + d]
           n == Len(operations[u])
<1>1. /\ operations[u] \in Seq(Journal!Operation)
      /\ n \in Nat
      /\ balance[u] \in Nat /\ d \in Int
      /\ op \in Journal!Operation
  <2>1. operations[u] \in Seq(Journal!Operation) /\ balance[u] \in Nat
    BY DEF Journal!TypeOK
  <2>2. d \in Int
    BY WalletAssumption
  <2>3. balance[u] + d \in Nat
    BY <2>1, <2>2 DEF Journal!Apply
  <2> QED BY <2>1, <2>2, <2>3, LenProperties DEF Journal!Operation
<1>2. /\ operations' = [operations EXCEPT ![u] = Append(operations[u], op)]
      /\ balance' = [balance EXCEPT ![u] = balance[u] + d]
  BY DEF Journal!Apply
<1> HIDE DEF op
<1>3. /\ Len(operations'[u]) = n + 1
      /\ operations'[u][n + 1] = op
      /\ \A i \in 1..n : operations'[u][i] = operations[u][i]
  BY <1>1, <1>2, AppendProperties DEF Journal!TypeOK
<1>4. balance[u] = Journal!Before(u, n + 1)
  BY DEF Journal!JournalExplainsBalance
<1>5. ASSUME NEW i \in 1..(n + 1)
      PROVE  operations'[u][i].after = Journal!Before(u, i)' + operations'[u][i].delta
  <2>1. Journal!Before(u, i)' = Journal!Before(u, i)
    <3>1. CASE i = 1
      BY <3>1 DEF Journal!Before
    <3>2. CASE i # 1
      <4>1. i - 1 \in 1..n
        BY <1>1, <3>2
      <4> QED BY <1>3, <3>2, <4>1 DEF Journal!Before
    <3> QED BY <3>1, <3>2
  <2>2. CASE i \in 1..n
    BY <2>1, <2>2, <1>3 DEF Journal!JournalExplainsBalance
  <2>3. CASE i = n + 1
    BY <2>1, <2>3, <1>3, <1>4 DEF op
  <2> QED BY <1>1, <2>2, <2>3
<1>6. balance'[u] = Journal!Before(u, Len(operations[u]) + 1)'
  <2>1. balance'[u] = balance[u] + d
    BY <1>2 DEF Journal!TypeOK
  <2>2. /\ Len(operations'[u]) + 1 # 1
        /\ operations'[u][(Len(operations'[u]) + 1) - 1] = op
    BY <1>1, <1>3
  <2> QED BY <2>1, <2>2 DEF Journal!Before, op
<1>7. ASSUME NEW v \in User, v # u
      PROVE  /\ balance'[v] = balance[v]
             /\ operations'[v] = operations[v]
  BY <1>2, <1>7 DEF Journal!TypeOK
<1>8. ASSUME NEW v \in User
      PROVE  /\ \A i \in 1..Len(operations'[v]) :
                    operations'[v][i].after = Journal!Before(v, i)' + operations'[v][i].delta
             /\ balance'[v] = Journal!Before(v, Len(operations[v]) + 1)'
  <2>1. CASE v = u
    BY <2>1, <1>3, <1>5, <1>6
  <2>2. CASE v # u
    BY <2>2, <1>7 DEF Journal!JournalExplainsBalance, Journal!Before
  <2> QED BY <2>1, <2>2
<1> QED BY <1>8 DEF Journal!JournalExplainsBalance

(* No update is lost by the atomic ledger. *)
LEMMA LedgerExplainsBalance == Journal!Spec => []Journal!JournalExplainsBalance
<1>1. Journal!Init => Journal!JournalExplainsBalance
  <2> SUFFICES ASSUME Journal!Init, NEW u \in User
               PROVE  /\ \A i \in 1..Len(operations[u]) : FALSE
                      /\ balance[u] = Journal!Before(u, Len(operations[u]) + 1)
    BY DEF Journal!JournalExplainsBalance
  <2>1. operations[u] = <<>> /\ balance[u] = 0
    BY DEF Journal!Init
  <2>2. Len(operations[u]) = 0
    BY <2>1
  <2> QED BY <2>1, <2>2 DEF Journal!Before
<1>2. Journal!TypeOK /\ Journal!JournalExplainsBalance /\ [Journal!Next]_(Journal!vars) => Journal!JournalExplainsBalance'
  <2>1. ASSUME Journal!JournalExplainsBalance, UNCHANGED Journal!vars PROVE Journal!JournalExplainsBalance'
    BY <2>1 DEF Journal!JournalExplainsBalance, Journal!Before, Journal!vars
  <2> QED BY <2>1, ApplyExplains DEF Journal!Next
<1> QED BY <1>1, <1>2, LedgerTyped, PTL DEF Journal!Spec
-----------------------------------------------------------------------------
(* Any request may begin with well-typed arguments. *)
LEMMA BeginTyped ==
    ASSUME TypeOK, NEW r \in Request, NEW step \in Step, NEW c \in Call,
           NEW loaded \in Nat \cup {None}, Begin(r, step, c, loaded),
           step # "read" => /\ step = "lookup"
                            /\ c.reference \in Reference
                            /\ c.delta \in Delta,
           step = "read" => loaded \in Nat
    PROVE  TypeOK'
<1>1. /\ pc' \in [Request -> Step]
      /\ call' \in [Request -> Call]
      /\ seen' \in [Request -> Nat \cup {None}]
  BY DEF TypeOK, Begin
<1>2. reply' \in [Request -> Answer]
  BY DEF TypeOK, Begin, Answer, NoAnswer
<1>3. ASSUME NEW q \in Request
      PROVE  /\ pc'[q] \in {"lookup", "lock", "apply", "invalidate"} =>
                    call'[q].reference \in Reference /\ call'[q].delta \in Delta
             /\ pc'[q] \in {"apply", "invalidate", "read", "fill"} => seen'[q] \in Nat
  <2>1. CASE q = r
    BY <2>1 DEF TypeOK, Begin, Step
  <2>2. CASE q # r
    BY <2>2 DEF TypeOK, Begin
  <2> QED BY <2>1, <2>2
<1> QED BY <1>1, <1>2, <1>3 DEF TypeOK, Begin

(* The state of every reachable Wallet is well typed; among other things   *)
(* no committed balance is ever negative.                                  *)
THEOREM WalletTyped == Spec => []TypeOK
<1> USE WalletAssumption DEF TypeOK, Step, Call, Answer, NoAnswer, Journal!Operation
<1>1. Init => TypeOK
  <2> SUFFICES ASSUME Init PROVE TypeOK
    OBVIOUS
  <2>1. (CHOOSE u \in User : TRUE) \in User
    OBVIOUS
  <2> DEFINE someone == CHOOSE u \in User : TRUE
  <2>2. call = [r \in Request |-> [endpoint |-> "read", user |-> someone,
                                   reference |-> None, delta |-> 0]]
    BY DEF Init
  <2> HIDE DEF someone
  <2>3. someone \in User
    BY <2>1 DEF someone
  <2>4. call \in [Request -> Call]
    BY <2>2, <2>3
  <2>5. operations \in [User -> Seq(Journal!Operation)]
    BY DEF Init
  <2> QED BY <2>4, <2>5 DEF Init
<1>2. TypeOK /\ [Next]_vars => TypeOK'
  <2> SUFFICES ASSUME TypeOK, [Next]_vars PROVE TypeOK'
    OBVIOUS
  <2>1. ASSUME NEW r \in Request, StartInternal(r) PROVE TypeOK'
    <3>1. PICK u \in User, ref \in Reference \ ManualReference, d \in Delta :
              Begin(r, "lookup", [endpoint |-> "internal", user |-> u,
                                  reference |-> ref, delta |-> d], None)
      BY <2>1 DEF StartInternal
    <3> QED BY <3>1, BeginTyped
  <2>2. ASSUME NEW r \in Request, StartManual(r) PROVE TypeOK'
    <3>1. PICK u \in Registered, ref \in ManualReference, d \in Delta :
              Begin(r, "lookup", [endpoint |-> "manual", user |-> u,
                                  reference |-> ref, delta |-> d], balance[u])
      BY <2>2 DEF StartManual
    <3> QED BY <3>1, BeginTyped
  <2>3. ASSUME NEW r \in Request, StartRead(r) PROVE TypeOK'
    <3>1. PICK u \in Registered :
              Begin(r, "read", [endpoint |-> "read", user |-> u,
                                reference |-> None, delta |-> 0], balance[u])
      BY <2>3 DEF StartRead
    <3> QED BY <3>1, BeginTyped
  <2>4. ASSUME NEW r \in Request, Replay(r) PROVE TypeOK'
    <3>1. PICK i \in 1..Len(operations[call[r].user]) :
              Respond(r, "ok", operations[call[r].user][i].after)
      BY <2>4 DEF Replay
    <3>2. operations[call[r].user] \in Seq(Journal!Operation)
      OBVIOUS
    <3>3. operations[call[r].user][i] \in Journal!Operation
      BY <3>2, ElementOfSeq
    <3>4. reply' \in [Request -> Answer]
      BY <3>1, <3>3 DEF Respond
    <3> QED BY <2>4, <3>1, <3>4 DEF Replay, Respond
  <2>5. ASSUME NEW r \in Request, Conflict(r) PROVE TypeOK'
    BY <2>5 DEF Conflict, Respond
  <2>6. ASSUME NEW r \in Request, NotFoundYet(r) PROVE TypeOK'
    BY <2>6 DEF NotFoundYet
  <2>7. ASSUME NEW r \in Request, GetForUpdate(r) PROVE TypeOK'
    BY <2>7 DEF GetForUpdate, Loaded
  <2>8. ASSUME NEW r \in Request, UserMissing(r) PROVE TypeOK'
    BY <2>8 DEF UserMissing, Respond
  <2>9. ASSUME NEW r \in Request, RejectInsufficient(r) PROVE TypeOK'
    BY <2>9 DEF RejectInsufficient, Respond, Unlock
  <2>10. ASSUME NEW r \in Request, RefuseDuplicate(r) PROVE TypeOK'
    BY <2>10 DEF RefuseDuplicate, Respond, Unlock
  <2>11. ASSUME NEW r \in Request, Commit(r) PROVE TypeOK'
    <3> DEFINE u == call[r].user
               op == [reference |-> call[r].reference, delta |-> call[r].delta,
                      after |-> seen[r] + call[r].delta]
    <3>1. /\ u \in User
          /\ seen[r] + call[r].delta \in Nat
          /\ call[r].reference \in Reference /\ call[r].delta \in Delta
      <4>1. pc[r] = "apply" /\ seen[r] + call[r].delta >= 0
        BY <2>11 DEF Commit, CommitOf
      <4>2. /\ call[r].reference \in Reference /\ call[r].delta \in Delta
            /\ seen[r] \in Nat
        BY <4>1
      <4>3. call[r].delta \in Int
        BY <4>2
      <4> QED BY <4>1, <4>2, <4>3
    <3>2. op \in Journal!Operation
      <4>1. \A ref \in Reference, d \in Delta, a \in Nat :
                [reference |-> ref, delta |-> d, after |-> a] \in Journal!Operation
        OBVIOUS
      <4> QED BY ONLY <3>1, <4>1
    <3>5. operations[u] \in Seq(Journal!Operation)
      BY <3>1
    <3>6. Append(operations[u], op) \in Seq(Journal!Operation)
      BY <3>2, <3>5, AppendProperties
    <3>3. operations' = [operations EXCEPT ![u] = Append(operations[u], op)]
      BY <2>11 DEF Commit, CommitOf
    <3>4. operations' \in [User -> Seq(Journal!Operation)]
      BY <3>6, <3>3
    <3> HIDE DEF op
    <3> QED BY <2>11, <3>1, <3>4 DEF Commit, CommitOf, Unlock
  <2>12. ASSUME NEW r \in Request, Invalidate(r) PROVE TypeOK'
    <3>1. [cache EXCEPT ![call[r].user] = None] \in [User -> Nat \cup {None}]
      OBVIOUS
    <3>2. cache' \in [User -> Nat \cup {None}]
      BY <2>12, <3>1 DEF Invalidate
    <3> QED BY <2>12, <3>2 DEF Invalidate, Respond
  <2>13. ASSUME NEW r \in Request, ReadHit(r) PROVE TypeOK'
    BY <2>13 DEF ReadHit, Respond
  <2>14. ASSUME NEW r \in Request, ReadMiss(r) PROVE TypeOK'
    BY <2>14 DEF ReadMiss
  <2>15. ASSUME NEW r \in Request, Fill(r) PROVE TypeOK'
    <3>1. seen[r] \in Nat
      BY <2>15 DEF Fill
    <3>2. cache' \in [User -> Nat \cup {None}]
      BY <2>15, <3>1 DEF Fill
    <3> QED BY <2>15, <3>1, <3>2 DEF Fill, Respond
  <2>16. ASSUME NEW r \in Request, Die(r) PROVE TypeOK'
    BY <2>16 DEF Die, Respond, Unlock
  <2>17. ASSUME NEW u \in User, Expire(u) PROVE TypeOK'
    BY <2>17 DEF Expire
  <2>18. CASE UNCHANGED vars
    BY <2>18 DEF vars
  <2> QED
    BY <2>1, <2>2, <2>3, <2>4, <2>5, <2>6, <2>7, <2>8, <2>9, <2>10, <2>11,
       <2>12, <2>13, <2>14, <2>15, <2>16, <2>17, <2>18 DEF Next, Progress
<1> QED BY <1>1, <1>2, PTL DEF Spec

(* Only a commit writes the journal or a balance. *)
LEMMA OnlyCommitWrites ==
    ASSUME [Next]_vars
    PROVE  \/ UNCHANGED <<balance, operations>>
           \/ \E r \in Request : Commit(r)
BY DEF Next, Progress, StartInternal, StartManual, StartRead, Begin, Replay,
       Conflict, NotFoundYet, GetForUpdate, UserMissing, RejectInsufficient,
       RefuseDuplicate, Invalidate, ReadHit, ReadMiss, Fill, Die, Expire, vars

(* What a commit does to the journal: one well-formed row at the end of    *)
(* the user's, whose reference was nowhere in the journal.                 *)
LEMMA CommitAppends ==
    ASSUME TypeOK, NEW r \in Request, Commit(r)
    PROVE  LET u == call[r].user
               n == Len(operations[u])
           IN  /\ u \in User /\ n \in Nat
               /\ \A v \in User : v # u => operations'[v] = operations[v]
               /\ Len(operations'[u]) = n + 1
               /\ \A i \in 1..n : operations'[u][i] = operations[u][i]
               /\ operations'[u][n + 1] = [reference |-> call[r].reference,
                                           delta |-> call[r].delta,
                                           after |-> seen[r] + call[r].delta]
               /\ ~Journal!Applied(call[r].reference)
<1> DEFINE u == call[r].user
           n == Len(operations[u])
           op == [reference |-> call[r].reference, delta |-> call[r].delta,
                  after |-> seen[r] + call[r].delta]
<1>1. pc[r] = "apply" /\ seen[r] + call[r].delta >= 0
  BY DEF Commit, CommitOf
<1>2. /\ u \in User
      /\ call[r].reference \in Reference /\ call[r].delta \in Delta
      /\ seen[r] \in Nat
  BY <1>1 DEF TypeOK, Call
<1>3. seen[r] + call[r].delta \in Nat
  BY <1>1, <1>2, WalletAssumption
<1>4. op \in Journal!Operation
  <2>1. \A ref \in Reference, d \in Delta, a \in Nat :
            [reference |-> ref, delta |-> d, after |-> a] \in Journal!Operation
    BY DEF Journal!Operation
  <2> QED BY ONLY <1>2, <1>3, <2>1
<1>5. operations[u] \in Seq(Journal!Operation)
  BY <1>2 DEF TypeOK
<1>6. operations' = [operations EXCEPT ![u] = Append(operations[u], op)]
  BY DEF Commit, CommitOf
<1> HIDE DEF op
<1>7. /\ operations'[u] = Append(operations[u], op)
      /\ \A v \in User : v # u => operations'[v] = operations[v]
  BY <1>2, <1>6 DEF TypeOK
<1>8. /\ Len(operations'[u]) = n + 1
      /\ \A i \in 1..n : operations'[u][i] = operations[u][i]
      /\ operations'[u][n + 1] = op
      /\ n \in Nat
  BY <1>4, <1>5, <1>7, AppendProperties, LenProperties
<1>9. ~Journal!Applied(call[r].reference)
  BY DEF Commit, CommitOf
<1> QED BY <1>2, <1>7, <1>8, <1>9 DEF op

(* The row a commit appends, field by field. *)
LEMMA CommitRow ==
    ASSUME TypeOK, NEW r \in Request, Commit(r)
    PROVE  LET u == call[r].user
               n == Len(operations[u])
           IN  /\ u \in User /\ n \in Nat
               /\ Len(operations'[u]) = n + 1
               /\ operations'[u][n + 1].reference = call[r].reference
               /\ operations'[u][n + 1].delta = call[r].delta
               /\ operations'[u][n + 1].after = seen[r] + call[r].delta
<1> DEFINE u == call[r].user
           n == Len(operations[u])
<1>1. operations'[u][n + 1] = [reference |-> call[r].reference, delta |-> call[r].delta,
                               after |-> seen[r] + call[r].delta]
  BY CommitAppends
<1>2. /\ operations'[u][n + 1].reference = call[r].reference
      /\ operations'[u][n + 1].delta = call[r].delta
      /\ operations'[u][n + 1].after = seen[r] + call[r].delta
  BY ONLY <1>1
<1> QED BY <1>2, CommitAppends

(* The unlocked lookup never lets a reference through twice: whatever the  *)
(* interleaving, and whatever the public routes do meanwhile.              *)
THEOREM WalletAppliesOnce == Spec => []AppliedOnce
<1>1. Init => AppliedOnce
  BY DEF Init, AppliedOnce, Journal!AppliedOnce
<1>2. TypeOK /\ AppliedOnce /\ [Next]_vars => AppliedOnce'
  <2>1. ASSUME TypeOK, AppliedOnce, NEW r \in Request, Commit(r)
        PROVE  AppliedOnce'
    <3> DEFINE u == call[r].user
               n == Len(operations[u])
    <3>1. /\ u \in User /\ n \in Nat
          /\ \A v \in User : v # u => operations'[v] = operations[v]
          /\ Len(operations'[u]) = n + 1
          /\ \A i \in 1..n : operations'[u][i] = operations[u][i]
          /\ operations'[u][n + 1].reference = call[r].reference
          /\ ~Journal!Applied(call[r].reference)
      <4>1. operations'[u][n + 1] = [reference |-> call[r].reference,
                                     delta |-> call[r].delta,
                                     after |-> seen[r] + call[r].delta]
        BY <2>1, CommitAppends
      <4>2. operations'[u][n + 1].reference = call[r].reference
        BY ONLY <4>1
      <4> QED BY <2>1, <4>2, CommitAppends
    <3>2. \A v \in User : Len(operations[v]) \in Nat
      BY <2>1, LenProperties DEF TypeOK
    <3>3. ASSUME NEW v \in User, NEW i \in 1..Len(operations'[v])
          PROVE  \/ v = u /\ i = n + 1
                 \/ /\ i \in 1..Len(operations[v])
                    /\ operations'[v][i] = operations[v][i]
      <4>1. CASE v = u
        BY <3>1, <3>3, <4>1
      <4>2. CASE v # u
        BY <3>1, <3>3, <4>2
      <4> QED BY <4>1, <4>2
    <3>4. \A v \in User : \A i \in 1..Len(operations[v]) :
              operations[v][i].reference # call[r].reference
      BY <3>1 DEF Journal!Applied
    <3> HIDE DEF u, n
    <3>5. SUFFICES ASSUME NEW v \in User, NEW w \in User,
                          NEW i \in 1..Len(operations'[v]), NEW j \in 1..Len(operations'[w]),
                          operations'[v][i].reference = operations'[w][j].reference
                   PROVE  v = w /\ i = j
      BY DEF AppliedOnce, Journal!AppliedOnce
    <3>6. CASE (v = u /\ i = n + 1) \/ (w = u /\ j = n + 1)
      <4>1. \A x \in User : \A k \in 1..Len(operations'[x]) :
                (x = u /\ k = n + 1) <=>
                    operations'[x][k].reference = call[r].reference
        BY <3>1, <3>3, <3>4
      <4> QED BY <3>5, <3>6, <4>1
    <3>7. CASE ~(v = u /\ i = n + 1) /\ ~(w = u /\ j = n + 1)
      <4>1. /\ i \in 1..Len(operations[v]) /\ operations'[v][i] = operations[v][i]
            /\ j \in 1..Len(operations[w]) /\ operations'[w][j] = operations[w][j]
        BY <3>3, <3>7
      <4> QED BY <2>1, <3>5, <4>1 DEF AppliedOnce, Journal!AppliedOnce
    <3> QED BY <3>6, <3>7
  <2>2. ASSUME AppliedOnce, UNCHANGED <<balance, operations>> PROVE AppliedOnce'
    BY <2>2 DEF AppliedOnce, Journal!AppliedOnce
  <2> QED BY <2>1, <2>2, OnlyCommitWrites
<1> QED BY <1>1, <1>2, WalletTyped, PTL DEF Spec

(* Rows of the journal are never rewritten nor removed. *)
LEMMA JournalGrows ==
    ASSUME TypeOK, [Next]_vars, NEW u \in User, NEW i \in 1..Len(operations[u])
    PROVE  /\ i \in 1..Len(operations'[u])
           /\ operations'[u][i] = operations[u][i]
<1>1. ASSUME NEW r \in Request, Commit(r)
      PROVE  /\ i \in 1..Len(operations'[u])
             /\ operations'[u][i] = operations[u][i]
  <2>1. CASE u = call[r].user
    <3>1. /\ Len(operations[u]) \in Nat
          /\ Len(operations'[u]) = Len(operations[u]) + 1
          /\ \A j \in 1..Len(operations[u]) : operations'[u][j] = operations[u][j]
      BY <1>1, <2>1, CommitAppends
    <3> QED BY <3>1
  <2>2. CASE u # call[r].user
    BY <1>1, <2>2, CommitAppends
  <2> QED BY <2>1, <2>2
<1> QED BY <1>1, OnlyCommitWrites

(* An answer that will be "ok" is in the journal before it is sent. *)
AnswerInv ==
    /\ AnsweredFromJournal
    /\ \A r \in Request : pc[r] = "invalidate" => InJournal(r, seen[r])

(* A caller that was told "ok" finds its change in the journal with the    *)
(* balance it was told, however often it repeated the request.             *)
THEOREM WalletAnswersFromJournal == Spec => []AnsweredFromJournal
<1>1. Init => AnswerInv
  BY DEF Init, AnswerInv, AnsweredFromJournal, NoAnswer
<1>2. TypeOK /\ AnswerInv /\ [Next]_vars => AnswerInv'
  <2> SUFFICES ASSUME TypeOK, AnswerInv, [Next]_vars, NEW r \in Request
               PROVE  /\ reply'[r].kind = "ok" => InJournal(r, reply[r].value)'
                      /\ pc'[r] = "invalidate" => InJournal(r, seen[r])'
    BY DEF AnswerInv, AnsweredFromJournal
  <2>1. ASSUME NEW a, call'[r] = call[r], InJournal(r, a)
        PROVE  \E i \in 1..Len(operations'[call[r].user]) :
                   operations'[call[r].user][i] = [reference |-> call'[r].reference,
                       delta |-> call'[r].delta, after |-> a]
    <3>1. call[r].user \in User
      BY DEF TypeOK, Call
    <3>2. PICK i \in 1..Len(operations[call[r].user]) :
              operations[call[r].user][i] = [reference |-> call[r].reference,
                                       delta |-> call[r].delta, after |-> a]
      BY <2>1 DEF InJournal
    <3> QED BY <2>1, <3>1, <3>2, JournalGrows
  <2>2. CASE UNCHANGED <<pc[r], call[r], seen[r], reply[r]>>
    BY <2>1, <2>2 DEF AnswerInv, AnsweredFromJournal, InJournal
  <2>3. CASE StartInternal(r) \/ StartManual(r) \/ StartRead(r)
    BY <2>3 DEF StartInternal, StartManual, StartRead, Begin, TypeOK, NoAnswer
  <2>4. CASE Replay(r)
    <3>1. PICK i \in 1..Len(operations[call[r].user]) :
              /\ operations[call[r].user][i].reference = call[r].reference
              /\ operations[call[r].user][i].delta = call[r].delta
              /\ Respond(r, "ok", operations[call[r].user][i].after)
      BY <2>4 DEF Replay
    <3>2. operations[call[r].user] \in Seq(Journal!Operation)
      BY DEF TypeOK, Call
    <3>3. operations[call[r].user][i] \in Journal!Operation
      BY <3>2, ElementOfSeq
    <3>4. operations[call[r].user][i] =
              [reference |-> call[r].reference, delta |-> call[r].delta,
               after |-> operations[call[r].user][i].after]
      BY <3>1, <3>3 DEF Journal!Operation
    <3>5. InJournal(r, operations[call[r].user][i].after)
      BY <3>4 DEF InJournal
    <3>6. /\ reply'[r].value = operations[call[r].user][i].after
          /\ pc'[r] = "idle"
      BY <3>1 DEF Respond, TypeOK
    <3> QED BY <2>1, <2>4, <3>5, <3>6 DEF Replay, InJournal
  <2>5. CASE Conflict(r) \/ UserMissing(r) \/ RejectInsufficient(r)
             \/ RefuseDuplicate(r) \/ ReadHit(r) \/ Fill(r) \/ Die(r)
    BY <2>5 DEF Conflict, UserMissing, RejectInsufficient, RefuseDuplicate,
                ReadHit, Fill, Die, Respond, TypeOK
  <2>6. CASE NotFoundYet(r) \/ GetForUpdate(r) \/ ReadMiss(r)
    <3>1. call' = call /\ reply' = reply /\ pc'[r] # "invalidate"
      BY <2>6 DEF NotFoundYet, GetForUpdate, ReadMiss, TypeOK
    <3> QED BY <2>1, <3>1 DEF AnswerInv, AnsweredFromJournal, InJournal
  <2>7. CASE Commit(r)
    <3> DEFINE u == call[r].user
               n == Len(operations[u])
    <3>1. /\ n \in Nat
          /\ Len(operations'[u]) = n + 1
          /\ operations'[u][n + 1] = [reference |-> call[r].reference,
                                      delta |-> call[r].delta,
                                      after |-> seen[r] + call[r].delta]
      BY <2>7, CommitAppends
    <3>2. /\ seen'[r] = seen[r] + call[r].delta
          /\ call' = call /\ reply' = reply
      BY <2>7 DEF Commit, CommitOf, TypeOK
    <3>3. InJournal(r, seen[r])'
      BY <3>1, <3>2 DEF InJournal
    <3> QED BY <2>1, <3>2, <3>3 DEF AnswerInv, AnsweredFromJournal, InJournal
  <2>8. CASE Invalidate(r)
    <3>1. /\ InJournal(r, seen[r])
          /\ reply'[r].value = seen[r]
          /\ call' = call /\ pc'[r] = "idle"
      BY <2>8 DEF Invalidate, Respond, AnswerInv, TypeOK
    <3> QED BY <2>1, <3>1 DEF InJournal
  <2>9. ASSUME NEW q \in Request, q # r,
               StartInternal(q) \/ StartManual(q) \/ StartRead(q) \/ Progress(q) \/ Die(q)
        PROVE  UNCHANGED <<pc[r], call[r], seen[r], reply[r]>>
    BY <2>9
    DEF Progress, StartInternal, StartManual, StartRead, Begin, Replay, Conflict,
        NotFoundYet, GetForUpdate, UserMissing, RejectInsufficient, RefuseDuplicate,
        Commit, CommitOf, Invalidate, ReadHit, ReadMiss, Fill, Die, Respond, TypeOK
  <2>10. (UNCHANGED vars \/ \E u \in User : Expire(u))
             => UNCHANGED <<pc[r], call[r], seen[r], reply[r]>>
    BY DEF Expire, vars
  <2> QED
    BY <2>2, <2>3, <2>4, <2>5, <2>6, <2>7, <2>8, <2>9, <2>10 DEF Next, Progress
<1>3. AnswerInv => AnsweredFromJournal
  BY DEF AnswerInv
<1> QED BY <1>1, <1>2, <1>3, WalletTyped, PTL DEF Spec
-----------------------------------------------------------------------------
(* An internal request loads the balance under the row lock, whatever the  *)
(* public routes do, and every request holds the lock until it has written. *)
SerialInv ==
    \A r \in Request :
        /\ pc[r] \in {"lookup", "lock"} /\ call[r].reference \notin ManualReference
               => seen[r] = None
        /\ pc[r] = "apply" => lock[call[r].user] = r
        /\ pc[r] = "apply" /\ call[r].reference \notin ManualReference
               => seen[r] = balance[call[r].user]

LEMMA SerialInvHolds == Spec => []SerialInv
<1>1. Init => SerialInv
  BY DEF Init, SerialInv
<1>2. TypeOK /\ SerialInv /\ [Next]_vars => SerialInv'
  <2> DEFINE Serial(r) ==
        /\ pc[r] \in {"lookup", "lock"} /\ call[r].reference \notin ManualReference
               => seen[r] = None
        /\ pc[r] = "apply" => lock[call[r].user] = r
        /\ pc[r] = "apply" /\ call[r].reference \notin ManualReference
               => seen[r] = balance[call[r].user]
  <2> SUFFICES ASSUME TypeOK, SerialInv, [Next]_vars, NEW r \in Request
               PROVE  Serial(r)'
    BY DEF SerialInv
  <2>1. None \notin Request /\ call[r].user \in User
    BY WalletAssumption DEF TypeOK, Call
  <2>2. CASE UNCHANGED <<pc[r], call[r], seen[r], lock, balance>>
    BY <2>2 DEF SerialInv
  <2>3. CASE StartInternal(r)
    BY <2>3 DEF StartInternal, Begin, TypeOK
  <2>4. CASE StartManual(r)
    BY <2>4 DEF StartManual, Begin, TypeOK
  <2>5. CASE StartRead(r)
    BY <2>5 DEF StartRead, Begin, TypeOK
  <2>6. CASE \/ Replay(r) \/ Conflict(r) \/ UserMissing(r) \/ RejectInsufficient(r)
             \/ RefuseDuplicate(r) \/ Commit(r) \/ Invalidate(r) \/ ReadHit(r)
             \/ ReadMiss(r) \/ Fill(r) \/ Die(r)
    BY <2>6 DEF Replay, Conflict, UserMissing, RejectInsufficient, RefuseDuplicate,
                Commit, CommitOf, Invalidate, ReadHit, ReadMiss, Fill, Die, Respond, TypeOK
  <2>7. CASE NotFoundYet(r)
    BY <2>7 DEF NotFoundYet, SerialInv, TypeOK
  <2>8. CASE GetForUpdate(r)
    BY <2>1, <2>8 DEF GetForUpdate, Loaded, SerialInv, TypeOK
  <2>9. ASSUME NEW q \in Request, q # r,
               StartInternal(q) \/ StartManual(q) \/ StartRead(q) \/ Progress(q) \/ Die(q)
        PROVE  UNCHANGED <<pc[r], call[r], seen[r]>>
    BY <2>9
    DEF Progress, StartInternal, StartManual, StartRead, Begin, Replay, Conflict,
        NotFoundYet, GetForUpdate, UserMissing, RejectInsufficient, RefuseDuplicate,
        Commit, CommitOf, Invalidate, ReadHit, ReadMiss, Fill, Die, Respond, TypeOK
  <2>10. ASSUME NEW q \in Request, q # r, pc[r] = "apply",
                StartInternal(q) \/ StartManual(q) \/ StartRead(q) \/ Progress(q) \/ Die(q)
         PROVE  /\ lock'[call[r].user] = r
                /\ balance'[call[r].user] = balance[call[r].user]
    <3>1. lock[call[r].user] = r
      BY <2>10 DEF SerialInv
    <3>2. CASE GetForUpdate(q)
      BY <2>1, <3>1, <3>2 DEF GetForUpdate, TypeOK, Call
    <3>3. CASE Commit(q)
      <4>1. lock[call[q].user] = q
        BY <3>3 DEF Commit, CommitOf, SerialInv
      <4>2. call[q].user # call[r].user
        BY <2>10, <3>1, <4>1
      <4> QED BY <2>1, <2>10, <3>1, <3>3, <4>2 DEF Commit, CommitOf, Unlock, TypeOK
    <3>4. CASE ~GetForUpdate(q) /\ ~Commit(q)
      BY <2>1, <2>10, <3>1, <3>4
      DEF Progress, StartInternal, StartManual, StartRead, Begin, Replay, Conflict,
          NotFoundYet, UserMissing, RejectInsufficient, RefuseDuplicate,
          Invalidate, ReadHit, ReadMiss, Fill, Die, Unlock, TypeOK
    <3> QED BY <3>2, <3>3, <3>4
  <2>11. ASSUME NEW q \in Request, q # r,
               StartInternal(q) \/ StartManual(q) \/ StartRead(q) \/ Progress(q) \/ Die(q)
        PROVE  Serial(r)'
    BY <2>9, <2>10, <2>11 DEF SerialInv
  <2>12. (UNCHANGED vars \/ \E u \in User : Expire(u))
             => UNCHANGED <<pc[r], call[r], seen[r], lock, balance>>
    BY DEF Expire, vars
  <2> QED
    BY <2>2, <2>3, <2>4, <2>5, <2>6, <2>7, <2>8, <2>11, <2>12 DEF Next, Progress
<1> QED BY <1>1, <1>2, WalletTyped, PTL DEF Spec

(* What the i-th change of a user left, and the balances a user has had.   *)
After(u, i) == IF i = 0 THEN 0 ELSE operations[u][i].after
Had(u, v) == \E i \in 0..Len(operations[u]) : After(u, i) = v

(* Every balance anybody keeps was committed once, and the user's own is   *)
(* what the last change left.                                              *)
KnownInv ==
    /\ \A u \in User : balance[u] = After(u, Len(operations[u]))
    /\ \A u \in User : cache[u] # None => Had(u, cache[u])
    /\ \A r \in Request : pc[r] # "idle" /\ seen[r] # None => Had(call[r].user, seen[r])

(* Whatever a user has had, it goes on having had.                         *)
LEMMA HadStays ==
    ASSUME TypeOK, TypeOK', [Next]_vars, NEW u \in User, NEW v, Had(u, v)
    PROVE  Had(u, v)'
<1>1. PICK i \in 0..Len(operations[u]) : After(u, i) = v
  BY DEF Had
<1>2. CASE i = 0
  <2>1. Len(operations[u]) \in Nat /\ 0 \in 0..Len(operations[u])
    BY LenProperties DEF TypeOK
  <2>2. Len(operations'[u]) \in Nat
    BY LenProperties DEF TypeOK
  <2> QED BY <1>1, <1>2, <2>2 DEF Had, After
<1>3. CASE i # 0
  <2>1. i \in 1..Len(operations[u])
    BY <1>3, LenProperties DEF TypeOK
  <2>2. i \in 1..Len(operations'[u]) /\ operations'[u][i] = operations[u][i]
    BY <2>1, JournalGrows
  <2>3. i \in 0..Len(operations'[u]) /\ After(u, i)' = v
    BY <1>1, <1>3, <2>2 DEF After
  <2> QED BY <2>3 DEF Had
<1> QED BY <1>2, <1>3

LEMMA KnownInvHolds == Spec => []KnownInv
<1>1. Init => KnownInv
  BY DEF Init, KnownInv, After
<1>2. TypeOK /\ TypeOK' /\ KnownInv /\ [Next]_vars => KnownInv'
  <2> SUFFICES ASSUME TypeOK, TypeOK', KnownInv, [Next]_vars PROVE KnownInv'
    OBVIOUS
  <2>1. \A u \in User : Had(u, balance[u])
    <3>1. \A u \in User : Len(operations[u]) \in Nat
      BY LenProperties DEF TypeOK
    <3> QED BY <3>1 DEF KnownInv, Had
  <2>2. ASSUME NEW u \in User PROVE (balance[u] = After(u, Len(operations[u])))'
    <3>1. CASE UNCHANGED <<balance, operations>>
      BY <3>1 DEF KnownInv, After
    <3>2. ASSUME NEW r \in Request, Commit(r) PROVE (balance[u] = After(u, Len(operations[u])))'
      <4>1. CASE u = call[r].user
        <5>1. balance'[u] = seen[r] + call[r].delta
          BY <3>2, <4>1 DEF Commit, CommitOf, TypeOK
        <5>2. /\ Len(operations[u]) \in Nat
              /\ Len(operations'[u]) = Len(operations[u]) + 1
              /\ operations'[u][Len(operations[u]) + 1].after = seen[r] + call[r].delta
          BY <3>2, <4>1, CommitRow
        <5> QED BY <5>1, <5>2 DEF After
      <4>2. CASE u # call[r].user
        <5>1. operations'[u] = operations[u]
          BY <3>2, <4>2, CommitAppends
        <5>2. balance'[u] = balance[u]
          BY <3>2, <4>2 DEF Commit, CommitOf, TypeOK
        <5> QED BY <5>1, <5>2 DEF KnownInv, After
      <4> QED BY <4>1, <4>2
    <3> QED BY <3>1, <3>2, OnlyCommitWrites
  <2>3. ASSUME NEW u \in User, cache'[u] # None PROVE Had(u, cache[u])'
    <3>1. CASE cache'[u] = cache[u]
      BY <2>3, <3>1, HadStays DEF KnownInv
    <3>2. CASE cache'[u] # cache[u]
      <4>1. PICK r \in Request : Fill(r)
        BY <2>3, <3>2
        DEF Next, Progress, StartInternal, StartManual, StartRead, Begin, Replay,
            Conflict, NotFoundYet, GetForUpdate, UserMissing, RejectInsufficient,
            RefuseDuplicate, Commit, CommitOf, Invalidate, ReadHit, ReadMiss, Die,
            Expire, vars, TypeOK
      <4>2. u = call[r].user /\ cache'[u] = seen[r]
        BY <3>2, <4>1 DEF Fill, TypeOK
      <4>3. Had(u, seen[r])
        BY <2>3, <4>1, <4>2 DEF Fill, KnownInv
      <4> QED BY <4>2, <4>3, HadStays
    <3> QED BY <3>1, <3>2
  <2>4. ASSUME NEW r \in Request, pc'[r] # "idle", seen'[r] # None
        PROVE  Had(call[r].user, seen[r])'
    <3>1. call'[r].user \in User
      BY DEF TypeOK, Call
    <3>2. CASE pc[r] # "idle" /\ seen'[r] = seen[r] /\ call'[r] = call[r]
      BY <2>4, <3>1, <3>2, HadStays DEF KnownInv
    <3>3. CASE seen'[r] = balance[call'[r].user]
      BY <2>1, <3>1, <3>3, HadStays
    <3>4. CASE Commit(r)
      <4>1. /\ call'[r].user = call[r].user
            /\ seen'[r] = seen[r] + call[r].delta
        BY <3>4 DEF Commit, CommitOf, TypeOK
      <4>2. PICK n \in Nat : /\ Len(operations'[call[r].user]) = n + 1
                             /\ operations'[call[r].user][n + 1].after = seen[r] + call[r].delta
        BY <3>4, CommitRow
      <4>3. n + 1 \in 0..Len(operations'[call'[r].user]) /\ n + 1 # 0
        BY <4>1, <4>2
      <4>4. After(call[r].user, n + 1)' = seen'[r]
        BY <4>1, <4>2, <4>3 DEF After
      <4> QED BY <4>3, <4>4 DEF Had
    <3>5. CASE \E q \in Request :
                 StartInternal(q) \/ StartManual(q) \/ StartRead(q) \/ Progress(q) \/ Die(q)
      <4>1. PICK q \in Request :
                StartInternal(q) \/ StartManual(q) \/ StartRead(q) \/ Progress(q) \/ Die(q)
        BY <3>5
      <4>2. CASE q # r
        BY <2>4, <3>2, <4>1, <4>2
        DEF Progress, StartInternal, StartManual, StartRead, Begin, Replay, Conflict,
            NotFoundYet, GetForUpdate, UserMissing, RejectInsufficient, RefuseDuplicate,
            Commit, CommitOf, Invalidate, ReadHit, ReadMiss, Fill, Die, Respond, TypeOK
      <4>3. CASE q = r
        <5>1. CASE StartInternal(r) \/ StartManual(r) \/ StartRead(r)
          BY <2>4, <3>3, <5>1 DEF StartInternal, StartManual, StartRead, Begin, TypeOK
        <5>2. CASE GetForUpdate(r)
          BY <3>2, <3>3, <5>2 DEF GetForUpdate, Loaded, TypeOK
        <5>3. CASE NotFoundYet(r) \/ ReadMiss(r)
          BY <3>2, <5>3 DEF NotFoundYet, ReadMiss
        <5>4. CASE \/ Replay(r) \/ Conflict(r) \/ UserMissing(r) \/ RejectInsufficient(r)
                   \/ RefuseDuplicate(r) \/ Invalidate(r) \/ ReadHit(r) \/ Fill(r) \/ Die(r)
          BY <2>4, <5>4
          DEF Replay, Conflict, UserMissing, RejectInsufficient, RefuseDuplicate,
              Invalidate, ReadHit, Fill, Die, Respond, TypeOK
        <5> QED BY <3>4, <4>1, <4>3, <5>1, <5>2, <5>3, <5>4 DEF Progress
      <4> QED BY <4>1, <4>2, <4>3
    <3>6. CASE (\E u \in User : Expire(u)) \/ UNCHANGED vars
      BY <2>4, <3>2, <3>6 DEF Expire, vars
    <3> QED BY <3>5, <3>6 DEF Next
  <2> QED BY <2>2, <2>3, <2>4 DEF KnownInv
<1> QED BY <1>1, <1>2, WalletTyped, PTL DEF Spec

(* What Redis answers with was the committed balance at some time, whoever *)
(* fills the cache late.                                                   *)
THEOREM WalletCacheWasCommitted == Spec => []CachedBalanceWasCommitted
<1>1. TypeOK /\ KnownInv => CachedBalanceWasCommitted
  <2> SUFFICES ASSUME TypeOK, KnownInv, NEW u \in User, cache[u] # None
               PROVE  \/ cache[u] = 0
                      \/ \E i \in 1..Len(operations[u]) : operations[u][i].after = cache[u]
    BY DEF CachedBalanceWasCommitted
  <2>1. PICK i \in 0..Len(operations[u]) : After(u, i) = cache[u]
    BY DEF KnownInv, Had
  <2>2. Len(operations[u]) \in Nat
    BY LenProperties DEF TypeOK
  <2> QED BY <2>1, <2>2 DEF After
<1> QED BY <1>1, WalletTyped, KnownInvHolds, PTL

(* The bases a change may build on.                                        *)
Based(u, i) ==
    LET op == operations[u][i]
        bases == IF op.reference \in ManualReference THEN 0..i - 1 ELSE {i - 1}
    IN  \E j \in bases : op.after = After(u, j) + op.delta

(* Deposits and withdrawals are all that can write over a balance: an      *)
(* internal change builds on the committed one although it races them.     *)
THEOREM OnlyManualUpdatesOverwrite == Spec => []OnlyManualOverwrites
<1> DEFINE Chain == \A u \in User : \A i \in 1..Len(operations[u]) : Based(u, i)
<1>1. Init => Chain
  BY DEF Init
<1>2. TypeOK /\ SerialInv /\ KnownInv /\ Chain /\ [Next]_vars => Chain'
  <2> SUFFICES ASSUME TypeOK, SerialInv, KnownInv, Chain, [Next]_vars,
                      NEW u \in User, NEW i \in 1..Len(operations'[u])
               PROVE  Based(u, i)'
    OBVIOUS
  <2>1. Len(operations[u]) \in Nat
    BY LenProperties DEF TypeOK
  <2>2. CASE i \in 1..Len(operations[u])
    <3>1. \A j \in 0..i : After(u, j)' = After(u, j)
      BY <2>1, <2>2, JournalGrows DEF After
    <3>2. operations'[u][i] = operations[u][i]
      BY <2>2, JournalGrows
    <3>3. Based(u, i)
      BY <2>2
    <3> QED BY <2>1, <2>2, <3>1, <3>2, <3>3 DEF Based
  <2>3. CASE i \notin 1..Len(operations[u])
    <3>1. PICK r \in Request : Commit(r)
      BY <2>3, OnlyCommitWrites
    <3>2. u = call[r].user
      BY <2>3, <3>1, CommitAppends
    <3> DEFINE n == Len(operations[u])
    <3>3. /\ Len(operations'[u]) = n + 1
          /\ operations'[u][n + 1].reference = call[r].reference
          /\ operations'[u][n + 1].delta = call[r].delta
          /\ operations'[u][n + 1].after = seen[r] + call[r].delta
      BY <3>1, <3>2, CommitRow
    <3>4. i = n + 1
      BY <2>1, <2>3, <3>3
    <3>5. /\ operations'[u][i].reference = call[r].reference
          /\ operations'[u][i].delta = call[r].delta
          /\ operations'[u][i].after = seen[r] + call[r].delta
      BY <3>3, <3>4
    <3>6. \A j \in 0..n : After(u, j)' = After(u, j)
      BY <2>1, JournalGrows DEF After
    <3>7. pc[r] = "apply" /\ seen[r] # None
      BY <3>1, WalletAssumption DEF Commit, CommitOf, TypeOK
    <3>8. CASE call[r].reference \in ManualReference
      <4>1. PICK j \in 0..n : After(u, j) = seen[r]
        BY <3>2, <3>7 DEF KnownInv, Had
      <4>2. j \in 0..i - 1 /\ After(u, j)' = seen[r]
        BY <2>1, <3>4, <3>6, <4>1
      <4> QED BY <3>5, <3>8, <4>2 DEF Based
    <3>9. CASE call[r].reference \notin ManualReference
      <4>1. seen[r] = After(u, n)
        BY <3>2, <3>7, <3>9 DEF SerialInv, KnownInv
      <4>2. i - 1 = n /\ i - 1 \in 0..n
        BY <2>1, <3>4
      <4>3. After(u, i - 1)' = seen[r]
        BY <3>6, <4>1, <4>2
      <4> QED BY <3>5, <3>9, <4>3 DEF Based
    <3> QED BY <3>8, <3>9
  <2> QED BY <2>2, <2>3
<1>3. KnownInv /\ Chain => OnlyManualOverwrites
  BY DEF KnownInv, OnlyManualOverwrites, Based, After
<1> QED BY <1>1, <1>2, <1>3, WalletTyped, SerialInvHolds, KnownInvHolds, PTL DEF Spec

(* While money moves only through the internal routes, the interleaved     *)
(* program with its locks, caches and deaths implements the atomic ledger. *)
THEOREM WalletImplementsLedger ==
    ASSUME ManualReference = {} PROVE Spec => RefinesLedger
<1>1. Init => Journal!Init
  BY DEF Init, Journal!Init
<1>2. TypeOK /\ SerialInv /\ [Next]_vars => [Journal!Next]_(Journal!vars)
  <2>1. ASSUME TypeOK, SerialInv, NEW r \in Request, Commit(r)
        PROVE  Journal!Next
    <3>1. pc[r] = "apply" /\ seen[r] = balance[call[r].user]
      BY <2>1 DEF Commit, CommitOf, SerialInv
    <3>2. /\ call[r].user \in User
          /\ call[r].reference \in Reference /\ call[r].delta \in Delta
      BY <2>1, <3>1 DEF TypeOK, Call
    <3>3. Journal!Apply(call[r].user, call[r].reference, call[r].delta)
      BY <2>1, <3>1 DEF Commit, CommitOf, Journal!Apply
    <3> QED BY <3>2, <3>3 DEF Journal!Next
  <2> QED BY <2>1, OnlyCommitWrites DEF Journal!vars
<1> QED BY <1>1, <1>2, WalletTyped, SerialInvHolds, PTL DEF Spec, RefinesLedger, Journal!Spec

(* Hence no internal debit or credit is ever lost.  Deposits are left out  *)
(* for a reason: with them the theorem is false.                           *)
THEOREM NoInternalUpdateLost ==
    ASSUME ManualReference = {} PROVE Spec => []JournalExplainsBalance
<1>1. Journal!JournalExplainsBalance => JournalExplainsBalance
  BY DEF JournalExplainsBalance
<1> QED BY <1>1, LedgerExplainsBalance, WalletImplementsLedger, PTL DEF RefinesLedger
=============================================================================
