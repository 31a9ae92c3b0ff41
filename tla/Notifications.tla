---------------------------- MODULE Notifications ---------------------------
(***************************************************************************)
(* notification-service: events of order-service and payment-service wait  *)
(* in two queues; one consumer at a time (a lock over both) stores each as *)
(* a notification, deletes the cached list of its user, pushes it to the   *)
(* user's open sockets and acknowledges the event.  The lists are read     *)
(* over HTTP through the cache.  The process may die and be restarted, the *)
(* broker may lose the consumer's connection, the database may refuse.     *)
(***************************************************************************)
EXTENDS Sockets, FiniteSets, FiniteSetsExt, SequencesExt

CONSTANTS User, Event, Queue, Reader,
          QueueOf,     \* event -> the queue its routing key binds it to
          UserOf,      \* event -> the user it is about
          ConnUser,    \* conn -> the user of its access token
          Readable,    \* the events that are well-formed and of a known kind
          Waiting,     \* the events that wait in the durable queues when the service starts
          Watched,     \* the user whose list is read through the cache
          MaxFaults, None

ASSUME NotificationsAssumption ==
    /\ QueueOf \in [Event -> Queue] /\ UserOf \in [Event -> User]
    /\ ConnUser \in [Conn -> User]
    /\ Readable \cup Waiting \subseteq Event /\ IsFiniteSet(Waiting)
    /\ Watched \in User /\ MaxFaults \in Nat /\ None \notin Event

VARIABLES published,  \* events the other services have published
          queue,      \* queue -> events not acknowledged, oldest first
          rows,       \* the notifications, in the order of their commits: events
          job,        \* the handler that holds the lock
          entry, reader, kept,   \* CacheAside: the cached list of Watched
          since,      \* conn -> how many rows there were when it was registered
          faults

Cache == INSTANCE CacheAside

cached == <<entry, reader, kept>>
handler == <<published, queue, rows, job, since, faults>>
vars == <<handler, cached, sockets>>

Idle == [pc |-> "idle", event |-> None, row |-> 0, targets |-> {}, broken |-> {}, acks |-> TRUE]

TypeOK ==
    /\ SocketsTypeOK
    /\ published \subseteq Event
    /\ queue \in [Queue -> Seq(Event)]
    /\ rows \in Seq(Event)
    /\ job \in [pc : {"idle", "store", "uncache", "copy", "send", "forget"},
                event : Event \cup {None}, row : 0..Len(rows),
                targets : SUBSET Conn, broken : SUBSET Conn, acks : BOOLEAN]
    /\ kept \in BOOLEAN /\ since \in [Conn -> Nat] /\ faults \in 0..MaxFaults

Init ==
    /\ SocketsInit /\ Cache!CacheInit
    /\ published = Waiting
    /\ queue = [q \in Queue |-> SetToSeq({e \in Waiting : QueueOf[e] = q})]
    /\ rows = <<>> /\ job = Idle
    /\ since = [c \in Conn |-> 0] /\ faults = 0

List == {n \in DOMAIN rows : UserOf[rows[n]] = Watched}

-----------------------------------------------------------------------------
(* The broker                                                              *)

Publish(e) ==
    /\ e \notin published
    /\ published' = published \cup {e}
    /\ queue' = [queue EXCEPT ![QueueOf[e]] = Append(@, e)]
    /\ UNCHANGED <<rows, job, since, faults, cached, sockets>>

Acknowledged(q) == [queue EXCEPT ![q] = Tail(@)]

-----------------------------------------------------------------------------
(* _handle_order_events and _handle_payment_events                         *)

TakeRequeueing(q) ==
    /\ job.pc = "idle" /\ queue[q] # <<>> /\ Head(queue[q]) \in Readable
    /\ job' = [Idle EXCEPT !.pc = "store", !.event = Head(queue[q])]
    /\ UNCHANGED <<published, queue, rows, since, faults, cached, sockets>>

\* The oldest event of a queue; one that cannot be read is acknowledged and gone.
Take(q) ==
    /\ job.pc = "idle" /\ queue[q] # <<>>
    /\ \/ /\ Head(queue[q]) \in Readable
          /\ job' = [Idle EXCEPT !.pc = "store", !.event = Head(queue[q])]
          /\ UNCHANGED queue
       \/ /\ Head(queue[q]) \notin Readable
          /\ queue' = Acknowledged(q)
          /\ UNCHANGED job
    /\ UNCHANGED <<published, rows, since, faults, cached, sockets>>

Store ==
    /\ job.pc = "store"
    /\ rows' = Append(rows, job.event)
    /\ job' = [job EXCEPT !.pc = "uncache", !.row = Len(rows')]
    /\ IF UserOf[job.event] = Watched THEN Cache!Change ELSE UNCHANGED cached
    /\ UNCHANGED <<published, queue, since, faults, sockets>>

DeleteOther ==
    /\ job.pc = "uncache"
    /\ job' = [job EXCEPT !.pc = "copy"]
    /\ UNCHANGED <<published, queue, rows, since, faults, cached, sockets>>
DeleteList ==
    /\ job.pc = "uncache"
    /\ job' = [job EXCEPT !.pc = "copy"]
    /\ IF UserOf[job.event] = Watched THEN Cache!Delete ELSE UNCHANGED cached
    /\ UNCHANGED <<published, queue, rows, since, faults, sockets>>

\* send_to_user: the connections are copied under the lock of the registry, ...
CopyTargets ==
    /\ job.pc = "copy"
    /\ job' = [job EXCEPT !.pc = "send",
                          !.targets = {c \in registry : ConnUser[c] = UserOf[job.event]}]
    /\ UNCHANGED <<published, queue, rows, since, faults, cached, sockets>>

SendRaising(c) ==
    /\ job.pc = "send" /\ c \in job.targets
    /\ \/ PushOk(c, job.row) /\ job' = [job EXCEPT !.targets = @ \ {c}]
       \/ PushFails(c) /\ job' = Idle
    /\ UNCHANGED <<published, queue, rows, since, faults, cached>>

\* ... sent to one after the other, ...
Send(c) ==
    /\ job.pc = "send" /\ c \in job.targets
    /\ \/ /\ PushOk(c, job.row)
          /\ job' = [job EXCEPT !.targets = @ \ {c}]
       \/ /\ PushFails(c)
          /\ job' = [job EXCEPT !.targets = @ \ {c}, !.broken = @ \cup {c}]
    /\ UNCHANGED <<published, queue, rows, since, faults, cached>>
SendNoMore ==
    /\ job.pc = "send" /\ job.targets = {}
    /\ job' = [job EXCEPT !.pc = "forget"]
    /\ UNCHANGED <<published, queue, rows, since, faults, cached, sockets>>

\* ... and the broken ones forgotten.
ForgetBroken(c) ==
    /\ job.pc = "forget" /\ c \in job.broken
    /\ Forget(c)
    /\ job' = [job EXCEPT !.broken = @ \ {c}]
    /\ UNCHANGED <<published, queue, rows, since, faults, cached>>

\* message.process acknowledges; on a connection that was lost it fails.
Ack ==
    /\ job.pc = "forget" /\ job.broken = {}
    /\ queue' = IF job.acks THEN Acknowledged(QueueOf[job.event]) ELSE queue
    /\ job' = Idle
    /\ UNCHANGED <<published, rows, since, faults, cached, sockets>>

-----------------------------------------------------------------------------
(* What may fail                                                           *)

Fault == faults < MaxFaults /\ faults' = faults + 1

\* The insert or the commit fails: rollback, and the event is requeued.
StoreFails ==
    /\ Fault /\ job.pc = "store"
    /\ job' = Idle
    /\ UNCHANGED <<published, queue, rows, since, cached, sockets>>

\* Redis does not answer the delete: a warning, and the handler goes on.
DeleteFails ==
    /\ Fault /\ job.pc = "uncache"
    /\ job' = [job EXCEPT !.pc = "copy"]
    /\ IF UserOf[job.event] = Watched THEN Cache!LoseDelete ELSE UNCHANGED cached
    /\ UNCHANGED <<published, queue, rows, since, sockets>>

\* The broker requeues what its lost connection had delivered.
LoseBroker ==
    /\ Fault /\ job.pc # "idle"
    /\ job' = [job EXCEPT !.acks = FALSE]
    /\ UNCHANGED <<published, queue, rows, since, cached, sockets>>

\* The event whose list was not deleted is handled again, and deletes it then.
Crash ==
    /\ Fault
    /\ job' = Idle
    /\ Cache!NobodyFills
    /\ DropAll
    /\ UNCHANGED <<published, queue, rows, since>>

-----------------------------------------------------------------------------
(* get_notifications_by_user_id, and the sockets                           *)

ReadList(r) == Cache!Load(r, List) /\ UNCHANGED <<handler, sockets>>
FillList(r) == Cache!Fill(r) /\ UNCHANGED <<handler, sockets>>
DropRead(r) == Cache!NoFill(r) /\ UNCHANGED <<handler, sockets>>
ExpireList == Cache!Expire /\ UNCHANGED <<handler, sockets>>

Registered == since' = [c \in Conn |-> IF c \in registry' \ registry THEN Len(rows) ELSE since[c]]
Socket(step) == step /\ Registered /\ UNCHANGED <<published, queue, rows, job, faults, cached>>
Serve(c) == Socket(Serving(c))

Handle == \/ \E q \in Queue : Take(q)
          \/ Store \/ DeleteList \/ CopyTargets \/ SendNoMore \/ Ack
          \/ \E c \in Conn : Send(c) \/ ForgetBroken(c)
Read == ExpireList \/ \E r \in Reader : ReadList(r) \/ FillList(r) \/ DropRead(r)

Next == \/ \E e \in Event : Publish(e)
        \/ Handle \/ Read
        \/ Socket(Browsing) \/ \E c \in Conn : Serve(c)
        \/ StoreFails \/ DeleteFails \/ LoseBroker \/ Crash

Spec == Init /\ [][Next]_vars

\* The event loop runs the handler, the routes and the proxy on.
FairSpec == /\ Spec /\ WF_vars(Handle)
            /\ \A c \in Conn : WF_vars(Serve(c))

-----------------------------------------------------------------------------
(* Properties                                                              *)

\* A second notification of one event needs a fault between commit and acknowledgement.
DuplicateNeedsFault == Len(rows) <= Cardinality(Range(rows)) + faults

\* What a browser received was stored before, once per notification and in the order
\* of the commits, whatever the two queues and the sockets did.
Increasing(s) == \A i, j \in DOMAIN s : i < j => s[i] < s[j]
PushedInOrder ==
    \A c \in Conn : LET pushed == got[c] \o sent[c]
                    IN /\ Increasing(pushed)
                       /\ \A i \in DOMAIN pushed : pushed[i] \in DOMAIN rows
                                                   /\ UserOf[rows[pushed[i]]] = ConnUser[c]

\* A connection that is still whole has been sent every notification of its user
\* committed since it was registered, but for the one being handled.
WholeSocketMissesNothing ==
    \A c \in Conn : Whole(c) =>
        \A n \in since[c] + 1 .. Len(rows) :
            UserOf[rows[n]] = ConnUser[c] =>
                \/ \E i \in DOMAIN (got[c] \o sent[c]) : (got[c] \o sent[c])[i] = n
                \/ job.row = n /\ (job.pc \in {"uncache", "copy"} \/ c \in job.targets)

\* A cached list lacks a notification only when its fill overlapped the change, or
\* the delete is still to come or was lost.
DeleteToCome(e) ==
    /\ e \in Range(rows)
    /\ e \in Range(queue[QueueOf[e]])
    /\ job.event = e => job.pc \in {"store", "uncache"}
CachedListStaleOnlyIfLate ==
    Cache!StaleOnlyIfLate(List, \E e \in published : UserOf[e] = Watched /\ DeleteToCome(e))

\* consumer.py:19: a message is acknowledged only after its handler is done.  So every
\* event that can be read becomes a notification in the end, whatever dies on the way.
EventsAreStored == \A e \in Readable : (e \in published) ~> (e \in Range(rows))
=============================================================================
