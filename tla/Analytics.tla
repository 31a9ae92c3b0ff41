------------------------------ MODULE Analytics -----------------------------
(***************************************************************************)
(* analytics-service: one task reads the two topics of Kafka, stores every *)
(* event once in MongoDB, deletes the cached overview and commits the      *)
(* offsets; reports are computed from the stored events.  Producers may    *)
(* send an event twice, MongoDB and Kafka may fail, answers may be lost,   *)
(* the process may die and be restarted.                                   *)
(***************************************************************************)
EXTENDS Reports

CONSTANTS Event, Topic, Reader,
          TopicOf,     \* event -> the topic its producer sends it to
          Valid,       \* the messages that are events
          Backlog,     \* topic -> what Kafka holds when the service first starts
          Always,      \* the window of a report without dates
          Windows,     \* the windows reports are asked for
          MaxFaults, None

ASSUME AnalyticsAssumption ==
    /\ TopicOf \in [Event -> Topic] /\ Backlog \in [Topic -> Seq(Event)] /\ Valid \subseteq Event
    /\ Unit \in Nat \ {0} /\ MaxFaults \in Nat
    /\ \A e \in Valid : Body[e].at \in Always[1]..Always[2]
    /\ \A w \in Windows : w[1] \in Int /\ w[2] \in Int

\* create_order adds up the amount from the items it puts into the event.
ASSUME BodyAssumption ==
    \A e \in Valid :
        /\ Body[e].amount \in Int /\ IsFiniteSet(DOMAIN Body[e].items)
        /\ \A i \in DOMAIN Body[e].items :
               Body[e].items[i].quantity \in Int /\ Body[e].items[i].price \in Int
        /\ Body[e].type = "order.created" =>
               Body[e].amount = SumFunction([i \in DOMAIN Body[e].items |->
                                    Body[e].items[i].quantity * Body[e].items[i].price])

VARIABLES log,        \* topic -> its messages
          position,   \* topic -> messages the task has read
          offset,     \* topic -> messages that are committed for the consumer group
          docs,       \* the collection analytics_events, in the order of its inserts
          task,       \* the task of start_consuming
          entry, reader, kept,   \* CacheAside: the cached overview
          faults

Cache == INSTANCE CacheAside

cached == <<entry, reader, kept>>
kafka == <<log, position, offset>>
vars == <<kafka, docs, task, cached, faults>>

Published == UNION {Range(log[t]) : t \in Topic}
Stored == Range(docs)
At(pc, e) == [pc |-> pc, event |-> e]
Idle == At("idle", None)

TypeOK ==
    /\ log \in [Topic -> Seq(Event)] /\ docs \in Seq(Valid)
    /\ \A t \in Topic : position[t] \in 0..Len(log[t]) /\ offset[t] \in 0..position[t]
    /\ task \in [pc : {"idle", "insert", "uncache", "commit", "ended"}, event : Event \cup {None}]
    /\ kept \in BOOLEAN /\ faults \in 0..MaxFaults

\* auto_offset_reset of a new consumer group is earliest.
Init ==
    /\ log = Backlog
    /\ position = [t \in Topic |-> 0] /\ offset = position
    /\ docs = <<>> /\ task = Idle
    /\ Cache!CacheInit
    /\ faults = 0

Fault == faults < MaxFaults /\ faults' = faults + 1

-----------------------------------------------------------------------------
(* The producers of order-service and payment-service                      *)

Appended(e) == log' = [log EXCEPT ![TopicOf[e]] = Append(@, e)]
Publish(e) ==
    /\ e \notin Published /\ Appended(e)
    /\ UNCHANGED <<position, offset, docs, task, cached, faults>>

\* The acknowledgement of Kafka is lost, and the producer sends the event again.
SendAgain(e) ==
    /\ Fault /\ e \in Published /\ Appended(e)
    /\ UNCHANGED <<position, offset, docs, task, cached>>

-----------------------------------------------------------------------------
(* start_consuming and process                                             *)

TakeCommitting(t) ==
    /\ task.pc = "idle" /\ position[t] < Len(log[t])
    /\ LET e == log[t][position[t] + 1]
       IN task' = At(IF e \in Valid THEN "insert" ELSE "commit", e)
    /\ position' = [position EXCEPT ![t] = @ + 1]
    /\ offset' = position'
    /\ UNCHANGED <<log, docs, cached, faults>>
TakeStopping(t) ==
    /\ task.pc = "idle" /\ position[t] < Len(log[t])
    /\ LET e == log[t][position[t] + 1]
       IN e \in Valid /\ task' = At("insert", e)
    /\ position' = [position EXCEPT ![t] = @ + 1]
    /\ UNCHANGED <<log, offset, docs, cached, faults>>

\* The next message; one that is no event is skipped.
Take(t) ==
    /\ task.pc = "idle" /\ position[t] < Len(log[t])
    /\ LET e == log[t][position[t] + 1]
       IN task' = At(IF e \in Valid THEN "insert" ELSE "commit", e)
    /\ position' = [position EXCEPT ![t] = @ + 1]
    /\ UNCHANGED <<log, offset, docs, cached, faults>>

\* The unique index refuses an event that is stored, and its delivery ends there.
InsertAgain ==
    /\ task.pc = "insert"
    /\ docs' = Append(docs, task.event)
    /\ task' = At("uncache", task.event)
    /\ Cache!Change
    /\ UNCHANGED <<kafka, faults>>
Insert ==
    /\ task.pc = "insert"
    /\ IF task.event \in Stored
       THEN task' = At("commit", task.event) /\ UNCHANGED <<docs, cached>>
       ELSE /\ docs' = Append(docs, task.event)
            /\ task' = At("uncache", task.event)
            /\ Cache!Change
    /\ UNCHANGED <<kafka, faults>>

UncacheLater ==
    /\ task.pc = "uncache" /\ task' = At("commit", task.event)
    /\ UNCHANGED <<kafka, docs, cached, faults>>
Uncache ==
    /\ task.pc = "uncache" /\ task' = At("commit", task.event)
    /\ Cache!Delete
    /\ UNCHANGED <<kafka, docs, faults>>

\* consumer.commit() commits the positions of both topics.
Commit ==
    /\ task.pc = "commit" /\ task' = Idle
    /\ offset' = position
    /\ UNCHANGED <<log, position, docs, cached, faults>>

-----------------------------------------------------------------------------
(* What may fail                                                           *)

\* MongoDB does not answer, having inserted or not: the loop tries again.
InsertFails ==
    /\ Fault /\ task.pc = "insert" /\ task.event \notin Stored
    /\ \/ UNCHANGED <<docs, cached>>
       \/ docs' = Append(docs, task.event) /\ Cache!ChangeKept
    /\ UNCHANGED <<kafka, task>>

UncacheFails ==
    /\ Fault /\ task.pc = "uncache" /\ task' = At("commit", task.event)
    /\ Cache!LoseDelete
    /\ UNCHANGED <<kafka, docs>>

\* A commit that fails, or whose answer is lost, is outside the loop: the task ends,
\* and the service runs on.
CommitFails ==
    /\ Fault /\ task.pc = "commit" /\ task' = At("ended", None)
    /\ offset' \in {offset, position}
    /\ UNCHANGED <<log, position, docs, cached>>

\* The process dies, and starts again at the committed offsets.
Restart ==
    /\ Fault
    /\ task' = Idle /\ position' = offset
    /\ Cache!Restarted(task.pc = "uncache")
    /\ UNCHANGED <<log, offset, docs>>

-----------------------------------------------------------------------------
(* get_overview without dates, through the cache                           *)

ReadOverview(r) == Cache!Load(r, GetOverview(docs, Always)) /\ UNCHANGED <<kafka, docs, task, faults>>
FillOverview(r) == Cache!Fill(r) /\ UNCHANGED <<kafka, docs, task, faults>>
DropRead(r) == Cache!NoFill(r) /\ UNCHANGED <<kafka, docs, task, faults>>
ExpireOverview == Cache!Expire /\ UNCHANGED <<kafka, docs, task, faults>>

Consume == (\E t \in Topic : Take(t)) \/ Insert \/ Uncache \/ Commit
Read == ExpireOverview \/ \E r \in Reader : ReadOverview(r) \/ FillOverview(r) \/ DropRead(r)

Next == \/ \E e \in Event : Publish(e) \/ SendAgain(e)
        \/ Consume \/ Read
        \/ InsertFails \/ UncacheFails \/ CommitFails \/ Restart

Spec == Init /\ [][Next]_vars

\* The event loop runs the task on; MongoDB accepts the event in the end.
FairSpec == Spec /\ WF_vars(Consume)

-----------------------------------------------------------------------------
(* Properties                                                              *)

\* kafka_consumer.py:17: no offset is committed before the events below it are stored.
CommittedIsStored ==
    \A t \in Topic : \A n \in 1..offset[t] : log[t][n] \in Valid => log[t][n] \in Stored

\* Whatever order the events arrived in and however often, every report is the one
\* of the same events arriving once, in the order they occurred; the top list may be
\* the same ones (products that tie come in any order, whatever arrived first).
InOrder(S) == CHOOSE s \in Ranked(S, LAMBDA d, e : Body[d].at < Body[e].at) : TRUE
ReportsIgnoreArrival ==
    LET once == InOrder(Stored)
    IN \A w \in Windows : AllReports(docs, w, 1) = AllReports(once, w, 1)

\* The reports of one window agree with each other, and with those of its parts: two
\* windows that meet share nothing, two that share an end both count what is there.
ReportsAgree ==
    \A w \in Windows :
        LET overview == GetOverview(docs, w)
            revenue == GetRevenue(docs, w)
            orders == GetOrders(docs, w)
            net(t) == revenue[t].net
            netOf(a, b) == GetOverview(docs, <<a, b>>).net
        IN /\ GetPayments(docs, w).payments = overview.payments
           /\ Sum(DOMAIN revenue, net) = overview.net
           /\ orders.orders = overview.orders
           /\ \A products \in GetTopProducts(docs, Cardinality(Lines(docs, w)), w) :
                  LET earned(i) == products[i].revenue
                  IN Sum(DOMAIN products, earned) = orders.value
           /\ \A m \in w[1]..(w[2] - 1) :
                  /\ netOf(w[1], m) + netOf(m + 1, w[2]) = overview.net
                  /\ netOf(w[1], m) + netOf(m, w[2]) = overview.net + netOf(m, m)

\* A cached overview lacks an event only when its fill overlapped the insert, or the
\* delete is still to come or was lost.
CachedOverviewStaleOnlyIfLate ==
    Cache!StaleOnlyIfLate(GetOverview(docs, Always), task.pc = "uncache")

\* Every published event is stored in the end, unless a failed commit ended the task.
EventsAreStored == \A e \in Valid : (e \in Published) ~> (e \in Stored \/ task.pc = "ended")
=============================================================================
