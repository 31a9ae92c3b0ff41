--------------------------- MODULE AnalyticsProofs ---------------------------
(***************************************************************************)
(* What TLAPS proves of Analytics, for any events, topics, readers, faults *)
(* and backlog: an offset is committed only over events that are stored; a *)
(* cached overview lacks an event only when its fill was late or its       *)
(* delete is to come or was lost; the reports agree with each other, and   *)
(* do not depend on the order in which events arrived.                     *)
(***************************************************************************)
EXTENDS Analytics, FiniteSetTheorems, WellFoundedInduction, TLAPS


(* The parts of the state the theorems are about.                          *)
Typed ==
    /\ log \in [Topic -> Seq(Event)]
    /\ position \in [Topic -> Nat] /\ offset \in [Topic -> Nat]
    /\ \A t \in Topic : offset[t] <= position[t] /\ position[t] <= Len(log[t])
    /\ docs \in Seq(Valid)
    /\ task \in [pc : {"idle", "insert", "uncache", "commit", "ended"}, event : Event \cup {None}]
    /\ task.pc = "insert" => task.event \in Valid

(* An event the task has read is stored, or is the one it is storing.      *)
ReadIsStored ==
    \A t \in Topic : \A n \in 1..position[t] :
        log[t][n] \in Valid =>
            log[t][n] \in Stored \/ (task.pc = "insert" /\ task.event = log[t][n])

(* After a restart the task reads again from the committed offsets, so     *)
(* what is below them must be stored whatever it was doing.                *)
IInv == Typed /\ ReadIsStored /\ CommittedIsStored
-----------------------------------------------------------------------------
LEMMA AtFits ==
    ASSUME NEW pc \in {"idle", "insert", "uncache", "commit", "ended"}, NEW e \in Event \cup {None}
    PROVE  /\ At(pc, e) \in [pc : {"idle", "insert", "uncache", "commit", "ended"},
                             event : Event \cup {None}]
           /\ At(pc, e).pc = pc /\ At(pc, e).event = e
BY DEF At

LEMMA IdleFits ==
    /\ Idle \in [pc : {"idle", "insert", "uncache", "commit", "ended"}, event : Event \cup {None}]
    /\ Idle.pc = "idle"
BY DEF Idle, At

(* Storing one more event.                                                 *)
LEMMA StoredGrows ==
    ASSUME docs \in Seq(Valid), NEW e \in Valid, docs' = Append(docs, e)
    PROVE  docs' \in Seq(Valid) /\ Stored' = Stored \cup {e}
<1>1. docs' \in Seq(Valid) /\ Len(docs') = Len(docs) + 1 /\ docs'[Len(docs')] = e
  OBVIOUS
<1>2. \A n \in 1..Len(docs) : docs'[n] = docs[n]
  OBVIOUS
<1>3. DOMAIN docs = 1..Len(docs) /\ DOMAIN docs' = 1..(Len(docs) + 1) /\ Len(docs) \in Nat
  BY <1>1
<1>4. Stored' \subseteq Stored \cup {e}
  BY <1>1, <1>2, <1>3 DEF Stored, Range
<1>5. Stored \subseteq Stored'
  BY <1>2, <1>3 DEF Stored, Range
<1>6. e \in Stored'
  BY <1>1, <1>3 DEF Stored, Range
<1> QED BY <1>1, <1>4, <1>5, <1>6

LEMMA InitIInv == Init => IInv
<1> SUFFICES ASSUME Init PROVE IInv
  OBVIOUS
<1>1. Typed
  <2>1. log \in [Topic -> Seq(Event)] /\ \A t \in Topic : Len(log[t]) \in Nat
    BY AnalyticsAssumption DEF Init
  <2>2. docs \in Seq(Valid)
    BY DEF Init
  <2> QED BY <2>1, <2>2, IdleFits DEF Init, Typed
<1>2. \A t \in Topic : position[t] = 0 /\ offset[t] = 0
  BY DEF Init
<1> QED BY <1>1, <1>2 DEF IInv, ReadIsStored, CommittedIsStored

(* A message is appended to its topic: what is below the positions stays.  *)
LEMMA AppendedStep ==
    ASSUME IInv, NEW e \in Event, Appended(e), UNCHANGED <<position, offset, docs, task>>
    PROVE  IInv'
<1> DEFINE t0 == TopicOf[e]
<1>1. t0 \in Topic /\ log \in [Topic -> Seq(Event)]
  BY AnalyticsAssumption DEF IInv, Typed
<1>2. /\ log' \in [Topic -> Seq(Event)]
      /\ \A t \in Topic : Len(log[t]) \in Nat /\ Len(log[t]) <= Len(log'[t])
      /\ \A t \in Topic : \A n \in 1..Len(log[t]) : log'[t][n] = log[t][n]
  <2>1. log' = [log EXCEPT ![t0] = Append(log[t0], e)]
    BY DEF Appended
  <2>2. \A t \in Topic : log[t] \in Seq(Event) /\ Len(log[t]) \in Nat
    BY <1>1
  <2>3. Append(log[t0], e) \in Seq(Event) /\ Len(Append(log[t0], e)) = Len(log[t0]) + 1
        /\ \A n \in 1..Len(log[t0]) : Append(log[t0], e)[n] = log[t0][n]
    BY <1>1, <2>2
  <2>4. \A t \in Topic : log'[t] = IF t = t0 THEN Append(log[t0], e) ELSE log[t]
    BY <1>1, <2>1
  <2> QED BY <1>1, <2>1, <2>2, <2>3, <2>4
<1>3. Typed'
  BY <1>2 DEF IInv, Typed
<1>4. \A t \in Topic : \A n \in 1..position[t] : n \in 1..Len(log[t]) /\ log'[t][n] = log[t][n]
  BY <1>2 DEF IInv, Typed
<1>5. \A t \in Topic : \A n \in 1..offset[t] : n \in 1..position[t]
  BY DEF IInv, Typed
<1>6. Stored' = Stored
  BY DEF Stored, Range
<1>7. ReadIsStored'
  BY <1>4, <1>6 DEF IInv, ReadIsStored
<1>8. CommittedIsStored'
  BY <1>4, <1>5, <1>6 DEF IInv, CommittedIsStored
<1> QED BY <1>3, <1>7, <1>8 DEF IInv

(* The next message of a topic is read; nothing is committed with it.      *)
LEMMA TakeStep ==
    ASSUME IInv, NEW t \in Topic, Take(t)
    PROVE  IInv'
<1> DEFINE e == log[t][position[t] + 1]
<1>1. /\ log[t] \in Seq(Event) /\ position[t] \in Nat /\ Len(log[t]) \in Nat
      /\ position[t] + 1 \in 1..Len(log[t])
  BY DEF IInv, Typed, Take
<1>2. e \in Event
  BY <1>1
<1>3. /\ task.pc = "idle" /\ task' = At(IF e \in Valid THEN "insert" ELSE "commit", e)
      /\ position' = [position EXCEPT ![t] = position[t] + 1]
      /\ UNCHANGED <<log, offset, docs>>
  BY DEF Take
<1>4. /\ task' \in [pc : {"idle", "insert", "uncache", "commit", "ended"}, event : Event \cup {None}]
      /\ task'.event = e /\ (e \in Valid <=> task'.pc = "insert")
  BY <1>2, <1>3, AtFits
<1> HIDE DEF e
<1>5. /\ position' \in [Topic -> Nat] /\ position'[t] = position[t] + 1
      /\ \A u \in Topic : u # t => position'[u] = position[u]
  BY <1>1, <1>3 DEF IInv, Typed
<1>6. Typed'
  BY <1>1, <1>3, <1>4, <1>5 DEF IInv, Typed
<1>7. Stored' = Stored
  BY <1>3 DEF Stored, Range
<1>8. ASSUME NEW u \in Topic, NEW n \in 1..position'[u], log'[u][n] \in Valid
      PROVE  log'[u][n] \in Stored' \/ (task'.pc = "insert" /\ task'.event = log'[u][n])
  <2>1. CASE n \in 1..position[u]
    BY <2>1, <1>3, <1>7, <1>8 DEF IInv, ReadIsStored
  <2>2. CASE n \notin 1..position[u]
    <3>1. u = t /\ n = position[t] + 1
      BY <2>2, <1>1, <1>5, <1>8
    <3> QED BY <3>1, <1>3, <1>4, <1>8 DEF e
  <2> QED BY <2>1, <2>2
<1>9. CommittedIsStored'
  BY <1>3, <1>7 DEF IInv, CommittedIsStored
<1> QED BY <1>6, <1>8, <1>9 DEF IInv, ReadIsStored

(* What changes no topic and no position, and forgets no event.            *)
LEMMA TaskStep ==
    ASSUME IInv, UNCHANGED <<log, position, offset>>, docs' \in Seq(Valid),
           Stored \subseteq Stored',
           task' \in [pc : {"idle", "insert", "uncache", "commit", "ended"}, event : Event \cup {None}],
           task.pc = "insert" => task' = task \/ task.event \in Stored',
           task'.pc = "insert" => task' = task
    PROVE  IInv'
<1>1. Typed'
  BY DEF IInv, Typed
<1>2. ReadIsStored'
  BY DEF IInv, ReadIsStored
<1>3. CommittedIsStored'
  BY DEF IInv, CommittedIsStored
<1> QED BY <1>1, <1>2, <1>3 DEF IInv

LEMMA InsertStep ==
    ASSUME IInv, Insert
    PROVE  IInv'
<1>1. task.pc = "insert" /\ task.event \in Valid /\ task.event \in Event
  BY AnalyticsAssumption DEF IInv, Typed, Insert
<1>2. CASE task.event \in Stored
  <2>1. task' = At("commit", task.event) /\ UNCHANGED <<log, position, offset, docs>>
    BY <1>2 DEF Insert, kafka
  <2>2. Stored' = Stored
    BY <2>1 DEF Stored, Range
  <2>3. task'.pc = "commit" /\ task' \in [pc : {"idle", "insert", "uncache", "commit", "ended"},
                                          event : Event \cup {None}]
    BY <1>1, <2>1, AtFits
  <2> QED BY <1>2, <2>1, <2>2, <2>3, TaskStep DEF IInv, Typed
<1>3. CASE task.event \notin Stored
  <2>1. /\ docs' = Append(docs, task.event) /\ task' = At("uncache", task.event)
        /\ UNCHANGED <<log, position, offset>>
    BY <1>3 DEF Insert, kafka
  <2>2. docs' \in Seq(Valid) /\ Stored' = Stored \cup {task.event}
    BY <1>1, <2>1, StoredGrows DEF IInv, Typed
  <2>3. task'.pc = "uncache" /\ task' \in [pc : {"idle", "insert", "uncache", "commit", "ended"},
                                           event : Event \cup {None}]
    BY <1>1, <2>1, AtFits
  <2> QED BY <2>1, <2>2, <2>3, TaskStep
<1> QED BY <1>2, <1>3

LEMMA InsertFailsStep ==
    ASSUME IInv, InsertFails
    PROVE  IInv'
<1>1. UNCHANGED <<log, position, offset, task>> /\ task.event \in Valid
  BY DEF IInv, Typed, InsertFails, kafka
<1>2. docs' \in Seq(Valid) /\ Stored \subseteq Stored'
  <2>1. CASE docs' = docs
    BY <2>1 DEF IInv, Typed, Stored, Range
  <2>2. CASE docs' = Append(docs, task.event)
    BY <1>1, <2>2, StoredGrows DEF IInv, Typed
  <2> QED BY <2>1, <2>2 DEF InsertFails
<1> QED BY <1>1, <1>2, TaskStep DEF IInv, Typed

(* The positions are committed when there is nothing left to store, and    *)
(* also when the task does not learn it and ends.                          *)
LEMMA CommitStep ==
    ASSUME IInv, task.pc = "commit", task' \in {Idle, At("ended", None)},
           offset' \in {offset, position}, UNCHANGED <<log, position, docs>>
    PROVE  IInv'
<1>1. /\ offset' = offset \/ offset' = position
      /\ task' \in [pc : {"idle", "insert", "uncache", "commit", "ended"}, event : Event \cup {None}]
      /\ task'.pc # "insert" /\ UNCHANGED <<log, position, docs>>
  BY IdleFits, AtFits
<1>2. Stored' = Stored
  BY <1>1 DEF Stored, Range
<1>3. Typed'
  <2>1. \A t \in Topic : offset'[t] <= position'[t]
    BY <1>1 DEF IInv, Typed
  <2> QED BY <1>1, <2>1 DEF IInv, Typed
<1>4. \A t \in Topic : \A n \in 1..position[t] : log[t][n] \in Valid => log[t][n] \in Stored
  BY DEF IInv, ReadIsStored
<1>5. ReadIsStored' /\ CommittedIsStored'
  BY <1>1, <1>2, <1>4 DEF IInv, ReadIsStored, CommittedIsStored
<1> QED BY <1>3, <1>5 DEF IInv

LEMMA RestartStep ==
    ASSUME IInv, Restart
    PROVE  IInv'
<1>1. task' = Idle /\ position' = offset /\ UNCHANGED <<log, offset, docs>>
  BY DEF Restart
<1>2. Stored' = Stored
  BY <1>1 DEF Stored, Range
<1>3. Typed'
  <2>1. \A t \in Topic : offset[t] <= Len(log[t])
    BY DEF IInv, Typed
  <2> QED BY <1>1, <2>1, IdleFits DEF IInv, Typed
<1>4. ReadIsStored' /\ CommittedIsStored'
  BY <1>1, <1>2 DEF IInv, ReadIsStored, CommittedIsStored
<1> QED BY <1>3, <1>4 DEF IInv

(* Neither the task nor a reader of the cache stores or forgets an event.  *)
LEMMA QuietStep ==
    ASSUME IInv, UNCHANGED <<log, position, offset, docs>>,
           \/ UNCHANGED task
           \/ task.pc = "uncache" /\ task' = At("commit", task.event)
    PROVE  IInv'
<1>1. Stored' = Stored /\ docs' \in Seq(Valid)
  BY DEF IInv, Typed, Stored, Range
<1>2. task \in [pc : {"idle", "insert", "uncache", "commit", "ended"}, event : Event \cup {None}]
      /\ task.event \in Event \cup {None}
  BY DEF IInv, Typed
<1>3. CASE UNCHANGED task
  BY <1>1, <1>2, <1>3, TaskStep
<1>4. CASE task.pc = "uncache" /\ task' = At("commit", task.event)
  BY <1>1, <1>2, <1>4, AtFits, TaskStep
<1> QED BY <1>3, <1>4

LEMMA NextIInv == IInv /\ [Next]_vars => IInv'
<1> SUFFICES ASSUME IInv, [Next]_vars PROVE IInv'
  OBVIOUS
<1>1. ASSUME NEW e \in Event, Publish(e) PROVE IInv'
  BY <1>1, AppendedStep DEF Publish
<1>2. ASSUME NEW e \in Event, SendAgain(e) PROVE IInv'
  BY <1>2, AppendedStep DEF SendAgain
<1>3. ASSUME NEW t \in Topic, Take(t) PROVE IInv'
  BY <1>3, TakeStep
<1>4. CASE Insert
  BY <1>4, InsertStep
<1>5. CASE Uncache
  BY <1>5, QuietStep DEF Uncache, kafka
<1>6. CASE Commit
  BY <1>6, CommitStep DEF Commit
<1>7. CASE Read
  BY <1>7, QuietStep DEF Read, ReadOverview, FillOverview, DropRead, ExpireOverview, kafka
<1>8. CASE InsertFails
  BY <1>8, InsertFailsStep
<1>9. CASE UncacheFails
  BY <1>9, QuietStep DEF UncacheFails, kafka
<1>10. CASE CommitFails
  BY <1>10, CommitStep DEF CommitFails
<1>11. CASE Restart
  BY <1>11, RestartStep
<1>12. CASE UNCHANGED vars
  BY <1>12, QuietStep DEF vars, kafka
<1> QED BY <1>1, <1>2, <1>3, <1>4, <1>5, <1>6, <1>7, <1>8, <1>9, <1>10, <1>11, <1>12
        DEF Next, Consume

(* For any events, topics and backlog, and however often producers send    *)
(* again, MongoDB and Kafka fail and the process restarts, no offset is    *)
(* committed over an event that is not stored (start_consuming).           *)
THEOREM OffsetsFollowStorage == Spec => []CommittedIsStored
<1>1. IInv => CommittedIsStored
  BY DEF IInv
<1> QED BY InitIInv, NextIInv, <1>1, PTL DEF Spec
-----------------------------------------------------------------------------
(* The cached overview.  A reader that is about to fill the cache has what *)
(* the collection says now, or knows that it was late.                     *)
Now == GetOverview(docs, Always)
Overview == {GetOverview(d, Always) : d \in Seq(Valid)}
Deleting == task.pc = "uncache"

CacheTyped == reader \in [Reader -> [pc : {"idle", "fill"}, value : Overview \cup {None}, late : BOOLEAN]]
FillsKnown ==
    \A r \in Reader : reader[r].pc = "fill" => reader[r].late \/ reader[r].value = Now
CacheInv == CacheTyped /\ FillsKnown /\ CachedOverviewStaleOnlyIfLate

LEMMA NowFits == IInv => Now \in Overview
BY DEF IInv, Typed, Now, Overview

LEMMA InitCacheInv == Init => CacheInv
<1> SUFFICES ASSUME Init PROVE CacheInv
  OBVIOUS
<1>1. entry = None /\ reader = [r \in Reader |-> [pc |-> "idle", value |-> None, late |-> FALSE]]
  BY DEF Init, Cache!CacheInit, Cache!At
<1>2. CacheTyped /\ FillsKnown
  BY <1>1 DEF CacheTyped, FillsKnown
<1>3. CachedOverviewStaleOnlyIfLate
  BY <1>1 DEF CachedOverviewStaleOnlyIfLate, Cache!StaleOnlyIfLate
<1> QED BY <1>2, <1>3 DEF CacheInv

(* The cache and the collection stay, and no delete is given up.           *)
LEMMA CacheKept ==
    ASSUME CacheInv, UNCHANGED <<entry, reader, kept, docs>>, Deleting => Deleting'
    PROVE  CacheInv'
<1>1. Now' = Now
  BY DEF Now
<1> QED BY <1>1 DEF CacheInv, CacheTyped, FillsKnown, CachedOverviewStaleOnlyIfLate,
                    Cache!StaleOnlyIfLate, Now, Deleting

(* The collection changes, and the delete is to come or never will.        *)
LEMMA CacheLate ==
    ASSUME CacheInv, entry' = entry,
           reader' = [r \in Reader |-> [reader[r] EXCEPT !.late = reader[r].pc = "fill"]],
           Deleting' \/ (entry # None => kept')
    PROVE  CacheInv'
<1>1. \A r \in Reader :
          /\ reader'[r] \in [pc : {"idle", "fill"}, value : Overview \cup {None}, late : BOOLEAN]
          /\ reader'[r].pc = reader[r].pc /\ (reader[r].pc = "fill" => reader'[r].late)
  BY DEF CacheInv, CacheTyped
<1>2. CacheTyped' /\ FillsKnown'
  BY <1>1 DEF CacheTyped, FillsKnown
<1>3. CachedOverviewStaleOnlyIfLate'
  BY DEF CachedOverviewStaleOnlyIfLate, Cache!StaleOnlyIfLate, Deleting
<1> QED BY <1>2, <1>3 DEF CacheInv

(* The readers forget what they loaded, or one of them does; a delete that *)
(* is given up leaves its mark.                                            *)
LEMMA CacheForgets ==
    ASSUME CacheInv, docs' = docs, CacheTyped',
           \A r \in Reader : reader'[r].pc = "fill" => reader'[r] = reader[r],
           \/ entry' = None
           \/ entry' = entry /\ (entry # None => kept')
           \/ entry' = entry /\ (kept => kept') /\ (Deleting => Deleting')
    PROVE  CacheInv'
<1>1. Now' = Now
  BY DEF Now
<1>2. FillsKnown'
  BY <1>1 DEF CacheInv, FillsKnown
<1>3. CachedOverviewStaleOnlyIfLate'
  BY <1>1 DEF CacheInv, CachedOverviewStaleOnlyIfLate, Cache!StaleOnlyIfLate, Now, Deleting
<1> QED BY <1>2, <1>3 DEF CacheInv

LEMMA ReadStep ==
    ASSUME CacheInv, Now \in Overview, NEW r \in Reader, ReadOverview(r)
    PROVE  CacheInv'
<1> DEFINE w == [pc |-> "fill", value |-> Now, late |-> FALSE]
<1>1. /\ reader' = [reader EXCEPT ![r] = w] /\ UNCHANGED <<entry, kept, docs, task>>
      /\ Now' = Now
  BY DEF ReadOverview, Cache!Load, Cache!At, Now
<1>2. w \in [pc : {"idle", "fill"}, value : Overview \cup {None}, late : BOOLEAN] /\ w.value = Now
  OBVIOUS
<1> HIDE DEF w
<1>3. CacheTyped' /\ reader'[r] = w /\ \A q \in Reader : q # r => reader'[q] = reader[q]
  BY <1>1, <1>2 DEF CacheInv, CacheTyped
<1>4. FillsKnown'
  BY <1>1, <1>2, <1>3 DEF CacheInv, FillsKnown
<1>5. CachedOverviewStaleOnlyIfLate'
  BY <1>1 DEF CacheInv, CachedOverviewStaleOnlyIfLate, Cache!StaleOnlyIfLate, Now
<1> QED BY <1>3, <1>4, <1>5 DEF CacheInv

(* One reader is idle again.                                               *)
LEMMA ReaderIdles ==
    ASSUME CacheTyped, NEW r \in Reader, reader' = [reader EXCEPT ![r] = Cache!At("idle", None)]
    PROVE  CacheTyped' /\ \A q \in Reader : reader'[q].pc = "fill" => reader'[q] = reader[q]
BY DEF CacheTyped, Cache!At

LEMMA FillStep ==
    ASSUME CacheInv, NEW r \in Reader, FillOverview(r)
    PROVE  CacheInv'
<1>1. /\ reader[r].pc = "fill" /\ entry' = [value |-> reader[r].value, late |-> reader[r].late]
      /\ UNCHANGED <<docs, task>> /\ Now' = Now
  BY DEF FillOverview, Cache!Fill, Now
<1>2. CacheTyped' /\ \A q \in Reader : reader'[q].pc = "fill" => reader'[q] = reader[q]
  BY ReaderIdles DEF FillOverview, Cache!Fill, CacheInv
<1>3. FillsKnown'
  BY <1>1, <1>2 DEF CacheInv, FillsKnown
<1>4. CachedOverviewStaleOnlyIfLate'
  <2>1. entry'.value = reader[r].value /\ entry'.late = reader[r].late
    BY <1>1
  <2>2. entry'.value # Now => entry'.late
    BY <1>1, <2>1 DEF CacheInv, FillsKnown
  <2> QED BY <1>1, <2>2 DEF CachedOverviewStaleOnlyIfLate, Cache!StaleOnlyIfLate, Now
<1> QED BY <1>2, <1>3, <1>4 DEF CacheInv

LEMMA NextCacheInv == IInv /\ CacheInv /\ [Next]_vars => CacheInv'
<1> SUFFICES ASSUME IInv, CacheInv, [Next]_vars PROVE CacheInv'
  OBVIOUS
<1>1. ASSUME NEW e \in Event, Publish(e) \/ SendAgain(e) PROVE CacheInv'
  BY <1>1, CacheKept DEF Publish, SendAgain, cached, Deleting
<1>2. ASSUME NEW t \in Topic, Take(t) PROVE CacheInv'
  BY <1>2, CacheKept DEF Take, cached, Deleting
<1>3. CASE Insert
  <2>1. CASE task.event \in Stored
    BY <1>3, <2>1, CacheKept DEF Insert, cached, Deleting
  <2>2. CASE task.event \notin Stored
    <3>1. Deleting'
      BY <1>3, <2>2 DEF Insert, At, Deleting
    <3> QED BY <1>3, <2>2, <3>1, CacheLate DEF Insert, Cache!Change
  <2> QED BY <2>1, <2>2
<1>4. CASE Uncache
  <2>1. docs' = docs /\ reader' = reader /\ entry' = None
    BY <1>4 DEF Uncache, Cache!Delete
  <2>2. CacheTyped' /\ \A r \in Reader : reader'[r].pc = "fill" => reader'[r] = reader[r]
    BY <2>1 DEF CacheInv, CacheTyped
  <2>3. docs' = docs /\ (entry' = None)
    BY <2>1
  <2> QED BY <2>2, <2>3, CacheForgets
<1>5. CASE Commit
  BY <1>5, CacheKept DEF Commit, cached, Deleting
<1>6. CASE InsertFails
  <2>1. CASE UNCHANGED <<docs, cached>>
    BY <1>6, <2>1, CacheKept DEF InsertFails, cached, Deleting
  <2>2. CASE Cache!ChangeKept
    BY <2>2, CacheLate DEF Cache!ChangeKept
  <2> QED BY <1>6, <2>1, <2>2 DEF InsertFails
<1>7. CASE UncacheFails
  <2>1. docs' = docs /\ reader' = reader /\ entry' = entry /\ (entry # None => kept')
    BY <1>7 DEF UncacheFails, Cache!LoseDelete
  <2>2. CacheTyped' /\ \A r \in Reader : reader'[r].pc = "fill" => reader'[r] = reader[r]
    BY <2>1 DEF CacheInv, CacheTyped
  <2>3. docs' = docs /\ (entry' = entry /\ (entry # None => kept'))
    BY <2>1
  <2> QED BY <2>2, <2>3, CacheForgets
<1>8. CASE CommitFails
  BY <1>8, CacheKept DEF CommitFails, cached, Deleting
<1>9. CASE Restart
  <2>1. /\ reader' = [r \in Reader |-> [pc |-> "idle", value |-> None, late |-> FALSE]]
        /\ entry' = entry /\ kept' = (kept \/ (Deleting /\ entry # None)) /\ docs' = docs
    BY <1>9 DEF Restart, Cache!Restarted, Cache!At, Deleting
  <2>2. CacheTyped' /\ \A r \in Reader : reader'[r].pc = "idle"
    BY <2>1 DEF CacheTyped
  <2>3. ~Deleting'
    BY <1>9, IdleFits DEF Restart, Deleting
  <2>4. Now' = Now
    BY <2>1 DEF Now
  <2>5. CachedOverviewStaleOnlyIfLate'
    BY <2>1, <2>4 DEF CacheInv, CachedOverviewStaleOnlyIfLate, Cache!StaleOnlyIfLate, Now, Deleting
  <2> QED BY <2>2, <2>5 DEF CacheInv, FillsKnown
<1>10. ASSUME NEW r \in Reader, ReadOverview(r) PROVE CacheInv'
  BY <1>10, ReadStep, NowFits
<1>11. ASSUME NEW r \in Reader, FillOverview(r) PROVE CacheInv'
  BY <1>11, FillStep
<1>12. ASSUME NEW r \in Reader, DropRead(r) PROVE CacheInv'
  <2>1. CacheTyped' /\ \A q \in Reader : reader'[q].pc = "fill" => reader'[q] = reader[q]
    BY <1>12, ReaderIdles DEF DropRead, Cache!NoFill, CacheInv
  <2> QED BY <1>12, <2>1, CacheForgets DEF DropRead, Cache!NoFill, Deleting
<1>13. CASE ExpireOverview
  <2>1. docs' = docs /\ reader' = reader /\ entry' = None
    BY <1>13 DEF ExpireOverview, Cache!Expire
  <2>2. CacheTyped' /\ \A r \in Reader : reader'[r].pc = "fill" => reader'[r] = reader[r]
    BY <2>1 DEF CacheInv, CacheTyped
  <2>3. docs' = docs /\ (entry' = None)
    BY <2>1
  <2> QED BY <2>2, <2>3, CacheForgets
<1>14. CASE UNCHANGED vars
  BY <1>14, CacheKept DEF vars, cached, Deleting
<1> QED BY <1>1, <1>2, <1>3, <1>4, <1>5, <1>6, <1>7, <1>8, <1>9, <1>10, <1>11, <1>12, <1>13, <1>14
        DEF Next, Consume, Read

(* For any number of readers and faults, the cached overview is the report *)
(* of the stored events, or it was filled late, or the delete that follows *)
(* an insert is still to come or was lost (AnalyticsEventService.process). *)
THEOREM OverviewStaleOnlyIfLate == Spec => []CachedOverviewStaleOnlyIfLate
<1>1. CacheInv => CachedOverviewStaleOnlyIfLate
  BY DEF CacheInv
<1> QED BY InitIInv, NextIInv, InitCacheInv, NextCacheInv, <1>1, PTL DEF Spec
-----------------------------------------------------------------------------
(* What sums over finite sets do.                                          *)

(* A nonempty family of subsets of a finite set has a smallest member.     *)
LEMMA SmallestSubset ==
    ASSUME NEW S, IsFiniteSet(S), NEW F, F \subseteq SUBSET S, F # {}
    PROVE  \E T \in F : \A U \in F : ~(U \subseteq T /\ U # T)
<1> DEFINE R == StrictSubsetOrdering(S)
<1>1. F \subseteq FiniteSubsetsOf(S)
  BY FS_Subset DEF FiniteSubsetsOf
<1>2. IsWellFoundedOn(R, FiniteSubsetsOf(S))
  BY FS_StrictSubsetOrderingWellFounded
<1>3. PICK T \in F : \A U \in F : ~(<<U, T>> \in R)
  <2> HIDE DEF R
  <2> QED BY <1>1, <1>2, WFMin
<1>4. ASSUME NEW U \in F, U \subseteq T, U # T
      PROVE  FALSE
  BY <1>3, <1>4 DEF StrictSubsetOrdering
<1> QED BY <1>4

(* The sums over the subsets of S, in the order the fold takes them.       *)
Chosen(s) == CHOOSE x \in s : TRUE
Follows(f, S, g) ==
    g = [s \in SUBSET S |-> IF s = {} THEN 0 ELSE f[Chosen(s)] + g[s \ {Chosen(s)}]]
Sums(f, S) == CHOOSE g : Follows(f, S, g)

LEMMA SumsAreFolds ==
    ASSUME NEW f, NEW S
    PROVE  SumFunctionOnSet(f, S) = Sums(f, S)[S]
  BY DEF SumFunctionOnSet, FoldFunctionOnSet, MapThenFoldSet, Sums, Follows, Chosen

LEMMA FollowsOn ==
    ASSUME NEW f, NEW S, NEW g, NEW h, NEW T, IsFiniteSet(S), T \subseteq S,
           Follows(f, S, g), Follows(f, T, h)
    PROVE  \A s \in SUBSET T : g[s] = h[s]
<1> DEFINE F == {s \in SUBSET T : g[s] # h[s]}
<1> SUFFICES ASSUME F # {} PROVE FALSE
  OBVIOUS
<1>1. PICK s \in F : \A u \in F : ~(u \subseteq s /\ u # s)
  <2>1. IsFiniteSet(T)
    BY FS_Subset
  <2> HIDE DEF F
  <2>2. F \subseteq SUBSET T
    BY DEF F
  <2> QED BY <2>1, <2>2, SmallestSubset
<1>2. CASE s = {}
  BY <1>1, <1>2 DEF Follows
<1>3. CASE s # {}
  <2> DEFINE c == Chosen(s)
             u == s \ {c}
  <2>1. c \in s
    BY <1>3 DEF Chosen
  <2>2. u \subseteq T /\ u \subseteq s /\ u # s
    BY <2>1, <1>1
  <2>3. g[u] = h[u]
    BY <1>1, <2>2
  <2>4. s \in SUBSET T /\ s \in SUBSET S
    BY <1>1
  <2>5. g[s] = f[c] + g[u] /\ h[s] = f[c] + h[u]
    BY <1>3, <2>4 DEF Follows
  <2> QED BY <2>3, <2>5, <1>1
<1> QED BY <1>2, <1>3

LEMMA SumsExist ==
    ASSUME NEW f, NEW S, IsFiniteSet(S)
    PROVE  Follows(f, S, Sums(f, S))
<1> DEFINE F == {T \in SUBSET S : ~\E g : Follows(f, T, g)}
<1>1. F = {}
  <2> SUFFICES ASSUME F # {} PROVE FALSE
    OBVIOUS
  <2>1. PICK T \in F : \A U \in F : ~(U \subseteq T /\ U # T)
    <3> HIDE DEF F
    <3>1. F \subseteq SUBSET S
      BY DEF F
    <3> QED BY <3>1, SmallestSubset
  <2>2. \A U \in SUBSET T : U # T => Follows(f, U, Sums(f, U))
    <3> SUFFICES ASSUME NEW U \in SUBSET T, U # T PROVE Follows(f, U, Sums(f, U))
      OBVIOUS
    <3>1. \E g : Follows(f, U, g)
      BY <2>1
    <3> QED BY <3>1 DEF Sums
  <2> DEFINE v(s) == IF s = {} THEN 0 ELSE
                        f[Chosen(s)] + Sums(f, s \ {Chosen(s)})[s \ {Chosen(s)}]
             g == [s \in SUBSET T |-> v(s)]
  <2>3. ASSUME NEW s \in SUBSET T
        PROVE  g[s] = IF s = {} THEN 0 ELSE f[Chosen(s)] + g[s \ {Chosen(s)}]
    <3>1. CASE s = {}
      BY <3>1
    <3>2. CASE s # {}
      <4> DEFINE u == s \ {Chosen(s)}
      <4>1. Chosen(s) \in s
        BY <3>2 DEF Chosen
      <4>2. u \in SUBSET T /\ u # T
        BY <4>1
      <4>3. g[s] = f[Chosen(s)] + Sums(f, u)[u]
        BY <3>2
      <4>4. g[u] = Sums(f, u)[u]
        <5>1. CASE u = {}
          <6> HIDE DEF u
          <6>1. Follows(f, u, Sums(f, u)) /\ u \in SUBSET u
            BY <4>2, <2>2
          <6>2. Sums(f, u)[u] = 0
            BY <5>1, <6>1 DEF Follows
          <6> QED BY <4>2, <5>1, <6>2
        <5>2. CASE u # {}
          <6> DEFINE w == u \ {Chosen(u)}
          <6>1. Chosen(u) \in u
            BY <5>2 DEF Chosen
          <6>2. w \in SUBSET u /\ w # T /\ w \in SUBSET T
            BY <6>1, <4>2
          <6>3. Follows(f, u, Sums(f, u)) /\ Follows(f, w, Sums(f, w))
            BY <2>2, <4>2, <6>2
          <6>4. Sums(f, u)[u] = f[Chosen(u)] + Sums(f, u)[w]
            BY <5>2, <6>3 DEF Follows
          <6>5. IsFiniteSet(u)
            BY <4>2, <2>1, FS_Subset
          <6>6. Sums(f, u)[w] = Sums(f, w)[w]
            BY <6>2, <6>3, <6>5, FollowsOn
          <6>7. g[u] = f[Chosen(u)] + Sums(f, w)[w]
            BY <5>2, <4>2
          <6> QED BY <6>4, <6>6, <6>7
        <5> QED BY <5>1, <5>2
      <4> QED BY <3>2, <4>3, <4>4
    <3> QED BY <3>1, <3>2
  <2>4. Follows(f, T, g)
    <3> HIDE DEF v
    <3> QED BY <2>3 DEF Follows
  <2> HIDE DEF g
  <2> QED BY <2>1, <2>4
<1>2. \E g : Follows(f, S, g)
  <2>1. S \in SUBSET S
    OBVIOUS
  <2> QED BY <1>1, <2>1
<1> QED BY <1>2 DEF Sums

Adds(f, S, g) ==
    \A s \in SUBSET S : /\ s = {} => g[s] = 0
                        /\ s # {} => Chosen(s) \in s /\ g[s] = f[Chosen(s)] + g[s \ {Chosen(s)}]

LEMMA SumOfParts ==
    ASSUME NEW S, IsFiniteSet(S), NEW f
    PROVE  Adds(f, S, Sums(f, S))
<1>1. ASSUME NEW g, Follows(f, S, g)
      PROVE  Adds(f, S, g)
  BY <1>1 DEF Adds, Follows, Chosen
<1> QED BY <1>1, SumsExist

(* What holds of the empty set, and of a set with one more element if it   *)
(* holds of the set, holds of every finite set.                            *)
LEMMA SetsGrow ==
    ASSUME NEW S, IsFiniteSet(S), NEW F, {} \in F,
           \A s \in SUBSET S : \A a \in S \ s : s \in F => s \cup {a} \in F
    PROVE  S \in F
<1> DEFINE B == {s \in SUBSET S : s \notin F}
<1>1. ASSUME B # {} PROVE FALSE
  <2>1. PICK s \in B : \A u \in B : ~(u \subseteq s /\ u # s)
    <3> HIDE DEF B
    <3>1. B \subseteq SUBSET S
      BY DEF B
    <3> QED BY <1>1, <3>1, SmallestSubset
  <2>2. PICK a \in s : TRUE
    BY <2>1
  <2>3. s \ {a} \in SUBSET S /\ a \in S \ (s \ {a}) /\ (s \ {a}) \cup {a} = s
    BY <2>1
  <2>4. s \ {a} \in F
    BY <2>1, <2>2, <2>3
  <2>5. s \in F
    BY <2>3, <2>4
  <2> QED BY <2>1, <2>5
<1>2. S \in SUBSET S
  OBVIOUS
<1> QED BY <1>1, <1>2

(* Any term can be taken out of a sum.                                     *)
Numbers(f, S) == \A i \in S : f[i] \in Int
Parts(f, S, g) ==
    \A s \in SUBSET S : g[s] \in Int /\ \A a \in s : g[s] = f[a] + g[s \ {a}]

LEMMA PartsOfSums ==
    ASSUME NEW S, IsFiniteSet(S), NEW f, Numbers(f, S)
    PROVE  Parts(f, S, Sums(f, S))
<1> USE DEF Numbers
<1> DEFINE G == Sums(f, S)
           Good(s) == G[s] \in Int /\ \A a \in s : G[s] = f[a] + G[s \ {a}]
           B == {s \in SUBSET S : ~Good(s)}
<1>1. Adds(f, S, G)
  BY SumOfParts
<1> HIDE DEF G
<1>2. ASSUME B # {} PROVE FALSE
  <2>1. PICK s \in B : \A u \in B : ~(u \subseteq s /\ u # s)
    <3> HIDE DEF B
    <3>1. B \subseteq SUBSET S
      BY DEF B
    <3> QED BY <1>2, <3>1, SmallestSubset
  <2>2. s \in SUBSET S /\ ~Good(s)
    BY <2>1
  <2>3. \A u \in SUBSET s : u # s => Good(u)
    BY <2>1, <2>2
  <2>4. s # {}
    <3>1. Good({})
      <4>1. {} \in SUBSET S
        OBVIOUS
      <4>2. G[{}] = 0
        BY <1>1, <4>1 DEF Adds
      <4> QED BY <4>2
    <3> HIDE DEF Good
    <3> QED BY <2>2, <3>1
  <2> DEFINE c == Chosen(s)
  <2>5. c \in s /\ G[s] = f[c] + G[s \ {c}]
    BY <1>1, <2>2, <2>4 DEF Adds
  <2> HIDE DEF c, B
  <2>6. Good(s \ {c}) /\ f[c] \in Int
    BY <2>2, <2>3, <2>5
  <2>7. G[s] \in Int
    BY <2>5, <2>6
  <2>8. ASSUME NEW a \in s PROVE G[s] = f[a] + G[s \ {a}]
    <3>1. CASE a = c
      BY <2>5, <3>1
    <3>2. CASE a # c
      <4>1. a \in s \ {c} /\ c \in s \ {a} /\ f[a] \in Int
        BY <2>2, <2>5, <3>2
      <4>2. s \ {a} \in SUBSET s /\ s \ {a} # s
        BY <2>8
      <4>3. Good(s \ {a})
        BY <2>3, <4>2
      <4>4. G[s \ {c}] = f[a] + G[(s \ {c}) \ {a}]
        BY <2>6, <4>1
      <4>5. G[s \ {a}] = f[c] + G[(s \ {c}) \ {a}]
        <5>1. (s \ {c}) \ {a} = (s \ {a}) \ {c}
          OBVIOUS
        <5> QED BY <4>3, <4>1, <5>1
      <4>6. G[(s \ {c}) \ {a}] \in Int
        <5>1. (s \ {c}) \ {a} # s /\ (s \ {c}) \ {a} \in SUBSET s
          BY <4>1
        <5> QED BY <2>3, <5>1
      <4> HIDE DEF Good
      <4> DEFINE x == G[(s \ {c}) \ {a}]
                 y == G[s \ {c}]
                 z == G[s \ {a}]
      <4>7. G[s] = f[c] + y /\ y = f[a] + x /\ z = f[c] + x
        BY <2>5, <4>4, <4>5
      <4>8. x \in Int /\ f[a] \in Int /\ f[c] \in Int
        BY <2>6, <4>1, <4>6
      <4> HIDE DEF x, y, z
      <4>9. G[s] = f[a] + z
        BY <4>7, <4>8
      <4> QED BY <4>9 DEF z
    <3> QED BY <3>1, <3>2
  <2> QED BY <2>2, <2>7, <2>8
<1> QED BY <1>2 DEF G, Parts

LEMMA SumRules ==
    ASSUME NEW S, IsFiniteSet(S), NEW f, \A i \in S : f[i] \in Int
    PROVE  /\ SumFunctionOnSet(f, {}) = 0
           /\ SumFunctionOnSet(f, S) \in Int
           /\ \A a \in S : SumFunctionOnSet(f, S) = f[a] + SumFunctionOnSet(f, S \ {a})
<1>1. \A s \in SUBSET S : Sums(f, s)[s] = Sums(f, S)[s]
  <2> SUFFICES ASSUME NEW s \in SUBSET S PROVE Sums(f, s)[s] = Sums(f, S)[s]
    OBVIOUS
  <2>1. IsFiniteSet(s)
    BY FS_Subset
  <2>2. Follows(f, S, Sums(f, S)) /\ Follows(f, s, Sums(f, s))
    BY <2>1, SumsExist
  <2> QED BY <2>2, FollowsOn
<1>2. \A s \in SUBSET S : SumFunctionOnSet(f, s) = Sums(f, S)[s]
  BY <1>1, SumsAreFolds
<1>3. Sums(f, S)[{}] = 0
  BY SumOfParts DEF Adds
<1>4. S \in SUBSET S /\ {} \in SUBSET S /\ \A a \in S : S \ {a} \in SUBSET S
  OBVIOUS
<1>5. SumFunctionOnSet(f, {}) = 0
  BY <1>2, <1>3, <1>4
<1>6. Sums(f, S)[S] \in Int /\ \A a \in S : Sums(f, S)[S] = f[a] + Sums(f, S)[S \ {a}]
  <2>1. Parts(f, S, Sums(f, S))
    BY PartsOfSums DEF Numbers
  <2> QED BY <1>4, <2>1 DEF Parts
<1> QED BY <1>2, <1>4, <1>5, <1>6

(* A sum with one more term.                                               *)
LEMMA SumPlus ==
    ASSUME NEW S, IsFiniteSet(S), NEW a, a \notin S, NEW f, \A i \in S \cup {a} : f[i] \in Int
    PROVE  SumFunctionOnSet(f, S \cup {a}) = f[a] + SumFunctionOnSet(f, S)
<1>1. IsFiniteSet(S \cup {a})
  BY FS_AddElement
<1>2. (S \cup {a}) \ {a} = S /\ a \in S \cup {a}
  OBVIOUS
<1>3. SumFunctionOnSet(f, S \cup {a}) = f[a] + SumFunctionOnSet(f, (S \cup {a}) \ {a})
  BY <1>1, <1>2, SumRules
<1> QED BY <1>2, <1>3

(* Only the values that are summed count.                                  *)
LEMMA SumSame ==
    ASSUME NEW S, IsFiniteSet(S), NEW f, NEW g, \A i \in S : f[i] \in Int /\ g[i] = f[i]
    PROVE  SumFunctionOnSet(g, S) = SumFunctionOnSet(f, S)
<1> DEFINE F == {s \in SUBSET S : SumFunctionOnSet(g, s) = SumFunctionOnSet(f, s)}
<1>1. {} \in F
  BY FS_EmptySet, SumRules
<1>2. ASSUME NEW s \in SUBSET S, NEW a \in S \ s, s \in F
      PROVE  s \cup {a} \in F
  <2>1. IsFiniteSet(s) /\ SumFunctionOnSet(g, s) = SumFunctionOnSet(f, s)
    BY <1>2, FS_Subset
  <2>2. /\ SumFunctionOnSet(f, s \cup {a}) = f[a] + SumFunctionOnSet(f, s)
        /\ SumFunctionOnSet(g, s \cup {a}) = g[a] + SumFunctionOnSet(g, s)
    BY <2>1, SumPlus
  <2> QED BY <2>1, <2>2
<1>3. S \in F
  <2> HIDE DEF F
  <2> QED BY <1>1, <1>2, SetsGrow
<1> QED BY <1>3

(* The sum over two sets without a common element.                         *)
LEMMA SumOfUnion ==
    ASSUME NEW A, NEW B, IsFiniteSet(A), IsFiniteSet(B), A \cap B = {},
           NEW f, \A i \in A \cup B : f[i] \in Int
    PROVE  SumFunctionOnSet(f, A \cup B) = SumFunctionOnSet(f, A) + SumFunctionOnSet(f, B)
<1> DEFINE F == {s \in SUBSET B : SumFunctionOnSet(f, A \cup s)
                                    = SumFunctionOnSet(f, A) + SumFunctionOnSet(f, s)}
<1>1. {} \in F
  <2>1. SumFunctionOnSet(f, {}) = 0 /\ SumFunctionOnSet(f, A) \in Int /\ A \cup {} = A
    BY SumRules
  <2> QED BY <2>1
<1>2. ASSUME NEW s \in SUBSET B, NEW a \in B \ s, s \in F
      PROVE  s \cup {a} \in F
  <2>1. IsFiniteSet(s) /\ IsFiniteSet(A \cup s) /\ a \notin A \cup s
    BY FS_Subset, FS_Union
  <2>2. /\ SumFunctionOnSet(f, s \cup {a}) = f[a] + SumFunctionOnSet(f, s)
        /\ SumFunctionOnSet(f, (A \cup s) \cup {a}) = f[a] + SumFunctionOnSet(f, A \cup s)
    BY <2>1, SumPlus
  <2>3. SumFunctionOnSet(f, s) \in Int /\ SumFunctionOnSet(f, A) \in Int /\ f[a] \in Int
    BY <2>1, SumRules
  <2>4. (A \cup s) \cup {a} = A \cup (s \cup {a}) /\ s \cup {a} \in SUBSET B
    OBVIOUS
  <2>5. SumFunctionOnSet(f, A \cup s) = SumFunctionOnSet(f, A) + SumFunctionOnSet(f, s)
    BY <1>2
  <2>6. SumFunctionOnSet(f, A \cup (s \cup {a}))
            = SumFunctionOnSet(f, A) + SumFunctionOnSet(f, s \cup {a})
    <3> DEFINE x == SumFunctionOnSet(f, A)
               y == SumFunctionOnSet(f, s)
    <3>1. /\ SumFunctionOnSet(f, A \cup (s \cup {a})) = f[a] + (x + y)
          /\ SumFunctionOnSet(f, s \cup {a}) = f[a] + y /\ x \in Int /\ y \in Int
      BY <2>2, <2>3, <2>4, <2>5
    <3> HIDE DEF x, y
    <3>2. f[a] + (x + y) = x + (f[a] + y)
      BY <2>3, <3>1
    <3> QED BY <3>1, <3>2 DEF x
  <2> QED BY <2>4, <2>6
<1>3. B \in F
  <2> HIDE DEF F
  <2> QED BY <1>1, <1>2, SetsGrow
<1> QED BY <1>3

(* $group: what the groups add up to is what all rows do.                  *)
Group(S, k, t) == {i \in S : k[i] = t}
AreGroups(f, g, k, S, K) ==
    /\ \A i \in S : f[i] \in Int /\ k[i] \in K
    /\ \A t \in K : g[t] = SumFunctionOnSet(f, Group(S, k, t))

LEMMA SumOfGroups ==
    ASSUME NEW S, IsFiniteSet(S), NEW K, IsFiniteSet(K), NEW f, NEW g, NEW k,
           AreGroups(f, g, k, S, K)
    PROVE  SumFunctionOnSet(g, K) = SumFunctionOnSet(f, S)
<1> USE DEF AreGroups, Group
<1> DEFINE Of(U) == {i \in S : k[i] \in U}
           F == {U \in SUBSET K : SumFunctionOnSet(g, U) = SumFunctionOnSet(f, Of(U))}
<1>0. \A U \in SUBSET K : IsFiniteSet(Of(U))
  BY FS_Subset
<1>4. \A t \in K : g[t] \in Int
  <2> SUFFICES ASSUME NEW t \in K PROVE g[t] \in Int
    OBVIOUS
  <2>1. IsFiniteSet({i \in S : k[i] = t})
    BY FS_Subset
  <2>2. SumFunctionOnSet(f, {i \in S : k[i] = t}) \in Int
    BY <2>1, SumRules
  <2> QED BY <2>2
<1>1. {} \in F
  <2>1. Of({}) = {}
    OBVIOUS
  <2>2. SumFunctionOnSet(g, {}) = 0 /\ SumFunctionOnSet(f, {}) = 0
    BY FS_EmptySet, SumRules
  <2> QED BY <2>1, <2>2
<1>2. ASSUME NEW U \in SUBSET K, NEW t \in K \ U, U \in F
      PROVE  U \cup {t} \in F
  <2> DEFINE T == {i \in S : k[i] = t}
  <2>1. IsFiniteSet(U) /\ IsFiniteSet(T) /\ IsFiniteSet(Of(U))
    BY <1>0, FS_Subset
  <2>2. Of(U \cup {t}) = Of(U) \cup T /\ Of(U) \cap T = {}
    OBVIOUS
  <2>3. SumFunctionOnSet(g, U \cup {t}) = g[t] + SumFunctionOnSet(g, U)
    BY <1>4, <2>1, SumPlus
  <2>4. SumFunctionOnSet(f, Of(U) \cup T) = SumFunctionOnSet(f, Of(U)) + SumFunctionOnSet(f, T)
    <3>1. \A i \in Of(U) \cup T : f[i] \in Int
      OBVIOUS
    <3> HIDE DEF Of, T
    <3> QED BY <2>1, <2>2, <3>1, SumOfUnion
  <2>5. SumFunctionOnSet(f, Of(U)) \in Int /\ g[t] \in Int /\ g[t] = SumFunctionOnSet(f, T)
    BY <1>4, <2>1, SumRules
  <2>6. SumFunctionOnSet(g, U) = SumFunctionOnSet(f, Of(U))
    BY <1>2
  <2> HIDE DEF Of, T
  <2>7. SumFunctionOnSet(g, U \cup {t}) = SumFunctionOnSet(f, Of(U \cup {t}))
    <3> DEFINE x == SumFunctionOnSet(f, Of(U))
               y == SumFunctionOnSet(f, T)
    <3>1. /\ SumFunctionOnSet(g, U \cup {t}) = y + x
          /\ SumFunctionOnSet(f, Of(U \cup {t})) = x + y
          /\ x \in Int /\ y \in Int
      BY <2>2, <2>3, <2>4, <2>5, <2>6
    <3> HIDE DEF x, y
    <3> QED BY <3>1
  <2> QED BY <2>7
<1>3. K \in F
  <2> HIDE DEF F
  <2> QED BY <1>1, <1>2, SetsGrow
<1>5. Of(K) = S
  OBVIOUS
<1> QED BY <1>3, <1>5

(* The same values under other names.                                      *)
LEMMA SumOfRenamed ==
    ASSUME NEW S, IsFiniteSet(S), NEW b, \A i, j \in S : b[i] = b[j] => i = j,
           NEW f, NEW g, \A i \in S : g[i] \in Int /\ g[i] = f[b[i]]
    PROVE  SumFunctionOnSet(f, {b[i] : i \in S}) = SumFunctionOnSet(g, S)
<1> DEFINE Im(s) == {b[i] : i \in s}
           F == {s \in SUBSET S : IsFiniteSet(Im(s))
                                  /\ SumFunctionOnSet(f, Im(s)) = SumFunctionOnSet(g, s)}
<1>1. {} \in F
  <2>1. Im({}) = {}
    OBVIOUS
  <2> QED BY <2>1, FS_EmptySet, SumRules
<1>2. ASSUME NEW s \in SUBSET S, NEW a \in S \ s, s \in F
      PROVE  s \cup {a} \in F
  <2>1. Im(s \cup {a}) = Im(s) \cup {b[a]} /\ b[a] \notin Im(s)
    OBVIOUS
  <2>2. IsFiniteSet(s) /\ IsFiniteSet(Im(s)) /\ IsFiniteSet(Im(s) \cup {b[a]})
    BY <1>2, FS_Subset, FS_AddElement
  <2>3. SumFunctionOnSet(g, s \cup {a}) = g[a] + SumFunctionOnSet(g, s)
    BY <2>2, SumPlus
  <2>4. \A x \in Im(s) \cup {b[a]} : f[x] \in Int
    OBVIOUS
  <2>5. SumFunctionOnSet(f, Im(s)) = SumFunctionOnSet(g, s) /\ f[b[a]] = g[a]
    BY <1>2
  <2> HIDE DEF Im
  <2>6. SumFunctionOnSet(f, Im(s) \cup {b[a]}) = f[b[a]] + SumFunctionOnSet(f, Im(s))
    BY <2>1, <2>2, <2>4, SumPlus
  <2>7. SumFunctionOnSet(f, Im(s \cup {a})) = SumFunctionOnSet(g, s \cup {a})
    BY <2>1, <2>3, <2>5, <2>6
  <2> QED BY <2>1, <2>2, <2>7
<1>3. S \in F
  <2> HIDE DEF F
  <2> QED BY <1>1, <1>2, SetsGrow
<1> QED BY <1>3

LEMMA SumOfDifferences ==
    ASSUME NEW S, IsFiniteSet(S), NEW f, NEW g, NEW h,
           \A i \in S : f[i] \in Int /\ g[i] \in Int /\ h[i] = f[i] - g[i]
    PROVE  SumFunctionOnSet(h, S) = SumFunctionOnSet(f, S) - SumFunctionOnSet(g, S)
<1> DEFINE F == {s \in SUBSET S : SumFunctionOnSet(h, s)
                                    = SumFunctionOnSet(f, s) - SumFunctionOnSet(g, s)}
<1>0. \A i \in S : h[i] \in Int
  OBVIOUS
<1>1. {} \in F
  <2>1. SumFunctionOnSet(f, {}) = 0 /\ SumFunctionOnSet(g, {}) = 0 /\ SumFunctionOnSet(h, {}) = 0
    BY FS_EmptySet, SumRules
  <2> QED BY <2>1
<1>2. ASSUME NEW s \in SUBSET S, NEW a \in S \ s, s \in F
      PROVE  s \cup {a} \in F
  <2>1. IsFiniteSet(s)
    BY FS_Subset
  <2>2. /\ SumFunctionOnSet(f, s \cup {a}) = f[a] + SumFunctionOnSet(f, s)
        /\ SumFunctionOnSet(g, s \cup {a}) = g[a] + SumFunctionOnSet(g, s)
        /\ SumFunctionOnSet(h, s \cup {a}) = h[a] + SumFunctionOnSet(h, s)
    BY <1>0, <2>1, SumPlus
  <2>3. SumFunctionOnSet(f, s) \in Int /\ SumFunctionOnSet(g, s) \in Int
    BY <2>1, SumRules
  <2>4. f[a] \in Int /\ g[a] \in Int /\ h[a] = f[a] - g[a]
    OBVIOUS
  <2>5. SumFunctionOnSet(h, s) = SumFunctionOnSet(f, s) - SumFunctionOnSet(g, s)
    BY <1>2
  <2>6. SumFunctionOnSet(h, s \cup {a})
            = SumFunctionOnSet(f, s \cup {a}) - SumFunctionOnSet(g, s \cup {a})
    BY <2>2, <2>3, <2>4, <2>5
  <2> QED BY <2>6
<1>3. S \in F
  <2> HIDE DEF F
  <2> QED BY <1>1, <1>2, SetsGrow
<1> QED BY <1>3
-----------------------------------------------------------------------------
(* Sorting.                                                                *)

LEMMA ImagesAreFinite ==
    ASSUME NEW S, IsFiniteSet(S), NEW b
    PROVE  IsFiniteSet({b[i] : i \in S}) /\ Cardinality({b[i] : i \in S}) <= Cardinality(S)
<1> DEFINE T == {b[i] : i \in S}
           f == [i \in S |-> b[i]]
<1>1. f \in Surjection(S, T)
  BY DEF Surjection
<1> HIDE DEF T, f
<1>2. IsFiniteSet(T) /\ Cardinality(T) <= Cardinality(S)
  BY <1>1, FS_Surjection
<1> QED BY <1>2 DEF T

LEMMA RenamedAreAsMany ==
    ASSUME NEW S, IsFiniteSet(S), NEW b, \A i, j \in S : b[i] = b[j] => i = j
    PROVE  IsFiniteSet({b[i] : i \in S}) /\ Cardinality({b[i] : i \in S}) = Cardinality(S)
<1> DEFINE T == {b[i] : i \in S}
           f == [i \in S |-> b[i]]
<1>1. f \in Surjection(S, T) /\ f \in Injection(S, T)
  BY DEF Surjection, Injection, IsInjective
<1> HIDE DEF T, f
<1>2. IsFiniteSet(T) /\ Cardinality(T) = Cardinality(S)
  BY <1>1, FS_Surjection
<1> QED BY <1>2 DEF T

(* What may come before what.                                              *)
Total(R, S) ==
    /\ \A a, b \in S : <<a, b>> \in R \/ <<b, a>> \in R
    /\ \A a, b, c \in S : <<a, b>> \in R /\ <<b, c>> \in R => <<a, c>> \in R

LEMMA LastExists ==
    ASSUME NEW S, IsFiniteSet(S), S # {}, NEW R, Total(R, S)
    PROVE  \E m \in S : \A a \in S : <<a, m>> \in R
<1> DEFINE F == {s \in SUBSET S : s = {} \/ \E m \in s : \A a \in s : <<a, m>> \in R}
<1>1. {} \in F
  OBVIOUS
<1>2. ASSUME NEW s \in SUBSET S, NEW b \in S \ s, s \in F
      PROVE  s \cup {b} \in F
  <2>1. CASE s = {}
    BY <2>1 DEF Total
  <2>2. CASE s # {}
    <3>1. PICK m \in s : \A a \in s : <<a, m>> \in R
      BY <1>2, <2>2
    <3>2. CASE <<b, m>> \in R
      BY <3>1, <3>2
    <3>3. CASE <<m, b>> \in R
      <4>1. \A a \in s \cup {b} : <<a, b>> \in R
        BY <3>1, <3>3 DEF Total
      <4> QED BY <4>1
    <3> QED BY <3>1, <3>2, <3>3 DEF Total
  <2> QED BY <2>1, <2>2
<1>3. S \in F
  <2> HIDE DEF F
  <2> QED BY <1>1, <1>2, SetsGrow
<1> QED BY <1>3

Ranks(s, R) ==
    /\ IsInjective(s)
    /\ \A i, j \in DOMAIN s : i < j => <<s[i], s[j]>> \in R

LEMMA RankingExists ==
    ASSUME NEW S, IsFiniteSet(S), NEW R, Total(R, S)
    PROVE  \E s \in [1..Cardinality(S) -> S] : Ranks(s, R)
<1> DEFINE Ranked0(T) == \E s \in [1..Cardinality(T) -> T] : Ranks(s, R)
           B == {T \in SUBSET S : ~Ranked0(T)}
<1>1. ASSUME B # {} PROVE FALSE
  <2>1. PICK T \in B : \A u \in B : ~(u \subseteq T /\ u # T)
    <3> HIDE DEF B
    <3>1. B \subseteq SUBSET S
      BY DEF B
    <3> QED BY <1>1, <3>1, SmallestSubset
  <2>2. T \in SUBSET S /\ ~Ranked0(T) /\ IsFiniteSet(T)
    BY <2>1, FS_Subset
  <2>3. CASE T = {}
    <3>1. Cardinality(T) = 0
      BY <2>3, FS_EmptySet
    <3> DEFINE s == [i \in 1..0 |-> i]
    <3>2. s \in [1..0 -> {}] /\ DOMAIN s = {}
      OBVIOUS
    <3>3. Ranks(s, R)
      BY <3>2 DEF Ranks, IsInjective
    <3> QED BY <2>2, <2>3, <3>1, <3>2, <3>3
  <2>4. CASE T # {}
    <3>1. Total(R, T)
      BY <2>2 DEF Total
    <3>2. PICK m \in T : \A a \in T : <<a, m>> \in R
      BY <2>2, <2>4, <3>1, LastExists
    <3> DEFINE U == T \ {m}
               n == Cardinality(U)
    <3>3. Ranked0(U)
      <4>1. U \in SUBSET S /\ U \subseteq T /\ U # T
        BY <2>2, <3>2
      <4> HIDE DEF U, Ranked0
      <4> QED BY <2>1, <4>1
    <3>4. n \in Nat /\ Cardinality(T) = n + 1
      <4>1. IsFiniteSet(U)
        BY <2>2, FS_Subset
      <4>2. U \cup {m} = T /\ m \notin U
        BY <3>2
      <4> HIDE DEF U
      <4> QED BY <4>1, <4>2, FS_AddElement, FS_CardinalityType
    <3>5. PICK q \in [1..n -> U] : Ranks(q, R)
      BY <3>3
    <3> DEFINE s == [i \in 1..(n + 1) |-> IF i = n + 1 THEN m ELSE q[i]]
    <3>6. /\ DOMAIN s = 1..(n + 1) /\ s[n + 1] = m
          /\ \A i \in 1..n : s[i] = q[i] /\ s[i] \in T /\ s[i] # m
      <4> HIDE DEF n
      <4>1. \A i \in 1..n : i \in 1..(n + 1) /\ i # n + 1 /\ q[i] \in T /\ q[i] # m
        BY <3>4, <3>5
      <4>2. n + 1 \in 1..(n + 1)
        BY <3>4
      <4> QED BY <4>1, <4>2
    <3> HIDE DEF s, n
    <3>7. \A i \in 1..(n + 1) : i = n + 1 \/ i \in 1..n
      BY <3>4
    <3>8. s \in [1..(n + 1) -> T]
      <4>1. \A i \in 1..(n + 1) : s[i] \in T
        BY <3>2, <3>6, <3>7
      <4> QED BY <3>4, <4>1 DEF s
    <3>9. IsInjective(s)
      <4>1. \A i, j \in 1..n : q[i] = q[j] => i = j
        BY <3>5 DEF Ranks, IsInjective
      <4> QED BY <3>6, <3>7, <4>1 DEF IsInjective
    <3>10. ASSUME NEW i \in 1..(n + 1), NEW j \in 1..(n + 1), i < j
           PROVE  <<s[i], s[j]>> \in R
      <4>1. i \in 1..n
        BY <3>4, <3>10
      <4>2. CASE j = n + 1
        BY <3>2, <3>6, <4>1, <4>2
      <4>3. CASE j \in 1..n
        BY <3>5, <3>6, <3>10, <4>1, <4>3 DEF Ranks
      <4> QED BY <3>7, <4>2, <4>3
    <3>11. Ranks(s, R)
      BY <3>6, <3>9, <3>10 DEF Ranks
    <3> QED BY <2>2, <3>4, <3>8, <3>11
  <2> QED BY <2>3, <2>4
<1>2. S \in SUBSET S
  OBVIOUS
<1> QED BY <1>1, <1>2

(* A ranking lists every member once.                                      *)
LEMMA RankingListsAll ==
    ASSUME NEW S, IsFiniteSet(S), NEW s \in [1..Cardinality(S) -> S], IsInjective(s)
    PROVE  {s[i] : i \in 1..Cardinality(S)} = S
<1> DEFINE n == Cardinality(S)
<1>1. n \in Nat
  BY FS_CardinalityType
<1>2. IsFiniteSet(1..n) /\ Cardinality(1..n) = n
  BY <1>1, FS_Interval
<1>3. s \in Injection(1..n, S)
  BY DEF Injection
<1>4. s \in Surjection(1..n, S)
  <2> HIDE DEF n
  <2>1. Cardinality(1..n) = Cardinality(S)
    BY <1>2 DEF n
  <2> QED BY <1>3, <2>1, FS_Injection
<1> QED BY <1>4 DEF Surjection
-----------------------------------------------------------------------------
(* The reports of a collection d.                                          *)

(* What a document counts for, and when.                                   *)
Amount(d) == [n \in DOMAIN d |-> Body[d[n]].amount]
TimeOf(d) == [n \in DOMAIN d |-> Period(n, d)]

LEMMA DocumentsFit ==
    ASSUME NEW d \in Seq(Valid)
    PROVE  /\ IsFiniteSet(DOMAIN d) /\ \A n \in DOMAIN d : d[n] \in Valid
           /\ \A n \in DOMAIN d : Amount(d)[n] \in Int
<1>1. DOMAIN d = 1..Len(d) /\ Len(d) \in Nat
  OBVIOUS
<1>2. IsFiniteSet(DOMAIN d)
  BY <1>1, FS_Interval
<1>3. \A n \in DOMAIN d : d[n] \in Valid
  OBVIOUS
<1> QED BY <1>2, <1>3, BodyAssumption DEF Amount

LEMMA SumAmountIs ==
    ASSUME NEW d \in Seq(Valid), NEW D \in SUBSET DOMAIN d, NEW type
    PROVE  /\ SumAmount(d, D, type) = SumFunctionOnSet(Amount(d), OfType(d, D, {type}))
           /\ SumAmount(d, D, type) \in Int
<1> DEFINE T == OfType(d, D, {type})
           g == [n \in T |-> Body[d[n]].amount]
<1>1. SumAmount(d, D, type) = SumFunctionOnSet(g, T)
  BY DEF SumAmount, Sum, SumFunction
<1>2. T \in SUBSET DOMAIN d
  BY DEF OfType
<1>3. IsFiniteSet(T)
  BY <1>2, DocumentsFit, FS_Subset
<1>4. \A n \in T : Amount(d)[n] \in Int /\ g[n] = Amount(d)[n]
  BY <1>2, DocumentsFit DEF Amount
<1> HIDE DEF T, g
<1>5. SumFunctionOnSet(g, T) = SumFunctionOnSet(Amount(d), T)
  BY <1>3, <1>4, SumSame
<1>6. SumFunctionOnSet(Amount(d), T) \in Int
  BY <1>3, <1>4, SumRules
<1> QED BY <1>1, <1>5, <1>6 DEF T

LEMMA MatchedFit ==
    ASSUME NEW d \in Seq(Valid), NEW w, NEW types
    PROVE  /\ DateMatch(d, w) \in SUBSET DOMAIN d
           /\ OfType(d, DateMatch(d, w), types) \in SUBSET DOMAIN d
           /\ IsFiniteSet(DateMatch(d, w)) /\ IsFiniteSet(OfType(d, DateMatch(d, w), types))
<1>1. /\ DateMatch(d, w) \in SUBSET DOMAIN d
      /\ OfType(d, DateMatch(d, w), types) \in SUBSET DOMAIN d
  BY DEF DateMatch, OfType
<1> QED BY <1>1, DocumentsFit, FS_Subset

(* What the periods earned is what the window did.                         *)
LEMMA PeriodsAddUp ==
    ASSUME NEW d \in Seq(Valid), NEW w
    PROVE  LET revenue == GetRevenue(d, w)  net(t) == revenue[t].net
           IN Sum(DOMAIN revenue, net) = GetOverview(d, w).net
<1> DEFINE D == DateMatch(d, w)
           E == OfType(d, D, {"payment.succeeded", "payment.refunded"})
           K == {Period(n, d) : n \in E}
           In(t) == {n \in E : Period(n, d) = t}
           Part(type) == [t \in K |-> SumAmount(d, In(t), type)]
           S(type) == OfType(d, D, {type})
           h == [t \in K |-> Part("payment.succeeded")[t] - Part("payment.refunded")[t]]
           revenue == GetRevenue(d, w)
           net(t) == revenue[t].net
<1>1. IsFiniteSet(K)
  <2>1. \A n \in E : TimeOf(d)[n] = Period(n, d)
    BY DEF TimeOf, OfType, DateMatch
  <2>2. K = {TimeOf(d)[n] : n \in E}
    BY <2>1
  <2>3. IsFiniteSet({TimeOf(d)[n] : n \in E})
    <3> HIDE DEF E
    <3>1. IsFiniteSet(E)
      BY MatchedFit DEF E
    <3> QED BY <3>1, ImagesAreFinite
  <2> QED BY <2>2, <2>3
<1>2. ASSUME NEW type \in {"payment.succeeded", "payment.refunded"}
      PROVE  /\ SumFunctionOnSet(Part(type), K) = SumAmount(d, D, type)
             /\ \A t \in K : Part(type)[t] \in Int
  <2>1. S(type) \in SUBSET E /\ D \in SUBSET DOMAIN d /\ E \in SUBSET DOMAIN d
    BY MatchedFit DEF OfType
  <2>2. \A t \in K : OfType(d, In(t), {type}) = {n \in S(type) : TimeOf(d)[n] = t}
    BY <2>1 DEF OfType, TimeOf
  <2>3. \A t \in K : In(t) \in SUBSET DOMAIN d
    BY <2>1
  <2>4. \A t \in K : /\ Part(type)[t] = SumFunctionOnSet(Amount(d), {n \in S(type) : TimeOf(d)[n] = t})
                     /\ Part(type)[t] \in Int
    <3> SUFFICES ASSUME NEW t \in K
                 PROVE  /\ Part(type)[t] = SumFunctionOnSet(Amount(d), {n \in S(type) : TimeOf(d)[n] = t})
                        /\ Part(type)[t] \in Int
      OBVIOUS
    <3>1. Part(type)[t] = SumAmount(d, In(t), type)
      OBVIOUS
    <3>2. In(t) \in SUBSET DOMAIN d
      BY <2>3
    <3>3. OfType(d, In(t), {type}) = {n \in S(type) : TimeOf(d)[n] = t}
      BY <2>2
    <3> HIDE DEF In, S, Part, K
    <3> QED BY <3>1, <3>2, <3>3, SumAmountIs
  <2>5. \A n \in S(type) : Amount(d)[n] \in Int /\ TimeOf(d)[n] \in K
    BY <2>1, DocumentsFit DEF TimeOf
  <2>6. IsFiniteSet(S(type))
    BY MatchedFit
  <2>7. SumAmount(d, D, type) = SumFunctionOnSet(Amount(d), S(type))
    BY <2>1, SumAmountIs
  <2> HIDE DEF K, S, Part, D
  <2>8. SumFunctionOnSet(Part(type), K) = SumFunctionOnSet(Amount(d), S(type))
    <3>1. AreGroups(Amount(d), Part(type), TimeOf(d), S(type), K)
      BY <2>4, <2>5 DEF AreGroups, Group
    <3> QED BY <1>1, <2>6, <3>1, SumOfGroups
  <2> QED BY <2>4, <2>7, <2>8
<1>3. GetOverview(d, w).net = SumAmount(d, D, "payment.succeeded") - SumAmount(d, D, "payment.refunded")
  BY DEF GetOverview, Payments
<1>4. DOMAIN revenue = K /\ \A t \in K : revenue[t].net = h[t]
  BY DEF GetRevenue, Payments
<1>5. Sum(DOMAIN revenue, net) = SumFunctionOnSet(h, K)
  <2> DEFINE g == [t \in DOMAIN revenue |-> net(t)]
  <2>1. Sum(DOMAIN revenue, net) = SumFunctionOnSet(g, K)
    <3>1. DOMAIN g = K
      <4> HIDE DEF revenue, K
      <4> QED BY <1>4
    <3>2. Sum(DOMAIN revenue, net) = SumFunctionOnSet(g, DOMAIN g)
      <4> HIDE DEF revenue
      <4> QED BY DEF Sum, SumFunction
    <3> QED BY <3>1, <3>2
  <2>2. g = h
    <3> HIDE DEF revenue, K
    <3> QED BY <1>4
  <2> QED BY <2>1, <2>2
<1>6. SumFunctionOnSet(h, K) = SumFunctionOnSet(Part("payment.succeeded"), K)
                                 - SumFunctionOnSet(Part("payment.refunded"), K)
  <2>1. \A t \in K : h[t] = Part("payment.succeeded")[t] - Part("payment.refunded")[t]
    OBVIOUS
  <2>2. \A t \in K : Part("payment.succeeded")[t] \in Int /\ Part("payment.refunded")[t] \in Int
    BY <1>2
  <2> HIDE DEF K, Part, h
  <2> QED BY <1>1, <2>1, <2>2, SumOfDifferences
<1>7. /\ SumFunctionOnSet(Part("payment.succeeded"), K) = SumAmount(d, D, "payment.succeeded")
      /\ SumFunctionOnSet(Part("payment.refunded"), K) = SumAmount(d, D, "payment.refunded")
  BY <1>2
<1> HIDE DEF K, Part, h, revenue, D
<1>8. Sum(DOMAIN revenue, net) = GetOverview(d, w).net
  BY <1>3, <1>5, <1>6, <1>7
<1> QED BY <1>8 DEF revenue

(* What the items of the created orders cost, all of them together.        *)
ItemAt(d, l) == Body[d[l[1]]].items[l[2]]
Created(d, w) == OfType(d, DateMatch(d, w), {"order.created"})
Priced(d, w) == [l \in Lines(d, w) |-> ItemAt(d, l).quantity * ItemAt(d, l).price]

LEMMA LinesFit ==
    ASSUME NEW d \in Seq(Valid), NEW w
    PROVE  /\ IsFiniteSet(Lines(d, w)) /\ IsFiniteSet(Created(d, w))
           /\ Created(d, w) \in SUBSET DOMAIN d
           /\ \A n \in Created(d, w) :
                  /\ d[n] \in Valid /\ Body[d[n]].type = "order.created"
                  /\ IsFiniteSet(DOMAIN Body[d[n]].items)
           /\ \A l : l \in Lines(d, w) <=> \E n \in Created(d, w) :
                                               \E i \in DOMAIN Body[d[n]].items : l = <<n, i>>
           /\ \A l \in Lines(d, w) : Priced(d, w)[l] \in Int
<1> DEFINE C == Created(d, w)
           Row(n) == {<<n, i>> : i \in DOMAIN Body[d[n]].items}
           Rows == {Row(n) : n \in C}
<1>1. C \in SUBSET DOMAIN d /\ IsFiniteSet(C)
  BY MatchedFit DEF Created
<1>2. \A n \in C : d[n] \in Valid /\ Body[d[n]].type = "order.created"
  BY <1>1, DocumentsFit DEF Created, OfType
<1>3. \A n \in C : IsFiniteSet(DOMAIN Body[d[n]].items)
  BY <1>2, BodyAssumption
<1>4. Lines(d, w) = UNION Rows
  BY DEF Lines, Created
<1>5. \A n \in C : IsFiniteSet(Row(n))
  <2> SUFFICES ASSUME NEW n \in C PROVE IsFiniteSet(Row(n))
    OBVIOUS
  <2> DEFINE I == DOMAIN Body[d[n]].items
             b == [i \in I |-> <<n, i>>]
  <2>1. IsFiniteSet({b[i] : i \in I})
    <3>1. IsFiniteSet(I)
      BY <1>3
    <3> HIDE DEF I, b
    <3> QED BY <3>1, ImagesAreFinite
  <2>2. {b[i] : i \in I} = Row(n)
    OBVIOUS
  <2> QED BY <2>1, <2>2
<1>6. IsFiniteSet(Rows)
  <2> DEFINE b == [n \in C |-> Row(n)]
  <2>1. {b[n] : n \in C} = Rows
    OBVIOUS
  <2>2. IsFiniteSet({b[n] : n \in C})
    <3> HIDE DEF C, b
    <3> QED BY <1>1, ImagesAreFinite
  <2> QED BY <2>1, <2>2
<1>7. IsFiniteSet(UNION Rows)
  <2>1. \A T \in Rows : IsFiniteSet(T)
    BY <1>5
  <2> HIDE DEF Rows
  <2> QED BY <1>6, <2>1, FS_UNION
<1>8. \A l : l \in Lines(d, w) <=> \E n \in C : \E i \in DOMAIN Body[d[n]].items : l = <<n, i>>
  BY <1>4
<1>9. ASSUME NEW l \in Lines(d, w) PROVE Priced(d, w)[l] \in Int
  <2>1. PICK n \in C : \E i \in DOMAIN Body[d[n]].items : l = <<n, i>>
    BY <1>8
  <2>2. PICK i \in DOMAIN Body[d[n]].items : l = <<n, i>>
    BY <2>1
  <2>3. ItemAt(d, l) = Body[d[n]].items[i]
    BY <2>2 DEF ItemAt
  <2>4. ItemAt(d, l).quantity \in Int /\ ItemAt(d, l).price \in Int
    BY <1>2, <2>2, <2>3, BodyAssumption
  <2>5. Priced(d, w)[l] = ItemAt(d, l).quantity * ItemAt(d, l).price
    BY DEF Priced
  <2>6. \A x, y \in Int : x * y \in Int
    OBVIOUS
  <2> QED BY <2>4, <2>5, <2>6
<1> QED BY <1>1, <1>2, <1>3, <1>4, <1>7, <1>8, <1>9

(* The amounts of the created orders are those of their items.             *)
LEMMA ItemsCostTheOrders ==
    ASSUME NEW d \in Seq(Valid), NEW w
    PROVE  SumFunctionOnSet(Priced(d, w), Lines(d, w)) = GetOrders(d, w).value
<1> DEFINE C == Created(d, w)
           L == Lines(d, w)
           P == Priced(d, w)
           first == [l \in L |-> l[1]]
           Mine(n) == {l \in L : first[l] = n}
<1>1. ASSUME NEW n \in C
      PROVE  Amount(d)[n] = SumFunctionOnSet(P, Mine(n))
  <2> DEFINE I == DOMAIN Body[d[n]].items
             b == [i \in I |-> <<n, i>>]
             g == [i \in I |-> Body[d[n]].items[i].quantity * Body[d[n]].items[i].price]
  <2>1. d[n] \in Valid /\ IsFiniteSet(I) /\ n \in DOMAIN d /\ Body[d[n]].type = "order.created"
    BY LinesFit
  <2>2. Amount(d)[n] = SumFunctionOnSet(g, I)
    BY <2>1, BodyAssumption DEF Amount, SumFunction
  <2>3. \A i \in I : b[i] \in L /\ b[i] = <<n, i>>
    BY LinesFit
  <2>4. \A i \in I : g[i] = P[b[i]] /\ P[b[i]] \in Int
    <3> SUFFICES ASSUME NEW i \in I PROVE g[i] = P[b[i]] /\ P[b[i]] \in Int
      OBVIOUS
    <3>1. b[i] \in L /\ b[i] = <<n, i>>
      BY <2>3
    <3>2. ItemAt(d, b[i]) = Body[d[n]].items[i]
      BY <3>1 DEF ItemAt
    <3> QED BY <3>1, <3>2, LinesFit DEF Priced
  <2>5. Mine(n) = {b[i] : i \in I}
    <3>1. \A i \in I : b[i] \in Mine(n)
      BY <2>3
    <3>2. ASSUME NEW l \in Mine(n) PROVE l \in {b[i] : i \in I}
      <4>1. l \in L /\ l[1] = n
        OBVIOUS
      <4>2. PICK k \in C : \E i \in DOMAIN Body[d[k]].items : l = <<k, i>>
        BY <4>1, LinesFit
      <4>3. k = n
        BY <4>1, <4>2
      <4> QED BY <4>2, <4>3, <2>3
    <3> QED BY <3>1, <3>2
  <2>6. \A i, j \in I : b[i] = b[j] => i = j
    OBVIOUS
  <2> HIDE DEF I, b, g, P, L
  <2>7. SumFunctionOnSet(P, {b[i] : i \in I}) = SumFunctionOnSet(g, I)
    BY <2>1, <2>4, <2>6, SumOfRenamed
  <2> QED BY <2>2, <2>5, <2>7
<1>2. \A l \in L : P[l] \in Int /\ first[l] \in C
  BY LinesFit
<1>3. IsFiniteSet(L) /\ IsFiniteSet(C)
  BY LinesFit
<1>4. SumFunctionOnSet(Amount(d), C) = SumFunctionOnSet(P, L)
  <2> HIDE DEF C, P, L, first
  <2>1. AreGroups(P, Amount(d), first, L, C)
    BY <1>1, <1>2 DEF AreGroups, Group
  <2> QED BY <1>3, <2>1, SumOfGroups
<1>5. GetOrders(d, w).value = SumFunctionOnSet(Amount(d), C)
  <2> DEFINE g == [n \in C |-> Body[d[n]].amount]
  <2>1. OfType(d, OfType(d, DateMatch(d, w), OrderTypes), {"order.created"}) = C
    BY DEF OfType, Created, OrderTypes
  <2>2. GetOrders(d, w).value = SumFunctionOnSet(g, C)
    <3> HIDE DEF C
    <3> QED BY <2>1 DEF GetOrders, Sum, SumFunction
  <2>3. \A n \in C : Amount(d)[n] \in Int /\ g[n] = Amount(d)[n]
    BY LinesFit, DocumentsFit DEF Amount
  <2> HIDE DEF C, g
  <2>4. SumFunctionOnSet(g, C) = SumFunctionOnSet(Amount(d), C)
    BY <1>3, <2>3, SumSame
  <2> QED BY <2>2, <2>4
<1> QED BY <1>4, <1>5

(* Rows can be sorted as the top list sorts them.                          *)
LEMMA RowsAreRanked ==
    ASSUME NEW S, IsFiniteSet(S), \A r \in S : r.units \in Int /\ r.revenue \in Int
    PROVE  Ranked(S, Better) # {}
<1> DEFINE R == {q \in S \X S : ~Better(q[2], q[1])}
<1>1. Total(R, S)
  <2>1. \A a, b \in S : <<a, b>> \in R <=> ~Better(b, a)
    OBVIOUS
  <2>2. \A a, b \in S : ~Better(b, a) \/ ~Better(a, b)
    BY DEF Better
  <2>3. \A a, b, c \in S : ~Better(b, a) /\ ~Better(c, b) => ~Better(c, a)
    BY DEF Better
  <2> HIDE DEF R
  <2> QED BY <2>1, <2>2, <2>3 DEF Total
<1>2. PICK s \in [1..Cardinality(S) -> S] : Ranks(s, R)
  <2> HIDE DEF R
  <2> QED BY <1>1, RankingExists
<1>3. IsInjective(s) /\ \A i, j \in DOMAIN s : i < j => ~Better(s[j], s[i])
  BY <1>2 DEF Ranks
<1> QED BY <1>3 DEF Ranked

(* The products that were ordered, and their rows.                         *)
ProductOf(d, w) == [l \in Lines(d, w) |-> ItemAt(d, l).product]
Sold(d, w) == {ItemAt(d, l).product : l \in Lines(d, w)}
RowOf(d, w) == [p \in Sold(d, w) |-> ProductRow(d, p, Lines(d, w))]
Rows(d, w) == {RowOf(d, w)[p] : p \in Sold(d, w)}

Counted(d, w) == [l \in Lines(d, w) |-> ItemAt(d, l).quantity]
LinesOf(d, w, p) == Group(Lines(d, w), ProductOf(d, w), p)

RowFits(d, w, p) ==
    /\ IsFiniteSet(LinesOf(d, w, p))
    /\ LinesOf(d, w, p) = {l \in Lines(d, w) : ItemAt(d, l).product = p}
    /\ \A l \in LinesOf(d, w, p) : Counted(d, w)[l] \in Int /\ Priced(d, w)[l] \in Int
    /\ RowOf(d, w)[p] = [product |-> p,
                         units |-> SumFunctionOnSet(Counted(d, w), LinesOf(d, w, p)),
                         lines |-> Cardinality(LinesOf(d, w, p)),
                         revenue |-> SumFunctionOnSet(Priced(d, w), LinesOf(d, w, p))]

LEMMA RowIs ==
    ASSUME NEW d \in Seq(Valid), NEW w, NEW p \in Sold(d, w)
    PROVE  RowFits(d, w, p)
<1> DEFINE L == Lines(d, w)
           G == LinesOf(d, w, p)
           mine == {l \in L : Body[d[l[1]]].items[l[2]].product = p}
           x == [l \in mine |-> Body[d[l[1]]].items[l[2]].quantity]
           y == [l \in mine |-> Body[d[l[1]]].items[l[2]].quantity * Body[d[l[1]]].items[l[2]].price]
<1>1. IsFiniteSet(L) /\ \A l \in L : Priced(d, w)[l] \in Int
  BY LinesFit
<1>2. G = {l \in L : ItemAt(d, l).product = p} /\ mine = G
  BY DEF LinesOf, Group, ProductOf, ItemAt
<1>3. IsFiniteSet(G)
  BY <1>1, <1>2, FS_Subset
<1>4. \A l \in G : Counted(d, w)[l] \in Int
  <2> SUFFICES ASSUME NEW l \in G PROVE Counted(d, w)[l] \in Int
    OBVIOUS
  <2>1. PICK n \in Created(d, w) : \E i \in DOMAIN Body[d[n]].items : l = <<n, i>>
    BY <1>2, LinesFit
  <2>2. PICK i \in DOMAIN Body[d[n]].items : l = <<n, i>>
    BY <2>1
  <2>3. d[n] \in Valid /\ ItemAt(d, l) = Body[d[n]].items[i]
    BY <2>2, LinesFit DEF ItemAt
  <2> QED BY <1>2, <2>2, <2>3, BodyAssumption DEF Counted
<1>5. ProductRow(d, p, L) = [product |-> p, units |-> SumFunctionOnSet(x, DOMAIN x),
                             lines |-> Cardinality(mine), revenue |-> SumFunctionOnSet(y, DOMAIN y)]
  <2> HIDE DEF L
  <2> QED BY DEF ProductRow, Sum, SumFunction
<1>6. DOMAIN x = mine /\ DOMAIN y = mine
  OBVIOUS
<1>7. SumFunctionOnSet(x, G) = SumFunctionOnSet(Counted(d, w), G)
  <2>1. \A l \in G : Counted(d, w)[l] \in Int /\ x[l] = Counted(d, w)[l]
    BY <1>2, <1>4 DEF Counted, ItemAt
  <2> HIDE DEF G, x
  <2> QED BY <1>3, <2>1, SumSame
<1>8. SumFunctionOnSet(y, G) = SumFunctionOnSet(Priced(d, w), G)
  <2>1. \A l \in G : Priced(d, w)[l] \in Int /\ y[l] = Priced(d, w)[l]
    BY <1>1, <1>2 DEF Priced, ItemAt
  <2> HIDE DEF G, y
  <2> QED BY <1>3, <2>1, SumSame
<1>9. RowOf(d, w)[p] = ProductRow(d, p, L)
  BY DEF RowOf
<1>10. \A l \in G : Priced(d, w)[l] \in Int
  BY <1>1, <1>2
<1> HIDE DEF L, G, mine, x, y
<1>11. RowOf(d, w)[p] = [product |-> p, units |-> SumFunctionOnSet(Counted(d, w), G),
                         lines |-> Cardinality(G), revenue |-> SumFunctionOnSet(Priced(d, w), G)]
  BY <1>2, <1>5, <1>6, <1>7, <1>8, <1>9
<1> QED BY <1>2, <1>3, <1>4, <1>10, <1>11 DEF G, L, RowFits

LEMMA RowsFit ==
    ASSUME NEW d \in Seq(Valid), NEW w
    PROVE  /\ IsFiniteSet(Sold(d, w)) /\ Cardinality(Sold(d, w)) <= Cardinality(Lines(d, w))
           /\ \A p \in Sold(d, w) :
                  /\ RowOf(d, w)[p].product = p /\ RowOf(d, w)[p].units \in Int
                  /\ RowOf(d, w)[p].revenue \in Int
                  /\ RowOf(d, w)[p].revenue = SumFunctionOnSet(Priced(d, w), LinesOf(d, w, p))
<1> DEFINE L == Lines(d, w)
           k == ProductOf(d, w)
<1>1. IsFiniteSet(L)
  BY LinesFit
<1>2. Sold(d, w) = {k[l] : l \in L}
  BY DEF Sold, ProductOf
<1>3. IsFiniteSet(Sold(d, w)) /\ Cardinality(Sold(d, w)) <= Cardinality(L)
  <2> HIDE DEF L, k
  <2> QED BY <1>1, <1>2, ImagesAreFinite
<1>4. ASSUME NEW p \in Sold(d, w)
      PROVE  /\ SumFunctionOnSet(Counted(d, w), LinesOf(d, w, p)) \in Int
             /\ SumFunctionOnSet(Priced(d, w), LinesOf(d, w, p)) \in Int
  <2> DEFINE G == LinesOf(d, w, p)
  <2>1. IsFiniteSet(G) /\ \A l \in G : Counted(d, w)[l] \in Int /\ Priced(d, w)[l] \in Int
    BY RowIs DEF RowFits
  <2> HIDE DEF G
  <2>2. SumFunctionOnSet(Counted(d, w), G) \in Int /\ SumFunctionOnSet(Priced(d, w), G) \in Int
    BY <2>1, SumRules
  <2> QED BY <2>2 DEF G
<1>5. ASSUME NEW p \in Sold(d, w)
      PROVE  /\ RowOf(d, w)[p].product = p
             /\ RowOf(d, w)[p].units = SumFunctionOnSet(Counted(d, w), LinesOf(d, w, p))
             /\ RowOf(d, w)[p].revenue = SumFunctionOnSet(Priced(d, w), LinesOf(d, w, p))
  <2>1. RowFits(d, w, p)
    BY RowIs
  <2> QED BY <2>1 DEF RowFits
<1> QED BY <1>3, <1>4, <1>5

LEMMA TopProductsAre ==
    ASSUME NEW d \in Seq(Valid), NEW w
    PROVE  /\ Ranked(Rows(d, w), Better) # {}
           /\ \A s \in Ranked(Rows(d, w), Better) :
                  s \in [1..Cardinality(Rows(d, w)) -> Rows(d, w)] /\ IsInjective(s)
           /\ IsFiniteSet(Rows(d, w)) /\ Cardinality(Rows(d, w)) = Cardinality(Sold(d, w))
           /\ \A limit : GetTopProducts(d, limit, w)
                  = {SubSeq(s, 1, Min({limit, Len(s)})) : s \in Ranked(Rows(d, w), Better)}
<1> DEFINE S == Rows(d, w)
           b == RowOf(d, w)
           D == Sold(d, w)
<1>1. \A p, q \in D : b[p] = b[q] => p = q
  BY RowsFit
<1>2. IsFiniteSet(S) /\ Cardinality(S) = Cardinality(D)
  <2>1. IsFiniteSet(D) /\ S = {b[p] : p \in D}
    BY RowsFit DEF Rows
  <2> HIDE DEF S, b, D
  <2> QED BY <1>1, <2>1, RenamedAreAsMany
<1>3. \A r \in S : r.units \in Int /\ r.revenue \in Int
  BY RowsFit DEF Rows
<1>4. /\ Ranked(S, Better) # {}
      /\ \A s \in Ranked(S, Better) : s \in [1..Cardinality(S) -> S] /\ IsInjective(s)
  <2> HIDE DEF S
  <2>1. Ranked(S, Better) # {}
    BY <1>2, <1>3, RowsAreRanked
  <2>2. \A s \in Ranked(S, Better) : s \in [1..Cardinality(S) -> S] /\ IsInjective(s)
    BY DEF Ranked
  <2> QED BY <2>1, <2>2
<1>5. {ProductRow(d, p, Lines(d, w)) : p \in D} = S
  BY DEF Rows, RowOf
<1>6. D = {Body[d[l[1]]].items[l[2]].product : l \in Lines(d, w)}
  BY DEF Sold, ItemAt
<1>7. ASSUME NEW limit
      PROVE  GetTopProducts(d, limit, w)
               = {SubSeq(s, 1, Min({limit, Len(s)})) : s \in Ranked(S, Better)}
  <2> HIDE DEF S, D
  <2> QED BY <1>5, <1>6 DEF GetTopProducts
<1> QED BY <1>2, <1>4, <1>7

(* What all products earned is what all orders are worth, in whatever      *)
(* order the database lists those that tie.                                *)
LEMMA ProductsEarnTheOrders ==
    ASSUME NEW d \in Seq(Valid), NEW w, NEW products \in GetTopProducts(d, Cardinality(Lines(d, w)), w)
    PROVE  LET earned(i) == products[i].revenue
           IN Sum(DOMAIN products, earned) = GetOrders(d, w).value
<1> DEFINE L == Lines(d, w)
           P == Priced(d, w)
           D == Sold(d, w)
           S == Rows(d, w)
           n == Cardinality(S)
           b == RowOf(d, w)
           ofRow == [r \in S |-> r.revenue]
           ofProduct == [p \in D |-> b[p].revenue]
           earned(i) == products[i].revenue
           top == {SubSeq(s, 1, Min({Cardinality(L), Len(s)})) : s \in Ranked(S, Better)}
<1>0. PICK s \in Ranked(S, Better) : products = SubSeq(s, 1, Min({Cardinality(L), Len(s)}))
  <2>1. GetTopProducts(d, Cardinality(L), w) = top
    BY TopProductsAre
  <2>2. products \in top
    BY <2>1
  <2> HIDE DEF L, S
  <2> QED BY <2>2
<1> DEFINE ofRank == [i \in 1..n |-> s[i].revenue]
<1>1. /\ IsFiniteSet(S) /\ s \in [1..n -> S] /\ IsInjective(s) /\ n \in Nat
      /\ n <= Cardinality(L) /\ Cardinality(L) \in Nat /\ IsFiniteSet(L) /\ IsFiniteSet(D)
  BY TopProductsAre, RowsFit, LinesFit, FS_CardinalityType
<1>2. products = s
  <2>1. products = SubSeq(s, 1, Min({Cardinality(L), Len(s)}))
    BY <1>0
  <2>2. Len(s) = n /\ s \in Seq(S)
    <3> HIDE DEF n, S
    <3> QED BY <1>1
  <2>3. Min({Cardinality(L), n}) = n
    <3> HIDE DEF n, L
    <3>1. n \in {Cardinality(L), n} /\ \A y \in {Cardinality(L), n} : n =< y
      BY <1>1
    <3>2. \A x \in {Cardinality(L), n} : (\A y \in {Cardinality(L), n} : x =< y) => x = n
      BY <1>1
    <3> QED BY <3>1, <3>2 DEF Min
  <2>4. SubSeq(s, 1, n) = s
    <3> HIDE DEF n, S
    <3> QED BY <1>1, <2>2
  <2> QED BY <2>1, <2>2, <2>3, <2>4
<1>3. Sum(DOMAIN products, earned) = SumFunctionOnSet(ofRank, 1..n)
  <2>1. DOMAIN products = 1..n /\ \A i \in 1..n : earned(i) = s[i].revenue
    BY <1>1, <1>2
  <2> DEFINE g == [i \in DOMAIN products |-> earned(i)]
  <2>2. g = ofRank
    <3> HIDE DEF n
    <3> QED BY <2>1
  <2>3. Sum(DOMAIN products, earned) = SumFunctionOnSet(g, DOMAIN g)
    <3> QED BY DEF Sum, SumFunction
  <2>4. DOMAIN g = 1..n
    <3> HIDE DEF n
    <3> QED BY <2>1
  <2> QED BY <2>2, <2>3, <2>4
<1>4. \A r \in S : r.revenue \in Int
  BY RowsFit DEF Rows
<1>5. SumFunctionOnSet(ofRow, S) = SumFunctionOnSet(ofRank, 1..n)
  <2>1. {s[i] : i \in 1..n} = S
    <3> HIDE DEF S
    <3> QED BY <1>1, RankingListsAll
  <2>2. IsFiniteSet(1..n)
    BY <1>1, FS_Interval
  <2>3. \A i \in 1..n : ofRank[i] \in Int /\ ofRank[i] = ofRow[s[i]]
    <3> HIDE DEF S, n
    <3> QED BY <1>1, <1>4
  <2>4. \A i, j \in 1..n : s[i] = s[j] => i = j
    <3> HIDE DEF S, n
    <3> QED BY <1>1 DEF IsInjective
  <2> DEFINE I == 1..n
  <2>5. SumFunctionOnSet(ofRow, {s[i] : i \in I}) = SumFunctionOnSet(ofRank, I)
    <3>1. /\ IsFiniteSet(I) /\ \A i \in I : ofRank[i] \in Int /\ ofRank[i] = ofRow[s[i]]
          /\ \A i, j \in I : s[i] = s[j] => i = j
      BY <2>2, <2>3, <2>4
    <3> HIDE DEF S, n, ofRank, ofRow, I
    <3> QED BY <3>1, SumOfRenamed
  <2> HIDE DEF S, n, ofRank, ofRow
  <2> QED BY <2>1, <2>5
<1>6. SumFunctionOnSet(ofRow, S) = SumFunctionOnSet(ofProduct, D)
  <2>1. S = {b[p] : p \in D}
    BY DEF Rows
  <2>2. \A p \in D : ofProduct[p] \in Int /\ ofProduct[p] = ofRow[b[p]]
    BY RowsFit, <2>1
  <2>3. \A p, q \in D : b[p] = b[q] => p = q
    BY RowsFit
  <2> HIDE DEF S, D, b, ofRow, ofProduct
  <2>4. SumFunctionOnSet(ofRow, {b[p] : p \in D}) = SumFunctionOnSet(ofProduct, D)
    BY <1>1, <2>2, <2>3, SumOfRenamed
  <2> QED BY <2>1, <2>4
<1>7. SumFunctionOnSet(ofProduct, D) = SumFunctionOnSet(P, L)
  <2>1. AreGroups(P, ofProduct, ProductOf(d, w), L, D)
    <3>1. \A l \in L : P[l] \in Int /\ ProductOf(d, w)[l] \in D
      BY LinesFit DEF ProductOf, Sold
    <3>2. \A p \in D : ofProduct[p] = SumFunctionOnSet(P, Group(L, ProductOf(d, w), p))
      BY RowsFit DEF LinesOf
    <3> QED BY <3>1, <3>2 DEF AreGroups
  <2> HIDE DEF P, L, D, ofProduct
  <2> QED BY <1>1, <2>1, SumOfGroups
<1>8. SumFunctionOnSet(P, L) = GetOrders(d, w).value
  BY ItemsCostTheOrders
<1>9. Sum(DOMAIN products, earned) = GetOrders(d, w).value
  <2> HIDE DEF ofRank, ofRow, ofProduct, P, L, D, S, n
  <2> QED BY <1>3, <1>5, <1>6, <1>7, <1>8
<1> QED BY <1>9

(* Windows that meet share no event and skip none.                         *)
LEMMA PartsAddUp ==
    ASSUME NEW d \in Seq(Valid), NEW w, w[1] \in Int, w[2] \in Int, NEW m \in w[1]..(w[2] - 1)
    PROVE  /\ GetOverview(d, <<w[1], m>>).net + GetOverview(d, <<m + 1, w[2]>>).net
                = GetOverview(d, w).net
           /\ GetOverview(d, <<w[1], m>>).net \in Int /\ GetOverview(d, <<m + 1, w[2]>>).net \in Int
<1> DEFINE v == <<w[1], m>>
           u == <<m + 1, w[2]>>
           T(x, type) == OfType(d, DateMatch(d, x), {type})
           A(x, type) == SumAmount(d, DateMatch(d, x), type)
<1>1. /\ w[1] \in Int /\ w[2] \in Int /\ m \in Int /\ w[1] <= m /\ m < w[2]
      /\ v[1] = w[1] /\ v[2] = m /\ u[1] = m + 1 /\ u[2] = w[2]
  OBVIOUS
<1>2. \A n \in DOMAIN d : Body[d[n]].at \in Int
  BY DocumentsFit, AnalyticsAssumption
<1>3. DateMatch(d, w) = DateMatch(d, v) \cup DateMatch(d, u)
      /\ DateMatch(d, v) \cap DateMatch(d, u) = {}
  <2> HIDE DEF v, u
  <2> QED BY <1>1, <1>2 DEF DateMatch
<1>4. ASSUME NEW type
      PROVE  A(w, type) = A(v, type) + A(u, type) /\ A(v, type) \in Int /\ A(u, type) \in Int
  <2>1. T(w, type) = T(v, type) \cup T(u, type) /\ T(v, type) \cap T(u, type) = {}
    <3> HIDE DEF v, u
    <3> QED BY <1>3 DEF OfType
  <2>2. ASSUME NEW x
        PROVE  /\ A(x, type) = SumFunctionOnSet(Amount(d), T(x, type)) /\ A(x, type) \in Int
               /\ IsFiniteSet(T(x, type)) /\ \A n \in T(x, type) : Amount(d)[n] \in Int
    BY MatchedFit, DocumentsFit, SumAmountIs
  <2>3. /\ IsFiniteSet(T(v, type)) /\ IsFiniteSet(T(u, type))
        /\ \A n \in T(v, type) \cup T(u, type) : Amount(d)[n] \in Int
    <3> HIDE DEF T, v, u
    <3> QED BY <2>2
  <2>4. SumFunctionOnSet(Amount(d), T(v, type) \cup T(u, type))
          = SumFunctionOnSet(Amount(d), T(v, type)) + SumFunctionOnSet(Amount(d), T(u, type))
    <3> HIDE DEF T, v, u
    <3> QED BY <2>1, <2>3, SumOfUnion
  <2>5. /\ A(w, type) = SumFunctionOnSet(Amount(d), T(w, type))
        /\ A(v, type) = SumFunctionOnSet(Amount(d), T(v, type)) /\ A(v, type) \in Int
        /\ A(u, type) = SumFunctionOnSet(Amount(d), T(u, type)) /\ A(u, type) \in Int
    <3> HIDE DEF A, T, v, u
    <3> QED BY <2>2
  <2>6. SumFunctionOnSet(Amount(d), T(w, type)) = SumFunctionOnSet(Amount(d), T(v, type) \cup T(u, type))
    BY <2>1
  <2> HIDE DEF A, T, v, u
  <2> QED BY <2>4, <2>5, <2>6
<1>5. \A x : GetOverview(d, x).net = A(x, "payment.succeeded") - A(x, "payment.refunded")
  BY DEF GetOverview, Payments
<1> HIDE DEF A, v, u
<1>6. /\ GetOverview(d, v).net + GetOverview(d, u).net = GetOverview(d, w).net
      /\ GetOverview(d, v).net \in Int /\ GetOverview(d, u).net \in Int
  BY <1>4, <1>5
<1> QED BY <1>6 DEF v, u

(* Windows that share an end both count what occurred there.               *)
LEMMA SharedEndCountsTwice ==
    ASSUME NEW d \in Seq(Valid), NEW w \in Windows, NEW m \in w[1]..(w[2] - 1)
    PROVE  GetOverview(d, <<w[1], m>>).net + GetOverview(d, <<m, w[2]>>).net
             = GetOverview(d, w).net + GetOverview(d, <<m, m>>).net
<1> DEFINE N(x) == GetOverview(d, x).net
           v == <<m, w[2]>>
<1>1. w[1] \in Int /\ w[2] \in Int /\ m \in Int /\ m \in m..(w[2] - 1)
      /\ v[1] = m /\ v[2] = w[2]
  BY AnalyticsAssumption
<1>2. /\ N(<<w[1], m>>) + N(<<m + 1, w[2]>>) = N(w)
      /\ N(<<w[1], m>>) \in Int /\ N(<<m + 1, w[2]>>) \in Int
  BY <1>1, PartsAddUp
<1>3. /\ N(<<v[1], m>>) + N(<<m + 1, v[2]>>) = N(v)
      /\ N(<<v[1], m>>) \in Int /\ N(<<m + 1, v[2]>>) \in Int
  <2>1. v[1] \in Int /\ v[2] \in Int /\ m \in v[1]..(v[2] - 1)
    BY <1>1
  <2> HIDE DEF v
  <2> QED BY <2>1, PartsAddUp
<1>4. N(<<m, m>>) + N(<<m + 1, w[2]>>) = N(v) /\ N(<<m, m>>) \in Int
  BY <1>1, <1>3
<1> HIDE DEF N
<1>5. N(<<w[1], m>>) + N(<<m, w[2]>>) = N(w) + N(<<m, m>>)
  BY <1>2, <1>4
<1> QED BY <1>5 DEF N

(* The reports of one window agree, whatever the collection.               *)
LEMMA EveryCollectionAgrees ==
    ASSUME docs \in Seq(Valid)
    PROVE  ReportsAgree
<1> SUFFICES ASSUME NEW w \in Windows
             PROVE  LET overview == GetOverview(docs, w)
                        revenue == GetRevenue(docs, w)
                        orders == GetOrders(docs, w)
                        net(t) == revenue[t].net
                        netOf(a, b) == GetOverview(docs, <<a, b>>).net
                    IN /\ GetPayments(docs, w).payments = overview.payments
                       /\ Sum(DOMAIN revenue, net) = overview.net
                       /\ orders.orders = overview.orders
                       /\ \A products \in GetTopProducts(docs, Cardinality(Lines(docs, w)), w) :
                              LET earned(i) == products[i].revenue
                              IN Sum(DOMAIN products, earned) = orders.value
                       /\ \A m \in w[1]..(w[2] - 1) :
                              /\ netOf(w[1], m) + netOf(m + 1, w[2]) = overview.net
                              /\ netOf(w[1], m) + netOf(m, w[2]) = overview.net + netOf(m, m)
  BY DEF ReportsAgree
<1>1. GetPayments(docs, w).payments = GetOverview(docs, w).payments
  <2> DEFINE D == DateMatch(docs, w)
  <2>1. \A type \in PaymentTypes :
            OfType(docs, OfType(docs, D, PaymentTypes), {type}) = OfType(docs, D, {type})
    BY DEF OfType
  <2>2. \A type \in PaymentTypes :
            /\ CountEvent(docs, OfType(docs, D, PaymentTypes), type) = CountEvent(docs, D, type)
            /\ SumAmount(docs, OfType(docs, D, PaymentTypes), type) = SumAmount(docs, D, type)
    <3> HIDE DEF D
    <3> QED BY <2>1 DEF CountEvent, SumAmount
  <2>3. Payments(docs, OfType(docs, D, PaymentTypes)) = Payments(docs, D)
    <3> HIDE DEF D
    <3> QED BY <2>2 DEF Payments, PaymentTypes
  <2> QED BY <2>3 DEF GetPayments, GetOverview
<1>2. GetOrders(docs, w).orders = GetOverview(docs, w).orders
  <2>1. OfType(docs, OfType(docs, DateMatch(docs, w), OrderTypes), {"order.created"})
          = OfType(docs, DateMatch(docs, w), {"order.created"})
    BY DEF OfType, OrderTypes
  <2> QED BY <2>1 DEF GetOrders, GetOverview, CountEvent
<1>3. LET revenue == GetRevenue(docs, w)  net(t) == revenue[t].net
      IN Sum(DOMAIN revenue, net) = GetOverview(docs, w).net
  BY PeriodsAddUp
<1>4. \A products \in GetTopProducts(docs, Cardinality(Lines(docs, w)), w) :
          LET earned(i) == products[i].revenue
          IN Sum(DOMAIN products, earned) = GetOrders(docs, w).value
  BY ProductsEarnTheOrders
<1>5. \A m \in w[1]..(w[2] - 1) :
          /\ GetOverview(docs, <<w[1], m>>).net + GetOverview(docs, <<m + 1, w[2]>>).net
                = GetOverview(docs, w).net
          /\ GetOverview(docs, <<w[1], m>>).net + GetOverview(docs, <<m, w[2]>>).net
                = GetOverview(docs, w).net + GetOverview(docs, <<m, m>>).net
  BY PartsAddUp, SharedEndCountsTwice, AnalyticsAssumption
<1> QED BY <1>1, <1>2, <1>3, <1>4, <1>5
-----------------------------------------------------------------------------
(* The order of a collection.  It is given another one by b, which says    *)
(* where in e each document of d has gone.                                 *)
Renames(b, d, e) ==
    /\ d \in Seq(Valid) /\ e \in Seq(Valid) /\ b \in [DOMAIN d -> DOMAIN e]
    /\ \A m, n \in DOMAIN d : b[m] = b[n] => m = n
    /\ \A k \in DOMAIN e : \E n \in DOMAIN d : b[n] = k
    /\ \A n \in DOMAIN d : e[b[n]] = d[n]
Gone(b, D) == {b[n] : n \in D}

LEMMA MatchedRenamed ==
    ASSUME NEW b, NEW d, NEW e, Renames(b, d, e), NEW w, NEW types, NEW D \in SUBSET DOMAIN d
    PROVE  /\ DateMatch(e, w) = Gone(b, DateMatch(d, w))
           /\ OfType(e, Gone(b, D), types) = Gone(b, OfType(d, D, types))
<1>1. DateMatch(e, w) = Gone(b, DateMatch(d, w))
  <2>1. \A k \in DateMatch(e, w) : k \in Gone(b, DateMatch(d, w))
    BY DEF DateMatch, Gone, Renames
  <2>2. \A k \in Gone(b, DateMatch(d, w)) : k \in DateMatch(e, w)
    BY DEF DateMatch, Gone, Renames
  <2> QED BY <2>1, <2>2
<1>2. OfType(e, Gone(b, D), types) = Gone(b, OfType(d, D, types))
  <2>1. \A n \in D : e[b[n]] = d[n]
    BY DEF Renames
  <2> QED BY <2>1 DEF OfType, Gone
<1> QED BY <1>1, <1>2

LEMMA CountsRenamed ==
    ASSUME NEW b, NEW d, NEW e, Renames(b, d, e), NEW type, NEW D \in SUBSET DOMAIN d
    PROVE  /\ CountEvent(e, Gone(b, D), type) = CountEvent(d, D, type)
           /\ SumAmount(e, Gone(b, D), type) = SumAmount(d, D, type)
<1> DEFINE T == OfType(d, D, {type})
<1>1. d \in Seq(Valid) /\ e \in Seq(Valid)
  BY DEF Renames
<1>2. T \in SUBSET DOMAIN d /\ IsFiniteSet(T)
  <2>1. T \in SUBSET DOMAIN d
    BY DEF OfType
  <2> QED BY <1>1, <2>1, DocumentsFit, FS_Subset
<1>3. OfType(e, Gone(b, D), {type}) = {b[n] : n \in T}
  <2>1. OfType(e, Gone(b, D), {type}) = Gone(b, T)
    BY MatchedRenamed
  <2> HIDE DEF T
  <2> QED BY <2>1 DEF Gone
<1>4. \A m, n \in T : b[m] = b[n] => m = n
  BY <1>2 DEF Renames
<1>5. \A n \in T : Amount(d)[n] \in Int /\ Amount(d)[n] = Amount(e)[b[n]]
  <2>1. \A n \in T : b[n] \in DOMAIN e /\ e[b[n]] = d[n] /\ n \in DOMAIN d
    BY <1>2 DEF Renames
  <2>2. \A n \in DOMAIN d : Amount(d)[n] \in Int
    BY <1>1, DocumentsFit
  <2> QED BY <2>1, <2>2 DEF Amount
<1>6. Gone(b, D) \in SUBSET DOMAIN e
  BY DEF Gone, Renames
<1>7. /\ SumAmount(d, D, type) = SumFunctionOnSet(Amount(d), T)
      /\ SumAmount(e, Gone(b, D), type) = SumFunctionOnSet(Amount(e), {b[n] : n \in T})
  <2>1. SumAmount(d, D, type) = SumFunctionOnSet(Amount(d), T)
    BY <1>1, SumAmountIs
  <2>2. SumAmount(e, Gone(b, D), type) = SumFunctionOnSet(Amount(e), OfType(e, Gone(b, D), {type}))
    BY <1>1, <1>6, SumAmountIs
  <2> HIDE DEF T
  <2> QED BY <1>3, <2>1, <2>2
<1>8. CountEvent(d, D, type) = Cardinality(T) /\ CountEvent(e, Gone(b, D), type) = Cardinality({b[n] : n \in T})
  BY <1>3 DEF CountEvent
<1> HIDE DEF T
<1>9. Cardinality({b[n] : n \in T}) = Cardinality(T)
  BY <1>2, <1>4, RenamedAreAsMany
<1>10. SumFunctionOnSet(Amount(e), {b[n] : n \in T}) = SumFunctionOnSet(Amount(d), T)
  BY <1>2, <1>4, <1>5, SumOfRenamed
<1> QED BY <1>7, <1>8, <1>9, <1>10

LEMMA PaymentsRenamed ==
    ASSUME NEW b, NEW d, NEW e, Renames(b, d, e), NEW D \in SUBSET DOMAIN d
    PROVE  Payments(e, Gone(b, D)) = Payments(d, D)
BY CountsRenamed DEF Payments

LEMMA TotalsRenamed ==
    ASSUME NEW b, NEW d, NEW e, Renames(b, d, e), NEW w
    PROVE  GetOverview(e, w) = GetOverview(d, w) /\ GetPayments(e, w) = GetPayments(d, w)
<1> DEFINE D == DateMatch(d, w)
<1>1. D \in SUBSET DOMAIN d /\ DateMatch(e, w) = Gone(b, D)
  <2>1. D \in SUBSET DOMAIN d
    BY DEF DateMatch
  <2> QED BY <2>1, MatchedRenamed
<1>2. /\ Payments(e, Gone(b, D)) = Payments(d, D)
      /\ CountEvent(e, Gone(b, D), "order.created") = CountEvent(d, D, "order.created")
  <2> HIDE DEF D
  <2> QED BY <1>1, PaymentsRenamed, CountsRenamed
<1> DEFINE P == OfType(d, D, PaymentTypes)
<1>3. P \in SUBSET DOMAIN d /\ OfType(e, DateMatch(e, w), PaymentTypes) = Gone(b, P)
  <2>1. P \in SUBSET DOMAIN d
    BY <1>1 DEF OfType
  <2> HIDE DEF D
  <2>2. OfType(e, Gone(b, D), PaymentTypes) = Gone(b, OfType(d, D, PaymentTypes))
    BY <1>1, MatchedRenamed
  <2> QED BY <1>1, <2>1, <2>2
<1>4. /\ Payments(e, Gone(b, P)) = Payments(d, P)
      /\ CountEvent(e, Gone(b, P), "payment.created") = CountEvent(d, P, "payment.created")
  <2> HIDE DEF P
  <2> QED BY <1>3, PaymentsRenamed, CountsRenamed
<1> HIDE DEF P
<1>5. GetOverview(e, w) = GetOverview(d, w)
  BY <1>1, <1>2 DEF GetOverview
<1>6. GetPayments(e, w) = GetPayments(d, w)
  BY <1>3, <1>4 DEF GetPayments, P
<1> QED BY <1>5, <1>6

LEMMA RevenueRenamed ==
    ASSUME NEW b, NEW d, NEW e, Renames(b, d, e), NEW w
    PROVE  GetRevenue(e, w) = GetRevenue(d, w)
<1> DEFINE types == {"payment.succeeded", "payment.refunded"}
           E == OfType(d, DateMatch(d, w), types)
           F == OfType(e, DateMatch(e, w), types)
           In(t) == {n \in E : Period(n, d) = t}
           At1(t) == {k \in F : Period(k, e) = t}
           row(c, D) == LET p == Payments(c, D)
                        IN [succeeded |-> p.succeeded, gross |-> p.gross, refunded |-> p.refunded,
                            net |-> p.gross - p.refunded]
<1>1. E \in SUBSET DOMAIN d /\ F = Gone(b, E)
  <2>1. DateMatch(d, w) \in SUBSET DOMAIN d /\ E \in SUBSET DOMAIN d
    BY DEF DateMatch, OfType
  <2> QED BY <2>1, MatchedRenamed
<1>2. \A n \in E : Period(b[n], e) = Period(n, d)
  <2>1. \A n \in E : e[b[n]] = d[n]
    BY <1>1 DEF Renames
  <2> QED BY <2>1 DEF Period
<1>3. {Period(k, e) : k \in F} = {Period(n, d) : n \in E}
  <2> HIDE DEF E, F
  <2> QED BY <1>1, <1>2 DEF Gone
<1>4. ASSUME NEW t PROVE row(e, At1(t)) = row(d, In(t))
  <2>1. At1(t) = Gone(b, In(t))
    <3> HIDE DEF E, F
    <3> QED BY <1>1, <1>2 DEF Gone
  <2>2. In(t) \in SUBSET DOMAIN d
    BY <1>1
  <2>3. Payments(e, At1(t)) = Payments(d, In(t))
    <3> HIDE DEF In, At1
    <3> QED BY <2>1, <2>2, PaymentsRenamed
  <2> HIDE DEF In, At1
  <2> QED BY <2>3
<1>5. /\ GetRevenue(e, w) = [t \in {Period(k, e) : k \in F} |-> row(e, At1(t))]
      /\ GetRevenue(d, w) = [t \in {Period(n, d) : n \in E} |-> row(d, In(t))]
  BY DEF GetRevenue
<1> HIDE DEF row, In, At1, E, F
<1> QED BY <1>3, <1>4, <1>5

(* Two events of one order that say its status carry different times.      *)
TimesDiffer ==
    \A x, y \in Valid :
        /\ x # y /\ Body[x].type \in OrderTypes /\ Body[y].type \in OrderTypes
        /\ Body[x].order = Body[y].order
        => Body[x].at # Body[y].at

(* The latest event of an order.                                           *)
IsLatest(d, D, o, n) ==
    /\ n \in D /\ Body[d[n]].order = o
    /\ \A k \in D : Body[d[k]].order = o => Body[d[k]].at <= Body[d[n]].at

LEMMA OneIsLatest ==
    ASSUME TimesDiffer, NEW d \in Seq(Valid), IsInjective(d), NEW w, NEW D,
           D = OfType(d, DateMatch(d, w), OrderTypes), NEW o \in OrdersIn(d, D)
    PROVE  /\ IsLatest(d, D, o, LatestOf(d, D, o))
           /\ \A n : IsLatest(d, D, o, n) => n = LatestOf(d, D, o)
<1> DEFINE T == {n \in D : Body[d[n]].order = o}
           R == {q \in (DOMAIN d) \X (DOMAIN d) : Body[d[q[1]]].at <= Body[d[q[2]]].at}
<1>1. /\ T \in SUBSET DOMAIN d /\ D \in SUBSET DOMAIN d /\ IsFiniteSet(T) /\ T # {}
      /\ \A n \in D : Body[d[n]].type \in OrderTypes
  <2>1. D \in SUBSET DOMAIN d /\ IsFiniteSet(D)
    BY MatchedFit
  <2>2. T \in SUBSET D /\ T # {}
    BY DEF OrdersIn
  <2>3. IsFiniteSet(T)
    BY <2>1, <2>2, FS_Subset
  <2>4. \A n \in D : Body[d[n]].type \in OrderTypes
    BY DEF OfType
  <2> QED BY <2>1, <2>2, <2>3, <2>4
<1>2. \A n \in DOMAIN d : d[n] \in Valid /\ Body[d[n]].at \in Int
  BY DocumentsFit, AnalyticsAssumption
<1>3. \A m, n \in T : <<m, n>> \in R <=> Body[d[m]].at <= Body[d[n]].at
  BY <1>1
<1>4. Total(R, T)
  <2>1. \A n \in T : Body[d[n]].at \in Int
    BY <1>1, <1>2
  <2> HIDE DEF R, T
  <2> QED BY <1>3, <2>1 DEF Total
<1>5. PICK n \in T : \A k \in T : <<k, n>> \in R
  <2> HIDE DEF R, T
  <2> QED BY <1>1, <1>4, LastExists
<1>6. IsLatest(d, D, o, n)
  BY <1>3, <1>5 DEF IsLatest
<1>7. LatestOf(d, D, o) = CHOOSE k : IsLatest(d, D, o, k)
  <2>1. LatestOf(d, D, o) = CHOOSE k \in D : /\ Body[d[k]].order = o
                                             /\ \A j \in D : Body[d[j]].order = o
                                                   => Body[d[j]].at <= Body[d[k]].at
    BY DEF LatestOf
  <2> QED BY <2>1 DEF IsLatest
<1>8. ASSUME NEW k, NEW j, IsLatest(d, D, o, k), IsLatest(d, D, o, j)
      PROVE  k = j
  <2>1. /\ k \in DOMAIN d /\ j \in DOMAIN d /\ Body[d[k]].at <= Body[d[j]].at
        /\ Body[d[j]].at <= Body[d[k]].at
    BY <1>1, <1>8 DEF IsLatest
  <2>2. Body[d[k]].at = Body[d[j]].at
    BY <1>2, <2>1
  <2>3. d[k] = d[j]
    BY <1>1, <1>2, <1>8, <2>1, <2>2 DEF IsLatest, TimesDiffer
  <2> QED BY <2>1, <2>3 DEF IsInjective
<1>9. IsLatest(d, D, o, LatestOf(d, D, o))
  BY <1>6, <1>7
<1> QED BY <1>8, <1>9

LEMMA OrdersRenamed ==
    ASSUME TimesDiffer, NEW b, NEW d, NEW e, Renames(b, d, e), IsInjective(d), IsInjective(e), NEW w
    PROVE  GetOrders(e, w) = GetOrders(d, w)
<1> DEFINE D == OfType(d, DateMatch(d, w), OrderTypes)
           E == OfType(e, DateMatch(e, w), OrderTypes)
           S == OrdersIn(d, D)
           status(c, C, o) == Body[c[LatestOf(c, C, o)]].status
           tally(c, C, O) == [s \in {status(c, C, o) : o \in O} |->
                                 Cardinality({o \in O : status(c, C, o) = s})]
<1>1. D \in SUBSET DOMAIN d /\ E = Gone(b, D) /\ d \in Seq(Valid) /\ e \in Seq(Valid)
  <2>1. DateMatch(d, w) \in SUBSET DOMAIN d /\ D \in SUBSET DOMAIN d
    BY DEF DateMatch, OfType
  <2>2. E = Gone(b, D)
    BY <2>1, MatchedRenamed
  <2> HIDE DEF D, E
  <2> QED BY <2>1, <2>2 DEF Renames
<1>2. \A n \in D : b[n] \in E /\ e[b[n]] = d[n]
  <2> HIDE DEF D, E
  <2> QED BY <1>1 DEF Renames, Gone
<1>3. OrdersIn(e, E) = S
  <2> HIDE DEF D, E
  <2> QED BY <1>1, <1>2 DEF OrdersIn, Gone
<1>4. ASSUME NEW o \in S PROVE status(e, E, o) = status(d, D, o)
  <2> DEFINE n == LatestOf(d, D, o)
  <2>1. IsLatest(d, D, o, n)
    BY <1>1, OneIsLatest
  <2> HIDE DEF n
  <2>2. IsLatest(e, E, o, b[n])
    <3> HIDE DEF D, E
    <3> QED BY <1>1, <1>2, <2>1 DEF IsLatest, Gone
  <2>3. b[n] = LatestOf(e, E, o)
    BY <1>1, <1>3, <2>2, OneIsLatest
  <2>4. e[b[n]] = d[n]
    BY <1>2, <2>1 DEF IsLatest
  <2> QED BY <2>3, <2>4 DEF n
<1>5. tally(e, E, S) = tally(d, D, S)
  <2> HIDE DEF D, E, S, status
  <2>1. {status(e, E, o) : o \in S} = {status(d, D, o) : o \in S}
    BY <1>4
  <2>2. \A s : {o \in S : status(e, E, o) = s} = {o \in S : status(d, D, o) = s}
    BY <1>4
  <2> QED BY <2>1, <2>2
<1>6. /\ CountEvent(e, E, "order.created") = CountEvent(d, D, "order.created")
      /\ SumAmount(e, E, "order.created") = SumAmount(d, D, "order.created")
  <2> HIDE DEF D, E
  <2> QED BY <1>1, CountsRenamed
<1>7. /\ GetOrders(d, w) = [orders |-> CountEvent(d, D, "order.created"),
                            value |-> SumAmount(d, D, "order.created"), by_status |-> tally(d, D, S)]
      /\ GetOrders(e, w) = [orders |-> CountEvent(e, E, "order.created"),
                            value |-> SumAmount(e, E, "order.created"),
                            by_status |-> tally(e, E, OrdersIn(e, E))]
  <2> QED BY DEF GetOrders, CountEvent, SumAmount
<1> HIDE DEF D, E, S, tally
<1> QED BY <1>3, <1>5, <1>6, <1>7

LEMMA RowsRenamed ==
    ASSUME NEW b, NEW d, NEW e, Renames(b, d, e), NEW w
    PROVE  Rows(e, w) = Rows(d, w)
<1> DEFINE L == Lines(d, w)
           M == Lines(e, w)
           c == [l \in L |-> <<b[l[1]], l[2]>>]
<1>1. d \in Seq(Valid) /\ e \in Seq(Valid)
  BY DEF Renames
<1>2. Created(e, w) = Gone(b, Created(d, w)) /\ Created(d, w) \in SUBSET DOMAIN d
  <2>1. DateMatch(d, w) \in SUBSET DOMAIN d /\ Created(d, w) \in SUBSET DOMAIN d
    BY DEF DateMatch, OfType, Created
  <2>2. DateMatch(e, w) = Gone(b, DateMatch(d, w))
    BY MatchedRenamed
  <2>3. OfType(e, Gone(b, DateMatch(d, w)), {"order.created"}) = Gone(b, Created(d, w))
    BY <2>1, MatchedRenamed DEF Created
  <2> QED BY <2>1, <2>2, <2>3 DEF Created
<1>3. \A n \in Created(d, w) : b[n] \in Created(e, w) /\ e[b[n]] = d[n] /\ n \in DOMAIN d
  BY <1>2 DEF Gone, Renames
<1>4. ASSUME NEW l \in L
      PROVE  /\ c[l] \in M /\ c[l][1] = b[l[1]] /\ c[l][2] = l[2] /\ ItemAt(e, c[l]) = ItemAt(d, l)
             /\ l[1] \in DOMAIN d /\ l = <<l[1], l[2]>>
  <2>1. PICK n \in Created(d, w) : \E i \in DOMAIN Body[d[n]].items : l = <<n, i>>
    BY <1>1, LinesFit
  <2>2. PICK i \in DOMAIN Body[d[n]].items : l = <<n, i>>
    BY <2>1
  <2>3. c[l] = <<b[n], i>> /\ b[n] \in Created(e, w) /\ e[b[n]] = d[n] /\ n \in DOMAIN d
    BY <1>3, <2>2
  <2>4. i \in DOMAIN Body[e[b[n]]].items
    BY <2>2, <2>3
  <2>5. c[l] \in M
    BY <1>1, <2>3, <2>4, LinesFit
  <2> HIDE DEF c
  <2> QED BY <2>2, <2>3, <2>5 DEF ItemAt
<1>5. ASSUME NEW m \in M PROVE \E l \in L : c[l] = m
  <2>1. PICK k \in Created(e, w) : \E i \in DOMAIN Body[e[k]].items : m = <<k, i>>
    BY <1>1, LinesFit
  <2>2. PICK i \in DOMAIN Body[e[k]].items : m = <<k, i>>
    BY <2>1
  <2>3. PICK n \in Created(d, w) : b[n] = k
    BY <1>2 DEF Gone
  <2>4. e[k] = d[n]
    BY <1>3, <2>3
  <2>5. <<n, i>> \in L
    BY <1>1, <2>2, <2>4, LinesFit
  <2> QED BY <2>2, <2>3, <2>5
<1>6. \A l, m \in L : c[l] = c[m] => l = m
  <2> SUFFICES ASSUME NEW l \in L, NEW m \in L, c[l] = c[m] PROVE l = m
    OBVIOUS
  <2> HIDE DEF c, L
  <2>1. b[l[1]] = b[m[1]] /\ l[2] = m[2] /\ l[1] \in DOMAIN d /\ m[1] \in DOMAIN d
    BY <1>4
  <2>2. l[1] = m[1]
    BY <2>1 DEF Renames
  <2> QED BY <1>4, <2>1, <2>2
<1>7. Sold(e, w) = Sold(d, w)
  <2> HIDE DEF c
  <2> QED BY <1>4, <1>5 DEF Sold
<1>8. IsFiniteSet(L) /\ IsFiniteSet(M)
  BY <1>1, LinesFit
<1> HIDE DEF c
<1>9. ASSUME NEW p \in Sold(d, w) PROVE RowOf(e, w)[p] = RowOf(d, w)[p]
  <2> DEFINE G == LinesOf(d, w, p)
             H == LinesOf(e, w, p)
  <2>1. IsFiniteSet(G) /\ G = {l \in L : ItemAt(d, l).product = p}
        /\ H = {m \in M : ItemAt(e, m).product = p}
    <3>1. RowFits(d, w, p) /\ RowFits(e, w, p)
      BY <1>1, <1>7, RowIs
    <3> QED BY <3>1 DEF RowFits
  <2>2. H = {c[l] : l \in G}
    <3>1. \A l \in G : c[l] \in H
      BY <1>4, <2>1
    <3>2. \A m \in H : \E l \in G : c[l] = m
      BY <1>4, <1>5, <2>1
    <3> HIDE DEF G, H
    <3> QED BY <3>1, <3>2
  <2>3. \A l, m \in G : c[l] = c[m] => l = m
    BY <1>6, <2>1
  <2>4. \A l \in G : /\ Counted(d, w)[l] \in Int /\ Counted(d, w)[l] = Counted(e, w)[c[l]]
                     /\ Priced(d, w)[l] \in Int /\ Priced(d, w)[l] = Priced(e, w)[c[l]]
    <3>1. \A l \in G : Counted(d, w)[l] \in Int /\ Priced(d, w)[l] \in Int
      BY <1>1, RowIs DEF RowFits
    <3>2. \A l \in G : l \in L /\ c[l] \in M /\ ItemAt(e, c[l]) = ItemAt(d, l)
      BY <1>4, <2>1
    <3> HIDE DEF G
    <3> QED BY <3>1, <3>2 DEF Counted, Priced
  <2> HIDE DEF G, H
  <2>5. Cardinality(H) = Cardinality(G)
    BY <2>1, <2>2, <2>3, RenamedAreAsMany
  <2>6. SumFunctionOnSet(Counted(e, w), H) = SumFunctionOnSet(Counted(d, w), G)
    <3>1. SumFunctionOnSet(Counted(e, w), {c[l] : l \in G}) = SumFunctionOnSet(Counted(d, w), G)
      BY <2>1, <2>3, <2>4, SumOfRenamed
    <3> QED BY <2>2, <3>1
  <2>7. SumFunctionOnSet(Priced(e, w), H) = SumFunctionOnSet(Priced(d, w), G)
    <3>1. SumFunctionOnSet(Priced(e, w), {c[l] : l \in G}) = SumFunctionOnSet(Priced(d, w), G)
      BY <2>1, <2>3, <2>4, SumOfRenamed
    <3> QED BY <2>2, <3>1
  <2>8. /\ RowOf(d, w)[p] = [product |-> p, units |-> SumFunctionOnSet(Counted(d, w), G),
                             lines |-> Cardinality(G), revenue |-> SumFunctionOnSet(Priced(d, w), G)]
        /\ RowOf(e, w)[p] = [product |-> p, units |-> SumFunctionOnSet(Counted(e, w), H),
                             lines |-> Cardinality(H), revenue |-> SumFunctionOnSet(Priced(e, w), H)]
    <3>1. RowFits(d, w, p) /\ RowFits(e, w, p)
      BY <1>1, <1>7, RowIs
    <3> QED BY <3>1 DEF RowFits, G, H
  <2> QED BY <2>5, <2>6, <2>7, <2>8
<1> QED BY <1>7, <1>9 DEF Rows

LEMMA ReportsRenamed ==
    ASSUME TimesDiffer, NEW b, NEW d, NEW e, Renames(b, d, e), IsInjective(d), IsInjective(e),
           NEW w, NEW limit
    PROVE  AllReports(e, w, limit) = AllReports(d, w, limit)
<1>1. GetTopProducts(e, limit, w) = GetTopProducts(d, limit, w)
  <2>1. d \in Seq(Valid) /\ e \in Seq(Valid)
    BY DEF Renames
  <2> DEFINE top(S) == {SubSeq(s, 1, Min({limit, Len(s)})) : s \in Ranked(S, Better)}
  <2>2. ASSUME NEW c \in Seq(Valid)
        PROVE  GetTopProducts(c, limit, w) = top(Rows(c, w))
    BY TopProductsAre
  <2>3. Rows(e, w) = Rows(d, w)
    BY RowsRenamed
  <2> HIDE DEF top
  <2> QED BY <2>1, <2>2, <2>3
<1> QED BY <1>1, TotalsRenamed, RevenueRenamed, OrdersRenamed DEF AllReports

(* Events can be put in the order they occurred.                           *)
LEMMA EventsAreRanked ==
    ASSUME NEW S \in SUBSET Valid, IsFiniteSet(S)
    PROVE  InOrder(S) \in [1..Cardinality(S) -> S] /\ IsInjective(InOrder(S))
<1> DEFINE R == {q \in S \X S : ~(Body[q[2]].at < Body[q[1]].at)}
<1>1. \A x \in S : Body[x].at \in Int
  BY AnalyticsAssumption
<1>2. Total(R, S)
  <2>1. \A x, y \in S : <<x, y>> \in R <=> ~(Body[y].at < Body[x].at)
    OBVIOUS
  <2> HIDE DEF R
  <2> QED BY <1>1, <2>1 DEF Total
<1>3. PICK s \in [1..Cardinality(S) -> S] : Ranks(s, R)
  <2> HIDE DEF R
  <2> QED BY <1>2, RankingExists
<1>4. IsInjective(s) /\ \A i, j \in DOMAIN s : i < j => ~(Body[s[j]].at < Body[s[i]].at)
  BY <1>3 DEF Ranks
<1> DEFINE before(x, y) == Body[x].at < Body[y].at
<1>5. s \in Ranked(S, before)
  BY <1>4 DEF Ranked
<1>6. \A q \in Ranked(S, before) : q \in [1..Cardinality(S) -> S] /\ IsInjective(q)
  BY DEF Ranked
<1>7. InOrder(S) = CHOOSE q \in Ranked(S, before) : TRUE
  BY DEF InOrder
<1> HIDE DEF before
<1> QED BY <1>5, <1>6, <1>7

LEMMA EveryArrivalIsIgnored ==
    ASSUME TimesDiffer, docs \in Seq(Valid), IsInjective(docs)
    PROVE  ReportsIgnoreArrival
<1> DEFINE n == Cardinality(Stored)
           s == InOrder(Stored)
           b == [m \in DOMAIN docs |-> CHOOSE k \in 1..n : s[k] = docs[m]]
<1>1. Stored = {docs[m] : m \in DOMAIN docs}
  BY DEF Stored, Range
<1>2. Stored \in SUBSET Valid /\ IsFiniteSet(Stored) /\ n \in Nat
  <2>1. IsFiniteSet(DOMAIN docs) /\ \A m \in DOMAIN docs : docs[m] \in Valid
    BY DocumentsFit
  <2>2. IsFiniteSet({docs[m] : m \in DOMAIN docs})
    BY <2>1, ImagesAreFinite
  <2>3. IsFiniteSet(Stored)
    BY <1>1, <2>2
  <2> QED BY <1>1, <2>1, <2>3, FS_CardinalityType
<1>3. s \in [1..n -> Stored] /\ IsInjective(s)
  BY <1>2, EventsAreRanked
<1>4. {s[k] : k \in 1..n} = Stored
  <2> HIDE DEF s
  <2> QED BY <1>2, <1>3, RankingListsAll
<1> HIDE DEF s
<1>5. \A m \in DOMAIN docs : b[m] \in 1..n /\ s[b[m]] = docs[m]
  <2> HIDE DEF n
  <2>1. \A m \in DOMAIN docs : \E k \in 1..n : s[k] = docs[m]
    BY <1>1, <1>4
  <2> QED BY <2>1
<1> HIDE DEF b
<1>6. s \in Seq(Valid) /\ DOMAIN s = 1..n
  <2>1. s \in [1..n -> Valid]
    BY <1>2, <1>3
  <2> HIDE DEF n
  <2> QED BY <1>2, <2>1
<1>7. \A k, m \in 1..n : s[k] = s[m] => k = m
  BY <1>3, <1>6 DEF IsInjective
<1>8. Renames(b, docs, s)
  <2> HIDE DEF n
  <2>1. b \in [DOMAIN docs -> DOMAIN s]
    BY <1>5, <1>6 DEF b
  <2>2. \A m, k \in DOMAIN docs : b[m] = b[k] => m = k
    BY <1>5 DEF IsInjective
  <2>3. ASSUME NEW k \in DOMAIN s PROVE \E m \in DOMAIN docs : b[m] = k
    <3>1. PICK m \in DOMAIN docs : docs[m] = s[k]
      BY <1>1, <1>3, <1>6
    <3> QED BY <1>5, <1>6, <1>7, <3>1
  <2> QED BY <1>5, <1>6, <2>1, <2>2, <2>3 DEF Renames
<1>9. \A w \in Windows : AllReports(s, w, 1) = AllReports(docs, w, 1)
  BY <1>3, <1>8, ReportsRenamed
<1> QED BY <1>9 DEF ReportsIgnoreArrival, s

-----------------------------------------------------------------------------
(* No event is stored twice: the loop inserts it only where it is not.     *)
StoredOnce == IsInjective(docs)

LEMMA InsertedOnce ==
    ASSUME docs \in Seq(Valid), StoredOnce, NEW e \in Valid \ Stored, docs' = Append(docs, e)
    PROVE  StoredOnce'
<1>1. /\ DOMAIN docs' = 1..(Len(docs) + 1) /\ docs'[Len(docs) + 1] = e
      /\ \A n \in 1..Len(docs) : docs'[n] = docs[n]
      /\ DOMAIN docs = 1..Len(docs) /\ Len(docs) \in Nat
  OBVIOUS
<1>2. \A n \in 1..Len(docs) : docs[n] # e
  BY <1>1 DEF Stored, Range
<1>3. \A n \in 1..(Len(docs) + 1) : n \in 1..Len(docs) \/ n = Len(docs) + 1
  BY <1>1
<1> QED BY <1>1, <1>2, <1>3 DEF StoredOnce, IsInjective

LEMMA NextStoredOnce == IInv /\ StoredOnce /\ [Next]_vars => StoredOnce'
<1> SUFFICES ASSUME IInv, StoredOnce, [Next]_vars PROVE StoredOnce'
  OBVIOUS
<1>1. ASSUME docs' = docs PROVE StoredOnce'
  BY <1>1 DEF StoredOnce
<1>2. docs \in Seq(Valid) /\ (task.pc = "insert" => task.event \in Valid)
  BY DEF IInv, Typed
<1>3. CASE Insert
  BY <1>1, <1>2, <1>3, InsertedOnce DEF Insert
<1>4. CASE InsertFails
  BY <1>1, <1>2, <1>4, InsertedOnce DEF InsertFails
<1>5. CASE UNCHANGED docs
  BY <1>1, <1>5
<1> QED BY <1>3, <1>4, <1>5
        DEF Next, Consume, Read, vars, Publish, SendAgain, Take, Uncache, Commit, UncacheFails,
            CommitFails, Restart, ReadOverview, FillOverview, DropRead, ExpireOverview

(* For any events whose times tell apart those that say the status of one  *)
(* order, and whatever Kafka and the producers deliver again, in whatever  *)
(* order: every report is the one of the same events arriving once, as     *)
(* they occurred (the unique index, and the pipelines).  Of the top list   *)
(* this says that the answers the database may give are the same ones:     *)
(* nothing here, nor in the code, settles how products that tie are listed.*)
THEOREM ArrivalIsIgnored ==
    ASSUME TimesDiffer
    PROVE  Spec => []ReportsIgnoreArrival
<1>1. Init => StoredOnce
  BY DEF Init, StoredOnce, IsInjective
<1>2. IInv /\ StoredOnce => ReportsIgnoreArrival
  BY EveryArrivalIsIgnored DEF IInv, Typed, StoredOnce
<1> QED BY InitIInv, NextIInv, NextStoredOnce, <1>1, <1>2, PTL DEF Spec

(* The reports of one window always agree: payments with the overview, the *)
(* periods with the whole, orders with the overview, the products with the *)
(* orders, and the two parts of a window with the window.                  *)
THEOREM ReportsAlwaysAgree == Spec => []ReportsAgree
<1>1. IInv => ReportsAgree
  BY EveryCollectionAgrees DEF IInv, Typed
<1> QED BY InitIInv, NextIInv, <1>1, PTL DEF Spec
-----------------------------------------------------------------------------
RestFits == faults \in 0..MaxFaults /\ kept \in BOOLEAN

LEMMA NextRestFits == RestFits /\ [Next]_vars => RestFits'
<1> SUFFICES ASSUME RestFits, [Next]_vars PROVE RestFits'
  OBVIOUS
<1>1. faults' = faults \/ Fault
  BY DEF Next, Consume, Read, vars, Publish, SendAgain, Take, Insert, InsertFails, Uncache, Commit,
         UncacheFails, CommitFails, Restart, ReadOverview, FillOverview, DropRead, ExpireOverview
<1>2. faults' \in 0..MaxFaults
  BY <1>1, AnalyticsAssumption DEF Fault, RestFits
<1>3. kept' \in BOOLEAN
  BY DEF Next, Consume, Read, vars, cached, Publish, SendAgain, Take, Insert, InsertFails, Uncache,
         Commit, UncacheFails, CommitFails, Restart, ReadOverview, FillOverview, DropRead,
         ExpireOverview, Cache!Change, Cache!ChangeKept, Cache!Delete, Cache!LoseDelete,
         Cache!Load, Cache!Fill, Cache!NoFill, Cache!Expire, Cache!Restarted, RestFits
<1> QED BY <1>2, <1>3 DEF RestFits

(* For any events, topics, backlog and faults: a committed offset never    *)
(* passes what was read, what was read never passes what Kafka holds, and  *)
(* the collection holds valid events only.                                 *)
THEOREM AnalyticsTyped == Spec => []TypeOK
<1>1. Init => RestFits
  <2> SUFFICES ASSUME Init PROVE RestFits
    OBVIOUS
  <2>1. faults = 0 /\ kept = FALSE
    BY DEF Init, Cache!CacheInit
  <2>2. MaxFaults \in Nat
    BY AnalyticsAssumption
  <2>3. faults \in 0..MaxFaults
    BY <2>1, <2>2
  <2> QED BY <2>1, <2>3 DEF RestFits
<1>2. IInv /\ RestFits => TypeOK
  <2> SUFFICES ASSUME IInv, RestFits PROVE TypeOK
    OBVIOUS
  <2>1. \A t \in Topic : position[t] \in 0..Len(log[t]) /\ offset[t] \in 0..position[t]
    <3> SUFFICES ASSUME NEW t \in Topic
                 PROVE  position[t] \in 0..Len(log[t]) /\ offset[t] \in 0..position[t]
      OBVIOUS
    <3>1. position[t] \in Nat /\ offset[t] \in Nat /\ Len(log[t]) \in Nat
      BY DEF IInv, Typed
    <3>2. offset[t] <= position[t] /\ position[t] <= Len(log[t])
      BY DEF IInv, Typed
    <3> QED BY <3>1, <3>2
  <2> QED BY <2>1 DEF IInv, Typed, TypeOK, RestFits
<1> QED BY InitIInv, NextIInv, NextRestFits, <1>1, <1>2, PTL DEF Spec
=============================================================================
