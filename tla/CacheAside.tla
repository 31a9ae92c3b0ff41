----------------------------- MODULE CacheAside -----------------------------
(***************************************************************************)
(* One key of the Redis cache that every service keeps beside its database *)
(* (cache/redis.py and the reads of services/): a reader that misses loads *)
(* the current value and fills the cache with it later, a writer deletes   *)
(* the key after its commit, and entries expire.  Redis may fail at any    *)
(* call: get then misses, set and delete do nothing.  The module that owns *)
(* the rows supplies their value.                                          *)
(***************************************************************************)
CONSTANTS Reader, None

VARIABLES entry,     \* None, or [value, late]
          reader,    \* reader -> [pc, value, late]: what it is about to fill the cache with
          kept       \* the entry is older than a change whose delete was lost

\* late: the value has changed since it was loaded.
At(pc, value) == [pc |-> pc, value |-> value, late |-> FALSE]

CacheInit == entry = None /\ reader = [r \in Reader |-> At("idle", None)] /\ kept = FALSE

\* A miss, or a failure of get, followed by the query.
Load(r, value) ==
    /\ reader[r].pc = "idle"
    /\ reader' = [reader EXCEPT ![r] = At("fill", value)]
    /\ UNCHANGED <<entry, kept>>

Fill(r) ==
    /\ reader[r].pc = "fill"
    /\ entry' = [value |-> reader[r].value, late |-> reader[r].late]
    /\ reader' = [reader EXCEPT ![r] = At("idle", None)]
    /\ kept' = FALSE

\* There is nothing to store, set fails, or the handler dies.
NoFill(r) ==
    /\ reader[r].pc = "fill"
    /\ reader' = [reader EXCEPT ![r] = At("idle", None)]
    /\ UNCHANGED <<entry, kept>>
NobodyFills == reader' = [r \in Reader |-> At("idle", None)] /\ UNCHANGED <<entry, kept>>

\* A commit changes the value.
Change == /\ reader' = [r \in Reader |-> [reader[r] EXCEPT !.late = reader[r].pc = "fill"]]
          /\ UNCHANGED <<entry, kept>>

Delete == entry' = None /\ kept' = FALSE /\ UNCHANGED reader
LoseDelete == kept' = (entry # None) /\ UNCHANGED <<entry, reader>>

\* The process of the readers and of the writer dies and starts again.
Restarted(deleting) == /\ reader' = [r \in Reader |-> At("idle", None)]
                       /\ kept' = (kept \/ (deleting /\ entry # None))
                       /\ UNCHANGED entry

\* A commit whose delete nobody will make.
ChangeKept == /\ reader' = [r \in Reader |-> [reader[r] EXCEPT !.late = reader[r].pc = "fill"]]
              /\ kept' = (entry # None)
              /\ UNCHANGED entry

Expire == entry # None /\ entry' = None /\ kept' = FALSE /\ UNCHANGED reader

\* An entry differs from the rows only when its fill overlapped the change, or the
\* delete that follows the change is still to come or was lost.
StaleOnlyIfLate(value, deleting) ==
    (entry # None /\ entry.value # value) => entry.late \/ deleting \/ kept
=============================================================================
