------------------------------- MODULE Wallet -------------------------------
(***************************************************************************)
(* auth-service's BalanceService as it runs: HTTP requests that interleave *)
(* at every database or Redis call.  A request owns a SQLAlchemy session.  *)
(* Its identity map keeps the first balance it loaded: a later SELECT, FOR *)
(* UPDATE or not, waits for the row lock but does not refresh attributes   *)
(* already loaded (no populate_existing).  The public routes load the user *)
(* in get_current_user, before the service starts; the internal routes do  *)
(* not.  Writing the user's row sends the value computed in memory.        *)
(*                                                                         *)
(* A request may die at any point; PostgreSQL then rolls it back and drops *)
(* its lock.  Redis calls may fail silently, as RedisCache does.           *)
(***************************************************************************)
EXTENDS Integers, Sequences

CONSTANTS
    User, Reference, Delta,
    Registered,       \* the users that have a row
    ManualReference,  \* uuid references minted by deposit and withdraw
    Request,          \* concurrent HTTP requests
    None              \* absent value: no lock holder, nothing cached, ...

ASSUME WalletAssumption ==
    /\ User # {}
    /\ Delta \subseteq Int \ {0}
    /\ Registered \subseteq User
    /\ ManualReference \subseteq Reference
    /\ None \notin Request \cup Reference \cup Int

VARIABLES
    balance, operations,
    lock,   \* who holds SELECT ... FOR UPDATE on the user's row
    cache,  \* Redis: the cached balance of a user, or None
    pc,     \* the next step of a request
    call,   \* its arguments
    seen,   \* users.balance in its identity map, or None when not loaded
    reply   \* its answer

vars == <<balance, operations, lock, cache, pc, call, seen, reply>>

Journal == INSTANCE Ledger

Step == {"idle", "lookup", "lock", "apply", "invalidate", "read", "fill"}
Call == [endpoint: {"internal", "manual", "read"}, user: User,
         reference: Reference \cup {None}, delta: Delta \cup {0}]
Answer == [kind: {"none", "ok", "balance", "insufficient", "conflict",
                  "not_found", "failed"}, value: Nat]
NoAnswer == [kind |-> "none", value |-> 0]

TypeOK ==
    /\ balance \in [User -> Nat]
    /\ operations \in [User -> Seq(Journal!Operation)]
    /\ lock \in [User -> Request \cup {None}]
    /\ cache \in [User -> Nat \cup {None}]
    /\ pc \in [Request -> Step]
    /\ call \in [Request -> Call]
    /\ seen \in [Request -> Nat \cup {None}]
    /\ reply \in [Request -> Answer]
    /\ \A r \in Request :
           /\ pc[r] \in {"lookup", "lock", "apply", "invalidate"} =>
                  call[r].reference \in Reference /\ call[r].delta \in Delta
           /\ pc[r] \in {"apply", "invalidate", "read", "fill"} => seen[r] \in Nat

Init ==
    /\ balance = [u \in User |-> 0]
    /\ operations = [u \in User |-> <<>>]
    /\ lock = [u \in User |-> None]
    /\ cache = [u \in User |-> None]
    /\ pc = [r \in Request |-> "idle"]
    /\ call = [r \in Request |-> [endpoint |-> "read", user |-> CHOOSE u \in User : TRUE,
                                  reference |-> None, delta |-> 0]]
    /\ seen = [r \in Request |-> None]
    /\ reply = [r \in Request |-> NoAnswer]
-----------------------------------------------------------------------------
Begin(r, step, c, loaded) ==
    /\ pc[r] = "idle"
    /\ pc' = [pc EXCEPT ![r] = step]
    /\ call' = [call EXCEPT ![r] = c]
    /\ seen' = [seen EXCEPT ![r] = loaded]
    /\ reply' = [reply EXCEPT ![r] = NoAnswer]
    /\ UNCHANGED <<balance, operations, lock, cache>>

(* POST /internal/users/{id}/balance/{debit,credit}: the caller names the  *)
(* reference and the session has loaded nothing yet.                       *)
StartInternal(r) ==
    \E u \in User, ref \in Reference \ ManualReference, d \in Delta :
        Begin(r, "lookup", [endpoint |-> "internal", user |-> u,
                            reference |-> ref, delta |-> d], None)

Unused(ref) ==
    /\ ~Journal!Applied(ref)
    /\ \A q \in Request : call[q].reference # ref

(* POST /auth/balance/{deposit,withdraw}: a fresh uuid, and the session    *)
(* holds the user get_current_user has just read.                          *)
StartManual(r) ==
    \E u \in Registered, ref \in ManualReference, d \in Delta :
        /\ Unused(ref)
        /\ Begin(r, "lookup", [endpoint |-> "manual", user |-> u,
                               reference |-> ref, delta |-> d], balance[u])

(* GET /auth/balance. *)
StartRead(r) ==
    \E u \in Registered :
        Begin(r, "read", [endpoint |-> "read", user |-> u,
                          reference |-> None, delta |-> 0], balance[u])

Respond(r, kind, value) ==
    /\ pc' = [pc EXCEPT ![r] = "idle"]
    /\ reply' = [reply EXCEPT ![r] = [kind |-> kind, value |-> value]]

Unlock(r) == lock' = [u \in User |-> IF lock[u] = r THEN None ELSE lock[u]]

(* Mutation: answer with the balance of today instead of balance_after. *)
ReplayCurrentBalance(r) ==
    /\ pc[r] = "lookup"
    /\ \E i \in 1..Len(operations[call[r].user]) :
           LET op == operations[call[r].user][i]
           IN  op.reference = call[r].reference /\ op.delta = call[r].delta
    /\ Respond(r, "ok", balance[call[r].user])
    /\ UNCHANGED <<balance, operations, lock, cache, call, seen>>

(* The reference was applied already, with these very arguments: answer    *)
(* what was answered then.                                                 *)
Replay(r) ==
    /\ pc[r] = "lookup"
    /\ \E i \in 1..Len(operations[call[r].user]) :
           LET op == operations[call[r].user][i]
           IN  /\ op.reference = call[r].reference
               /\ op.delta = call[r].delta
               /\ Respond(r, "ok", op.after)
    /\ UNCHANGED <<balance, operations, lock, cache, call, seen>>

(* The reference was applied to another user or with another amount. *)
Conflict(r) ==
    /\ pc[r] = "lookup"
    /\ Journal!Applied(call[r].reference)
    /\ ~\E i \in 1..Len(operations[call[r].user]) :
           /\ operations[call[r].user][i].reference = call[r].reference
           /\ operations[call[r].user][i].delta = call[r].delta
    /\ Respond(r, "conflict", 0)
    /\ UNCHANGED <<balance, operations, lock, cache, call, seen>>

(* The lookup takes no lock: what it found may be out of date when the     *)
(* next step runs.                                                         *)
NotFoundYet(r) ==
    /\ pc[r] = "lookup"
    /\ ~Journal!Applied(call[r].reference)
    /\ pc' = [pc EXCEPT ![r] = "lock"]
    /\ UNCHANGED <<balance, operations, lock, cache, call, seen, reply>>

Loaded(r) == IF seen[r] = None THEN balance[call[r].user] ELSE seen[r]

(* Mutation: a plain SELECT where FOR UPDATE is needed. *)
GetWithoutLock(r) ==
    /\ pc[r] = "lock"
    /\ call[r].user \in Registered
    /\ seen' = [seen EXCEPT ![r] = Loaded(r)]
    /\ pc' = [pc EXCEPT ![r] = "apply"]
    /\ UNCHANGED <<balance, operations, lock, cache, call, reply>>

GetForUpdate(r) ==
    /\ pc[r] = "lock"
    /\ call[r].user \in Registered
    /\ lock[call[r].user] = None
    /\ lock' = [lock EXCEPT ![call[r].user] = r]
    /\ seen' = [seen EXCEPT ![r] = Loaded(r)]
    /\ pc' = [pc EXCEPT ![r] = "apply"]
    /\ UNCHANGED <<balance, operations, cache, call, reply>>

UserMissing(r) ==
    /\ pc[r] = "lock"
    /\ call[r].user \notin Registered
    /\ Respond(r, "not_found", 0)
    /\ UNCHANGED <<balance, operations, lock, cache, call, seen>>

(* Mutation: the refusal leaves the transaction, and its lock, open. *)
RejectKeepingLock(r) ==
    /\ pc[r] = "apply"
    /\ seen[r] + call[r].delta < 0
    /\ Respond(r, "insufficient", 0)
    /\ UNCHANGED <<balance, operations, lock, cache, call, seen>>

RejectInsufficient(r) ==
    /\ pc[r] = "apply"
    /\ seen[r] + call[r].delta < 0
    /\ Unlock(r)
    /\ Respond(r, "insufficient", 0)
    /\ UNCHANGED <<balance, operations, cache, call, seen>>

(* Mutation: the balance was committed on its own, before the journal row  *)
(* was refused.                                                            *)
RefuseAfterUpdate(r) ==
    /\ pc[r] = "apply"
    /\ seen[r] + call[r].delta >= 0
    /\ Journal!Applied(call[r].reference)
    /\ balance' = [balance EXCEPT ![call[r].user] = seen[r] + call[r].delta]
    /\ Unlock(r)
    /\ Respond(r, "failed", 0)
    /\ UNCHANGED <<operations, cache, call, seen>>

(* Mutation: write-through, the cache updated before the row is refused. *)
RefuseAfterCaching(r) ==
    /\ pc[r] = "apply"
    /\ seen[r] + call[r].delta >= 0
    /\ Journal!Applied(call[r].reference)
    /\ cache' = [cache EXCEPT ![call[r].user] = seen[r] + call[r].delta]
    /\ Unlock(r)
    /\ Respond(r, "failed", 0)
    /\ UNCHANGED <<balance, operations, call, seen>>

(* The unique index on reference refuses the row: the whole transaction is *)
(* rolled back and the caller sees a 500.                                  *)
RefuseDuplicate(r) ==
    /\ pc[r] = "apply"
    /\ seen[r] + call[r].delta >= 0
    /\ Journal!Applied(call[r].reference)
    /\ Unlock(r)
    /\ Respond(r, "failed", 0)
    /\ UNCHANGED <<balance, operations, cache, call, seen>>

(* UPDATE users, INSERT INTO balance_operations and COMMIT, as one. *)
CommitOf(r) ==
    LET u == call[r].user
        after == seen[r] + call[r].delta
    IN  /\ balance' = [balance EXCEPT ![u] = after]
        /\ operations' = [operations EXCEPT ![u] = Append(operations[u],
               [reference |-> call[r].reference, delta |-> call[r].delta,
                after |-> after])]
        /\ Unlock(r)
        /\ seen' = [seen EXCEPT ![r] = after]
        /\ pc' = [pc EXCEPT ![r] = "invalidate"]
        /\ UNCHANGED <<cache, call, reply>>

(* Mutation: no unique index on reference. *)
CommitDuplicate(r) ==
    /\ pc[r] = "apply"
    /\ seen[r] + call[r].delta >= 0
    /\ CommitOf(r)

Commit(r) ==
    /\ pc[r] = "apply"
    /\ seen[r] + call[r].delta >= 0
    /\ ~Journal!Applied(call[r].reference)
    /\ CommitOf(r)

(* RedisCache.delete after the commit; a Redis error is only logged. *)
Invalidate(r) ==
    /\ pc[r] = "invalidate"
    /\ cache' \in {cache, [cache EXCEPT ![call[r].user] = None]}
    /\ Respond(r, "ok", seen[r])
    /\ UNCHANGED <<balance, operations, lock, call, seen>>

ReadHit(r) ==
    /\ pc[r] = "read"
    /\ cache[call[r].user] # None
    /\ Respond(r, "balance", cache[call[r].user])
    /\ UNCHANGED <<balance, operations, lock, cache, call, seen>>

(* A miss, or a Redis error taken for one. *)
ReadMiss(r) ==
    /\ pc[r] = "read"
    /\ pc' = [pc EXCEPT ![r] = "fill"]
    /\ UNCHANGED <<balance, operations, lock, cache, call, seen, reply>>

(* get_by_id finds the user in the identity map, so what goes into the     *)
(* cache is the balance get_current_user read.                             *)
Fill(r) ==
    /\ pc[r] = "fill"
    /\ cache' \in {cache, [cache EXCEPT ![call[r].user] = seen[r]]}
    /\ Respond(r, "balance", seen[r])
    /\ UNCHANGED <<balance, operations, lock, call, seen>>

(* The TTL every entry is stored with. *)
Expire(u) ==
    /\ cache[u] # None
    /\ cache' = [cache EXCEPT ![u] = None]
    /\ UNCHANGED <<balance, operations, lock, pc, call, seen, reply>>

Die(r) ==
    /\ pc[r] # "idle"
    /\ Unlock(r)
    /\ Respond(r, "failed", 0)
    /\ UNCHANGED <<balance, operations, cache, call, seen>>

Progress(r) ==
    \/ Replay(r) \/ Conflict(r) \/ NotFoundYet(r)
    \/ GetForUpdate(r) \/ UserMissing(r)
    \/ RejectInsufficient(r) \/ RefuseDuplicate(r) \/ Commit(r)
    \/ Invalidate(r) \/ ReadHit(r) \/ ReadMiss(r) \/ Fill(r)

Next ==
    \/ \E r \in Request : \/ StartInternal(r) \/ StartManual(r) \/ StartRead(r)
                          \/ Progress(r) \/ Die(r)
    \/ \E u \in User : Expire(u)

Spec == Init /\ [][Next]_vars

(* A request that can run does, PostgreSQL queues lock waiters first come  *)
(* first served, and a Redis entry outlives its TTL by no means.           *)
Fairness ==
    /\ \A r \in Request : WF_vars(Progress(r)) /\ SF_vars(GetForUpdate(r))
    /\ \A u \in User : WF_vars(Expire(u))

FairSpec == Spec /\ Fairness
-----------------------------------------------------------------------------
(* No update is lost: the journal accounts for the balance of every user.  *)
(* Holds while every balance change comes through the internal routes; a   *)
(* deposit that waits for the row lock writes over what it waited for.     *)
JournalExplainsBalance == Journal!JournalExplainsBalance

(* What deposits and withdrawals can write over is all that is ever lost:   *)
(* an internal change builds on the last committed balance, though it ran  *)
(* beside them, a manual one on a balance that was committed at some time, *)
(* and the user has what the last change left.                             *)
OnlyManualOverwrites ==
    \A u \in User :
        LET after(i) == IF i = 0 THEN 0 ELSE operations[u][i].after
        IN  /\ balance[u] = after(Len(operations[u]))
            /\ \A i \in 1..Len(operations[u]) :
                   LET op == operations[u][i]
                       bases == IF op.reference \in ManualReference THEN 0..i - 1 ELSE {i - 1}
                   IN  \E j \in bases : op.after = after(j) + op.delta

(* A reference moves money once, however the repeated and the concurrent   *)
(* requests that carry it interleave with the unlocked lookup.             *)
AppliedOnce == Journal!AppliedOnce

InJournal(r, after) ==
    \E i \in 1..Len(operations[call[r].user]) :
        operations[call[r].user][i] = [reference |-> call[r].reference,
                                       delta |-> call[r].delta, after |-> after]

(* "ok" means the change is in the journal for good, with the balance the  *)
(* caller was told; the answer to a repeated reference is the first one.   *)
AnsweredFromJournal ==
    \A r \in Request : reply[r].kind = "ok" => InJournal(r, reply[r].value)

(* The cache may be behind the database, for fills and invalidations cross *)
(* each other, but it never shows a balance that was never committed.      *)
CachedBalanceWasCommitted ==
    \A u \in User : cache[u] # None =>
        \/ cache[u] = 0
        \/ \E i \in 1..Len(operations[u]) : operations[u][i].after = cache[u]

(* "Insufficient" means the change was not made: what payment-service      *)
(* relies on when it fails the payment, and what a repeated reference is   *)
(* promised (auth-service/tests/unit/test_balance_service.py:55).  Not so  *)
(* when the first request commits between the lookup and the lock.         *)
RefusalMeansUnapplied ==
    [][\A r \in Request :
          (reply[r].kind = "none" /\ reply'[r].kind = "insufficient")
              => ~Journal!Applied(call[r].reference)]_vars

(* No request waits for ever on the row lock: every way out of a request,  *)
(* the refusals and a death included, releases it.                         *)
RequestAnswered == \A r \in Request : pc[r] # "idle" ~> pc[r] = "idle"

(* With no deposit or withdrawal about, the interleaved program does only  *)
(* what the atomic ledger may do.                                          *)
RefinesLedger == Journal!Spec
=============================================================================
