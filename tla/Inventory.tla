------------------------------ MODULE Inventory ------------------------------
(***************************************************************************)
(* How catalog-service changes stock: the command consumer reserves an     *)
(* order's items in one transaction, one UPDATE after the other, while     *)
(* HTTP requests reserve and release single items in transactions of their *)
(* own.  PostgreSQL at READ COMMITTED: an UPDATE waits for the row's lock, *)
(* evaluates its WHERE on what is committed by then and keeps the lock to  *)
(* the end of its transaction; what it wrote is seen by nobody until the   *)
(* commit.                                                                 *)
(***************************************************************************)
EXTENDS Integers

CONSTANTS
    Order, Product, Items, Initial,   \* see Stock
    Request,                          \* concurrent HTTP requests
    None

ASSUME InventoryAssumption ==
    /\ Items \in [Order -> [Product -> Nat]] /\ Initial \in [Product -> Nat]
    /\ None \notin Order /\ "catalog" \notin Request

Catalog == "catalog"
Session == Request \cup {Catalog}

VARIABLES
    stock, held,   \* see Stock: committed values
    locked,        \* locked[s]: rows session s has updated and not committed
    self           \* what each session is doing

vars == <<stock, held, locked, self>>

Shelf == INSTANCE Stock

(* todo: the rows it has yet to update. *)
Work == [op: {"idle", "batch", "reserve", "release"}, ord: Order \cup {None},
         todo: SUBSET Product]

Idle == [op |-> "idle", ord |-> None, todo |-> {}]

TypeOK ==
    /\ stock \in [Product -> Nat] /\ held \in [Order -> [Product -> Int]]
    /\ locked \in [Session -> SUBSET Product]
    /\ self \in [Session -> Work]

Init ==
    /\ Shelf!Init
    /\ locked = [s \in Session |-> {}]
    /\ self = [s \in Session |-> Idle]

Wants(o) == {p \in Product : Items[o][p] > 0}
Free(s, p) == \A t \in Session \ {s} : p \notin locked[t]
-----------------------------------------------------------------------------
Begin(s, op, o, rows) ==
    /\ self[s] = Idle
    /\ self' = [self EXCEPT ![s] = [op |-> op, ord |-> o, todo |-> rows]]
    /\ UNCHANGED <<stock, held, locked>>

ReserveProducts(o) == Begin(Catalog, "batch", o, Wants(o))

ReserveProduct(s, o) == \E p \in Wants(o) : Begin(s, "reserve", o, {p})

(* Callers give back what the order holds; Orders shows when they do not. *)
ReleaseProduct(s, o) ==
    \E p \in Wants(o) : held[o][p] >= Items[o][p] /\ Begin(s, "release", o, {p})

Enough(s, p) == self[s].op = "release" \/ stock[p] >= Items[self[s].ord][p]

(* Mutation: SELECT the quantity, then write it: no lock is waited for. *)
UpdateUnlocked(s, p) ==
    /\ p \in self[s].todo /\ Enough(s, p)
    /\ locked' = [locked EXCEPT ![s] = @ \cup {p}]
    /\ self' = [self EXCEPT ![s].todo = @ \ {p}]
    /\ UNCHANGED <<stock, held>>

Update(s, p) ==
    /\ p \in self[s].todo /\ Free(s, p) /\ Enough(s, p)
    /\ locked' = [locked EXCEPT ![s] = @ \cup {p}]
    /\ self' = [self EXCEPT ![s].todo = @ \ {p}]
    /\ UNCHANGED <<stock, held>>

(* Mutation: the error is raised and the transaction stays open. *)
RollbackForgotten(s) ==
    /\ self[s] # Idle
    /\ self' = [self EXCEPT ![s] = Idle]
    /\ UNCHANGED <<stock, held, locked>>

(* On an error, or because the session is lost. *)
Rollback(s) ==
    /\ self[s] # Idle
    /\ locked' = [locked EXCEPT ![s] = {}]
    /\ self' = [self EXCEPT ![s] = Idle]
    /\ UNCHANGED <<stock, held>>

(* No row matches: NotEnoughProductError. *)
Refuse(s) == (\E p \in self[s].todo : Free(s, p) /\ ~Enough(s, p)) /\ Rollback(s)

(* What was updated becomes visible, all at once. *)
Commit(s) ==
    LET o == self[s].ord
        sign == IF self[s].op = "release" THEN 1 ELSE -1
    IN  /\ self[s] # Idle /\ self[s].todo = {}
        /\ stock' = [p \in Product |->
               IF p \in locked[s] THEN stock[p] + sign * Items[o][p] ELSE stock[p]]
        /\ held' = [held EXCEPT ![o] = [p \in Product |->
               IF p \in locked[s] THEN @[p] - sign * Items[o][p] ELSE @[p]]]
        /\ locked' = [locked EXCEPT ![s] = {}]
        /\ self' = [self EXCEPT ![s] = Idle]
-----------------------------------------------------------------------------
Go(s) == (\E p \in Product : Update(s, p)) \/ Refuse(s) \/ Commit(s)

Next ==
    \/ \E o \in Order :
           ReserveProducts(o) \/ \E s \in Request : ReserveProduct(s, o) \/ ReleaseProduct(s, o)
    \/ \E s \in Session : Go(s) \/ Rollback(s)

Spec == Init /\ [][Next]_vars

(* PostgreSQL serves the waiters of a row in turn, so a session that waits *)
(* again and again gets its row: strong fairness.  Nobody has to call.     *)
FairSpec == Spec /\ \A s \in Session : SF_vars(Go(s))
-----------------------------------------------------------------------------
(* README: several positions are reserved atomically, and parallel requests *)
(* never reserve more than there is: to everyone else each transaction is   *)
(* one step of Stock.                                                       *)
ImplementsStock == Shelf!Spec

(* No two transactions keep each other waiting: a batch takes row after row *)
(* while requests hold one each, and every one of them ends.                *)
SessionsEnd == \A s \in Session : self[s] # Idle ~> self[s] = Idle
=============================================================================
