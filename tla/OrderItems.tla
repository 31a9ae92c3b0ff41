----------------------------- MODULE OrderItems -----------------------------
(***************************************************************************)
(* The items of an order from the moment it is created, beside its status: *)
(* add_item_to_order, update_item_in_order, remove_item_from_order and     *)
(* update_all_items edit them, cancel_order and handle_payment_refunded    *)
(* give them all back.  All six first move stock in the catalog, one HTTP  *)
(* call per item, and only then write their own rows or status, from the   *)
(* order they loaded at the beginning.  Only update_all_items undoes its   *)
(* calls when a later step fails, one by one, and a call of the undo that  *)
(* fails is only logged; the others leave the catalog as it is.  Meanwhile *)
(* the catalog answers the reservation, which can_edit does not wait for,  *)
(* and other handlers write the status they decided on.                    *)
(*                                                                         *)
(* A request that the first checks refuse, and a handler of the status     *)
(* that fails before its commit, do nothing and are left out.              *)
(* MaxItems bounds the rows ever inserted, MaxFaults the calls that fail   *)
(* (with or without effect), the commits refused and the requests that die.*)
(***************************************************************************)
EXTENDS Integers, SequencesExt, OrderStatus

CONSTANTS
    Product, Price,
    Initial,     \* Initial[p]: what is on sale when the order is created
    Ordered,     \* Ordered[p]: what create_order asked the catalog to reserve
    Quantities,  \* what a caller may ask for
    Request, MaxItems, MaxFaults, None

ASSUME OrderItemsAssumption ==
    /\ Price \in [Product -> Nat \ {0}] /\ Initial \in [Product -> Nat]
    /\ Ordered \in [Product -> Nat] /\ Quantities \subseteq Nat \ {0}
    /\ MaxItems \in Nat /\ MaxFaults \in Nat /\ None \notin 1..MaxItems
    /\ None \notin {"add", "update", "remove", "replace", "return"} \cup Status
    /\ IsFiniteSet(Product) /\ IsFiniteSet(Request)
    /\ Cardinality({p \in Product : Ordered[p] > 0}) <= MaxItems

Item == 1..MaxItems

VARIABLES
    rows,       \* order_items of the order: a function on the ids it has
    last,       \* how many ids were given out
    total,      \* orders.total_amount
    status,     \* orders.status
    returned,   \* history: the order was cancelled and its items given back
    stock,      \* products.quantity
    held,       \* history: what the catalog took from stock for the order
    reserved,   \* what became of the reservation create_order asked for
    self,       \* what each request that moves stock is doing
    setting,    \* the status each other handler is about to write
    contended,  \* history: two uses of one item overlapped, see Begin
    lost,       \* history: stock moved that nobody was left to move back
    faults

order == <<rows, total, status, returned>>
shelf == <<stock, held>>
around == <<reserved, setting>>
past == <<contended, lost>>
vars == <<order, last, shelf, around, self, past, faults>>

Row == [product: Product, quantity: Quantities \cup {Ordered[p] : p \in Product}]
SomeRows == UNION {[ids -> Row] : ids \in SUBSET Item}
NoRows == [i \in {} |-> None]

(* loaded and before are rows and total as they were read, new the rows to *)
(* write, give and take the items whose catalog call is still to be made,  *)
(* gave and got those where it was, took what they moved, sum the total to *)
(* write.                                                                  *)
Edit ==
    [pc: {"idle", "give", "check", "take", "sum", "commit", "undo"},
     op: {"add", "update", "remove", "replace", "return", None},
     loaded: SomeRows, before: Nat, new: SomeRows, item: Item \cup {None},
     give: SUBSET Item, gave: SUBSET Item, take: SUBSET Item, got: SUBSET Item,
     took: [Product -> Int], sum: Nat]

Idle ==
    [pc |-> "idle", op |-> None, loaded |-> NoRows, before |-> 0, new |-> NoRows,
     item |-> None, give |-> {}, gave |-> {}, take |-> {}, got |-> {},
     took |-> [p \in Product |-> 0], sum |-> 0]

(* goal is the status to write, before and sum the total as it was read    *)
(* and as it will be.                                                      *)
Setting == [goal: Status \cup {None}, before: Nat, sum: Nat]
NoSetting == [goal |-> None, before |-> 0, sum |-> 0]

TypeOK ==
    /\ rows \in SomeRows /\ last \in 0..MaxItems /\ DOMAIN rows \subseteq 1..last
    /\ total \in Nat /\ status \in Status /\ returned \in BOOLEAN
    /\ stock \in [Product -> Nat] /\ held \in [Product -> Int]
    /\ reserved \in {"asked", "taken", "refused"}
    /\ self \in [Request -> Edit] /\ setting \in [Request -> Setting]
    /\ contended \in BOOLEAN /\ lost \in BOOLEAN /\ faults \in 0..MaxFaults

(* calculate_total_amount, and the sum _check_products computes. *)
Total(items) ==
    SumFunction([i \in DOMAIN items |-> Price[items[i].product] * items[i].quantity])

Pieces(items, i, p) ==
    IF i \in DOMAIN items /\ items[i].product = p THEN items[i].quantity ELSE 0
Listed(items, p) == SumFunction([i \in Item |-> Pieces(items, i, p)])

(* new @@ items. *)
Over(new, items) ==
    [i \in DOMAIN new \cup DOMAIN items |-> IF i \in DOMAIN new THEN new[i] ELSE items[i]]

(* Rows for the wanted products, with the ids that follow n. *)
Numbered(n, want) ==
    LET asked == SetToSeq({p \in Product : want[p] > 0})
    IN  [i \in n + 1..n + Len(asked) |->
            [product |-> asked[i - n], quantity |-> want[asked[i - n]]]]

Init ==
    /\ rows = Numbered(0, Ordered)
    /\ last = Cardinality(DOMAIN rows)
    /\ total = Total(rows)
    /\ status = "created" /\ returned = FALSE
    /\ stock = Initial /\ held = [p \in Product |-> 0] /\ reserved = "asked"
    /\ self = [r \in Request |-> Idle] /\ setting = [r \in Request |-> NoSetting]
    /\ contended = FALSE /\ lost = FALSE /\ faults = 0
-----------------------------------------------------------------------------
(* Nothing keeps two requests apart; a replacement and a return touch      *)
(* every item.                                                             *)
Whole == {"replace", "return"}
Overlaps(op, item, s) ==
    s # Idle /\ (op \in Whole \/ s.op \in Whole \/ (item # None /\ item = s.item))

(* A request begins: it has loaded the order and passed the first checks.  *)
Begin(r, op, edit) ==
    /\ self[r] = Idle /\ setting[r] = NoSetting
    /\ last + Cardinality(DOMAIN edit.new \ DOMAIN rows) <= MaxItems
    /\ last' = last + Cardinality(DOMAIN edit.new \ DOMAIN rows)
    /\ self' = [self EXCEPT ![r] =
           [edit EXCEPT !.op = op, !.loaded = rows, !.before = total]]
    /\ contended' = (contended \/ \E x \in Request : Overlaps(op, edit.item, self[x]))
    /\ UNCHANGED <<order, shelf, around, lost, faults>>

CanEdit == status \in {"created", "waiting_payment"}

(* _validate_duplicate_product looks at the loaded rows only. *)
AddItem(r) ==
    \E p \in Product, q \in Quantities :
        LET new == Numbered(last, [x \in Product |-> IF x = p THEN q ELSE 0])
        IN  /\ CanEdit /\ \A i \in DOMAIN rows : rows[i].product # p
            /\ Begin(r, "add", [Idle EXCEPT !.pc = "check", !.new = new,
                                            !.take = DOMAIN new])

UpdateItem(r) ==
    CanEdit /\ \E i \in DOMAIN rows, q \in Quantities :
        LET edit == [Idle EXCEPT !.item = i,
                                 !.new = [j \in {i} |-> [rows[i] EXCEPT !.quantity = q]]]
        IN  Begin(r, "update",
                CASE q > rows[i].quantity -> [edit EXCEPT !.pc = "check", !.take = {i}]
                  [] q < rows[i].quantity -> [edit EXCEPT !.pc = "give", !.give = {i}]
                  [] OTHER                -> [Idle EXCEPT !.pc = "sum"])

RemoveItem(r) ==
    CanEdit /\ \E i \in DOMAIN rows :
        Begin(r, "remove", [Idle EXCEPT !.pc = "give", !.item = i, !.give = {i}])

UpdateAllItems(r) ==
    CanEdit /\ \E want \in [Product -> Quantities \cup {0}] :
        LET new == Numbered(last, want)
        IN  Begin(r, "replace", [Idle EXCEPT !.pc = "give", !.give = DOMAIN rows,
                                             !.new = new, !.take = DOMAIN new])

(* The items of the order as it was loaded go back, whatever became of     *)
(* them meanwhile.                                                         *)
Return(r) == Begin(r, "return", [Idle EXCEPT !.pc = "give", !.give = DOMAIN rows])

CancelOrder(r) == status # "paid" /\ CanTransitionTo(status, "cancelled") /\ Return(r)

HandlePaymentRefunded(r) == status = "paid" /\ Return(r)
-----------------------------------------------------------------------------
(* Calls to the catalog. *)

At(r, step) == self[r].pc = step
Goto(r, step) == self' = [self EXCEPT ![r].pc = step]
Raise(r) == self' = [self EXCEPT ![r] = Idle]

(* Mutation: the rows are rolled back, the catalog is not. *)
FailWithoutUndo(r) == Raise(r)

(* update_all_items catches everything; the others leave things as they are. *)
Fail(r) == IF self[r].op = "replace" THEN Goto(r, "undo") ELSE Raise(r)

Quantity(items, i) == IF i \in DOMAIN items THEN items[i].quantity ELSE 0

(* What the edit changes for item i, and its sign in stock. *)
Change(r, i) == Quantity(self[r].new, i) - Quantity(self[r].loaded, i)
ProductOf(r, i) == Over(self[r].new, self[r].loaded)[i].product

Enough(p, n) == stock[p] >= n

(* The catalog takes n pieces of p from stock for the order (gives, n < 0). *)
Move(p, n) ==
    /\ Enough(p, n)
    /\ stock' = [stock EXCEPT ![p] = @ - n]
    /\ held' = [held EXCEPT ![p] = @ + n]

Give(r) ==
    /\ At(r, "give")
    /\ \/ \E i \in self[r].give :
              /\ Move(ProductOf(r, i), Change(r, i))
              /\ self' = [self EXCEPT ![r].give = @ \ {i}, ![r].gave = @ \cup {i},
                                      ![r].took[ProductOf(r, i)] = @ + Change(r, i)]
       \/ /\ self[r].give = {}
          /\ Goto(r, CASE self[r].op = "replace" -> "check"
                       [] self[r].op = "return"  -> "commit"
                       [] OTHER                  -> "sum")
          /\ UNCHANGED shelf
    /\ UNCHANGED <<order, last, around, past, faults>>

(* get_product, which the catalog may answer from its cache. *)
Check(r) ==
    /\ At(r, "check")
    /\ \/ Goto(r, "take")
       \/ (self[r].take # {} /\ Fail(r))
    /\ UNCHANGED <<order, last, shelf, around, past, faults>>

Take(r) ==
    /\ At(r, "take")
    /\ \/ \E i \in self[r].take :
              /\ Move(ProductOf(r, i), Change(r, i))
              /\ self' = [self EXCEPT ![r].take = @ \ {i}, ![r].got = @ \cup {i},
                                      ![r].took[ProductOf(r, i)] = @ + Change(r, i)]
       \/ /\ \E i \in self[r].take : ~Enough(ProductOf(r, i), Change(r, i))
          /\ Fail(r) /\ UNCHANGED shelf
       \/ /\ self[r].take = {} /\ UNCHANGED shelf
          /\ self' = [self EXCEPT ![r] =
                 IF @.op = "replace"
                 THEN [@ EXCEPT !.pc = "commit", !.sum = Total(self[r].new)]
                 ELSE [@ EXCEPT !.pc = "sum"]]
    /\ UNCHANGED <<order, last, around, past, faults>>

(* What it moved so far stays as it is, if nothing undoes it.              *)
Abandons(r) == self[r].op # "replace" /\ self[r].took # Idle.took

(* CatalogServiceUnavailableError: the call may have taken effect.         *)
CallFails(r) ==
    /\ faults < MaxFaults /\ faults' = faults + 1
    /\ At(r, "give") \/ At(r, "take")
    /\ \E i \in IF At(r, "give") THEN self[r].give ELSE self[r].take :
           \/ Move(ProductOf(r, i), Change(r, i)) /\ lost' = TRUE
           \/ UNCHANGED shelf /\ lost' = (lost \/ Abandons(r))
    /\ Fail(r)
    /\ UNCHANGED <<order, last, around, contended>>
-----------------------------------------------------------------------------
(* The rows. *)

Without(items, i) == [j \in DOMAIN items \ {i} |-> items[j]]

(* What SELECT SUM sees: committed rows and what this session has flushed. *)
(* create and delete flush; a changed quantity waits for the commit, for   *)
(* the session has autoflush off.                                          *)
Flushed(r) ==
    CASE self[r].op = "add"    -> Over(self[r].new, rows)
      [] self[r].op = "remove" -> Without(rows, self[r].item)
      [] self[r].op = "update" -> rows

Sum(r) ==
    /\ At(r, "sum")
    /\ self' = [self EXCEPT ![r].pc = "commit", ![r].sum = Total(Flushed(r))]
    /\ UNCHANGED <<order, last, shelf, around, past, faults>>

Written(r) ==
    IF self[r].op = "replace" THEN self[r].new
    ELSE Over(self[r].new, Without(rows, self[r].item))

(* Only a total that differs from the loaded one is written.               *)
Totalled(before, sum) == IF sum = before THEN total ELSE sum

(* An UPDATE of a row that is gone is a StaleDataError: nothing is written *)
(* at all.  A return writes the status only.                               *)
Commit(r) ==
    LET s == self[r]
    IN  /\ At(r, "commit")
        /\ \/ /\ s.op # "return" /\ (s.op = "update" => s.item \in DOMAIN rows)
              /\ rows' = Written(r) /\ total' = Totalled(s.before, s.sum)
              /\ UNCHANGED <<status, returned>>
           \/ /\ s.op = "update" /\ s.item \notin DOMAIN rows
              /\ UNCHANGED order
           \/ /\ s.op = "return" /\ status' = "cancelled" /\ returned' = TRUE
              /\ UNCHANGED <<rows, total>>
        /\ Raise(r)
        /\ UNCHANGED <<last, shelf, around, past, faults>>

(* One call of the undo: what item i moved moves back.                     *)
MoveBack(r, i) == Move(ProductOf(r, i), -Change(r, i))

Undone(r, i) ==
    self' = [self EXCEPT ![r].got = @ \ {i}, ![r].gave = @ \ {i},
                         ![r].took[ProductOf(r, i)] = @ - Change(r, i)]

(* First what was taken goes back, then what was given is taken again, if  *)
(* it is still there.  An undo that fails is logged and passed over.       *)
Undo(r) ==
    LET s == self[r]
    IN  /\ At(r, "undo")
        /\ \/ \E i \in IF s.got # {} THEN s.got ELSE s.gave :
                  /\ Undone(r, i)
                  /\ \/ MoveBack(r, i) /\ UNCHANGED <<lost, faults>>
                     \/ /\ ~Enough(ProductOf(r, i), -Change(r, i))
                        /\ lost' = TRUE /\ UNCHANGED <<shelf, faults>>
                     \/ /\ faults < MaxFaults /\ faults' = faults + 1
                        /\ lost' = TRUE /\ UNCHANGED shelf
           \/ /\ s.got = {} /\ s.gave = {} /\ Raise(r)
              /\ UNCHANGED <<shelf, lost, faults>>
        /\ UNCHANGED <<order, last, around, contended>>

(* The database refuses the commit, or cancel_order cannot publish before  *)
(* it.  Only a replacement is undone.                                      *)
CommitFails(r) ==
    /\ At(r, "commit") /\ faults < MaxFaults /\ faults' = faults + 1
    /\ Fail(r)
    /\ lost' = (lost \/ Abandons(r))
    /\ UNCHANGED <<order, last, shelf, around, contended>>

(* The process dies. *)
Die(r) ==
    /\ self[r] # Idle /\ faults < MaxFaults /\ faults' = faults + 1
    /\ Raise(r)
    /\ lost' = (lost \/ self[r].took # Idle.took)
    /\ UNCHANGED <<order, last, shelf, around, contended>>
-----------------------------------------------------------------------------
(* Meanwhile the catalog answers the reservation and others buy. *)

(* All the items the order was created with, or none.  A command that is   *)
(* delivered again is Orders' business.                                    *)
Reserve ==
    /\ reserved = "asked"
    /\ IF \A p \in Product : Enough(p, Ordered[p])
       THEN /\ reserved' = "taken"
            /\ stock' = [p \in Product |-> stock[p] - Ordered[p]]
            /\ held' = [p \in Product |-> held[p] + Ordered[p]]
       ELSE reserved' = "refused" /\ UNCHANGED shelf
    /\ UNCHANGED <<order, last, self, setting, past, faults>>

Buy(p) ==
    /\ Enough(p, 1) /\ stock' = [stock EXCEPT ![p] = @ - 1]
    /\ UNCHANGED <<order, last, held, around, self, past, faults>>
-----------------------------------------------------------------------------
(* The status. *)

(* A handler has loaded the order and decided what to write.               *)
Sets(r, goal, before, sum) ==
    /\ self[r] = Idle /\ setting[r] = NoSetting
    /\ setting' = [setting EXCEPT ![r] = [goal |-> goal, before |-> before, sum |-> sum]]
    /\ UNCHANGED <<order, last, shelf, reserved, self, past, faults>>

(* PATCH of any status the graph allows, close_order, the failures of the  *)
(* reservation and the events of the payment.                              *)
UpdateOrder(r) ==
    \E goal \in Status :
        /\ CanTransitionTo(status, goal)
        /\ goal = "closed" => DOMAIN rows # {}
        /\ Sets(r, goal, 0, 0)

(* The event carries the total of what was reserved.                       *)
HandleReserved(r) ==
    /\ reserved = "taken" /\ status = "created"
    /\ Sets(r, "waiting_payment", total, Total(Numbered(0, Ordered)))

(* The commit does not look again: a status may be written over the end of *)
(* an order whose items went back.                                         *)
CommitStatus(r) ==
    /\ setting[r].goal # None
    /\ status' = setting[r].goal
    /\ total' = Totalled(setting[r].before, setting[r].sum)
    /\ setting' = [setting EXCEPT ![r] = NoSetting]
    /\ contended' = (contended \/ returned)
    /\ UNCHANGED <<rows, returned, last, shelf, reserved, self, lost, faults>>

Next ==
    \/ \E r \in Request :
           \/ AddItem(r) \/ UpdateItem(r) \/ RemoveItem(r) \/ UpdateAllItems(r)
           \/ CancelOrder(r) \/ HandlePaymentRefunded(r)
           \/ Give(r) \/ Check(r) \/ Take(r) \/ Sum(r) \/ Commit(r)
           \/ Undo(r) \/ CallFails(r) \/ CommitFails(r) \/ Die(r)
           \/ UpdateOrder(r) \/ HandleReserved(r) \/ CommitStatus(r)
    \/ Reserve
    \/ \E p \in Product : Buy(p)

Spec == Init /\ [][Next]_vars
-----------------------------------------------------------------------------
(* What the catalog took for the order, or will when it answers, and what  *)
(* the order still owns: nothing once its items went back.                 *)
Awaited(p) == IF reserved = "taken" THEN 0 ELSE Ordered[p]
Owned == IF returned THEN NoRows ELSE rows

(* The books balance: what the catalog took for the order is what its rows *)
(* list plus what the requests under way have moved so far, and nothing    *)
(* once it was cancelled or refunded; so an edit that is refused half-way  *)
(* has moved nothing in the end, edits of different items do not disturb   *)
(* one another, no item goes back twice or stays behind, and an edit, a    *)
(* cancellation or a payment may come before the reservation is answered.  *)
(* Excused is what nothing in the code prevents or gives back: a request   *)
(* beside another that uses the same item, a status written over a         *)
(* cancellation, a call that took effect without an answer, a death, a     *)
(* commit refused, a cancellation or refund that stopped half-way, an undo *)
(* refused or failed.                                                      *)
(* A reservation that is refused is never taken: what was moved before for *)
(* such an order stays moved, in the code and in this formula.             *)
BooksBalance ==
    contended \/ lost \/ \A p \in Product :
        held[p] + Awaited(p) =
            Listed(Owned, p) + SumFunction([r \in Request |-> self[r].took[p]])

(* tests/integration/test_order_layers.py: after an edit the stored total  *)
(* is the sum of the rows.                                                 *)
TotalIsSum ==
    (\A r \in Request : self[r] = Idle /\ setting[r] = NoSetting) => total = Total(rows)
=============================================================================
