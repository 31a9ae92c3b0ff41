-------------------------------- MODULE Stock --------------------------------
(***************************************************************************)
(* What catalog-service promises of stock, with no concurrency in it: an   *)
(* order's items are reserved all at once or not at all, "reserving        *)
(* several positions atomically" (catalog-service/README.md), and only     *)
(* what is available; single items are given back one by one.  The catalog *)
(* keeps available quantities only: held is the history of what each order *)
(* took minus what was given back in its name.                             *)
(***************************************************************************)
EXTENDS Integers

CONSTANTS
    Order, Product,
    Items,     \* Items[o][p]: the quantity of p in order o
    Initial    \* Initial[p]: what the seller put up for sale

VARIABLES
    stock,  \* products.quantity
    held    \* held[o][p]

Init ==
    /\ stock = Initial
    /\ held = [o \in Order |-> [p \in Product |-> 0]]

Enough(o) == \A p \in Product : stock[p] >= Items[o][p]

Reserve(o) ==
    /\ Enough(o)
    /\ stock' = [p \in Product |-> stock[p] - Items[o][p]]
    /\ held' = [held EXCEPT ![o] = [p \in Product |-> @[p] + Items[o][p]]]

(* One more item for an order that is being edited. *)
ReserveItem(o, p) ==
    /\ stock[p] >= Items[o][p]
    /\ stock' = [stock EXCEPT ![p] = @ - Items[o][p]]
    /\ held' = [held EXCEPT ![o][p] = @ + Items[o][p]]

Release(o, p) ==
    /\ stock' = [stock EXCEPT ![p] = @ + Items[o][p]]
    /\ held' = [held EXCEPT ![o][p] = @ - Items[o][p]]

Next == \E o \in Order : Reserve(o) \/ \E p \in Product : ReserveItem(o, p) \/ Release(o, p)

Spec == Init /\ [][Next]_<<stock, held>>
=============================================================================
