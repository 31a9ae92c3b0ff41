----------------------------- MODULE MCInventory -----------------------------
(* Bounded instances of Inventory. *)
EXTENDS Inventory, TLC

CONSTANTS o1, o2, p1, p2, q1, q2

(* o1 takes one of each product, o2 all there is of p1. *)
MixedItems == [o \in Order |-> [p \in Product |->
                  IF o = o1 THEN 1 ELSE IF p = p1 THEN 2 ELSE 0]]
TwoInStock == [p \in Product |-> 2]
=============================================================================
