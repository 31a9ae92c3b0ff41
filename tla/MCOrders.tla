------------------------------ MODULE MCOrders ------------------------------
(* Bounded instances of Orders. *)
EXTENDS Orders, TLC

CONSTANTS o1, o2, p1, p2, q1, q2

OneOfEach == [o \in Order |-> [p \in Product |-> 1]]
OneInStock == [p \in Product |-> 1]
TwoInStock == [p \in Product |-> 2]

Symmetry == Permutations(Request) \cup Permutations(Product) \cup Permutations(Order)
=============================================================================
