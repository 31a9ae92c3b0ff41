---------------------------- MODULE MCOrderItems ----------------------------
(* Bounded instances of OrderItems. *)
EXTENDS OrderItems

CONSTANTS p1, p2, q1, q2

(* One piece of p1 is ordered; one more of each product is on sale.        *)
OneOrdered == [p \in Product |-> IF p = p1 THEN 1 ELSE 0]
OneMore == [p \in Product |-> OneOrdered[p] + 1]
Prices == [p \in Product |-> IF p = p1 THEN 3 ELSE 5]

Symmetry == Permutations(Request)

(* BooksBalance excuses every state after a contended use or a loss; an    *)
(* order that was shipped can no longer be edited or given back.           *)
Unspoilt == ~contended /\ ~lost /\ status # "shipped"

(* No action looks at an amount of money before it writes one.             *)
NoMoney ==
    <<rows, last, status, returned, shelf, reserved, past, faults,
      [r \in Request |-> [self[r] EXCEPT !.before = 0, !.sum = 0]],
      [r \in Request |-> setting[r].goal]>>
=============================================================================
