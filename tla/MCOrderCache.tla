---------------------------- MODULE MCOrderCache ----------------------------
(* Bounded instances of OrderCache. *)
EXTENDS OrderCache, TLC

CONSTANTS i1, i2, i3, s1, s2, one, two, q1, q2, r1, r2

TwoSellers == i1 :> s1 @@ i2 :> s2 @@ i3 :> s2
NoneOrOne == {None} \cup {[status |-> "created", items |-> i1 :> q] : q \in Quantities}
Symmetry == Permutations(Request) \cup Permutations({i2, i3}) \cup Permutations(Quantities)
=============================================================================
