----------------------------- MODULE MCSessions -----------------------------
(* Bounded instances of Sessions. *)
EXTENDS Sessions, TLC

CONSTANTS u1, u2, u3, e1, e2, f1, f2, user, seller, b1, s1, r1, r2, r3

OneAccount == [email |-> e1, phone |-> f1, role |-> user]
OneJar == b1 :> s1
Symmetry == Permutations(Request) \cup Permutations({u2, u3})
=============================================================================
