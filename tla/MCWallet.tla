------------------------------ MODULE MCWallet ------------------------------
(* Bounded instances of Wallet, with the mutations its runs must notice.   *)
EXTENDS Wallet, TLC

CONSTANTS u1, u2, r1, r2, r3, p1, p2, m1, m2

SmallDeltas == {-1, 1}
Deltas == {-2, -1, 1, 2}

Symmetry == Permutations(Request) \cup Permutations(Reference \ ManualReference)
                \cup Permutations(ManualReference)
=============================================================================
