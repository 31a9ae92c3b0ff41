------------------------------ MODULE MCCatalog -----------------------------
(* Bounded instances of Catalog. *)
EXTENDS Catalog, TLC

CONSTANTS r1, r2, r3, g1
\* A link, no image and another stock, nothing new.
Patches == {[image |-> Link, quantity |-> Keep], [image |-> None, quantity |-> 1],
            [image |-> Keep, quantity |-> Keep]}
Same == Permutations({r1, r2, r3})
=============================================================================
