--------------------------- MODULE MCContactBook ---------------------------
(***************************************************************************)
(* An instance of ContactBook for TLC: three names of four collide.        *)
(***************************************************************************)
EXTENDS ContactBook, TLC

CONSTANTS n1, n2, n3, n4, k1, k2, d1, d2

Hash == (n1 :> k1) @@ (n2 :> k1) @@ (n3 :> k1) @@ (n4 :> k2)

\* The names that collide may be exchanged, and so may the domains.
Interchangeable == Permutations({n1, n2, n3}) \cup Permutations({d1, d2})
=============================================================================
