------------------------- MODULE MCDelegatorDigest -------------------------
(***************************************************************************)
(* Model values of DelegatorDigest for TLC.                                *)
(***************************************************************************)
EXTENDS DelegatorDigest, TLC

CONSTANTS u1, u2, o1, o2, d1

\* No action or property tells users apart, nor, while nobody has a stake at
\* first, orchestrators.
Symmetry == Permutations(Users) \union Permutations(Orchs)
=============================================================================
