---------------------------- MODULE MCHashCache ----------------------------
(***************************************************************************)
(* Instances of HashCache for TLC.                                         *)
(***************************************************************************)
EXTENDS HashCache

\* The objects are alike.
Symmetry == Permutations(Objects)
=============================================================================
