----------------------------- MODULE MCProfile ------------------------------
(* Instance of Profile for TLC.                                             *)
EXTENDS Profile, TLC

Symmetry == Permutations(Profiles)
=============================================================================
