------------------------------ MODULE MCGcHeap ------------------------------
(***************************************************************************)
(* Instances of GcHeap for TLC.  Objects are interchangeable, and so are   *)
(* roots and fields.                                                       *)
(***************************************************************************)
EXTENDS GcHeap, TLC

Symmetry == Permutations(Obj) \cup Permutations(Roots) \cup Permutations(Fields)
=============================================================================
