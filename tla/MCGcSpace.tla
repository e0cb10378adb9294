----------------------------- MODULE MCGcSpace -----------------------------
(***************************************************************************)
(* A 128-byte initial block whose objects are multiples of 16 bytes.       *)
(***************************************************************************)
EXTENDS GcSpace
=============================================================================
