---------------------------- MODULE MCTableWatch ----------------------------
(* Instances of TableWatch for TLC. *)
EXTENDS TableWatch, TLC
=============================================================================
