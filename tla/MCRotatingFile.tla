--------------------------- MODULE MCRotatingFile ---------------------------
(* Instances of RotatingFile for TLC. *)
EXTENDS RotatingFile
=============================================================================
