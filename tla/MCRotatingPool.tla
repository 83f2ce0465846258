--------------------------- MODULE MCRotatingPool ----------------------------
(***************************************************************************)
(* Instances of RotatingPool for TLC.                                      *)
(***************************************************************************)
EXTENDS RotatingPool
=============================================================================
