----------------------------- MODULE MCActiveBlob ------------------------------
(* Instances of ActiveBlob for TLC.  Commands are interchangeable.         *)
EXTENDS ActiveBlob, TLC

Symmetry == Permutations(Procs)
===============================================================================
