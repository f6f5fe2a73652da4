---------------------------- MODULE MCOpenCheck ----------------------------
(* OpenCheck over all contents of up to two rows. *)
EXTENDS OpenCheck, TLC

ValueSymmetry == Permutations(Values)
=============================================================================
