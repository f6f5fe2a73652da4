------------------------------ MODULE MCReload ------------------------------
(* Reload with three readers and a channel they can fill. *)
EXTENDS Reload, TLC

ReaderSymmetry == Permutations(Readers)
=============================================================================
