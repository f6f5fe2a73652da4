----------------------------- MODULE MCPublish -----------------------------
(* Publish on small instances. *)
EXTENDS Publish, TLC

ReaderSymmetry == Permutations(Readers)
=============================================================================
