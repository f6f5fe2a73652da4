---------------------------- MODULE MCCloseOnce ----------------------------
(* CloseOnce with three goroutines that call Close twice each. *)
EXTENDS CloseOnce
=============================================================================
