---------------------------- MODULE MCLifecycle ----------------------------
(* Lifecycle has no constants: its whole state space is checked.             *)
EXTENDS Lifecycle
=============================================================================
