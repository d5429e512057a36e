-------------------------- MODULE MCContextSwitch ---------------------------
(***************************************************************************)
(* ContextSwitch with two tasks and stacks of up to three words.           *)
(***************************************************************************)
EXTENDS ContextSwitch
=============================================================================
