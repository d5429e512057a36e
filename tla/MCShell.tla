------------------------------- MODULE MCShell -------------------------------
(***************************************************************************)
(* Model checking of Shell on a small screen.  The texts that are printed  *)
(* are empty, shorter than a row and longer than one.                      *)
(***************************************************************************)
EXTENDS Shell

MCOutputs == {<<>>, <<"x">>, <<"x", "y", "x">>}
=============================================================================
