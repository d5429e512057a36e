------------------------------- MODULE MCKernel -------------------------------
(***************************************************************************)
(* Model checking of Kernel.  kernel_main starts two tasks; each runs any  *)
(* of the kinds of function the configuration lists.                       *)
(***************************************************************************)
EXTENDS Kernel
=============================================================================
