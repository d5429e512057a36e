------------------------------ MODULE MCTimer ------------------------------
(* A byte of five values keeps the calibration of module Timer small: the   *)
(* interval timer's period is 24 ticks, and MaxTicks lets it go round twice. *)
EXTENDS Timer
=============================================================================
