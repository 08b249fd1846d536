----------------------------- MODULE MCMonitor -----------------------------
(* Two slots for breakpoints and three calls deep, so that slots run out and *)
(* a monitor is entered from a monitor that was entered from a step.         *)
EXTENDS Monitor
=============================================================================
