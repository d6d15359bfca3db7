--------------------------- MODULE MCTimerWakeup ---------------------------
(* TimerWakeup for TLC: its constant is a number given in the cfg.          *)
EXTENDS TimerWakeup
=============================================================================
