---------------------------- MODULE MCTimerWheel ----------------------------
(* TimerWheel for TLC: its constants are numbers given in the cfg.          *)
EXTENDS TimerWheel
=============================================================================
