---------------------------- MODULE MCEventLoop ----------------------------
(* EventLoop for TLC; its sets are model values given in the cfg.          *)
EXTENDS EventLoop, TLC
=============================================================================
