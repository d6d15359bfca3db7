-------------------------- MODULE MCTunnelServer --------------------------
(* TunnelServer for TLC; the clients are model values given in the cfg.   *)
EXTENDS TunnelServer, TLC
===========================================================================
