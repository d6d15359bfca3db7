--------------------------- MODULE MCConnector ---------------------------
(* Connector for TLC: the bounds are in the cfg.                           *)
EXTENDS Connector
=============================================================================
