-------------------------- MODULE MCTcpConnection --------------------------
(* TcpConnection for TLC: its constants are numbers given in the cfg.       *)
EXTENDS TcpConnection
=============================================================================
