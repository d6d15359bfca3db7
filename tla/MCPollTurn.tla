---------------------------- MODULE MCPollTurn ----------------------------
(* PollTurn for TLC: the threads are model values given in the cfg.  No   *)
(* symmetry is declared, because TurnIsTaken is a liveness property.      *)
EXTENDS PollTurn
===========================================================================
