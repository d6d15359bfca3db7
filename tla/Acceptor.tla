------------------------------ MODULE Acceptor ------------------------------
(***************************************************************************)
(* The listening side of a TcpServer (src/net/acceptor.rs and              *)
(* start_internal of src/net/tcp_server.rs): a listener registered edge-   *)
(* triggered in the event loop, and the job run for each connection.       *)
(*                                                                         *)
(* The thread that starts the server binds the listener and then sets the  *)
(* job, while the loop's thread already serves the listener.  The actions  *)
(* speak of the acceptor's variables only; TunnelServer says what the job  *)
(* does with a connection.                                                 *)
(***************************************************************************)
EXTENDS Naturals, Sequences

CONSTANT Clients    \* the connections that arrive, each at most once

VARIABLES
    bound,          \* the listener is in the event loop's poll
    accept_job,     \* set_accept_job has replaced the default job
    backlog,        \* kernel: connections not accepted yet
    listener_edge,  \* kernel: an event of the listener waits for epoll_wait
    accept_failed   \* history: accept has failed since the last arrival

acceptorVars == <<bound, accept_job, backlog, listener_edge, accept_failed>>

AcceptorInit ==
    /\ bound = FALSE /\ accept_job = FALSE
    /\ backlog = <<>> /\ listener_edge = FALSE /\ accept_failed = FALSE

(* start_internal: bind ...                                                *)
Bind ==
    /\ ~bound
    /\ bound' = TRUE
    /\ listener_edge' = (backlog # <<>>)
    /\ UNCHANGED <<accept_job, backlog, accept_failed>>

(* ... and then set_accept_job, under the acceptor's mutex: not in the     *)
(* middle of a handle_read (`serving`).                                    *)
SetAcceptJob(serving) ==
    /\ bound /\ ~accept_job /\ ~serving
    /\ accept_job' = TRUE
    /\ UNCHANGED <<bound, backlog, listener_edge, accept_failed>>

(* The kernel completes a handshake; TcpListener::new listens before bind. *)
Arrive(c) ==
    /\ backlog' = Append(backlog, c)
    /\ listener_edge' = bound
    /\ accept_failed' = FALSE
    /\ UNCHANGED <<bound, accept_job>>

-----------------------------------------------------------------------------
(* handle_read: accept(2) gives the oldest connection to the job.          *)
AcceptNext(c) ==
    /\ backlog # <<>> /\ c = Head(backlog)
    /\ backlog' = Tail(backlog)
    /\ UNCHANGED <<bound, accept_job, listener_edge, accept_failed>>

(* Operators whose names start with Bad are mistakes that mutation runs    *)
(* substitute for the operator defined after them.                         *)

(* The loop goes on after a connection (and after an interrupted call).    *)
BadAcceptsOn == FALSE
AcceptsOn == TRUE

(* It ends when accept would block.                                        *)
AcceptEnds ==
    /\ backlog = <<>>
    /\ UNCHANGED acceptorVars

(* Any other error ends it, too: for want of descriptors the connection    *)
(* stays in the backlog, and no edge is left that would bring it up.       *)
AcceptFails ==
    /\ backlog # <<>>
    /\ accept_failed' = TRUE
    /\ UNCHANGED <<bound, accept_job, backlog, listener_edge>>
=============================================================================
