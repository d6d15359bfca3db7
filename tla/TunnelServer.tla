---------------------------- MODULE TunnelServer ----------------------------
(***************************************************************************)
(* The tunnel of examples/tunnel.rs on one event loop: for each client the *)
(* server accepts it connects to the upstream server and passes bytes both *)
(* ways.  The module composes the acceptor, the connection pairs and the   *)
(* loop (EventLoop, TcpConnection and Connector model each by itself).     *)
(*                                                                         *)
(* All handlers run in the loop's thread: a poll collects the sockets that *)
(* have an event, in any order, and behind them the jobs enqueued so far;  *)
(* jobs enqueued by a handler wait for the next poll.  Peers, kernel and   *)
(* the thread that starts the server act in between.                       *)
(*                                                                         *)
(* The sessions hold each other's connection as Weak: it can be upgraded   *)
(* while the connection is registered or a job or an entry of the batch    *)
(* owns it.  Bytes are numbered; a write passes all of its bytes on or, as *)
(* TcpConnection shows, loses a rest.                                      *)
(***************************************************************************)
EXTENDS Acceptor, FiniteSets

CONSTANTS MaxSent,      \* bound on the bytes a client sends
          MaxReply,     \* bound on the bytes an upstream sends
          Passive,      \* clients that only connect, and get no answer
          Faults        \* which of "reset", "short", "connect", "accept" happen

ASSUME TunnelAssumption ==
    /\ IsFiniteSet(Clients) /\ Passive \subseteq Clients
    /\ MaxSent \in Nat /\ MaxReply \in Nat
    /\ Faults \subseteq {"reset", "short", "connect", "accept"}

VARIABLES
    cli,    \* per client: its connection, as a record
    up,     \* per client: the connection to the upstream server
    jobs,   \* the loop's readiness queue
    todo,   \* entries of the batch for sockets, not handled yet
    run,    \* entries of the batch for jobs, not run yet
    held,   \* the connections that entries of the batch own
    loop,   \* where the loop is, or how it ended
    cur,    \* the entry it handles
    short   \* history: a write has lost bytes

batchVars == <<todo, run, held, loop, cur>>
tunnelVars == <<acceptorVars, cli, up, jobs, batchVars, short>>

(* A connection: TcpConnection's fields, and what the kernel has of it.    *)
NoConn == [conn |-> "none",
           sent |-> 0, rx |-> 0,    \* bytes the peer has sent; of them unread
           buf |-> <<>>,            \* read_buffer
           got |-> <<>>,            \* bytes written to the peer
           fin |-> FALSE, rst |-> FALSE,    \* the peer has closed, has reset
           write_enabled |-> TRUE,
           edge |-> FALSE]          \* an event waits for epoll_wait

Client(c) == <<"client", c>>
Upstream(c) == <<"upstream", c>>
Listener == <<"listener">>

NoEntry == [sock |-> Listener, readable |-> FALSE, hup |-> FALSE]

TunnelInit ==
    /\ AcceptorInit
    /\ cli = [c \in Clients |-> NoConn]
    /\ up = [c \in Clients |-> NoConn]
    /\ jobs = <<>> /\ todo = {} /\ run = <<>> /\ held = {}
    /\ loop = "poll" /\ cur = NoEntry
    /\ short = FALSE

Job(kind, c, bytes) == [kind |-> kind, c |-> c, bytes |-> bytes]

(* The connections that a job's closure owns.                              *)
Owns(j) ==
    CASE j.kind = "flush" -> {Client(j.c), Upstream(j.c)}
      [] j.kind = "send" -> {Upstream(j.c)}
      [] j.kind = "shut_client" -> {Client(j.c)}
      [] j.kind = "shut_upstream" -> {Upstream(j.c)}

OwnedByJobs(q) == UNION {Owns(q[i]) : i \in DOMAIN q}

(* Weak::upgrade of client_conn, and of server_conn, which is attached     *)
(* once the upstream is connected.                                         *)
ClientConn(c) ==
    cli[c].conn = "open" \/ Client(c) \in held \cup OwnedByJobs(jobs)
ServerConn(c) ==
    \/ up[c].conn = "open"
    \/ up[c].conn = "closed" /\ Upstream(c) \in held \cup OwnedByJobs(jobs)

-----------------------------------------------------------------------------
(* How the loop ends: an unwrap panics, of connect, of shutdown or of      *)
(* deregister, or it waits for a mutex that it holds.                      *)
Ended == loop \in {"refused", "shutdown", "deregister", "stuck"}

(* The peers and the kernel.  An event follows whatever a peer does.  A    *)
(* reset drops what is unread: had it been kept, the loop would do as if   *)
(* it had read it before the reset.  What peers do once the loop has ended *)
(* is left out.                                                            *)

Reaches(k) == k.conn \in {"backlog", "connected", "open"} /\ ~k.fin /\ ~k.rst

(* Only what is registered has events.                                     *)
Registered(k) == k.conn \in {"connected", "open"}
Raise(k) == [k EXCEPT !.edge = Registered(k)]

PeerMoves(k, max) ==
    (IF Reaches(k) /\ k.sent < max
     THEN {Raise([k EXCEPT !.sent = @ + 1, !.rx = @ + 1])} ELSE {})
    \cup (IF Reaches(k) THEN {Raise([k EXCEPT !.fin = TRUE])} ELSE {})
    \cup (IF "reset" \in Faults /\ ~k.rst
             /\ k.conn \in {"backlog", "connected", "open", "closed"}
          THEN {Raise([k EXCEPT !.rst = TRUE, !.rx = 0])} ELSE {})

ClientConnects(c) ==
    /\ cli[c].conn = "none"
    /\ cli' = [cli EXCEPT ![c].conn = "backlog"]
    /\ Arrive(c)
    /\ UNCHANGED <<up, jobs, batchVars, short>>

(* Nothing of a closed connection matters once nobody owns it.             *)
ClientActs(c) ==
    /\ cli[c].conn = "closed" => ClientConn(c)
    /\ \E k \in PeerMoves(cli[c], MaxSent) : cli' = [cli EXCEPT ![c] = k]
    /\ UNCHANGED <<acceptorVars, up, jobs, batchVars, short>>

UpstreamActs(c) ==
    /\ up[c].conn # "closed"
    /\ \E k \in PeerMoves(up[c], MaxReply) : up' = [up EXCEPT ![c] = k]
    /\ UNCHANGED <<acceptorVars, cli, jobs, batchVars, short>>

(* The handshake with the upstream ends, or is refused (SO_ERROR is set).  *)
UpstreamAnswers(c) ==
    /\ up[c].conn = "connecting"
    /\ \E r \in BOOLEAN :
          up' = [up EXCEPT ![c] = [@ EXCEPT !.conn = "connected", !.edge = TRUE, !.rst = r]]
    /\ UNCHANGED <<acceptorVars, cli, jobs, batchVars, short>>

StartServer ==
    /\ Bind \/ SetAcceptJob(loop = "accept")
    /\ UNCHANGED <<cli, up, jobs, batchVars, short>>

-----------------------------------------------------------------------------
(* The loop: poll.  Entries carry the readiness of the time of epoll_wait. *)
Entry(s, k) ==
    [sock |-> s, readable |-> k.rx > 0 \/ k.fin \/ k.rst,
     hup |-> k.rst \/ (k.fin /\ ~k.write_enabled)]

HasEvent(k) == Registered(k) /\ k.edge
Delivered(k) == IF HasEvent(k) THEN [k EXCEPT !.edge = FALSE] ELSE k

Events ==
    {Entry(Client(c), cli[c]) : c \in {d \in Clients : HasEvent(cli[d])}}
    \cup {Entry(Upstream(c), up[c]) : c \in {d \in Clients : HasEvent(up[d])}}
    \cup (IF listener_edge THEN {NoEntry} ELSE {})

Poll ==
    /\ loop = "poll"
    /\ Events # {} \/ jobs # <<>>       \* epoll_wait sleeps otherwise
    /\ todo' = Events /\ run' = jobs /\ jobs' = <<>>
    /\ held' = {e.sock : e \in Events} \cup OwnedByJobs(jobs)
    /\ cli' = [c \in Clients |-> Delivered(cli[c])]
    /\ up' = [c \in Clients |-> Delivered(up[c])]
    /\ listener_edge' = FALSE
    /\ loop' = "batch"
    /\ UNCHANGED <<bound, accept_job, backlog, accept_failed, cur, short>>

(* io_process: the next socket of the batch.                               *)
Handle(e) ==
    /\ loop = "batch" /\ e \in todo
    /\ todo' = todo \ {e}
    /\ loop' = IF e.sock = Listener THEN "accept"
               ELSE IF \E c \in Clients : e.sock = Upstream(c) /\ up[c].conn = "connected"
               THEN "connect"
               ELSE IF e.readable THEN "read" ELSE "batch"
    /\ cur' = IF loop' = "batch" THEN NoEntry ELSE e
    /\ UNCHANGED <<acceptorVars, cli, up, jobs, run, held, short>>

(* events.clear().                                                         *)
EndBatch ==
    /\ loop = "batch" /\ todo = {} /\ run = <<>>
    /\ held' = {} /\ loop' = "poll"
    /\ UNCHANGED <<acceptorVars, cli, up, jobs, todo, run, cur, short>>

At(l, s) == loop = l /\ cur.sock = s
Goto(l) ==
    /\ loop' = l
    /\ cur' = IF l = "batch" THEN NoEntry ELSE cur
    /\ UNCHANGED <<todo, run, held>>

-----------------------------------------------------------------------------
(* handle_read of the acceptor.  on_accept_connection makes the session,   *)
(* whose on_accept starts to connect, and registers the connection; the    *)
(* default job drops it.                                                   *)
Accept(c) ==
    /\ At("accept", Listener) /\ AcceptNext(c)
    /\ IF accept_job
       THEN /\ cli' = [cli EXCEPT ![c] = [@ EXCEPT !.conn = "open", !.edge = TRUE]]
            /\ up' = [up EXCEPT ![c].conn = "connecting"]
       ELSE cli' = [cli EXCEPT ![c].conn = "dropped"] /\ UNCHANGED up
    /\ Goto(IF AcceptsOn THEN "accept" ELSE "batch")
    /\ UNCHANGED <<jobs, short>>

(* TcpStream::connect fails at once and is unwrapped.                      *)
ConnectPanics(c) ==
    /\ "connect" \in Faults
    /\ At("accept", Listener) /\ accept_job /\ AcceptNext(c)
    /\ cli' = [cli EXCEPT ![c].conn = "dropped"]
    /\ Goto("refused")
    /\ UNCHANGED <<up, jobs, short>>

AcceptReturns ==
    /\ At("accept", Listener)
    /\ AcceptEnds \/ ("accept" \in Faults /\ AcceptFails)
    /\ Goto("batch")
    /\ UNCHANGED <<cli, up, jobs, short>>

-----------------------------------------------------------------------------
(* Operators whose names start with Bad are mistakes that mutation runs    *)
(* substitute for the operator defined after them.                         *)

(* The jobs that the handlers enqueue: TunnelServer::on_recv ...           *)
TunnelOnRecv(c, bytes) ==
    IF bytes # <<>> /\ ServerConn(c) THEN <<Job("send", c, bytes)>> ELSE <<>>

(* ... which takes the bytes out of the buffer if it could send them, ...  *)
BadLeftInBuffer(c, bytes) == bytes
LeftInBuffer(c, bytes) == IF ServerConn(c) THEN <<>> ELSE bytes

(* ... TunnelServer::on_error ...                                          *)
TunnelOnError(c) ==
    IF ServerConn(c) THEN <<Job("shut_upstream", c, <<>>)>> ELSE <<>>

(* ... and ServerSession::on_error and on_connect.                         *)
BadSessionOnError(c) == <<>>
SessionOnError(c) ==
    IF ClientConn(c) THEN <<Job("shut_client", c, <<>>)>> ELSE <<>>
SessionOnConnect(c) ==
    IF ClientConn(c) THEN <<Job("flush", c, <<>>)>> ELSE <<>>

(* handle_close, unless it has been here before, disables the connection,  *)
(* calls on_error (`told`, the jobs that enqueues) and deregisters, which  *)
(* is unwrapped and fails for a connection it does not know.               *)
BadNotClosed(k) == TRUE
NotClosed(k) == k.conn # "closed"
Closed(k) ==
    IF NotClosed(k)
    THEN [k EXCEPT !.conn = "closed", !.write_enabled = FALSE, !.edge = FALSE]
    ELSE k
OnClose(k, told) == IF NotClosed(k) THEN told ELSE <<>>
AfterClose(k, l) == IF NotClosed(k) /\ k.conn # "open" THEN "deregister" ELSE l

(* The connector's event: a failed connect is reported and dropped, any    *)
(* other is attached, registered again and told on_connect.  That asks for *)
(* an error again, and leaves the flush out if a reset has come since.     *)
Opened(k) == [k EXCEPT !.conn = "open", !.edge = TRUE]

Connected(c) ==
    /\ At("connect", Upstream(c))
    /\ \/ /\ up[c].rst
          /\ up' = [up EXCEPT ![c].conn = "dropped"]
          /\ jobs' = jobs \o SessionOnError(c)
       \/ /\ ~up[c].rst
          /\ up' = [up EXCEPT ![c] = Opened(@)]
          /\ jobs' = jobs \o SessionOnConnect(c)
       \/ /\ ~up[c].rst /\ "reset" \in Faults
          /\ up' = [up EXCEPT ![c] = [Opened(@) EXCEPT !.rst = TRUE, !.rx = 0]]
          /\ UNCHANGED jobs
    /\ Goto("batch")
    /\ UNCHANGED <<acceptorVars, cli, short>>

(* What the next read returns.                                             *)
Unread(k) == [i \in 1..k.rx |-> k.sent - k.rx + i]

AfterReading == IF cur.hup THEN "hangup" ELSE "batch"

ReadClient(c) ==
    /\ At("read", Client(c)) /\ cli[c].rx > 0
    /\ LET bytes == cli[c].buf \o Unread(cli[c])
       IN  /\ cli' = [cli EXCEPT ![c] = [@ EXCEPT !.rx = 0,
                                                  !.buf = LeftInBuffer(c, bytes)]]
           /\ jobs' = jobs \o TunnelOnRecv(c, bytes)
    /\ UNCHANGED <<acceptorVars, up, batchVars, short>>

(* Nothing to read: would block; or the end, which on_recv is told with    *)
(* what is left in the buffer; or an error.                                *)
ReadClientEnds(c) ==
    LET k == cli[c]
    IN  /\ At("read", Client(c)) /\ k.rx = 0
        /\ \/ /\ ~k.fin /\ ~k.rst
              /\ Goto(AfterReading) /\ UNCHANGED <<cli, jobs>>
           \/ /\ k.fin \/ k.rst
              /\ LET left == IF k.rst THEN k.buf ELSE LeftInBuffer(c, k.buf)
                     sends == IF k.rst THEN <<>> ELSE TunnelOnRecv(c, k.buf)
                 IN  /\ cli' = [cli EXCEPT ![c] = [Closed(k) EXCEPT !.buf = left]]
                     /\ jobs' = jobs \o sends \o OnClose(k, TunnelOnError(c))
              /\ Goto(AfterClose(k, AfterReading))
        /\ UNCHANGED <<acceptorVars, up, short>>

(* The error and hang-up bits.                                             *)
HangupClient(c) ==
    /\ At("hangup", Client(c))
    /\ cli' = [cli EXCEPT ![c] = Closed(@)]
    /\ jobs' = jobs \o OnClose(cli[c], TunnelOnError(c))
    /\ Goto(AfterClose(cli[c], "batch"))
    /\ UNCHANGED <<acceptorVars, up, short>>

-----------------------------------------------------------------------------
(* How much of the bytes a write passes on.                                *)
Write(bytes, n) ==
    /\ n = Len(bytes) \/ ("short" \in Faults /\ n \in 0..Len(bytes))
    /\ short' = (short \/ n < Len(bytes))

(* ServerSession::on_recv sends to the client at once.  If that fails, the *)
(* client's handle_close calls TunnelServer::on_error, which asks the      *)
(* ServerSession for its connection, whose mutex this thread holds.        *)
ReadUpstream(c) ==
    /\ At("read", Upstream(c)) /\ up[c].rx > 0
    /\ LET bytes == up[c].buf \o Unread(up[c])
       IN  /\ up' = [up EXCEPT ![c] = [@ EXCEPT !.rx = 0,
                            !.buf = IF ClientConn(c) THEN <<>> ELSE bytes]]
           /\ \/ /\ ~ClientConn(c) \/ ~cli[c].write_enabled
                 /\ UNCHANGED <<cli, loop, short>>
              \/ /\ ClientConn(c) /\ cli[c].write_enabled /\ cli[c].rst
                 /\ cli' = [cli EXCEPT ![c] = Closed(@)]
                 /\ loop' = "stuck" /\ UNCHANGED short
              \/ /\ ClientConn(c) /\ cli[c].write_enabled /\ ~cli[c].rst
                 /\ \E n \in 0..Len(bytes) :
                       /\ Write(bytes, n)
                       /\ cli' = [cli EXCEPT ![c].got = @ \o SubSeq(bytes, 1, n)]
                 /\ UNCHANGED loop
    /\ UNCHANGED <<acceptorVars, jobs, todo, run, held, cur>>

(* What is left in this buffer has no client to go to.                     *)
ReadUpstreamEnds(c) ==
    LET k == up[c]
    IN  /\ At("read", Upstream(c)) /\ k.rx = 0
        /\ \/ /\ ~k.fin /\ ~k.rst
              /\ Goto(AfterReading) /\ UNCHANGED <<up, jobs>>
           \/ /\ k.fin \/ k.rst
              /\ up' = [up EXCEPT ![c] = Closed(k)]
              /\ jobs' = jobs \o OnClose(k, SessionOnError(c))
              /\ Goto(AfterClose(k, AfterReading))
        /\ UNCHANGED <<acceptorVars, cli, short>>

HangupUpstream(c) ==
    /\ At("hangup", Upstream(c))
    /\ up' = [up EXCEPT ![c] = Closed(@)]
    /\ jobs' = jobs \o OnClose(up[c], SessionOnError(c))
    /\ Goto(AfterClose(up[c], "batch"))
    /\ UNCHANGED <<acceptorVars, cli, short>>

-----------------------------------------------------------------------------
(* The jobs of the batch, once its sockets are done.                       *)
JobAt(kind, c) ==
    loop = "batch" /\ todo = {} /\ run # <<>> /\ Head(run).kind = kind /\ Head(run).c = c
JobDone(l) == run' = Tail(run) /\ loop' = l /\ UNCHANGED <<todo, held, cur>>

(* send to the upstream; an error closes it.                               *)
SendUpstream(c, bytes) ==
    \/ /\ ~up[c].write_enabled
       /\ UNCHANGED <<up, jobs, short>>
    \/ /\ up[c].write_enabled /\ up[c].rst
       /\ up' = [up EXCEPT ![c] = Closed(@)]
       /\ jobs' = jobs \o OnClose(up[c], SessionOnError(c))
       /\ UNCHANGED short
    \/ /\ up[c].write_enabled /\ ~up[c].rst
       /\ \E n \in 0..Len(bytes) :
             Write(bytes, n) /\ up' = [up EXCEPT ![c].got = @ \o SubSeq(bytes, 1, n)]
       /\ UNCHANGED jobs

(* on_connect's job sends what has been read from the client so far.       *)
RunFlush(c) ==
    /\ JobAt("flush", c)
    /\ IF cli[c].buf = <<>> THEN UNCHANGED <<up, jobs, short>>
       ELSE SendUpstream(c, cli[c].buf)
    /\ cli' = [cli EXCEPT ![c].buf = <<>>]
    /\ JobDone("batch")
    /\ UNCHANGED acceptorVars

RunSend(c) ==
    /\ JobAt("send", c)
    /\ SendUpstream(c, Head(run).bytes)
    /\ JobDone("batch")
    /\ UNCHANGED <<acceptorVars, cli>>

(* shutdown(Write) of the client is unwrapped: it fails after a reset.     *)
RunShutClient(c) ==
    /\ JobAt("shut_client", c)
    /\ cli' = [cli EXCEPT ![c] = Raise([@ EXCEPT !.write_enabled = FALSE])]
    /\ JobDone(IF cli[c].rst THEN "shutdown" ELSE "batch")
    /\ UNCHANGED <<acceptorVars, up, jobs, short>>

RunShutUpstream(c) ==
    /\ JobAt("shut_upstream", c)
    /\ up' = [up EXCEPT ![c] = Raise([@ EXCEPT !.write_enabled = FALSE])]
    /\ JobDone("batch")
    /\ UNCHANGED <<acceptorVars, cli, jobs, short>>

-----------------------------------------------------------------------------
TunnelStep ==
    \/ Poll \/ (\E e \in todo : Handle(e)) \/ EndBatch \/ AcceptReturns
    \/ \E c \in Clients :
          \/ Accept(c) \/ ConnectPanics(c) \/ Connected(c)
          \/ ReadClient(c) \/ ReadClientEnds(c) \/ HangupClient(c)
          \/ ReadUpstream(c) \/ ReadUpstreamEnds(c) \/ HangupUpstream(c)
          \/ RunFlush(c) \/ RunSend(c) \/ RunShutClient(c) \/ RunShutUpstream(c)

TunnelNext ==
    \/ TunnelStep
    \/ ~Ended /\ StartServer
    \/ \E c \in Clients : ~Ended /\ ClientConnects(c)
    \/ \E c \in Clients \ Passive :
          ~Ended /\ (ClientActs(c) \/ UpstreamActs(c) \/ UpstreamAnswers(c))

(* The loop's thread runs.                                                 *)
TunnelSpec == TunnelInit /\ [][TunnelNext]_tunnelVars /\ WF_tunnelVars(TunnelStep)

-----------------------------------------------------------------------------
(* The loop has nothing to do and sleeps in epoll_wait.                    *)
Idle == loop = "poll" /\ Events = {} /\ jobs = <<>>

Numbers(n) == [i \in 1..n |-> i]

(* Both directions keep the order of the bytes, through the buffer that is *)
(* used until the upstream is connected, the flush and send jobs and the   *)
(* direct sends: a peer gets a beginning of what the other sent, unless a  *)
(* write was short, and nothing twice.  A client whose connection is shut  *)
(* because its upstream closed has got all that the upstream sent.         *)
ForwardedInOrder ==
    \A c \in Clients :
        /\ \A s \in {cli[c].got, up[c].got} :
              /\ \A i, j \in DOMAIN s : i < j => s[i] < s[j]
              /\ ~short => s = Numbers(Len(s))
        /\ cli[c].conn = "open" /\ ~cli[c].write_enabled /\ ~short /\ ~up[c].rst =>
              Len(cli[c].got) = up[c].sent

(* When the loop sleeps nothing waits for it: no connection in the backlog *)
(* (unless accept failed on it), no byte, end or error unread on an open   *)
(* connection, and nothing in a client's buffer that its upstream could    *)
(* have.                                                                   *)
NothingStranded ==
    Idle =>
        /\ bound /\ ~accept_failed => backlog = <<>>
        /\ \A c \in Clients :
              /\ \A k \in {cli[c], up[c]} :
                    k.conn = "open" => k.rx = 0 /\ ~k.fin /\ ~k.rst
              /\ cli[c].conn = "open" /\ up[c].conn = "open" => cli[c].buf = <<>>

(* The loop, which serves all sessions, ends only when connect(2) fails at *)
(* once or a client resets its connection (then the mutex of on_recv is    *)
(* taken twice, for that client, or shutdown fails): whatever is reset, no *)
(* connection is closed or deregistered twice, or before it is registered. *)
LoopSurvives ==
    /\ loop # "deregister"
    /\ loop = "stuck" => \E c \in Clients : cur.sock = Upstream(c) /\ cli[c].rst
    /\ loop = "shutdown" => \E c \in Clients : cli[c].rst

(* An end that one side announces while both connections are open is       *)
(* passed on to the other side, and so is a failed connect, unless the     *)
(* loop ends.                                                              *)
CloseIsPassedOn ==
    \A c \in Clients \ Passive :
        /\ cli[c].conn = "open" /\ up[c].conn = "open" /\ cli[c].fin
              ~> ~up[c].write_enabled \/ Ended
        /\ cli[c].conn = "open" /\ up[c].conn \in {"connected", "open"}
              /\ (up[c].fin \/ up[c].rst)
              ~> ~cli[c].write_enabled \/ Ended
=============================================================================
