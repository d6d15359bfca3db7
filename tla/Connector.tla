----------------------------- MODULE Connector -----------------------------
(***************************************************************************)
(* Connector (src/net/connector.rs) and the connect job that TcpClient     *)
(* gives it (src/net/tcp_server.rs): a non-blocking connect, a one-shot    *)
(* registration that reports its outcome, an optional timeout, and the     *)
(* hand-over of the stream to a TcpConnection.                             *)
(*                                                                         *)
(* One loop thread fetches batches of events and handles them one by one.  *)
(* connect is called by a job of the loop (as the examples do through      *)
(* enqueue_job) or by another thread, which may not use a timeout: the     *)
(* loop's timer is an UnsafeCell.  Connects may overlap, their calls do    *)
(* not: TcpClient::start_connect has its client exclusively (&mut self).   *)
(* The n-th stream of the connector is n.                                  *)
(* Selector and timer wheel are reduced to what the connector sees: which  *)
(* job a stream is registered with, and which timeouts are pending.        *)
(***************************************************************************)
EXTENDS Naturals, Sequences, SequencesExt

CONSTANT MaxStreams     \* bound on the calls of connect

ASSUME MaxStreamsAssumption == MaxStreams \in Nat \ {0}

None == 0
Streams == 1..MaxStreams
Timers == None  \* the TimersEvent of a batch; other events are their stream

VARIABLES
    opened,      \* number of streams opened so far
    early,       \* connect was called before the last one had ended
    sock,        \* kernel: stream -> state of its socket
    job,         \* stream -> the job registered for it, or "none"
    armed,       \* stream -> epoll has yet to report it (edge, one-shot)
    tcp_stream,  \* field of the Connector: a stream, or None
    timer,       \* field of the Connector: the stream its Timeout was set for
    pending,     \* timeouts in the wheel, by the stream they were set for
    caller,      \* who is between the two halves of connect
    poisoned,    \* the connector's mutex: a caller has panicked holding it
    batch,       \* events of the loop that are still to be handled
    outcome,     \* stream -> what became of it: callbacks and time outs
    panic        \* why the loop's thread has panicked, or "none"

calls == <<opened, early>>
kernel == <<calls, sock>>
selector == <<job, armed>>
fields == <<tcp_stream, timer>>
callerVars == <<caller, poisoned>>
vars == <<kernel, selector, fields, pending, callerVars, batch, outcome, panic>>

Init ==
    /\ opened = 0 /\ early = FALSE
    /\ sock = [s \in Streams |-> "none"]
    /\ job = [s \in Streams |-> "none"] /\ armed = [s \in Streams |-> FALSE]
    /\ tcp_stream = None /\ timer = None
    /\ pending = {} /\ caller = "none" /\ poisoned = FALSE /\ batch = <<>>
    /\ outcome = [s \in Streams |-> <<>>] /\ panic = "none"

LoopFree == panic = "none" /\ caller # "loop"

-----------------------------------------------------------------------------
(* The kernel decides on a connect; an established connection may be reset *)
(* before anybody has looked.  Either way the socket is writable.          *)
Decide(s, verdict) ==
    /\ \/ sock[s] = "connecting"
       \/ sock[s] = "established" /\ verdict = "failed"
    /\ sock' = [sock EXCEPT ![s] = verdict]
    /\ UNCHANGED <<calls, selector, fields, pending, callerVars, batch, outcome,
                   panic>>

Decided(s) == sock[s] \in {"established", "failed"}

(* The connector is interested in readable and writable, edge and one-shot.*)
BadReady(s) == job[s] = "connector" /\ armed[s] /\ sock[s] = "failed"
Ready(s) == job[s] = "connector" /\ armed[s] /\ Decided(s)

-----------------------------------------------------------------------------
(* connect: open a stream, store it (which closes the one stored before),  *)
(* set the timeout; in a second step, register the stream.  set_timeout    *)
(* never fails, so its error branch is left out.                           *)
MayConnect ==
    caller = "none" /\ panic = "none" /\ opened < MaxStreams

Replaced(s) == s = tcp_stream

Connect(who, timed) ==
    /\ MayConnect /\ ~poisoned
    /\ timed => who = "loop"
    /\ opened' = opened + 1
    /\ early' = (early \/ \E s \in 1..opened : outcome[s] = <<>>)
    /\ sock' = [s \in Streams |->
                   CASE s = opened' -> "connecting"
                     [] s # opened' /\ Replaced(s) -> "closed"
                     [] OTHER -> sock[s]]
    /\ armed' = [s \in Streams |-> armed[s] /\ ~Replaced(s)]
    /\ tcp_stream' = opened'
    /\ timer' = IF timed THEN opened' ELSE timer
    /\ pending' = IF timed THEN pending \cup {opened'} ELSE pending
    /\ caller' = who
    /\ UNCHANGED <<job, poisoned, batch, outcome, panic>>

(* connect(2) fails at once, or the mutex is poisoned: unwraps that end    *)
(* the loop if it is the caller.  Any other thread that calls ends alone   *)
(* and leaves everything as it is.                                         *)
CallerPanics ==
    /\ MayConnect
    /\ panic' = IF poisoned THEN "poisoned" ELSE "connect"
    /\ UNCHANGED <<kernel, selector, fields, pending, callerVars, batch, outcome>>

(* If an event has taken the stream meanwhile, or the loop has panicked    *)
(* with the connector, the caller's unwrap panics with the mutex locked.   *)
(* No stream is stored then: the connector gets no event any more.         *)
Register ==
    /\ caller # "none"
    /\ IF tcp_stream = None \/ panic # "none"
       THEN poisoned' = TRUE /\ UNCHANGED selector
       ELSE /\ job' = [job EXCEPT ![tcp_stream] = "connector"]
            /\ armed' = [armed EXCEPT ![tcp_stream] = TRUE]
            /\ UNCHANGED poisoned
    /\ caller' = "none"
    /\ UNCHANGED <<kernel, fields, pending, batch, outcome, panic>>

-----------------------------------------------------------------------------
(* The loop polls: the selector's events come first, the timer's is found  *)
(* in the readiness queue afterwards.  A one-shot stream is then disarmed. *)
BadBatchOrder(sockets, timers) == timers \o sockets
BatchOrder(sockets, timers) == sockets \o timers

Fetch ==
    /\ LoopFree /\ batch = <<>>
    /\ \E timers \in {<<>>} \cup (IF pending # {} THEN {<<Timers>>} ELSE {}) :
          batch' = BatchOrder(SetToSeq({s \in Streams : Ready(s)}), timers)
    /\ armed' = [s \in Streams |-> armed[s] /\ ~Ready(s)]
    /\ UNCHANGED <<kernel, job, fields, pending, callerVars, outcome, panic>>

(* handle_event cancels the timeout before it runs the connect job.        *)
BadAfterCancel == pending
AfterCancel == pending \ {timer}

(* take_error returns the error of a connect that failed.                  *)
BadTakeError(s) == FALSE
TakeError(s) == sock[s] = "failed"

(* The connect job of start_connect when the connect failed: the stream is *)
(* dropped with its registration.                                          *)
ConnectError(s) ==
    /\ TakeError(s)
    /\ outcome' = [outcome EXCEPT ![s] = Append(@, "on_error")]
    /\ sock' = [sock EXCEPT ![s] = "closed"]
    /\ UNCHANGED <<selector, panic>>

(* When it succeeded: the stream is deregistered (an unwrap) and           *)
(* registered again with the job of its new TcpConnection.                 *)
NewJob(s) == "connection"

HandOver(s) ==
    /\ ~TakeError(s) /\ job[s] # "none"
    /\ job' = [job EXCEPT ![s] = NewJob(s)]
    /\ armed' = [armed EXCEPT ![s] = TRUE]
    /\ outcome' = [outcome EXCEPT ![s] = Append(@, "on_connect")]
    /\ UNCHANGED <<sock, panic>>

HandOverPanics(s) ==
    /\ ~TakeError(s) /\ job[s] = "none"
    /\ panic' = "unwrap"
    /\ UNCHANGED <<sock, selector, outcome>>

(* handle_on_connect takes the stream; there must be one (assert_eq!(0, 1)).*)
HandleEvent ==
    /\ LoopFree /\ batch # <<>> /\ Head(batch) # Timers
    /\ batch' = Tail(batch)
    /\ pending' = AfterCancel
    /\ tcp_stream' = None
    /\ IF tcp_stream = None
       THEN panic' = "assert" /\ UNCHANGED <<sock, selector, outcome>>
       ELSE \/ ConnectError(tcp_stream)
            \/ HandOver(tcp_stream)
            \/ HandOverPanics(tcp_stream)
    /\ UNCHANGED <<calls, timer, callerVars>>

-----------------------------------------------------------------------------
(* The timer's event runs the closures of all timeouts that are due: clear *)
(* the (expired) timeout, deregister the stream, tell nobody.              *)
TimeOut(s) ==
    /\ LoopFree /\ batch # <<>> /\ Head(batch) = Timers /\ s \in pending
    /\ pending' = pending \ {s, timer}
    /\ IF tcp_stream = None \/ job[tcp_stream] = "none"
       THEN panic' = "unwrap" /\ UNCHANGED <<job, outcome>>
       ELSE /\ job' = [job EXCEPT ![tcp_stream] = "none"]
            /\ outcome' = [outcome EXCEPT ![tcp_stream] = Append(@, "timeout")]
            /\ UNCHANGED panic
    /\ UNCHANGED <<kernel, armed, fields, callerVars, batch>>

TimersDone ==
    /\ LoopFree /\ batch # <<>> /\ Head(batch) = Timers
    /\ batch' = Tail(batch)
    /\ UNCHANGED <<kernel, selector, fields, pending, callerVars, outcome, panic>>

-----------------------------------------------------------------------------
Next ==
    \/ \E s \in Streams, v \in {"established", "failed"} : Decide(s, v)
    \/ \E who \in {"loop", "other"}, timed \in BOOLEAN : Connect(who, timed)
    \/ CallerPanics
    \/ Register
    \/ Fetch
    \/ HandleEvent
    \/ \E s \in Streams : TimeOut(s)
    \/ TimersDone

Spec == Init /\ [][Next]_vars

(* The loop and the caller run on; a pending timeout comes due and the     *)
(* timer's event is delivered (module TimerWakeup).                        *)
Fairness ==
    /\ WF_vars(Register) /\ WF_vars(HandleEvent) /\ WF_vars(TimersDone)
    /\ WF_vars(Fetch)
    /\ SF_vars(Fetch /\ batch' # <<>> /\ Last(batch') = Timers)
    /\ \A s \in Streams : SF_vars(TimeOut(s))

FairSpec == Spec /\ Fairness

-----------------------------------------------------------------------------
(* Every variable has its type; a batch holds one event of the connector   *)
(* at most, because storing a stream closes the one before.                *)
TypeOK ==
    /\ opened \in 0..MaxStreams /\ early \in BOOLEAN
    /\ sock \in [Streams -> {"none", "connecting", "established", "failed",
                             "closed"}]
    /\ job \in [Streams -> {"none", "connector", "connection"}]
    /\ armed \in [Streams -> BOOLEAN]
    /\ tcp_stream \in 0..opened /\ timer \in 0..opened
    /\ pending \subseteq 1..opened
    /\ caller \in {"none", "loop", "other"} /\ poisoned \in BOOLEAN
    /\ batch \in Seq(0..opened) /\ Len(batch) <= 2
    /\ \A s \in Streams : Len(outcome[s]) <= 2
    /\ panic \in {"none", "connect", "assert", "unwrap", "poisoned"}

(* handle_on_connect finds a stream, which the code asserts with           *)
(* assert_eq!(0, 1): also when an old stream's event takes a new stream.   *)
(* When connects do not overlap, the loop's thread does not panic at all   *)
(* in handle_event or in the timeout's closure: the stream they take is    *)
(* there (as_ref().unwrap()) and still registered (deregister().unwrap()), *)
(* however timeouts and events fall together.  Nor does another thread     *)
(* poison the connector's mutex for it, panicking where connect takes the  *)
(* stream again to register it.                                            *)
UnwrapsHold ==
    /\ panic # "assert"
    /\ panic \in {"unwrap", "poisoned"} \/ (poisoned /\ panic = "none") => early

(* A connect has one outcome: it is never both timed out and reported to   *)
(* the handler, nor reported twice, overlapping connects included.         *)
OneOutcome == \A s \in Streams : Len(outcome[s]) <= 1

(* When connects do not overlap, on_connect is called for a stream whose   *)
(* connection is established, and on_error for one that failed.            *)
ToldTheTruth ==
    [][\A s \in Streams : ~early /\ outcome'[s] # outcome[s] =>
          CASE Last(outcome'[s]) = "on_connect" -> sock[s] = "established"
            [] Last(outcome'[s]) = "on_error" -> sock[s] = "failed"
            [] OTHER -> TRUE]_vars

(* A connect that the kernel decides, or that has a timeout, comes to an   *)
(* end, unless the loop's thread has died of another connect or the next   *)
(* connect has taken its place.                                            *)
ConnectEnds ==
    \A s \in Streams :
        (Decided(s) \/ s \in pending) ~>
            (outcome[s] # <<>> \/ panic # "none" \/ early)
=============================================================================
