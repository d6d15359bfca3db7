--------------------------- MODULE TcpConnection ---------------------------
(***************************************************************************)
(* A connection of src/net/connection.rs on an edge-triggered socket.      *)
(*                                                                         *)
(* handle_event runs in the event loop's thread, send and shutdown in any  *)
(* thread, all under the connection's mutex (pc is "free" when nobody      *)
(* holds it).  The peer and the kernel go on in between: each read of      *)
(* handle_read's loop is an action.  The event loop fetches a readiness    *)
(* (with a copy of the job) before it has the mutex, so the connection may *)
(* have been closed by a send when the event is handled.                   *)
(*                                                                         *)
(* Received bytes are counted.  Sent bytes are numbered, `wire` is what    *)
(* reached the peer.                                                       *)
(***************************************************************************)
EXTENDS Naturals, Sequences, ReadyBits

CONSTANTS MaxRx,    \* bound on the bytes the peer sends
          MaxTx,    \* bound on the bytes sent to it
          Room      \* capacity of the socket's send buffer

ASSUME ConstantsAssumption == {MaxRx, MaxTx, Room} \subseteq Nat

VARIABLES
    rx, arrived,    \* kernel: unread bytes; bytes arrived so far
    eof, err,       \* kernel: the stream has ended; the peer has reset it
    wshut,          \* kernel: this side has shut down writing
    room,           \* kernel: free space for sending
    edge,           \* kernel: an event is waiting for epoll_wait
    event,          \* readiness the event loop has fetched and not handled
    pc,             \* who holds the mutex: "free", "read", "write" or "error"
    write_enabled, closed,
    read_triggered, write_triggered,
    registered,     \* the socket is in the event loop's poll
    next, wire,     \* number of the next byte to send; bytes on the wire
    waiting,        \* write_buffer_waiting
    dropped,        \* history: a write has not taken all it was given
    closings        \* history: how often close_job and deregister have run

socket == <<rx, arrived, eof, err, wshut, room>>
flags == <<read_triggered, write_triggered>>
life == <<write_enabled, closed, registered, closings>>
out == <<next, wire, waiting, dropped>>
connVars == <<socket, edge, event, pc, flags, life, out>>

(* on_accept_connection registers the socket, which is writable.           *)
ConnInit ==
    /\ rx = 0 /\ arrived = 0 /\ eof = FALSE /\ err = FALSE /\ wshut = FALSE /\ room = Room
    /\ edge = TRUE /\ event = {} /\ pc = "free"
    /\ write_enabled = TRUE /\ closed = FALSE /\ registered = TRUE /\ closings = 0
    /\ read_triggered = FALSE /\ write_triggered = FALSE
    /\ next = 1 /\ wire = <<>> /\ waiting = <<>> /\ dropped = FALSE

-----------------------------------------------------------------------------
(* The peer and the kernel.  Every change raises an edge.  What is unread  *)
(* when a reset arrives may still be read, or is lost.                     *)
PeerSend ==
    /\ ~eof /\ ~err /\ arrived < MaxRx
    /\ rx' = rx + 1 /\ arrived' = arrived + 1 /\ edge' = TRUE
    /\ UNCHANGED <<eof, err, wshut, room, event, pc, flags, life, out>>

PeerClose ==
    /\ ~eof /\ ~err
    /\ eof' = TRUE /\ edge' = TRUE
    /\ UNCHANGED <<rx, arrived, err, wshut, room, event, pc, flags, life, out>>

PeerReset ==
    /\ ~err
    /\ err' = TRUE /\ rx' \in {0, rx} /\ edge' = TRUE
    /\ UNCHANGED <<arrived, eof, wshut, room, event, pc, flags, life, out>>

(* The peer reads; the edge comes when there was no room at all.           *)
PeerReads ==
    /\ room < Room
    /\ room' = room + 1 /\ edge' = (edge \/ room = 0)
    /\ UNCHANGED <<rx, arrived, eof, err, wshut, event, pc, flags, life, out>>

(* on_accept_connection and on_connect register for reading and writing,   *)
(* edge-triggered.                                                         *)
Asked == IoeventToEpoll(READABLE \cup WRITABLE, EDGE)

(* epoll_wait reports what is ready by now, all of it.                     *)
Happens ==
    {f \in EpollFlags :
        \/ f = "IN" /\ (rx > 0 \/ eof \/ err)
        \/ f = "OUT" /\ (room > 0 \/ err)
        \/ f = "ERR" /\ err
        \/ f = "HUP" /\ (err \/ (eof /\ wshut))}

FetchEvent ==
    /\ registered /\ edge /\ event = {}
    /\ edge' = FALSE /\ event' = GetReady(Reported(Happens, Asked))
    /\ UNCHANGED <<socket, pc, flags, life, out>>

-----------------------------------------------------------------------------
(* Operators whose names start with Bad are mistakes that mutation runs    *)
(* substitute for the operator defined after them.                         *)

(* handle_close, once: disable, close_job, deregister.                     *)
BadMustClose == TRUE
MustClose == ~closed

HandleClose ==
    IF MustClose
    THEN /\ write_enabled' = FALSE /\ closed' = TRUE /\ registered' = FALSE
         /\ closings' = closings + 1
    ELSE UNCHANGED life

(* handle_event: the mutex is taken.                                       *)
StartHandleEvent ==
    /\ pc = "free" /\ event # {}
    /\ read_triggered' = (read_triggered \/ IsReadable(event))
    /\ pc' = IF IsReadable(event) THEN "read" ELSE "write"
    /\ UNCHANGED <<socket, edge, event, write_triggered, life, out>>

(* handle_read: some bytes are read and given to read_job, and it reads on.*)
BadAfterRead == "write"
AfterRead == "read"

ReadSome ==
    /\ pc = "read" /\ rx > 0
    /\ \E n \in 1..rx : rx' = rx - n
    /\ pc' = AfterRead
    /\ UNCHANGED <<arrived, eof, err, wshut, room, edge, event, flags, life, out>>

(* Nothing to read: would block, or the end, or an error.                  *)
ReadEnds ==
    /\ pc = "read" /\ rx = 0
    /\ read_triggered' = FALSE
    /\ IF eof \/ err THEN HandleClose ELSE UNCHANGED life
    /\ pc' = "write"
    /\ UNCHANGED <<socket, edge, event, write_triggered, out>>

(* write_data: what is left of the buffer after n bytes were written.  It  *)
(* was split off and is dropped.                                           *)
BadLeft(buf, n) == buf
Left(buf, n) == <<>>

(* write_data on a buffer that is not empty: an error, no room, or n bytes *)
(* written.  writ_job runs when all were, and may ask to close.            *)
WriteData(buf) ==
    \/ /\ err \/ wshut
       /\ dropped' = TRUE
       /\ write_triggered' = FALSE
       /\ waiting' = <<>>
       /\ HandleClose
       /\ UNCHANGED <<room, wire>>
    \/ /\ ~err /\ ~wshut /\ room = 0
       /\ dropped' = TRUE
       /\ write_triggered' = FALSE
       /\ waiting' = Left(buf, 0)
       /\ UNCHANGED <<room, wire, life>>
    \/ /\ ~err /\ ~wshut
       /\ \E n \in 1..Len(buf) :
             /\ n <= room /\ dropped' = (dropped \/ n < Len(buf))
             /\ room' = room - n
             /\ wire' = wire \o SubSeq(buf, 1, n)
             /\ IF n < Len(buf)
                THEN waiting' = Left(buf, n) /\ UNCHANGED <<write_triggered, life>>
                ELSE /\ write_triggered' = FALSE /\ waiting' = <<>>
                     /\ HandleClose \/ UNCHANGED life

(* handle_write, if the socket was reported writable.                      *)
HandleWrite ==
    /\ pc = "write"
    /\ pc' = "error"
    /\ IF IsWritable(event) /\ waiting # <<>>
       THEN WriteData(waiting)
       ELSE /\ write_triggered' = (write_triggered \/ IsWritable(event))
            /\ UNCHANGED <<room, wire, waiting, dropped, life>>
    /\ UNCHANGED <<rx, arrived, eof, err, wshut, edge, event, read_triggered, next>>

(* The error and hang-up bits; the mutex is released.                      *)
HandleError ==
    /\ pc = "error"
    /\ IF IsError(event) \/ IsHup(event)
       THEN read_triggered' = TRUE /\ write_triggered' = TRUE /\ HandleClose
       ELSE UNCHANGED <<flags, life>>
    /\ pc' = "free" /\ event' = {}
    /\ UNCHANGED <<socket, edge, out>>

-----------------------------------------------------------------------------
(* send(bytes) from any thread.                                            *)
Send(n) ==
    /\ pc = "free" /\ write_enabled
    /\ next + n <= MaxTx + 1
    /\ next' = next + n
    /\ WriteData(waiting \o [i \in 1..n |-> next + i - 1])
    /\ UNCHANGED <<rx, arrived, eof, err, wshut, edge, event, pc, read_triggered>>

(* shutdown(how): reading then ends at once.                               *)
Shutdown(how) ==
    /\ pc = "free" /\ ~err
    /\ write_enabled' = (write_enabled /\ how = "read")
    /\ wshut' = (wshut \/ how # "read")
    /\ eof' = (eof \/ how # "write")
    /\ edge' = TRUE
    /\ UNCHANGED <<rx, arrived, err, room, event, pc, flags, closed, registered, closings, out>>

LoopStep == FetchEvent \/ StartHandleEvent \/ ReadSome \/ ReadEnds \/ HandleWrite \/ HandleError

ConnNext ==
    \/ PeerSend \/ PeerClose \/ PeerReset \/ PeerReads
    \/ LoopStep
    \/ \E n \in 1..MaxTx : Send(n)
    \/ \E how \in {"read", "write", "both"} : Shutdown(how)

ConnSpec == ConnInit /\ [][ConnNext]_connVars

(* The event loop's thread runs.  It is strongly fair to take the mutex,   *)
(* which the senders hold for one call at a time.                          *)
ConnFairSpec == ConnSpec /\ WF_connVars(LoopStep) /\ SF_connVars(StartHandleEvent)

-----------------------------------------------------------------------------
(* Edge-triggered reading is complete: while the connection is open, input *)
(* that nobody has read, the end of the stream or an error has an event    *)
(* that will bring it up, or is being handled.                             *)
NoStrandedInput ==
    ~closed /\ (rx > 0 \/ eof \/ err) =>
        edge \/ (IsReadable(event) /\ pc \in {"free", "read"})

(* close_job and deregister (whose result is unwrapped) run exactly once,  *)
(* whichever of a read, a write and a hang-up notices first, and again in  *)
(* an event fetched before the close.                                      *)
ClosedOnce == closings = IF closed THEN 1 ELSE 0

(* Bytes reach the wire in the order of send and none of them twice,       *)
(* however short the writes; and none is missing before a write has failed *)
(* or has not taken all, whose rest the code drops.                        *)
WireInOrder ==
    /\ \A i, j \in 1..Len(wire) : i < j => wire[i] < wire[j]
    /\ ~dropped => Len(wire) = next - 1 /\ \A i \in 1..Len(wire) : wire[i] = i

(* The end of the stream closes the connection.                            *)
EndIsNoticed == eof \/ err ~> closed
=============================================================================
