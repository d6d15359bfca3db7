------------------------------ MODULE Selector ------------------------------
(***************************************************************************)
(* The selector of src/sys/unix/epoll.rs: an epoll instance, and beside it *)
(* events_map, the map from descriptor to job under which select looks up  *)
(* what epoll_wait returned.  register inserts into the map and then into  *)
(* epoll, deregister removes from epoll and then from the map; both halves *)
(* are separate actions, and so are epoll_wait and each look-up after it.  *)
(*                                                                         *)
(* A descriptor is a small number that the kernel uses again after close:  *)
(* the n-th socket opened under fd is (fd, n), and a job is known by the n *)
(* of the socket it belongs to.  The job of a connection owns the socket,  *)
(* which is closed only when no copy of the job is left; a Connector's is  *)
(* handed on, or dropped while it is registered.  Calls for one socket are *)
(* serialised by the connection's or the Connector's mutex.                *)
(***************************************************************************)
EXTENDS Naturals, FiniteSets

CONSTANTS Fds,          \* descriptors of sockets
          Pipe,         \* descriptor of the awakener's pipe
          Callers,      \* threads that register and deregister sockets
          Poller,       \* the thread that polls; its jobs call, too
          MaxSockets,   \* bound on the sockets opened under one descriptor
          OwnToken      \* reregister is given the descriptor as the token

ASSUME ConstantsAssumption ==
    /\ Pipe \notin Fds /\ Poller \notin Callers
    /\ MaxSockets \in Nat \ {0} /\ OwnToken \in BOOLEAN

Threads == Callers \cup {Poller}
Closed == 0
Sockets == 1..MaxSockets
NoOp == [op |-> "none", fd |-> Pipe]

VARIABLES
    sock,       \* fd -> the socket open under it, or Closed
    opened,     \* fd -> number of sockets opened under it so far
    interest,   \* epoll: fd -> the u64 of its epoll_event
    map,        \* events_map: fd -> socket whose job is filed there
    pc,         \* thread -> the call it is in the middle of
    phase,      \* of the poller: "poll", "select" or "process"
    batch,      \* epoll_wait's events that select has not looked up yet
    entries,    \* jobs that select has found
    has_notify  \* select has met the awakener's event

kernel == <<sock, opened>>
poller == <<phase, batch, entries, has_notify>>
vars == <<kernel, interest, map, pc, poller>>

Put(f, k, v) == [j \in DOMAIN f \cup {k} |-> IF j = k THEN v ELSE f[j]]
Del(f, k) == [j \in DOMAIN f \ {k} |-> f[j]]

(* Poll::new registers the awakener.                                       *)
Init ==
    /\ sock = [fd \in Fds |-> Closed] /\ opened = [fd \in Fds |-> 0]
    /\ interest = [fd \in {Pipe} |-> Pipe]
    /\ map = [fd \in {Pipe} |-> 1]
    /\ pc = [t \in Threads |-> NoOp]
    /\ phase = "poll" /\ batch = {} /\ entries = {} /\ has_notify = FALSE

-----------------------------------------------------------------------------
(* The kernel: accept and connect use the descriptor again, dropping the   *)
(* last owner closes it.                                                   *)
Busy(fd) == \E t \in Threads : pc[t].fd = fd
Owned(fd) ==
    \/ fd \in DOMAIN map /\ map[fd] = sock[fd]
    \/ \E e \in entries : e.fd = fd /\ e.job = sock[fd]

Open(fd) ==
    /\ sock[fd] = Closed /\ opened[fd] < MaxSockets
    /\ opened' = [opened EXCEPT ![fd] = @ + 1]
    /\ sock' = [sock EXCEPT ![fd] = opened'[fd]]
    /\ UNCHANGED <<interest, map, pc, poller>>

Close(fd) ==
    /\ sock[fd] # Closed
    /\ ~Owned(fd) /\ ~Busy(fd)
    /\ sock' = [sock EXCEPT ![fd] = Closed]
    /\ interest' = Del(interest, fd)
    /\ UNCHANGED <<opened, map, pc, poller>>

(* A stream that is a Connector's, not a connection's, is dropped while it *)
(* is registered: connect replaces the one stored before, in any thread    *)
(* and at any time, and the job of a connect that failed drops the one it  *)
(* has taken.  The kernel forgets the descriptor, events_map does not.     *)
DropStream(fd) ==
    /\ fd \in DOMAIN interest /\ ~Busy(fd)
    /\ sock' = [sock EXCEPT ![fd] = Closed]
    /\ interest' = Del(interest, fd)
    /\ UNCHANGED <<opened, map, pc, poller>>

-----------------------------------------------------------------------------
(* Operators whose names start with Bad are mistakes that mutation runs    *)
(* substitute for the operator defined after them.                         *)

(* A call is made for an open socket, under the connection's mutex.        *)
MayCall(t, fd) ==
    /\ pc[t] = NoOp /\ ~Busy(fd) /\ sock[fd] # Closed
    /\ t = Poller => phase = "process"

(* The two halves of register and deregister, in the order they are done.  *)
BadRegisterHalves == <<"add", "insert">>
RegisterHalves == <<"insert", "add">>
BadDeregisterHalves == <<"remove", "del">>
DeregisterHalves == <<"del", "remove">>

First(op) == IF op = "register" THEN RegisterHalves[1] ELSE DeregisterHalves[1]
Done(t, half) ==
    pc' = [pc EXCEPT ![t] =
              IF half = RegisterHalves[1] THEN [@ EXCEPT !.op = RegisterHalves[2]]
              ELSE IF half = DeregisterHalves[1] THEN [@ EXCEPT !.op = DeregisterHalves[2]]
              ELSE NoOp]

Register(t, fd) ==
    /\ MayCall(t, fd) /\ fd \notin DOMAIN interest
    /\ pc' = [pc EXCEPT ![t] = [op |-> First("register"), fd |-> fd]]
    /\ UNCHANGED <<kernel, interest, map, poller>>

Deregister(t, fd) ==
    /\ MayCall(t, fd) /\ fd \in DOMAIN interest
    /\ pc' = [pc EXCEPT ![t] = [op |-> First("deregister"), fd |-> fd]]
    /\ UNCHANGED <<kernel, interest, map, poller>>

MapInsert(t) ==
    LET fd == pc[t].fd
    IN  /\ pc[t].op = "insert"
        /\ map' = Put(map, fd, sock[fd])
        /\ Done(t, "insert")
        /\ UNCHANGED <<kernel, interest, poller>>

CtlAdd(t) ==
    LET fd == pc[t].fd
    IN  /\ pc[t].op = "add"
        /\ interest' = Put(interest, fd, fd)
        /\ Done(t, "add")
        /\ UNCHANGED <<kernel, map, poller>>

(* epoll_ctl fails, for want of memory or of watches: register returns the *)
(* error and leaves the entry in the map.                                  *)
CtlAddFails(t) ==
    /\ pc[t].op = "add"
    /\ Done(t, "add")
    /\ UNCHANGED <<kernel, interest, map, poller>>

CtlDel(t) ==
    LET fd == pc[t].fd
    IN  /\ pc[t].op = "del"
        /\ interest' = Del(interest, fd)
        /\ Done(t, "del")
        /\ UNCHANGED <<kernel, map, poller>>

MapRemove(t) ==
    LET fd == pc[t].fd
    IN  /\ pc[t].op = "remove"
        /\ map' = Del(map, fd)
        /\ Done(t, "remove")
        /\ UNCHANGED <<kernel, interest, poller>>

(* reregister stores the caller's token, not the descriptor.               *)
Reregister(t, fd, token) ==
    /\ MayCall(t, fd) /\ fd \in DOMAIN interest
    /\ OwnToken => token = fd
    /\ interest' = [interest EXCEPT ![fd] = token]
    /\ UNCHANGED <<kernel, map, pc, poller>>

-----------------------------------------------------------------------------
(* select: epoll_wait returns events of some of the registered files.      *)
EpollWait ==
    /\ phase = "poll"
    /\ \E fds \in SUBSET DOMAIN interest :
          batch' = {[data |-> interest[fd], fd |-> fd,
                     from |-> IF fd = Pipe THEN 1 ELSE sock[fd]] : fd \in fds}
    /\ phase' = "select" /\ entries' = {} /\ has_notify' = FALSE
    /\ UNCHANGED <<kernel, interest, map, pc>>

(* One event is looked up by its u64.                                      *)
LookUp(e) ==
    /\ phase = "select" /\ e \in batch
    /\ batch' = batch \ {e}
    /\ IF e.data \in DOMAIN map
       THEN IF e.data = Pipe
            THEN has_notify' = TRUE /\ UNCHANGED entries
            ELSE /\ entries' = entries \cup {[fd |-> e.data, job |-> map[e.data], src |-> e]}
                 /\ UNCHANGED has_notify
       ELSE UNCHANGED <<entries, has_notify>>
    /\ UNCHANGED <<kernel, interest, map, pc, phase>>

SelectDone ==
    /\ phase = "select" /\ batch = {}
    /\ phase' = "process"
    /\ UNCHANGED <<kernel, interest, map, pc, batch, entries, has_notify>>

(* io_process runs the jobs (which may call Register and Deregister) and   *)
(* clears the events.                                                      *)
Processed ==
    /\ phase = "process" /\ pc[Poller] = NoOp
    /\ phase' = "poll" /\ entries' = {}
    /\ UNCHANGED <<kernel, interest, map, pc, batch, has_notify>>

-----------------------------------------------------------------------------
Next ==
    \/ \E fd \in Fds : Open(fd) \/ Close(fd) \/ DropStream(fd)
    \/ \E t \in Threads, fd \in Fds :
          Register(t, fd) \/ Deregister(t, fd) \/ \E k \in Fds : Reregister(t, fd, k)
    \/ \E t \in Threads : MapInsert(t) \/ CtlAdd(t) \/ CtlAddFails(t) \/ CtlDel(t) \/ MapRemove(t)
    \/ EpollWait \/ (\E e \in batch : LookUp(e)) \/ SelectDone \/ Processed

Spec == Init /\ [][Next]_vars

-----------------------------------------------------------------------------
AnyFd == Fds \cup {Pipe}

(* epoll and events_map are functions of descriptors, and every thread is  *)
(* in a known call.                                                        *)
TypeOK ==
    /\ sock \in [Fds -> Sockets \cup {Closed}] /\ opened \in [Fds -> 0..MaxSockets]
    /\ DOMAIN interest \subseteq AnyFd /\ \A fd \in DOMAIN interest : interest[fd] \in AnyFd
    /\ DOMAIN map \subseteq AnyFd /\ \A fd \in DOMAIN map : map[fd] \in Sockets
    /\ pc \in [Threads -> [op : {"none", "insert", "add", "del", "remove"}, fd : AnyFd]]
    /\ phase \in {"poll", "select", "process"} /\ has_notify \in BOOLEAN
    /\ batch \subseteq [data : AnyFd, fd : AnyFd, from : Sockets]
    /\ entries \subseteq [fd : Fds, job : Sockets, src : [data : AnyFd, fd : AnyFd, from : Sockets]]

(* Whatever epoll can report has its job in the map, and it is the job of  *)
(* the socket that is open: in the middle of register and deregister, too. *)
InterestHasEntry ==
    \A fd \in DOMAIN interest \ {Pipe} :
        interest[fd] \in DOMAIN map /\ interest[fd] = fd /\ map[fd] = sock[fd]

(* An event runs no job of a socket that used its descriptor earlier (a    *)
(* dropped stream leaves one in the map), and the job of a later one only  *)
(* if the event's own socket is gone: between epoll_wait and the look-up   *)
(* another thread may deregister and close it and register its successor   *)
(* under the same descriptor, and select cannot tell the two apart.        *)
NoStaleJob ==
    \A e \in entries : e.fd = e.src.fd /\ e.job >= e.src.from
=============================================================================
