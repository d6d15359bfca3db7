--------------------------- MODULE SelectorProofs ---------------------------
(***************************************************************************)
(* Proofs about Selector for any number of descriptors, threads and        *)
(* sockets: epoll never reports a descriptor whose job is not in           *)
(* events_map, and a late look-up never finds a job older than its event.  *)
(* Both hold only while reregister is given the descriptor as its token    *)
(* (OwnToken): it files the caller's token where select expects the        *)
(* descriptor.                                                             *)
(*                                                                         *)
(* The inductive invariant ties each half of register and deregister to    *)
(* what the other half has already done, and the numbers of the sockets to *)
(* the order in which they were opened: a job in the map may belong to a   *)
(* closed socket, but never to one older than an event still to be looked  *)
(* up.                                                                     *)
(***************************************************************************)
EXTENDS Selector, TLAPS

(* No two threads are in a call for the same socket.                       *)
CallsApart ==
    \A t, u \in Threads : pc[t] # NoOp /\ pc[t].fd = pc[u].fd => t = u

(* What holds in the middle of a call.                                     *)
InCall(t) ==
    LET fd == pc[t].fd
    IN  /\ fd \in Fds /\ sock[fd] # Closed
        /\ pc[t].op = "insert" => fd \notin DOMAIN interest
        /\ pc[t].op = "add" => /\ fd \notin DOMAIN interest
                               /\ fd \in DOMAIN map /\ map[fd] = sock[fd]
        /\ pc[t].op = "del" => fd \in DOMAIN interest
        /\ pc[t].op = "remove" => fd \notin DOMAIN interest
        /\ pc[t].op # "none"

CallsConsistent == \A t \in Threads : pc[t] # NoOp => InCall(t)

(* epoll watches only open sockets whose own job is in the map.            *)
WatchedHasJob ==
    /\ Pipe \in DOMAIN interest => interest[Pipe] = Pipe
    /\ \A fd \in DOMAIN interest \ {Pipe} :
          /\ fd \in DOMAIN map /\ map[fd] = sock[fd] /\ sock[fd] # Closed
          /\ OwnToken => interest[fd] = fd

(* Sockets are numbered in the order they are opened.                      *)
Numbered ==
    /\ \A fd \in Fds : sock[fd] \in {Closed, opened[fd]}
    /\ \A fd \in DOMAIN map \ {Pipe} : map[fd] <= opened[fd]

(* An event still to be looked up finds its own job or a later one.        *)
BatchFresh ==
    \A e \in batch :
        /\ OwnToken => e.data = e.fd
        /\ e.fd # Pipe => /\ e.from <= opened[e.fd]
                          /\ e.fd \in DOMAIN map => map[e.fd] >= e.from

IInv == /\ TypeOK
        /\ CallsApart
        /\ CallsConsistent
        /\ WatchedHasJob
        /\ Numbered
        /\ BatchFresh
        /\ OwnToken => NoStaleJob
-----------------------------------------------------------------------------
(* The order of the halves, read off the code's two sequences.             *)
LEMMA Halves ==
    ASSUME NEW t \in Threads, TypeOK
    PROVE  /\ First("register") = "insert" /\ First("deregister") = "del"
           /\ pc[t].op = "insert" /\ Done(t, "insert")
                => pc' = [pc EXCEPT ![t] = [op |-> "add", fd |-> pc[t].fd]]
           /\ pc[t].op = "del" /\ Done(t, "del")
                => pc' = [pc EXCEPT ![t] = [op |-> "remove", fd |-> pc[t].fd]]
           /\ Done(t, "add") \/ Done(t, "remove") => pc' = [pc EXCEPT ![t] = NoOp]
  <1>1. /\ RegisterHalves[1] = "insert" /\ RegisterHalves[2] = "add"
        /\ DeregisterHalves[1] = "del" /\ DeregisterHalves[2] = "remove"
    BY DEF RegisterHalves, DeregisterHalves
  <1>2. pc[t] \in [op : {"none", "insert", "add", "del", "remove"}, fd : AnyFd]
    BY DEF TypeOK
  <1>3. \A l : [pc[t] EXCEPT !.op = l] = [op |-> l, fd |-> pc[t].fd]
    BY <1>2
  <1>4. First("register") = "insert" /\ First("deregister") = "del"
    BY <1>1 DEF First
  <1>5. Done(t, "insert") => pc' = [pc EXCEPT ![t] = [op |-> "add", fd |-> pc[t].fd]]
    BY <1>1, <1>3 DEF Done
  <1>6. Done(t, "del") => pc' = [pc EXCEPT ![t] = [op |-> "remove", fd |-> pc[t].fd]]
    BY <1>1, <1>3 DEF Done
  <1>7. Done(t, "add") \/ Done(t, "remove") => pc' = [pc EXCEPT ![t] = NoOp]
    BY <1>1 DEF Done
  <1> QED
    BY <1>4, <1>5, <1>6, <1>7

(* The kernel's numbers are numbers.                                       *)
LEMMA SocketsAreNumbers ==
    /\ MaxSockets \in Nat /\ Sockets \subseteq Nat \ {0} /\ Closed = 0
    /\ Pipe \notin Fds /\ NoOp.fd = Pipe /\ NoOp.op = "none"
  BY ConstantsAssumption DEF Sockets, Closed, NoOp

LEMMA InitEstablishesIInv == Init => IInv
  <1> SUFFICES ASSUME Init PROVE IInv
    OBVIOUS
  <1>1. TypeOK
    <2>1. /\ Pipe \in AnyFd /\ 1 \in Sockets
          /\ sock \in [Fds -> Sockets \cup {Closed}] /\ opened \in [Fds -> 0..MaxSockets]
      BY ConstantsAssumption DEF Init, AnyFd, Sockets, Closed
    <2>2. NoOp \in [op : {"none", "insert", "add", "del", "remove"}, fd : AnyFd]
      BY <2>1 DEF NoOp
    <2>3. /\ DOMAIN interest = {Pipe} /\ interest[Pipe] = Pipe
          /\ DOMAIN map = {Pipe} /\ map[Pipe] = 1
      BY DEF Init
    <2> QED
      BY <2>1, <2>2, <2>3 DEF Init, TypeOK
  <1>2. CallsApart /\ CallsConsistent /\ WatchedHasJob
    BY DEF Init, CallsApart, CallsConsistent, WatchedHasJob
  <1>3. Numbered /\ BatchFresh /\ NoStaleJob
    BY DEF Init, Numbered, BatchFresh, NoStaleJob, Closed
  <1> QED
    BY <1>1, <1>2, <1>3 DEF IInv

(* A descriptor nobody is calling for.                                     *)
LEMMA NotBusy ==
    ASSUME NEW fd, ~Busy(fd), NEW t \in Threads
    PROVE  pc[t].fd # fd
  BY DEF Busy

LEMMA OpenKeeps ==
    ASSUME IInv, NEW fd \in Fds, Open(fd)
    PROVE  IInv'
  <1> USE DEF IInv
  <1>1. TypeOK'
    BY SocketsAreNumbers DEF Open, poller, TypeOK, Sockets
  <1>2. /\ opened'[fd] = opened[fd] + 1 /\ sock'[fd] = opened'[fd]
        /\ \A g \in Fds : g # fd => sock'[g] = sock[g] /\ opened'[g] = opened[g]
        /\ \A g \in Fds : opened[g] \in Nat
        /\ UNCHANGED <<interest, map, pc, batch, entries>>
    BY DEF Open, poller, TypeOK
  <1>3. CallsApart' /\ CallsConsistent'
    BY <1>2 DEF Open, CallsApart, CallsConsistent, InCall
  <1>4. WatchedHasJob'
    BY <1>2 DEF Open, WatchedHasJob, TypeOK, AnyFd
  <1>5. \A g \in Fds, n \in Nat : n <= opened[g] => n <= opened'[g]
    BY <1>2
  <1>6. \A g \in DOMAIN map \ {Pipe} : g \in Fds /\ map[g] \in Nat
    BY SocketsAreNumbers DEF TypeOK, AnyFd
  <1>8. \A e \in batch : e.fd # Pipe => e.fd \in Fds /\ e.from \in Nat
    BY SocketsAreNumbers DEF TypeOK, AnyFd
  <1>9. Numbered'
    BY <1>2, <1>5, <1>6 DEF Numbered
  <1>10. BatchFresh'
    BY <1>2, <1>5, <1>8 DEF BatchFresh
  <1>7. NoStaleJob => NoStaleJob'
    BY <1>2 DEF NoStaleJob
  <1> QED
    BY <1>1, <1>3, <1>4, <1>7, <1>9, <1>10

(* The descriptor is closed, and the kernel forgets it.                    *)
LEMMA ClosingKeeps ==
    ASSUME IInv, NEW fd \in Fds, Close(fd) \/ DropStream(fd)
    PROVE  IInv'
  <1> USE DEF IInv
  <1>1. /\ ~Busy(fd) /\ UNCHANGED <<opened, map, pc, phase, batch, entries, has_notify>>
        /\ sock' = [sock EXCEPT ![fd] = Closed] /\ interest' = Del(interest, fd)
    BY DEF Close, DropStream, poller
  <1>2. /\ DOMAIN interest' = DOMAIN interest \ {fd}
        /\ \A g \in DOMAIN interest' : interest'[g] = interest[g]
    BY <1>1 DEF Del
  <1>3. \A t \in Threads : pc[t].fd # fd
    BY <1>1, NotBusy
  <1>4. \A g \in Fds : g # fd => sock'[g] = sock[g]
    BY <1>1 DEF TypeOK
  <1>5. TypeOK'
    BY <1>1, <1>2, SocketsAreNumbers DEF TypeOK
  <1>6. CallsApart'
    BY <1>1 DEF CallsApart
  <1>7. CallsConsistent'
    BY <1>1, <1>2, <1>3, <1>4 DEF CallsConsistent, InCall
  <1>8. WatchedHasJob'
    BY <1>1, <1>2, <1>4 DEF WatchedHasJob, TypeOK, AnyFd
  <1>9. Numbered'
    BY <1>1, <1>4 DEF Numbered, TypeOK
  <1>10. BatchFresh' /\ (NoStaleJob => NoStaleJob')
    BY <1>1 DEF BatchFresh, NoStaleJob
  <1> QED
    BY <1>5, <1>6, <1>7, <1>8, <1>9, <1>10

(* register and deregister are entered.                                    *)
LEMMA EnteringKeeps ==
    ASSUME IInv, NEW t \in Threads, NEW fd \in Fds, Register(t, fd) \/ Deregister(t, fd)
    PROVE  IInv'
  <1> USE DEF IInv
  <1>1. /\ MayCall(t, fd)
        /\ UNCHANGED <<sock, opened, interest, map, phase, batch, entries, has_notify>>
    BY DEF Register, Deregister, kernel, poller
  <1>2. PICK l \in {"insert", "del"} :
            /\ pc' = [pc EXCEPT ![t] = [op |-> l, fd |-> fd]]
            /\ l = "insert" => fd \notin DOMAIN interest
            /\ l = "del" => fd \in DOMAIN interest
    BY Halves DEF Register, Deregister
  <1>3. /\ pc'[t].op = l /\ pc'[t].fd = fd
        /\ \A u \in Threads : u # t => pc'[u] = pc[u]
    BY <1>2 DEF TypeOK
  <1>4. \A u \in Threads : pc[u].fd # fd
    BY <1>1, NotBusy DEF MayCall
  <1>5. TypeOK'
    BY <1>1, <1>2 DEF TypeOK, AnyFd
  <1>6. CallsApart'
    BY <1>3, <1>4 DEF CallsApart
  <1>7. CallsConsistent'
    <2>1. ASSUME NEW u \in Threads, pc'[u] # NoOp, u # t
          PROVE  InCall(u)'
      BY <1>1, <1>3, <2>1 DEF CallsConsistent, InCall
    <2>2. InCall(t)'
      BY <1>1, <1>2, <1>3 DEF InCall, MayCall
    <2> QED
      BY <2>1, <2>2 DEF CallsConsistent
  <1>8. WatchedHasJob' /\ Numbered' /\ BatchFresh' /\ (NoStaleJob => NoStaleJob')
    BY <1>1 DEF WatchedHasJob, Numbered, BatchFresh, NoStaleJob
  <1> QED
    BY <1>5, <1>6, <1>7, <1>8
-----------------------------------------------------------------------------
(* The halves of a call.  A thread in a call knows its descriptor, and     *)
(* nobody else is in a call for it.                                        *)
LEMMA CallFacts ==
    ASSUME IInv, NEW t \in Threads, pc[t].op # "none"
    PROVE  /\ pc[t] # NoOp /\ InCall(t) /\ pc[t].fd \in Fds /\ sock[pc[t].fd] \in Sockets
           /\ \A u \in Threads : u # t => pc[u].fd # pc[t].fd
  <1>1. pc[t] # NoOp
    BY SocketsAreNumbers
  <1>2. InCall(t)
    BY <1>1 DEF IInv, CallsConsistent
  <1>3. pc[t].fd \in Fds /\ sock[pc[t].fd] \in Sockets
    BY <1>2 DEF InCall, IInv, TypeOK
  <1>4. \A u \in Threads : u # t => pc[u].fd # pc[t].fd
    BY <1>1 DEF IInv, CallsApart
  <1> QED
    BY <1>1, <1>2, <1>3, <1>4

(* The calls of the other threads stay as they are when a step of t ends   *)
(* t's call or moves it on, and touches only its descriptor.               *)
LEMMA OthersKeep ==
    ASSUME IInv, NEW t \in Threads, pc[t].op # "none", NEW r,
           pc' = [pc EXCEPT ![t] = r],
           r = NoOp \/ r.fd = pc[t].fd,
           UNCHANGED sock,
           \A g : g # pc[t].fd =>
               /\ g \in DOMAIN interest' <=> g \in DOMAIN interest
               /\ g \in DOMAIN map' <=> g \in DOMAIN map
               /\ g \in DOMAIN map => map'[g] = map[g],
           r # NoOp => InCall(t)'
    PROVE  CallsApart' /\ CallsConsistent'
  <1> DEFINE fd == pc[t].fd
  <1>1. /\ fd \in Fds /\ fd # Pipe
        /\ \A u \in Threads : u # t => pc[u].fd # fd
    BY CallFacts, SocketsAreNumbers
  <1>2. pc'[t] = r /\ \A u \in Threads : u # t => pc'[u] = pc[u]
    BY DEF IInv, TypeOK
  <1>3. CallsApart'
    <2> SUFFICES ASSUME NEW a \in Threads, NEW b \in Threads,
                        pc'[a] # NoOp, pc'[a].fd = pc'[b].fd
                 PROVE  a = b
      BY DEF CallsApart
    <2>1. CASE a # t /\ b # t
      BY <1>2, <2>1 DEF IInv, CallsApart
    <2>2. CASE a = t /\ b # t
      BY <1>1, <1>2, <2>2
    <2>3. CASE a # t /\ b = t
      <3>1. r # NoOp
        <4>1. pc[a] # NoOp
          BY <1>2, <2>3
        <4>2. pc[a].fd \in Fds
          BY <4>1 DEF IInv, CallsConsistent, InCall
        <4> QED
          BY <1>2, <2>3, <4>2, SocketsAreNumbers
      <3> QED
        BY <1>1, <1>2, <2>3, <3>1
    <2> QED
      BY <2>1, <2>2, <2>3
  <1>4. CallsConsistent'
    <2>1. ASSUME NEW u \in Threads, u # t, pc'[u] # NoOp
          PROVE  InCall(u)'
      <3>1. InCall(u) /\ pc'[u] = pc[u] /\ pc[u].fd # fd
        BY <1>1, <1>2, <2>1 DEF IInv, CallsConsistent
      <3> QED
        BY <3>1 DEF InCall
    <2> QED
      BY <1>2, <2>1 DEF CallsConsistent
  <1> QED
    BY <1>3, <1>4

LEMMA MapInsertKeeps ==
    ASSUME IInv, NEW t \in Threads, MapInsert(t)
    PROVE  IInv'
  <1> DEFINE fd == pc[t].fd
  <1>1. /\ pc[t].op = "insert" /\ map' = Put(map, fd, sock[fd])
        /\ UNCHANGED <<sock, opened, interest, phase, batch, entries, has_notify>>
    BY DEF MapInsert, kernel, poller
  <1>2. /\ pc[t] # NoOp /\ InCall(t) /\ fd \in Fds /\ sock[fd] \in Sockets
        /\ fd \notin DOMAIN interest /\ fd # Pipe
    BY <1>1, CallFacts, SocketsAreNumbers DEF InCall
  <1>3. /\ DOMAIN map' = DOMAIN map \cup {fd} /\ map'[fd] = sock[fd]
        /\ \A g \in DOMAIN map : g # fd => map'[g] = map[g]
    BY <1>1 DEF Put
  <1>4. pc' = [pc EXCEPT ![t] = [op |-> "add", fd |-> fd]]
    BY <1>1, Halves DEF MapInsert, IInv
  <1>5. pc'[t] = [op |-> "add", fd |-> fd]
    BY <1>4 DEF IInv, TypeOK
  <1>6. TypeOK'
    BY <1>1, <1>2, <1>3, <1>4 DEF IInv, TypeOK, AnyFd
  <1>7. InCall(t)'
    BY <1>1, <1>2, <1>3, <1>5 DEF InCall
  <1>8. CallsApart' /\ CallsConsistent'
    BY <1>1, <1>3, <1>4, <1>7, OthersKeep
  <1>9. WatchedHasJob'
    BY <1>1, <1>2, <1>3 DEF IInv, WatchedHasJob
  <1>10. sock[fd] = opened[fd] /\ opened[fd] \in Nat
    BY <1>2, SocketsAreNumbers DEF IInv, TypeOK, Numbered
  <1>11. Numbered' /\ BatchFresh'
    BY <1>1, <1>2, <1>3, <1>10 DEF IInv, Numbered, BatchFresh
  <1>12. NoStaleJob => NoStaleJob'
    BY <1>1 DEF NoStaleJob
  <1> QED
    BY <1>6, <1>8, <1>9, <1>11, <1>12 DEF IInv

LEMMA CtlAddKeeps ==
    ASSUME IInv, NEW t \in Threads, CtlAdd(t)
    PROVE  IInv'
  <1> DEFINE fd == pc[t].fd
  <1>1. /\ pc[t].op = "add" /\ interest' = Put(interest, fd, fd)
        /\ UNCHANGED <<sock, opened, map, phase, batch, entries, has_notify>>
    BY DEF CtlAdd, kernel, poller
  <1>2. /\ fd \in Fds /\ fd \notin DOMAIN interest /\ sock[fd] # Closed
        /\ fd \in DOMAIN map /\ map[fd] = sock[fd] /\ fd # Pipe
    BY <1>1, CallFacts, SocketsAreNumbers DEF InCall
  <1>3. /\ DOMAIN interest' = DOMAIN interest \cup {fd} /\ interest'[fd] = fd
        /\ \A g \in DOMAIN interest : g # fd => interest'[g] = interest[g]
    BY <1>1 DEF Put
  <1>4. pc' = [pc EXCEPT ![t] = NoOp]
    BY <1>1, Halves DEF CtlAdd, IInv
  <1>5. TypeOK'
    BY <1>1, <1>2, <1>3, <1>4 DEF IInv, TypeOK, AnyFd, NoOp
  <1>6. CallsApart' /\ CallsConsistent'
    BY <1>1, <1>3, <1>4, OthersKeep
  <1>7. WatchedHasJob'
    BY <1>1, <1>2, <1>3 DEF IInv, WatchedHasJob
  <1>8. Numbered' /\ BatchFresh' /\ (NoStaleJob => NoStaleJob')
    BY <1>1 DEF IInv, Numbered, BatchFresh, NoStaleJob
  <1> QED
    BY <1>5, <1>6, <1>7, <1>8 DEF IInv

LEMMA CtlAddFailsKeeps ==
    ASSUME IInv, NEW t \in Threads, CtlAddFails(t)
    PROVE  IInv'
  <1>1. /\ pc[t].op = "add"
        /\ UNCHANGED <<sock, opened, interest, map, phase, batch, entries, has_notify>>
    BY DEF CtlAddFails, kernel, poller
  <1>2. pc' = [pc EXCEPT ![t] = NoOp]
    BY Halves DEF CtlAddFails, IInv
  <1>3. TypeOK'
    BY <1>1, <1>2 DEF IInv, TypeOK, AnyFd, NoOp
  <1>4. CallsApart' /\ CallsConsistent'
    BY <1>1, <1>2, OthersKeep
  <1>5. WatchedHasJob' /\ Numbered' /\ BatchFresh' /\ (NoStaleJob => NoStaleJob')
    BY <1>1 DEF IInv, WatchedHasJob, Numbered, BatchFresh, NoStaleJob
  <1> QED
    BY <1>3, <1>4, <1>5 DEF IInv

LEMMA CtlDelKeeps ==
    ASSUME IInv, NEW t \in Threads, CtlDel(t)
    PROVE  IInv'
  <1> DEFINE fd == pc[t].fd
  <1>1. /\ pc[t].op = "del" /\ interest' = Del(interest, fd)
        /\ UNCHANGED <<sock, opened, map, phase, batch, entries, has_notify>>
    BY DEF CtlDel, kernel, poller
  <1>2. fd \in Fds /\ sock[fd] # Closed
    BY <1>1, CallFacts DEF InCall
  <1>3. /\ DOMAIN interest' = DOMAIN interest \ {fd}
        /\ \A g \in DOMAIN interest : g # fd => interest'[g] = interest[g]
    BY <1>1 DEF Del
  <1>4. pc' = [pc EXCEPT ![t] = [op |-> "remove", fd |-> fd]]
    BY <1>1, Halves DEF CtlDel, IInv
  <1>5. pc'[t] = [op |-> "remove", fd |-> fd]
    BY <1>4 DEF IInv, TypeOK
  <1>6. TypeOK'
    BY <1>1, <1>2, <1>3, <1>4 DEF IInv, TypeOK, AnyFd
  <1>7. InCall(t)'
    BY <1>1, <1>2, <1>3, <1>5 DEF InCall
  <1>8. CallsApart' /\ CallsConsistent'
    BY <1>1, <1>3, <1>4, <1>7, OthersKeep
  <1>9. WatchedHasJob'
    BY <1>1, <1>3 DEF IInv, WatchedHasJob
  <1>10. Numbered' /\ BatchFresh' /\ (NoStaleJob => NoStaleJob')
    BY <1>1 DEF IInv, Numbered, BatchFresh, NoStaleJob
  <1> QED
    BY <1>6, <1>8, <1>9, <1>10 DEF IInv

LEMMA MapRemoveKeeps ==
    ASSUME IInv, NEW t \in Threads, MapRemove(t)
    PROVE  IInv'
  <1> DEFINE fd == pc[t].fd
  <1>1. /\ pc[t].op = "remove" /\ map' = Del(map, fd)
        /\ UNCHANGED <<sock, opened, interest, phase, batch, entries, has_notify>>
    BY DEF MapRemove, kernel, poller
  <1>2. fd \in Fds /\ fd \notin DOMAIN interest
    BY <1>1, CallFacts DEF InCall
  <1>3. /\ DOMAIN map' = DOMAIN map \ {fd}
        /\ \A g \in DOMAIN map : g # fd => map'[g] = map[g]
    BY <1>1 DEF Del
  <1>4. pc' = [pc EXCEPT ![t] = NoOp]
    BY <1>1, Halves DEF MapRemove, IInv
  <1>5. TypeOK'
    BY <1>1, <1>3, <1>4 DEF IInv, TypeOK, AnyFd, NoOp
  <1>6. CallsApart' /\ CallsConsistent'
    BY <1>1, <1>3, <1>4, OthersKeep
  <1>7. WatchedHasJob'
    BY <1>1, <1>2, <1>3 DEF IInv, WatchedHasJob
  <1>8. Numbered' /\ BatchFresh' /\ (NoStaleJob => NoStaleJob')
    BY <1>1, <1>3 DEF IInv, Numbered, BatchFresh, NoStaleJob
  <1> QED
    BY <1>5, <1>6, <1>7, <1>8 DEF IInv

LEMMA ReregisterKeeps ==
    ASSUME IInv, NEW t \in Threads, NEW fd \in Fds, NEW k \in Fds, Reregister(t, fd, k)
    PROVE  IInv'
  <1>1. /\ fd \in DOMAIN interest /\ (OwnToken => k = fd)
        /\ interest' = [interest EXCEPT ![fd] = k]
        /\ UNCHANGED <<sock, opened, map, pc, phase, batch, entries, has_notify>>
    BY DEF Reregister, kernel, poller
  <1>2. /\ DOMAIN interest' = DOMAIN interest /\ interest'[fd] = k
        /\ \A g \in DOMAIN interest : g # fd => interest'[g] = interest[g]
        /\ fd # Pipe
    BY <1>1, SocketsAreNumbers
  <1>3. TypeOK'
    BY <1>1, <1>2 DEF IInv, TypeOK, AnyFd
  <1>4. CallsApart' /\ CallsConsistent'
    BY <1>1, <1>2 DEF IInv, CallsApart, CallsConsistent, InCall
  <1>5. WatchedHasJob'
    BY <1>1, <1>2 DEF IInv, WatchedHasJob
  <1>6. Numbered' /\ BatchFresh' /\ (NoStaleJob => NoStaleJob')
    BY <1>1 DEF IInv, Numbered, BatchFresh, NoStaleJob
  <1> QED
    BY <1>3, <1>4, <1>5, <1>6 DEF IInv
-----------------------------------------------------------------------------
(* select: an event is as young as the job of its descriptor when          *)
(* epoll_wait returns, and the jobs only get younger until it is looked up.*)
LEMMA EpollWaitKeeps ==
    ASSUME IInv, EpollWait
    PROVE  IInv'
  <1>1. UNCHANGED <<sock, opened, interest, map, pc>> /\ phase' = "select"
        /\ entries' = {} /\ has_notify' = FALSE
    BY DEF EpollWait, kernel
  <1>2. ASSUME NEW e \in batch'
        PROVE  /\ e \in [data : AnyFd, fd : AnyFd, from : Sockets]
               /\ OwnToken => e.data = e.fd
               /\ e.fd # Pipe => /\ e.from <= opened[e.fd]
                                 /\ e.fd \in DOMAIN map => map[e.fd] >= e.from
    <2>1. PICK fd \in DOMAIN interest :
              e = [data |-> interest[fd], fd |-> fd,
                   from |-> IF fd = Pipe THEN 1 ELSE sock[fd]]
      BY <1>2 DEF EpollWait
    <2>2. e.data = interest[fd] /\ e.fd = fd
      BY <2>1
    <2>3. CASE fd = Pipe
      <3>1. e.data = Pipe /\ e.from = 1 /\ 1 \in Sockets
        BY <2>1, <2>3, ConstantsAssumption DEF IInv, WatchedHasJob, Sockets
      <3> QED
        BY <2>1, <2>2, <2>3, <3>1 DEF AnyFd
    <2>4. CASE fd # Pipe
      <3>1. /\ fd \in Fds /\ fd \in DOMAIN map /\ map[fd] = sock[fd]
            /\ sock[fd] \in Sockets /\ interest[fd] \in AnyFd
            /\ OwnToken => interest[fd] = fd
        BY <2>4, SocketsAreNumbers DEF IInv, WatchedHasJob, TypeOK, AnyFd
      <3>2. e.from = sock[fd] /\ sock[fd] \in Nat /\ sock[fd] = opened[fd]
        BY <2>1, <2>4, <3>1, SocketsAreNumbers DEF IInv, Numbered
      <3>3. e \in [data : AnyFd, fd : AnyFd, from : Sockets]
        BY <2>1, <2>4, <3>1 DEF AnyFd
      <3> QED
        BY <2>2, <3>1, <3>2, <3>3
    <2> QED
      BY <2>3, <2>4
  <1>3. TypeOK'
    BY <1>1, <1>2 DEF IInv, TypeOK
  <1>4. CallsApart' /\ CallsConsistent' /\ WatchedHasJob' /\ Numbered'
    BY <1>1 DEF IInv, CallsApart, CallsConsistent, InCall, WatchedHasJob, Numbered
  <1>5. BatchFresh' /\ NoStaleJob'
    BY <1>1, <1>2 DEF BatchFresh, NoStaleJob
  <1> QED
    BY <1>3, <1>4, <1>5 DEF IInv

LEMMA LookUpKeeps ==
    ASSUME IInv, NEW e \in batch, LookUp(e)
    PROVE  IInv'
  <1>1. UNCHANGED <<sock, opened, interest, map, pc, phase>> /\ batch' \subseteq batch
    BY DEF LookUp, kernel
  <1>2. e \in [data : AnyFd, fd : AnyFd, from : Sockets]
    BY DEF IInv, TypeOK
  <1>3. \/ UNCHANGED entries
        \/ /\ e.data \in DOMAIN map /\ e.data # Pipe
           /\ entries' = entries \cup {[fd |-> e.data, job |-> map[e.data], src |-> e]}
    BY DEF LookUp
  <1>4. has_notify' \in BOOLEAN
    BY DEF LookUp, IInv, TypeOK
  <1>5. TypeOK'
    <2>1. CASE UNCHANGED entries
      BY <1>1, <1>4, <2>1 DEF IInv, TypeOK
    <2>2. CASE /\ e.data \in DOMAIN map /\ e.data # Pipe
               /\ entries' = entries \cup {[fd |-> e.data, job |-> map[e.data], src |-> e]}
      <3>1. e.data \in Fds /\ map[e.data] \in Sockets
        BY <1>2, <2>2 DEF IInv, TypeOK, AnyFd
      <3> QED
        BY <1>1, <1>2, <1>4, <2>2, <3>1 DEF IInv, TypeOK
    <2> QED
      BY <1>3, <2>1, <2>2
  <1>6. CallsApart' /\ CallsConsistent' /\ WatchedHasJob' /\ Numbered' /\ BatchFresh'
    BY <1>1 DEF IInv, CallsApart, CallsConsistent, InCall, WatchedHasJob, Numbered, BatchFresh
  <1>7. OwnToken => NoStaleJob'
    <2> SUFFICES ASSUME OwnToken, NEW f \in entries', f \notin entries
                 PROVE  f.fd = f.src.fd /\ f.job >= f.src.from
      BY DEF IInv, NoStaleJob
    <2>1. /\ e.data \in DOMAIN map /\ e.data # Pipe
          /\ f = [fd |-> e.data, job |-> map[e.data], src |-> e]
      BY <1>3
    <2>2. e.data = e.fd /\ (e.fd # Pipe /\ e.fd \in DOMAIN map => map[e.fd] >= e.from)
      BY DEF IInv, BatchFresh
    <2> QED
      BY <2>1, <2>2
  <1> QED
    BY <1>5, <1>6, <1>7 DEF IInv

LEMMA PhaseKeeps ==
    ASSUME IInv, SelectDone \/ Processed
    PROVE  IInv'
  <1>1. /\ UNCHANGED <<sock, opened, interest, map, pc, batch, has_notify>>
        /\ entries' \subseteq entries /\ phase' \in {"poll", "process"}
    BY DEF SelectDone, Processed, kernel
  <1>2. TypeOK'
    BY <1>1 DEF IInv, TypeOK
  <1>3. CallsApart' /\ CallsConsistent' /\ WatchedHasJob' /\ Numbered' /\ BatchFresh'
    BY <1>1 DEF IInv, CallsApart, CallsConsistent, InCall, WatchedHasJob, Numbered, BatchFresh
  <1>4. NoStaleJob => NoStaleJob'
    BY <1>1 DEF NoStaleJob
  <1> QED
    BY <1>2, <1>3, <1>4 DEF IInv

LEMMA NextKeepsIInv == IInv /\ [Next]_vars => IInv'
  <1> SUFFICES ASSUME IInv, [Next]_vars PROVE IInv'
    OBVIOUS
  <1>1. CASE UNCHANGED vars
    BY <1>1 DEF vars, kernel, poller, IInv, TypeOK, CallsApart, CallsConsistent, InCall,
       WatchedHasJob, Numbered, BatchFresh, NoStaleJob
  <1>2. ASSUME NEW fd \in Fds, Open(fd) \/ Close(fd) \/ DropStream(fd) PROVE IInv'
    BY <1>2, OpenKeeps, ClosingKeeps
  <1>3. ASSUME NEW t \in Threads, NEW fd \in Fds,
               Register(t, fd) \/ Deregister(t, fd) \/ \E k \in Fds : Reregister(t, fd, k)
        PROVE  IInv'
    BY <1>3, EnteringKeeps, ReregisterKeeps
  <1>4. ASSUME NEW t \in Threads,
               MapInsert(t) \/ CtlAdd(t) \/ CtlAddFails(t) \/ CtlDel(t) \/ MapRemove(t)
        PROVE  IInv'
    BY <1>4, MapInsertKeeps, CtlAddKeeps, CtlAddFailsKeeps, CtlDelKeeps, MapRemoveKeeps
  <1>5. CASE EpollWait \/ (\E e \in batch : LookUp(e)) \/ SelectDone \/ Processed
    BY <1>5, EpollWaitKeeps, LookUpKeeps, PhaseKeeps
  <1> QED
    BY <1>1, <1>2, <1>3, <1>4, <1>5 DEF Next

LEMMA SpecImpliesIInv == Spec => []IInv
  BY InitEstablishesIInv, NextKeepsIInv, PTL DEF Spec

-----------------------------------------------------------------------------
(* epoll, events_map and the threads' calls keep their types, whatever     *)
(* tokens reregister is given.                                             *)
THEOREM TypeCorrect == Spec => []TypeOK
  BY SpecImpliesIInv, PTL DEF IInv

(* As long as reregister is given the descriptor for a token, every        *)
(* descriptor epoll watches has its own socket's job in events_map, even   *)
(* between the halves of register and deregister.                          *)
THEOREM InterestHasEntryHolds == Spec => [](OwnToken => InterestHasEntry)
  <1>1. IInv => (OwnToken => InterestHasEntry)
    BY DEF IInv, WatchedHasJob, InterestHasEntry
  <1> QED
    BY <1>1, SpecImpliesIInv, PTL

(* And no event runs the job of a socket that used its descriptor before   *)
(* the one it came from, however long the look-up is delayed.              *)
THEOREM NoStaleJobHolds == Spec => [](OwnToken => NoStaleJob)
  <1>1. IInv => (OwnToken => NoStaleJob)
    BY DEF IInv
  <1> QED
    BY <1>1, SpecImpliesIInv, PTL
=============================================================================
