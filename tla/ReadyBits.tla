----------------------------- MODULE ReadyBits -----------------------------
(***************************************************************************)
(* Ready, UnixReady and PollOpt (src/event_imp.rs, src/sys/unix/ready.rs)  *)
(* and their translation to and from epoll's flags (src/sys/unix/epoll.rs).*)
(*                                                                         *)
(* A usize of bits is the set of the positions of its ones: `|` is \cup,   *)
(* `&` is \cap, `& !` is \ and `contains` is \subseteq.                    *)
(***************************************************************************)
EXTENDS Naturals

ContainsBits(bits, other) == other \subseteq bits

(* Ready.                                                                  *)
READABLE == {0}
WRITABLE == {1}
ERROR == {2}
HUP == {3}

(* UnixReady; the priority and lio constants have the bit of HUP, too.     *)
AIO == {}
LIO == {3, 5}
PRI == {3, 6}
READY_ALL == ERROR \cup HUP \cup AIO \cup LIO \cup PRI
ReadyAll == READABLE \cup WRITABLE \cup READY_ALL

IsReadable(ready) == ContainsBits(ready, READABLE)
IsWritable(ready) == ContainsBits(ready, WRITABLE)
IsError(ready) == ContainsBits(ready, ERROR)
IsHup(ready) == ContainsBits(ready, HUP)
IsPriority(ready) == ContainsBits(ready, PRI)

(* PollOpt.                                                                *)
EDGE == {0}
LEVEL == {1}
ONESHOT == {2}

IsEdge(opt) == ContainsBits(opt, EDGE)
IsLevel(opt) == ContainsBits(opt, LEVEL)
IsOneshot(opt) == ContainsBits(opt, ONESHOT)

-----------------------------------------------------------------------------
(* The flags of an epoll_event.                                            *)
EpollFlags == {"IN", "OUT", "PRI", "ERR", "HUP", "ET", "ONESHOT"}

(* What is asked of epoll: level wins over edge.                           *)
IoeventToEpoll(interest, opts) ==
    {f \in EpollFlags :
        \/ f = "IN" /\ IsReadable(interest)
        \/ f = "OUT" /\ IsWritable(interest)
        \/ f = "PRI" /\ IsPriority(interest)
        \/ f = "ET" /\ IsEdge(opts) /\ ~IsLevel(opts)
        \/ f = "ONESHOT" /\ IsOneshot(opts)}

(* Operators whose names start with Bad are mistakes that mutation runs    *)
(* substitute for the operator defined after them.                         *)

(* What a job is told of an event.                                         *)
ReadyOf(flag) ==
    CASE flag = "IN" -> READABLE
      [] flag = "OUT" -> WRITABLE
      [] flag = "PRI" -> READABLE \cup PRI
      [] flag = "ERR" -> ERROR
      [] flag = "HUP" -> HUP

BadGetReady(epoll) == UNION {ReadyOf(f) : f \in epoll \ {"IN"}}
GetReady(epoll) == UNION {ReadyOf(f) : f \in epoll}

(* The kernel reports errors and hang-ups whether asked for or not.        *)
Reported(happens, asked) == happens \cap (asked \cup {"ERR", "HUP"})
=============================================================================
