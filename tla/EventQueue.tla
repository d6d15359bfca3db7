----------------------------- MODULE EventQueue -----------------------------
(***************************************************************************)
(* What the readiness queue promises to its users, without pointers:       *)
(* a node is put in at most once, nodes come out in the order they went in *)
(* and none is lost.  After Close nothing more goes in.                    *)
(***************************************************************************)
EXTENDS Sequences

CONSTANT Nodes

VARIABLES queue,    \* the nodes put and not yet taken, oldest first
          closed    \* the Poll that owned the queue is gone

Contents == {queue[i] : i \in DOMAIN queue}

Init == queue = <<>> /\ closed = FALSE

Put(n) ==
    /\ ~closed
    /\ n \notin Contents
    /\ queue' = Append(queue, n)
    /\ UNCHANGED closed

Take ==
    /\ queue # <<>>
    /\ queue' = Tail(queue)
    /\ UNCHANGED closed

Close ==
    /\ ~closed
    /\ closed' = TRUE
    /\ UNCHANGED queue

Next == Take \/ Close \/ \E n \in Nodes : Put(n)

Spec == Init /\ [][Next]_<<queue, closed>>
=============================================================================
