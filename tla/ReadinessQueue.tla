--------------------------- MODULE ReadinessQueue ---------------------------
(***************************************************************************)
(* The user-space readiness queue of a Poll (src/poll.rs) and the pipe     *)
(* that wakes a sleeping poller (src/sys/unix/awakener.rs).                *)
(*                                                                         *)
(* The queue is an intrusive linked list: producers exchange head_readiness*)
(* for their node and then link it behind the previous head; the one       *)
(* consumer (PollTurn: the thread inside poll2) moves tail_readiness.      *)
(* Three marker nodes are used: end (queue empty), sleep (consumer is in   *)
(* epoll_wait), closed (Poll dropped).                                     *)
(*                                                                         *)
(* Every access to memory shared between actors is a step of its own,      *)
(* except that the compare-and-swap loop on a node's state word is one     *)
(* step: an iteration that fails changes nothing.  Of the state word the   *)
(* model keeps queued, dropped and the effective readiness                 *)
(* (readiness & interest); Registration models the rest.                   *)
(***************************************************************************)
EXTENDS Naturals, Sequences, FiniteSets

CONSTANTS Nodes,        \* the registrations' nodes
          Producers,    \* threads that use Registration and SetReadiness
          Poller,       \* the thread that polls, and finally drops, the Poll
          Opt,          \* Nodes -> {"edge", "oneshot", "level"}
          Capacity,     \* capacity of the Events buffer given to poll
          IoEvents,     \* how many socket events one select may return
          Droppable,    \* nodes whose handles may be dropped and cloned
          SelectFails,  \* whether select may return an error to the caller
          MayClose      \* whether the Poll may be dropped

ASSUME ConstantsAssumption ==
    /\ IsFiniteSet(Nodes) /\ IsFiniteSet(Producers)
    /\ Poller \notin Producers
    /\ Nodes \cap {"null", "end", "sleep", "closed"} = {}
    /\ Opt \in [Nodes -> {"edge", "oneshot", "level"}]
    /\ Capacity \in Nat \ {0}
    /\ IoEvents \subseteq 0..Capacity
    /\ Droppable \subseteq Nodes
    /\ SelectFails \in BOOLEAN /\ MayClose \in BOOLEAN

Null == "null"
End == "end"
Sleep == "sleep"
Closed == "closed"
Markers == {End, Sleep, Closed}
Cells == Nodes \cup Markers
Actors == Producers \cup {Poller}

VARIABLES
    head,       \* head_readiness: the cell last put
    tail,       \* tail_readiness: owned by the consumer
    next,       \* next_readiness of every cell
    pipe,       \* the awakener's pipe holds unread bytes
    edge,       \* epoll has an unreported edge of the pipe's reader
    queued, dropped, ready,     \* fields of each node's state word
    ref_count,  \* of each node; 0 = freed
    reg,        \* nodes whose Registration is alive
    hold,       \* Producers -> the nodes they hold a SetReadiness of
    pc,         \* where each actor is
    node, prev, \* locals of an actor's enqueue_node
    until,      \* local of ReadinessQueue::poll
    room,       \* dst.capacity() - dst.len() of the running poll
    dst,        \* the nodes whose events the running poll has pushed
    blocking,   \* the running select was entered with a non-zero timeout
    dropping    \* the actors inside a Drop: of a Registration, of the queue

queueVars == <<head, tail, next>>
stateVars == <<queued, dropped, ready>>
ownVars == <<ref_count, reg, hold>>
localVars == <<node, prev>>
pollVars == <<until, room, dst, blocking>>
vars == <<queueVars, pipe, edge, stateVars, ownVars, pc, localVars, dropping,
          pollVars>>

Init ==
    /\ head = End /\ tail = End
    /\ next = [c \in Cells |-> Null]
    /\ pipe = FALSE /\ edge = FALSE
    /\ queued = [n \in Nodes |-> FALSE]
    /\ dropped = [n \in Nodes |-> FALSE]
    /\ ready = [n \in Nodes |-> FALSE]
    \* Registration::new: one reference each for the Registration and the
    \* queue, and one per thread that was given (a clone of) a SetReadiness
    /\ ref_count = [n \in Nodes |-> 2 + Cardinality(Producers)]
    /\ reg = Nodes
    /\ hold = [p \in Producers |-> Nodes]
    /\ pc = [a \in Actors |-> "idle"]
    /\ node = [a \in Actors |-> Null]
    /\ prev = [a \in Actors |-> Null]
    /\ dropping = {}
    /\ until = Null /\ room = 0 /\ dst = {} /\ blocking = FALSE

Goto(a, l) == pc' = [pc EXCEPT ![a] = l]

(* Operators whose names start with Bad are mistakes that mutation runs    *)
(* substitute for the operator defined after them.                         *)

(* release_node: fetch_sub(1); the last one frees the node.                *)
BadReleaseNode(n) == ref_count' = [ref_count EXCEPT ![n] = 0]
ReleaseNode(n) == ref_count' = [ref_count EXCEPT ![n] = @ - 1]

(* epoll_wait reports the edge-triggered reader only while it is readable. *)
Awakened == pipe /\ edge

-----------------------------------------------------------------------------
(* enqueue_node, shared by producers, by the poller's re-queueing of level *)
(* nodes, by dequeue_node's push of the end marker and by drop.            *)

Enqueue(a, n) ==
    /\ node' = [node EXCEPT ![a] = n]
    /\ Goto(a, "load")

(* Where an actor goes on when its enqueue_node returns.                   *)
AfterEnqueue(a) ==
    IF a # Poller THEN IF a \in dropping THEN "release" ELSE "idle"
    ELSE IF node[a] = End THEN "dequeue_retry"
    ELSE IF node[a] # Closed /\ room = 0 THEN "idle" ELSE "dequeue"

(* The actor is done with its node and goes to AfterEnqueue.  A producer   *)
(* that drops a Registration keeps its node to release it.                 *)
ReturnFromEnqueue(a) ==
    /\ Goto(a, AfterEnqueue(a))
    /\ node' = [node EXCEPT ![a] = IF AfterEnqueue(a) = "release" THEN @ ELSE Null]
    /\ prev' = [prev EXCEPT ![a] = Null]

EnqueueLoad(a) ==
    /\ pc[a] = "load"
    /\ next' = [next EXCEPT ![node[a]] = Null]
    /\ prev' = [prev EXCEPT ![a] = head]
    /\ Goto(a, "cas")
    /\ UNCHANGED <<head, tail, pipe, edge, stateVars, ownVars, node, dropping, pollVars>>

BadQueueClosed(a) == FALSE
QueueClosed(a) == prev[a] = Closed

(* The queue is closed: its reference to a node that is not a marker goes. *)
EnqueueClosed(a) ==
    /\ pc[a] = "cas"
    /\ QueueClosed(a)
    /\ IF node[a] \in Nodes THEN ReleaseNode(node[a]) ELSE UNCHANGED ref_count
    /\ ReturnFromEnqueue(a)
    /\ UNCHANGED <<queueVars, pipe, edge, stateVars, reg, hold, dropping, pollVars>>

EnqueueCas(a) ==
    /\ pc[a] = "cas"
    /\ ~QueueClosed(a)
    /\ \/ head = prev[a] /\ head' = node[a] /\ Goto(a, "link") /\ UNCHANGED prev
       \/ /\ head # prev[a]
          /\ prev' = [prev EXCEPT ![a] = head]
          /\ UNCHANGED <<head, pc>>
    /\ UNCHANGED <<tail, next, pipe, edge, stateVars, ownVars, node, dropping, pollVars>>

(* Only a producer acts on the returned prev == sleep_marker.              *)
BadMustWake(a) == prev[a] = End
MustWake(a) == a # Poller /\ prev[a] = Sleep

EnqueueLink(a) ==
    /\ pc[a] = "link"
    /\ next' = [next EXCEPT ![prev[a]] = node[a]]
    /\ IF MustWake(a)
       THEN Goto(a, "wake") /\ UNCHANGED localVars
       ELSE ReturnFromEnqueue(a)
    /\ UNCHANGED <<head, tail, pipe, edge, stateVars, ownVars, dropping, pollVars>>

(* Awakener::wakeup: a byte for the pipe, hence an edge for epoll.         *)
Wakeup(a) ==
    /\ pc[a] = "wake"
    /\ pipe' = TRUE /\ edge' = TRUE
    /\ ReturnFromEnqueue(a)
    /\ UNCHANGED <<queueVars, stateVars, ownVars, dropping, pollVars>>

-----------------------------------------------------------------------------
(* What users of Registration and SetReadiness do.                         *)

Idle(p) == pc[p] = "idle"

(* set_readiness (and the same part of update): the effective readiness    *)
(* becomes r; the one that turns queued on has to enqueue the node.        *)
SetReadiness(p, n, r) ==
    /\ Idle(p) /\ n \in hold[p]
    /\ ~dropped[n]
    /\ ready' = [ready EXCEPT ![n] = r]
    /\ queued' = [queued EXCEPT ![n] = @ \/ r]
    /\ IF r /\ ~queued[n] THEN Enqueue(p, n) ELSE UNCHANGED <<pc, node>>
    /\ UNCHANGED <<queueVars, pipe, edge, dropped, ownVars, prev, dropping, pollVars>>

(* Drop for Registration: flag_as_dropped sets both flags; if the node was *)
(* not queued this thread enqueues it so that the poller releases it.      *)
(* Then the Registration's own reference is released.                      *)
BadNeverEnqueue(n) == FALSE
FlagAsDropped(n) == ~queued[n]

DropRegistration(p, n) ==
    /\ Idle(p) /\ n \in reg \cap Droppable
    /\ reg' = reg \ {n}
    /\ dropped' = [dropped EXCEPT ![n] = TRUE]
    /\ queued' = [queued EXCEPT ![n] = TRUE]
    /\ node' = [node EXCEPT ![p] = n]
    /\ dropping' = dropping \cup {p}
    /\ Goto(p, IF FlagAsDropped(n) THEN "load" ELSE "release")
    /\ UNCHANGED <<queueVars, pipe, edge, ready, ref_count, hold, prev, pollVars>>

ReleaseRegistration(p) ==
    /\ pc[p] = "release"
    /\ ReleaseNode(node[p])
    /\ node' = [node EXCEPT ![p] = Null]
    /\ dropping' = dropping \ {p}
    /\ Goto(p, "idle")
    /\ UNCHANGED <<queueVars, pipe, edge, stateVars, reg, hold, prev, pollVars>>

(* Drop of a SetReadiness, and Clone of one for another thread.            *)
DropHandle(p, n) ==
    /\ Idle(p) /\ n \in hold[p] \cap Droppable
    /\ hold' = [hold EXCEPT ![p] = @ \ {n}]
    /\ ReleaseNode(n)
    /\ UNCHANGED <<queueVars, pipe, edge, stateVars, reg, pc, localVars, dropping, pollVars>>

CloneHandle(p, q, n) ==
    /\ Idle(p) /\ n \in (hold[p] \ hold[q]) \cap Droppable
    /\ hold' = [hold EXCEPT ![q] = @ \cup {n}]
    /\ ref_count' = [ref_count EXCEPT ![n] = @ + 1]
    /\ UNCHANGED <<queueVars, pipe, edge, stateVars, reg, pc, localVars, dropping, pollVars>>

-----------------------------------------------------------------------------
(* poll2: prepare_for_sleep, select, cleanup, ReadinessQueue::poll.        *)

PollerAt(l) == pc[Poller] = l
ThenPoller(l) == Goto(Poller, l)

BeginPoll(zero) ==
    /\ PollerAt("idle") /\ Poller \notin dropping
    /\ ThenPoller(IF zero THEN "select" ELSE "prepare")
    /\ until' = Null /\ room' = Capacity /\ dst' = {} /\ blocking' = FALSE
    /\ UNCHANGED <<queueVars, pipe, edge, stateVars, ownVars, localVars, dropping>>

(* The list holds nothing but the marker m at the tail: what the compare-  *)
(* exchange on head_readiness, or a load of it, establishes.               *)
BadMarkedEmpty(m) == TRUE
MarkedEmpty(m) == head = m

(* prepare_for_sleep; when it fails poll2 selects with a zero timeout.     *)
PrepareForSleep ==
    /\ PollerAt("prepare")
    /\ \/ /\ tail = Sleep
          /\ blocking' = MarkedEmpty(Sleep)
          /\ UNCHANGED queueVars
       \/ /\ tail \notin {Sleep, End}
          /\ blocking' = FALSE
          /\ UNCHANGED queueVars
       \/ /\ tail = End
          /\ next' = [next EXCEPT ![Sleep] = Null]
          /\ blocking' = MarkedEmpty(End)
          /\ IF MarkedEmpty(End) THEN head' = Sleep /\ tail' = Sleep
                                 ELSE UNCHANGED <<head, tail>>
    /\ ThenPoller("select")
    /\ UNCHANGED <<pipe, edge, stateVars, ownVars, localVars, until, room, dst, dropping>>

(* ReadinessQueue::poll begins: a full dst only clears the sleep marker.   *)
PollQueue(left) == IF left = 0 THEN "clear" ELSE "dequeue"

(* select returns with the pipe's event among io others, the pipe's token  *)
(* itself not being handed to the caller ...                               *)
SelectAwakened ==
    /\ PollerAt("select") /\ Awakened
    /\ \E io \in IoEvents : io < Capacity /\ room' = Capacity - io
    /\ edge' = FALSE
    /\ ThenPoller("cleanup")
    /\ UNCHANGED <<queueVars, pipe, stateVars, ownVars, localVars, until, dst, blocking, dropping>>

(* ... or without it: socket events, the timeout, or a signal that used up *)
(* the time.  A ready pipe goes unreported only if the batch is full.      *)
SelectOther ==
    /\ PollerAt("select")
    /\ \E io \in IoEvents :
          /\ Awakened => io = Capacity
          /\ room' = Capacity - io
          /\ ThenPoller(PollQueue(Capacity - io))
    /\ UNCHANGED <<queueVars, pipe, edge, stateVars, ownVars, localVars, until, dst, blocking, dropping>>

(* Err(e) is returned to the caller: the sleep marker stays in the queue.  *)
SelectError ==
    /\ SelectFails
    /\ PollerAt("select")
    /\ ThenPoller("idle")
    /\ UNCHANGED <<queueVars, pipe, edge, stateVars, ownVars, localVars, dropping, pollVars>>

Cleanup ==
    /\ PollerAt("cleanup")
    /\ pipe' = FALSE
    /\ ThenPoller(PollQueue(room))
    /\ UNCHANGED <<queueVars, edge, stateVars, ownVars, localVars, dropping, pollVars>>

(* dequeue_node found nothing: poll returns, drop is finished or retries.  *)
Empty == ThenPoller(IF Poller \in dropping THEN "dropped" ELSE "idle")
Inconsistent == ThenPoller(IF Poller \in dropping THEN "dequeue" ELSE "idle")

(* dequeue_node hands out the cell at the tail.                            *)
Data(nx) ==
    /\ tail' = nx
    /\ node' = [node EXCEPT ![Poller] = tail]
    /\ ThenPoller("process")

(* clear_sleep_marker, called when nothing is left and when dst is full.   *)
ClearSleepMarker ==
    /\ PollerAt("clear")
    /\ IF tail = Sleep
       THEN /\ next' = [next EXCEPT ![End] = Null]
            /\ IF MarkedEmpty(Sleep) THEN head' = End /\ tail' = End
                                     ELSE UNCHANGED <<head, tail>>
       ELSE UNCHANGED queueVars
    /\ Empty
    /\ UNCHANGED <<pipe, edge, stateVars, ownVars, localVars, dropping, pollVars>>

(* dequeue_node: first load of next; a marker at the tail is skipped.      *)
DequeueSkip ==
    /\ PollerAt("dequeue")
    /\ \/ /\ tail \in Markers
          /\ next[tail] = Null
          /\ ThenPoller("clear")
          /\ UNCHANGED tail
       \/ /\ tail \in Markers
          /\ next[tail] # Null
          /\ tail' = next[tail]
          /\ ThenPoller("dequeue_next")
       \/ /\ tail \notin Markers
          /\ ThenPoller("dequeue_next")
          /\ UNCHANGED tail
    /\ UNCHANGED <<head, next, pipe, edge, stateVars, ownVars, localVars, dropping, pollVars>>

DequeueNext ==
    /\ PollerAt("dequeue_next")
    /\ \/ tail = until /\ Empty /\ UNCHANGED <<tail, node>>
       \/ tail # until /\ next[tail] # Null /\ Data(next[tail])
       \/ /\ tail # until /\ next[tail] = Null
          /\ ThenPoller("dequeue_head")
          /\ UNCHANGED <<tail, node>>
    /\ UNCHANGED <<head, next, pipe, edge, stateVars, ownVars, prev, dropping, pollVars>>

(* The tail is the last cell: push the end marker behind it.               *)
LastCell == head = tail

DequeueHead ==
    /\ PollerAt("dequeue_head")
    /\ \/ LastCell /\ Enqueue(Poller, End)
       \/ ~LastCell /\ Inconsistent /\ UNCHANGED node
    /\ UNCHANGED <<queueVars, pipe, edge, stateVars, ownVars, prev, dropping, pollVars>>

DequeueRetry ==
    /\ PollerAt("dequeue_retry")
    /\ \/ next[tail] # Null /\ Data(next[tail])
       \/ next[tail] = Null /\ Inconsistent /\ UNCHANGED <<tail, node>>
    /\ UNCHANGED <<head, next, pipe, edge, stateVars, ownVars, prev, dropping, pollVars>>

(* The poll loop's work on the node it took.                               *)
DoneWith(l) ==
    /\ ThenPoller(l)
    /\ node' = [node EXCEPT ![Poller] = Null]

ProcessDropped ==
    /\ PollerAt("process")
    /\ Poller \in dropping \/ dropped[node[Poller]]
    /\ ReleaseNode(node[Poller])
    /\ DoneWith("dequeue")
    /\ UNCHANGED <<queueVars, pipe, edge, stateVars, reg, hold, prev, dropping, pollVars>>

(* Level nodes that are ready stay queued; others are dequeued, and a      *)
(* oneshot that fires is disarmed.                                         *)
StaysQueued(n) == Opt[n] = "level" /\ ready[n]

(* The first re-queued node bounds the loop, or poll would never return.   *)
BadUntil(n) == until
UntilOf(n) == IF until = Null THEN n ELSE until

ProcessNode ==
    LET n == node[Poller]
        left == IF ready[n] THEN room - 1 ELSE room
    IN  /\ PollerAt("process")
        /\ Poller \notin dropping /\ ~dropped[n]
        /\ queued' = [queued EXCEPT ![n] = StaysQueued(n)]
        /\ ready' = [ready EXCEPT ![n] = @ /\ Opt[n] # "oneshot"]
        /\ room' = left
        /\ dst' = IF ready[n] THEN dst \cup {n} ELSE dst
        /\ IF StaysQueued(n)
           THEN until' = UntilOf(n) /\ Enqueue(Poller, n)
           ELSE UNCHANGED until /\ DoneWith(IF left = 0 THEN "idle" ELSE "dequeue")
        /\ UNCHANGED <<queueVars, pipe, edge, dropped, ownVars, prev, blocking, dropping>>

(* Drop for ReadinessQueue: push the closed marker, then drain.            *)
DropQueue ==
    /\ MayClose
    /\ PollerAt("idle") /\ Poller \notin dropping
    /\ dropping' = dropping \cup {Poller}
    /\ until' = Null
    /\ Enqueue(Poller, Closed)
    /\ UNCHANGED <<queueVars, pipe, edge, stateVars, ownVars, prev, room, dst, blocking>>

-----------------------------------------------------------------------------
EnqueueStep(a) ==
    EnqueueLoad(a) \/ EnqueueClosed(a) \/ EnqueueCas(a) \/ EnqueueLink(a)

(* What a thread inside a library call does next.                          *)
ProducerStep(p) == EnqueueStep(p) \/ Wakeup(p) \/ ReleaseRegistration(p)

PollerStep ==
    \/ EnqueueStep(Poller)
    \/ PrepareForSleep \/ SelectAwakened \/ Cleanup \/ ClearSleepMarker
    \/ DequeueSkip \/ DequeueNext \/ DequeueHead
    \/ DequeueRetry \/ ProcessDropped \/ ProcessNode

(* What the application calls, in any order.                               *)
UserCall(p) ==
    \E n \in Nodes :
        \/ \E r \in BOOLEAN : SetReadiness(p, n, r)
        \/ DropRegistration(p, n)
        \/ DropHandle(p, n)
        \/ \E q \in Producers : CloneHandle(p, q, n)

Next ==
    \/ \E p \in Producers : UserCall(p) \/ ProducerStep(p)
    \/ \E zero \in BOOLEAN : BeginPoll(zero)
    \/ PollerStep \/ SelectOther \/ SelectError
    \/ DropQueue

(* Threads inside the library keep running, and the event loop polls again *)
(* after each poll.  A select that blocks is only promised to return once  *)
(* the pipe is readable; one that need not block may fail or be filled by  *)
(* socket events again and again, but not every time for ever.             *)
Fairness ==
    /\ \A p \in Producers : WF_vars(ProducerStep(p))
    /\ WF_vars(PollerStep)
    /\ WF_vars(BeginPoll(FALSE))
    /\ SF_vars((SelectAwakened \/ (~blocking /\ SelectOther)) /\ room' > 0)

Spec == Init /\ [][Next]_vars
FairSpec == Spec /\ Fairness

-----------------------------------------------------------------------------
(* The abstract view: the chain of cells from the tail on, where the link  *)
(* an actor has yet to store counts as stored.                             *)
Successor(c) ==
    IF next[c] # Null THEN next[c]
    ELSE IF \E a \in Actors : pc[a] = "link" /\ prev[a] = c
         THEN node[CHOOSE a \in Actors : pc[a] = "link" /\ prev[a] = c]
         ELSE Null

walk[i \in 0..Cardinality(Cells)] ==
    [c \in Cells \cup {Null} |->
        IF i = 0 \/ c = Null THEN <<>>
        ELSE (IF c \in Nodes THEN <<c>> ELSE <<>>) \o walk[i - 1][Successor(c)]]

queue == walk[Cardinality(Cells)][tail]
InQueue(n) == \E i \in DOMAIN queue : queue[i] = n
closed == head = Closed

Abstract == INSTANCE EventQueue WITH Nodes <- Nodes, queue <- queue, closed <- closed
-----------------------------------------------------------------------------
Locations == {"idle", "load", "cas", "link", "wake", "release", "prepare",
              "select", "cleanup", "clear", "dequeue", "dequeue_next",
              "dequeue_head", "dequeue_retry", "process", "dropped"}

(* Head, tail and links of the queue name nodes or markers, reference      *)
(* counts do not go negative, and every thread is at a known place.        *)
TypeOK ==
    /\ head \in Cells /\ tail \in Cells
    /\ next \in [Cells -> Cells \cup {Null}]
    /\ pipe \in BOOLEAN /\ edge \in BOOLEAN
    /\ queued \in [Nodes -> BOOLEAN]
    /\ dropped \in [Nodes -> BOOLEAN]
    /\ ready \in [Nodes -> BOOLEAN]
    /\ ref_count \in [Nodes -> Nat]
    /\ reg \subseteq Nodes
    /\ hold \in [Producers -> SUBSET Nodes]
    /\ pc \in [Actors -> Locations]
    /\ node \in [Actors -> Cells \cup {Null}]
    /\ prev \in [Actors -> Cells \cup {Null}]
    /\ dropping \subseteq Actors
    /\ until \in Nodes \cup {Null}
    /\ room \in 0..Capacity
    /\ dst \subseteq Nodes
    /\ blocking \in BOOLEAN

(* Actors that have the node in hand: about to put it in, or having just   *)
(* taken it out.                                                           *)
Carriers(n) ==
    {a \in Actors : pc[a] \in {"load", "cas", "process"} /\ node[a] = n}

(* A poller never sleeps on a non-empty queue: if select may block while   *)
(* nodes are queued, the pipe is readable or a producer that found the     *)
(* sleep marker is about to make it so (prepare_for_sleep against          *)
(* enqueue_node, cleanup against wakeup).                                  *)
NoLostWakeup ==
    PollerAt("select") /\ blocking /\ queue # <<>> =>
        \/ Awakened
        \/ \E p \in Producers :
              pc[p] = "wake" \/ (pc[p] = "link" /\ prev[p] = Sleep)

(* The queued flag is the truth about the list: a node is in it or in an   *)
(* actor's hand at most once, and exactly once while it is flagged, until  *)
(* its registration or the queue is dropped.  Otherwise set_readiness would*)
(* wait for a node no poll will ever report.                               *)
QueuedExactly ==
    \A n \in Nodes :
        LET places == Cardinality({i \in DOMAIN queue : queue[i] = n})
                        + Cardinality(Carriers(n))
        IN  /\ places <= 1
            /\ places = 1 => queued[n]
            /\ queued[n] /\ ~dropped[n] /\ ~closed => places = 1

(* Memory that an actor can still reach is not freed: nodes owned by a     *)
(* handle, in the list, in an actor's hand or about to be linked to.       *)
NoUseAfterFree ==
    \A n \in Nodes :
        \/ n \in reg
        \/ \E p \in Producers : n \in hold[p]
        \/ InQueue(n)
        \/ \E a \in Actors : node[a] = n \/ (pc[a] = "link" /\ prev[a] = n)
        => ref_count[n] > 0

(* A node nobody can reach any more is freed, in whatever order the        *)
(* Registration, the handles and the Poll were dropped.                    *)
NoLeak ==
    \A n \in Nodes :
        /\ n \notin reg
        /\ \A p \in Producers : n \notin hold[p]
        /\ \A a \in Actors : node[a] # n
        /\ ~InQueue(n)
        => ref_count[n] = 0

(* The debug_asserts of enqueue_node, clear_sleep_marker, poll, drop and   *)
(* prepare_for_sleep.                                                      *)
DebugAssertions ==
    /\ \A a \in Actors :
          /\ pc[a] = "link" => next[prev[a]] = Null
          /\ pc[a] = "cas" /\ prev[a] = Closed =>
                /\ node[a] \notin {Closed, Sleep}
                /\ node[a] \in Nodes => ref_count[node[a]] >= 2
    /\ PollerAt("prepare") /\ tail = End =>
          head # Sleep /\ (head = End => next[End] = Null)
    /\ PollerAt("clear") /\ tail = Sleep => head # End
    /\ PollerAt("process") => queued[node[Poller]]

(* One poll reports a level-triggered node at most once, however long it   *)
(* stays ready: the loop stops when it meets the first node it put back.   *)
LevelOncePerPoll ==
    PollerAt("process") /\ Poller \notin dropping /\ ~dropped[node[Poller]]
        /\ Opt[node[Poller]] = "level" =>
            ~(node[Poller] \in dst /\ ready[node[Poller]])

(* The list with its markers, pending links and re-queued nodes is a FIFO  *)
(* queue that loses nothing and takes nothing in once closed.              *)
ImplementsEventQueue == Abstract!Spec

(* Every queued node is taken out: by a poll, which is woken for it, or by *)
(* the drop of the queue.                                                  *)
QueuedIsTaken == \A n \in Nodes : InQueue(n) ~> ~InQueue(n)
=============================================================================
