----------------------------- MODULE EventLoop -----------------------------
(***************************************************************************)
(* The event loop of src/net/event_loop.rs and the jobs handed to it with  *)
(* enqueue_job, by other threads and by the callbacks it runs.             *)
(*                                                                         *)
(* A job is carried by a registration's node of its own.  Its closure owns *)
(* clones of the two handles r and s of that node, and the node (or, once  *)
(* polled, the batch of events) owns the closure: the node lives until the *)
(* job has run and the caller has dropped its own handles, in whichever    *)
(* order that happens, and the last drop of r puts it back into the queue  *)
(* to be released.                                                         *)
(*                                                                         *)
(* The queue is FIFO and wakes the sleeping loop, as ReadinessQueue shows; *)
(* what happens before a node is in it is one step, for nobody else knows  *)
(* the node yet.  Sockets and timers are entries that run some callback.   *)
(***************************************************************************)
EXTENDS Naturals, Sequences, FiniteSets, SequencesExt

CONSTANTS Jobs,         \* the jobs that are enqueued, each at most once
          Callers,      \* threads that enqueue jobs and call shutdown
          LoopThread,   \* the thread that runs the loop
          Io,           \* an entry of a socket or a timer
          Capacity,     \* capacity of Events
          MayFail       \* whether poll may return an error

ASSUME ConstantsAssumption ==
    /\ IsFiniteSet(Callers) /\ LoopThread \notin Callers /\ Io \notin Jobs
    /\ Capacity \in Nat \ {0} /\ MayFail \in BOOLEAN

Actors == Callers \cup {LoopThread}

VARIABLES
    node,       \* job -> its node's state word and whether its job is set
    ref_count,  \* job -> references to the node; 0 before and after its life
    arc,        \* job -> strong counts of the Arcs around r and s
    queue,      \* the readiness queue
    loc,        \* actor -> where it is in enqueue_job or in dropping
    cur,        \* actor -> the job that is about
    rest,       \* actor -> the handles it still has to drop
    run,        \* EventLoop::run, the flag
    loop,       \* where the loop is
    entries,    \* the events of the batch
    idx,        \* the entry io_process is at
    enqueued,   \* history: the jobs in the order they were enqueued ...
    done,       \* ... and in the order they have run
    told        \* history: shutdown was called after run

nodeVars == <<node, ref_count, arc>>
actorVars == <<loc, cur, rest>>
loopVars == <<run, told, loop, entries, idx>>
vars == <<nodeVars, queue, actorVars, loopVars, enqueued, done>>

(* Registration::new2.                                                     *)
NewNode == [ready |-> FALSE, interest |-> FALSE, queued |-> FALSE,
            dropped |-> FALSE, job |-> FALSE]
NoJob == Io

(* EventLoopPool::new hands the loop out before its thread calls run.      *)
Init ==
    /\ node = [j \in Jobs |-> NewNode]
    /\ ref_count = [j \in Jobs |-> 0]
    /\ arc = [j \in Jobs |-> [r |-> 0, s |-> 0]]
    /\ queue = <<>>
    /\ loc = [a \in Actors |-> "idle"] /\ cur = [a \in Actors |-> NoJob]
    /\ rest = [a \in Actors |-> {}]
    /\ run = FALSE /\ told = FALSE /\ loop = "built" /\ entries = <<>> /\ idx = 1
    /\ enqueued = <<>> /\ done = <<>>

-----------------------------------------------------------------------------
(* Operators whose names start with Bad are mistakes that mutation runs    *)
(* substitute for the operator defined after them.                         *)

Queue(n) == [n EXCEPT !.queued = n.queued \/ (n.ready /\ n.interest)]
SetReadiness(n) == Queue([n EXCEPT !.ready = TRUE])

(* update keeps the job only if it turns the queued flag on.               *)
Register(n) ==
    LET new == Queue([n EXCEPT !.interest = TRUE])
    IN  [new EXCEPT !.job = n.job \/ (~n.queued /\ new.queued)]

(* enqueue_job sets the readiness first.                                   *)
BadPrepared(n) == SetReadiness(Register(n))
Prepared(n) == Register(SetReadiness(n))

(* The closure's clones of r and s.                                        *)
BadClones == 0
Clones == 1

(* enqueue_job up to the enqueue: new2 gives two references, update adds   *)
(* the queue's.                                                            *)
EnqueueJob(a, j) ==
    /\ loc[a] = "idle" /\ ref_count[j] = 0 /\ ~node[j].dropped
    /\ node' = [node EXCEPT ![j] = Prepared(@)]
    /\ ref_count' = [ref_count EXCEPT ![j] = 3]
    /\ LET strong == 1 + IF node'[j].job THEN Clones ELSE 0
       IN  arc' = [arc EXCEPT ![j] = [r |-> strong, s |-> strong]]
    /\ loc' = [loc EXCEPT ![a] = "enqueue"]
    /\ cur' = [cur EXCEPT ![a] = j]
    /\ UNCHANGED <<queue, rest, enqueued>>

(* enqueue_with_wakeup; then the caller's r and s go out of scope.         *)
EnqueueNode(a) ==
    /\ loc[a] = "enqueue"
    /\ queue' = Append(queue, cur[a])
    /\ enqueued' = Append(enqueued, cur[a])
    /\ loc' = [loc EXCEPT ![a] = "drop"]
    /\ rest' = [rest EXCEPT ![a] = {"r", "s"}]
    /\ UNCHANGED <<nodeVars, cur, loopVars, done>>

(* One Arc is dropped.  The last around s drops a reference, the last      *)
(* around r first flags the registration as dropped and enqueues it.       *)
DropArc(a, h) ==
    LET j == cur[a]
        last == arc[j][h] = 1
    IN  /\ loc[a] = "drop" /\ h \in rest[a]
        /\ arc' = [arc EXCEPT ![j][h] = @ - 1]
        /\ rest' = [rest EXCEPT ![a] = @ \ {h}]
        /\ IF last /\ h = "r"
           THEN /\ node' = [node EXCEPT ![j] = [@ EXCEPT !.dropped = TRUE, !.queued = TRUE]]
                /\ queue' = IF node[j].queued THEN queue ELSE Append(queue, j)
           ELSE UNCHANGED <<node, queue>>
        /\ loc' = IF last THEN [loc EXCEPT ![a] = "release"] ELSE loc
        /\ UNCHANGED <<ref_count, cur, loopVars, enqueued, done>>

(* release_node.                                                           *)
ReleaseNode(a) ==
    /\ loc[a] = "release"
    /\ ref_count' = [ref_count EXCEPT ![cur[a]] = @ - 1]
    /\ loc' = [loc EXCEPT ![a] = "drop"]
    /\ UNCHANGED <<node, arc, queue, cur, rest, loopVars, enqueued, done>>

DropsDone(a) ==
    /\ loc[a] = "drop" /\ rest[a] = {}
    /\ loc' = [loc EXCEPT ![a] = "idle"]
    /\ cur' = [cur EXCEPT ![a] = NoJob]
    /\ UNCHANGED <<nodeVars, queue, rest, loopVars, enqueued, done>>

ActorStep(a) ==
    \/ EnqueueNode(a) \/ ReleaseNode(a) \/ DropsDone(a)
    \/ \E h \in {"r", "s"} : DropArc(a, h)

-----------------------------------------------------------------------------
(* shutdown: true becomes false; nobody is woken for it, and before run()  *)
(* it has no effect.                                                       *)
BadShutdownFlag(flag) == TRUE
ShutdownFlag(flag) == FALSE

Shutdown ==
    /\ run' = ShutdownFlag(run)
    /\ told' = (told \/ loop # "built")

CallerEnqueues(t, j) == EnqueueJob(t, j) /\ UNCHANGED <<loopVars, done>>

CallerShutsDown(t) ==
    /\ loc[t] = "idle"
    /\ Shutdown
    /\ UNCHANGED <<nodeVars, queue, actorVars, loop, entries, idx, enqueued, done>>

-----------------------------------------------------------------------------
(* run.                                                                    *)
At(l) == loop = l /\ loc[LoopThread] = "idle"

StartRun ==
    /\ At("built")
    /\ run' = TRUE /\ loop' = "check"
    /\ UNCHANGED <<nodeVars, queue, actorVars, told, entries, idx, enqueued, done>>

CheckRun ==
    /\ At("check")
    /\ loop' = IF run THEN "poll" ELSE "ended"
    /\ UNCHANGED <<nodeVars, queue, actorVars, run, told, entries, idx, enqueued, done>>

(* io_poll: it sleeps until there is something.  The selector comes first  *)
(* and fills n of the entries; an error ends the loop.                     *)
Select(n) ==
    /\ At("poll")
    /\ n > 0 \/ queue # <<>>
    /\ entries' = [i \in 1..n |-> Io]
    /\ loop' = "drain"
    /\ UNCHANGED <<nodeVars, queue, actorVars, run, told, idx, enqueued, done>>

PollFails ==
    /\ MayFail /\ At("poll")
    /\ loop' = "ended"
    /\ UNCHANGED <<nodeVars, queue, actorVars, run, told, entries, idx, enqueued, done>>

(* A closure moves from the node to the events; the node keeps an empty    *)
(* one.                                                                    *)
BadJobLeft(n) == n.job
JobLeft(n) == FALSE

(* ReadinessQueue::poll, a node at a time: a dropped one is released, any  *)
(* other is reported.                                                      *)
TakeNode ==
    LET j == Head(queue)
    IN  /\ At("drain") /\ queue # <<>> /\ Len(entries) < Capacity
        /\ queue' = Tail(queue)
        /\ IF node[j].dropped
           THEN /\ ref_count' = [ref_count EXCEPT ![j] = @ - 1]
                /\ UNCHANGED <<node, entries>>
           ELSE /\ node' = [node EXCEPT ![j] = [@ EXCEPT !.queued = FALSE, !.job = JobLeft(node[j])]]
                /\ entries' = Append(entries, IF node[j].job THEN j ELSE Io)
                /\ UNCHANGED ref_count
        /\ UNCHANGED <<arc, actorVars, run, told, loop, idx, enqueued, done>>

DrainEnds ==
    /\ At("drain") /\ (queue = <<>> \/ Len(entries) = Capacity)
    /\ loop' = "process" /\ idx' = 1
    /\ UNCHANGED <<nodeVars, queue, actorVars, run, told, entries, enqueued, done>>

-----------------------------------------------------------------------------
(* io_process runs the callbacks of the entries in their order; a callback *)
(* may enqueue a job or shut the loop down.                                *)
RunsEntry ==
    /\ At("process") /\ idx <= Len(entries)
    /\ idx' = idx + 1
    /\ UNCHANGED <<loop, entries>>

Ran == done' = IF entries[idx] = Io THEN done ELSE Append(done, entries[idx])

RunReturns ==
    /\ RunsEntry /\ Ran
    /\ UNCHANGED <<nodeVars, queue, actorVars, run, told, enqueued>>

RunEnqueues(j) ==
    /\ RunsEntry /\ Ran
    /\ EnqueueJob(LoopThread, j)
    /\ UNCHANGED <<run, told>>

RunShutsDown ==
    /\ RunsEntry /\ Ran
    /\ Shutdown
    /\ UNCHANGED <<nodeVars, queue, actorVars, enqueued>>

ProcessEnds ==
    /\ At("process") /\ idx > Len(entries)
    /\ loop' = "clear" /\ idx' = 1
    /\ UNCHANGED <<nodeVars, queue, actorVars, run, told, entries, enqueued, done>>

(* events.clear(): the closures of the batch are dropped, and with them    *)
(* their clones of r and s.                                                *)
ClearEntry ==
    /\ At("clear") /\ idx <= Len(entries)
    /\ idx' = idx + 1
    /\ IF entries[idx] # Io /\ ~node[entries[idx]].job
       THEN /\ loc' = [loc EXCEPT ![LoopThread] = "drop"]
            /\ cur' = [cur EXCEPT ![LoopThread] = entries[idx]]
            /\ rest' = [rest EXCEPT ![LoopThread] = {"r", "s"}]
       ELSE UNCHANGED actorVars
    /\ UNCHANGED <<nodeVars, queue, run, told, loop, entries, enqueued, done>>

ClearEnds ==
    /\ At("clear") /\ idx > Len(entries)
    /\ loop' = "check" /\ entries' = <<>> /\ idx' = 1
    /\ UNCHANGED <<nodeVars, queue, actorVars, run, told, enqueued, done>>

-----------------------------------------------------------------------------
LoopStep ==
    \/ StartRun \/ CheckRun \/ PollFails \/ TakeNode \/ DrainEnds
    \/ \E n \in 0..Capacity : Select(n)
    \/ RunReturns \/ RunShutsDown \/ \E j \in Jobs : RunEnqueues(j)
    \/ ProcessEnds \/ ClearEntry \/ ClearEnds
    \/ ActorStep(LoopThread)

Next ==
    \/ LoopStep
    \/ \E t \in Callers :
          \/ ActorStep(t) \/ CallerShutsDown(t)
          \/ \E j \in Jobs : CallerEnqueues(t, j)

(* The loop is asleep: only an event of a socket could wake it.            *)
Asleep == loop = "poll" /\ queue = <<>>

(* Every thread runs, and the sockets do not fill the events for ever      *)
(* (there is room for 4096).                                               *)
Spec ==
    /\ Init /\ [][Next]_vars
    /\ WF_vars(~Asleep /\ LoopStep)
    /\ SF_vars(\E n \in 0..(Capacity - 1) : ~Asleep /\ Select(n))
    /\ \A t \in Callers : WF_vars(ActorStep(t))

-----------------------------------------------------------------------------
NodeType == [ready : BOOLEAN, interest : BOOLEAN, queued : BOOLEAN,
             dropped : BOOLEAN, job : BOOLEAN]

TypeOK ==
    /\ node \in [Jobs -> NodeType]
    /\ ref_count \in [Jobs -> Nat] /\ arc \in [Jobs -> [r : Nat, s : Nat]]
    /\ queue \in Seq(Jobs) /\ enqueued \in Seq(Jobs) /\ done \in Seq(Jobs)
    /\ loc \in [Actors -> {"idle", "enqueue", "drop", "release"}]
    /\ cur \in [Actors -> Jobs \cup {NoJob}] /\ rest \in [Actors -> SUBSET {"r", "s"}]
    /\ run \in BOOLEAN /\ told \in BOOLEAN
    /\ loop \in {"built", "check", "poll", "drain", "process", "clear", "ended"}
    /\ entries \in Seq(Jobs \cup {Io}) /\ idx \in Nat \ {0}

Created(j) == ref_count[j] > 0 \/ node[j].dropped

(* The jobs that have run are the first ones that were enqueued, in that   *)
(* order and each once: through batches of any size, jobs enqueued by jobs *)
(* and nodes that come back to be released (enqueue_job, io_process).      *)
JobsInOrder == IsPrefix(done, enqueued)

(* A node is referred to by exactly those that will release it: the last   *)
(* handles, an actor in the middle of it, and the queue until the dropped  *)
(* node is polled.  So it is never freed while it is in the queue or its   *)
(* job is to run, and when the loop sleeps and the callers have returned   *)
(* no node is left (enqueue_job, Drop for Registration, release_node).     *)
NodeLifetime ==
    /\ \A j \in Jobs :
          LET handles == {h \in {"r", "s"} : arc[j][h] > 0}
              releasing == {a \in Actors : loc[a] = "release" /\ cur[a] = j}
              polled == node[j].dropped /\ ~Contains(queue, j)
          IN  Created(j) => ref_count[j] = Cardinality(handles) + Cardinality(releasing)
                                            + IF polled THEN 0 ELSE 1
    /\ Asleep /\ (\A a \in Actors : loc[a] = "idle") =>
          \A j \in Jobs : ref_count[j] = 0

(* Every job that is enqueued runs, unless the loop ends: it is not lost   *)
(* because its node is released first, or polled before it has the job.    *)
EnqueuedRuns ==
    \A j \in Jobs : Created(j) ~> Contains(done, j) \/ loop = "ended"

(* A shutdown that meets the loop awake, or followed by any job, ends it.  *)
(* (One that meets it asleep waits for the next event; one that comes      *)
(* before run() is lost.)                                                  *)
ShutdownEnds ==
    told /\ ~Asleep ~> loop = "ended"
=============================================================================
