-------------------------- MODULE EventLoopProofs --------------------------
(***************************************************************************)
(* The event loop for any number of jobs and callers and any capacity: a   *)
(* job's node is freed exactly when nobody refers to it any more, and jobs *)
(* run in the order they were enqueued.                                    *)
(*                                                                         *)
(* NodeLifetime counts references; what keeps it true is who owns them.    *)
(* IInv accounts for every Arc (ArcsCounted): its owners are the caller    *)
(* until it has dropped its own, and the closure, which is in the node     *)
(* until the node is polled, in the batch until it is cleared, and in the  *)
(* loop's hands while it is dropped.  So the last drop of r finds no job   *)
(* left, and only a node without a job comes back to the queue.            *)
(*                                                                         *)
(* OInv is the order: what was enqueued and has not run waits in the batch *)
(* or in the queue, the batch is older than the queue, both are in order.  *)
(* Hence the entry that runs is the oldest one that waits.                 *)
(***************************************************************************)
EXTENDS EventLoop, FiniteSetTheorems, SequenceTheorems, TLAPS

Handles == {"r", "s"}

(* Who works on a node, who still owns which of its handles, who is about  *)
(* to enqueue it and who is about to release it.                           *)
Working(j) == {a \in Actors : cur[a] = j}
Owners(j, h) == {a \in Actors : cur[a] = j /\ (loc[a] = "enqueue" \/ h \in rest[a])}
Carriers(j) == {a \in Actors : loc[a] = "enqueue" /\ cur[a] = j}
Releasing(j) == {a \in Actors : loc[a] = "release" /\ cur[a] = j}

(* The closure is in the node, or in the batch and not cleared yet.        *)
Batched(j) ==
    \E i \in 1..Len(entries) : entries[i] = j /\ (loop = "clear" => idx <= i)
Closure(j) == IF node[j].job \/ Batched(j) THEN 1 ELSE 0

HeldHandles(j) == {h \in Handles : arc[j][h] > 0}
Polled(j) == node[j].dropped /\ ~Contains(queue, j)

(* Nobody knows a node that was not created.                               *)
Fresh(j) ==
    ~Created(j) =>
        /\ node[j] = NewNode /\ Working(j) = {}
        /\ ~Contains(queue, j) /\ ~Contains(entries, j) /\ ~Contains(enqueued, j)

(* Who is about to enqueue a node is alone with it.                        *)
Alone(j) ==
    \A a \in Carriers(j) :
        /\ Working(j) = {a} /\ node[j].job
        /\ ~Contains(queue, j) /\ ~Contains(enqueued, j)

(* The queued flag is the truth about the queue, and the job is in a node  *)
(* that has not been polled.                                               *)
Flagged(j) ==
    /\ Contains(queue, j) => node[j].queued
    /\ node[j].queued /\ ~node[j].dropped => Contains(queue, j) \/ Carriers(j) # {}
    /\ node[j].job => node[j].queued /\ ~node[j].dropped /\ ~Contains(entries, j)
    /\ node[j].dropped => node[j].queued
    /\ Created(j) => (node[j].dropped <=> arc[j].r = 0)

(* Every Arc has an owner, and every reference somebody who will drop it.  *)
ArcsCounted(j) ==
    \A h \in Handles : arc[j][h] = Cardinality(Owners(j, h)) + Closure(j)
RefsCounted(j) ==
    Created(j) => ref_count[j] = Cardinality(HeldHandles(j)) + Cardinality(Releasing(j))
                                  + IF Polled(j) THEN 0 ELSE 1

NodeOK(j) == Fresh(j) /\ Alone(j) /\ Flagged(j) /\ ArcsCounted(j) /\ RefsCounted(j)

(* Where an actor is and what it has.                                      *)
ActorOK(a) ==
    /\ loc[a] = "idle" <=> cur[a] = NoJob
    /\ loc[a] \in {"idle", "enqueue"} => rest[a] = {}

(* The batch exists from the select to the end of clear.  A node is in the *)
(* queue once, its job in the batch once.                                  *)
PlacesOnce ==
    /\ loop \in {"built", "check", "poll", "ended"} => entries = <<>>
    /\ \A i, k \in 1..Len(queue) : queue[i] = queue[k] => i = k
    /\ \A i, k \in 1..Len(entries) : entries[i] = entries[k] /\ entries[i] # Io => i = k

IInv == /\ TypeOK
        /\ PlacesOnce
        /\ \A a \in Actors : ActorOK(a)
        /\ \A j \in Jobs : NodeOK(j)

-----------------------------------------------------------------------------
(* The order of the jobs.  The entries of the batch that io_process has    *)
(* still to run:                                                           *)
Unrun(i) ==
    /\ i \in 1..Len(entries) /\ entries[i] # Io
    /\ loop = "drain" \/ (loop = "process" /\ idx <= i)

(* A job was enqueued before another one.                                  *)
Before(e, x, y) ==
    \A k, l \in 1..Len(e) : e[k] = x /\ e[l] = y => k < l

Prefix ==
    /\ \A k, l \in 1..Len(enqueued) : enqueued[k] = enqueued[l] => k = l
    /\ Len(done) <= Len(enqueued)
    /\ \A k \in 1..Len(done) : done[k] = enqueued[k]

(* What was enqueued and has not run is in the batch or in the queue.      *)
Waiting ==
    /\ \A k \in 1..Len(enqueued) :
          k > Len(done) <=>
              \/ node[enqueued[k]].job
              \/ \E i \in 1..Len(entries) : Unrun(i) /\ entries[i] = enqueued[k]
    /\ \A i \in 1..Len(entries) : Unrun(i) => Contains(enqueued, entries[i])
    /\ \A k \in 1..Len(queue) : node[queue[k]].job => Contains(enqueued, queue[k])

(* The batch is older than the queue, and both are in order.               *)
InOrder ==
    /\ \A i, k \in 1..Len(entries) : Unrun(i) /\ Unrun(k) /\ i < k => Before(enqueued, entries[i], entries[k])
    /\ \A i \in 1..Len(entries), k \in 1..Len(queue) :
          Unrun(i) /\ node[queue[k]].job => Before(enqueued, entries[i], queue[k])
    /\ \A i, k \in 1..Len(queue) :
          node[queue[i]].job /\ node[queue[k]].job /\ i < k => Before(enqueued, queue[i], queue[k])

OInv == Prefix /\ Waiting /\ InOrder

-----------------------------------------------------------------------------
(* Sets of actors are finite.                                             *)
LEMMA ActorSets ==
    ASSUME NEW S \in SUBSET Actors
    PROVE  IsFiniteSet(S) /\ Cardinality(S) \in Nat /\ (Cardinality(S) = 0 <=> S = {})
  <1>1. IsFiniteSet(Actors)
    BY ConstantsAssumption, FS_AddElement DEF Actors
  <1>2. IsFiniteSet(S)
    BY <1>1, FS_Subset
  <1> QED
    BY <1>2, FS_CardinalityType, FS_EmptySet

(* How many handles of a node are still held.                              *)
LEMMA HeldHandlesCount ==
    ASSUME NEW f
    PROVE  Cardinality({h \in Handles : f[h] > 0}) =
              (IF f["r"] > 0 THEN 1 ELSE 0) + (IF f["s"] > 0 THEN 1 ELSE 0)
  <1> DEFINE H == {h \in Handles : f[h] > 0}
  <1>1. /\ Cardinality({}) = 0 /\ Cardinality({"r"}) = 1 /\ Cardinality({"s"}) = 1
        /\ Cardinality({"r", "s"}) = 2
    <2>1. {"r", "s"} = {"r"} \cup {"s"} /\ "s" \notin {"r"}
      OBVIOUS
    <2>2. IsFiniteSet({"r"}) /\ Cardinality({"r"}) = 1 /\ Cardinality({"s"}) = 1
      BY FS_Singleton
    <2>3. Cardinality({"r", "s"}) = 2
      BY <2>1, <2>2, FS_AddElement
    <2> QED
      BY <2>2, <2>3, FS_EmptySet
  <1>2. H = {h \in {"r", "s"} : f[h] > 0}
    BY DEF Handles
  <1>3. CASE f["r"] > 0 /\ f["s"] > 0
    <2>1. H = {"r", "s"}
      BY <1>2, <1>3
    <2> QED
      BY <1>1, <2>1, <1>3
  <1>4. CASE f["r"] > 0 /\ ~(f["s"] > 0)
    <2>1. H = {"r"}
      BY <1>2, <1>4
    <2> QED
      BY <1>1, <2>1, <1>4
  <1>5. CASE ~(f["r"] > 0) /\ f["s"] > 0
    <2>1. H = {"s"}
      BY <1>2, <1>5
    <2> QED
      BY <1>1, <2>1, <1>5
  <1>6. CASE ~(f["r"] > 0) /\ ~(f["s"] > 0)
    <2>1. H = {}
      BY <1>2, <1>6
    <2> QED
      BY <1>1, <2>1, <1>6
  <1> QED
    BY <1>3, <1>4, <1>5, <1>6

(* What a node becomes when it is taken from the queue, and when its last  *)
(* handle is dropped.                                                      *)
LEMMA NodeTaken ==
    ASSUME NEW r \in NodeType, NEW m, m = [r EXCEPT !.queued = FALSE, !.job = FALSE]
    PROVE  m \in NodeType /\ ~m.queued /\ ~m.job /\ m.dropped = r.dropped
  BY DEF NodeType

LEMMA NodeDropped ==
    ASSUME NEW r \in NodeType, NEW m, m = [r EXCEPT !.dropped = TRUE, !.queued = TRUE]
    PROVE  m \in NodeType /\ m.dropped /\ m.queued /\ m.job = r.job
  BY DEF NodeType

(* The elements of a sequence that does not contain x.                     *)
LEMMA NotContained ==
    ASSUME NEW S, NEW q \in Seq(S), NEW x, ~Contains(q, x)
    PROVE  Len(q) \in Nat /\ \A i \in 1..Len(q) : q[i] \in S /\ q[i] # x
  BY DEF Contains

(* What a sequence contains with one more element.                         *)
LEMMA ContainsAppend ==
    ASSUME NEW S, NEW q \in Seq(S), NEW x \in S
    PROVE  /\ Append(q, x) \in Seq(S) /\ Len(Append(q, x)) = Len(q) + 1
           /\ \A i \in 1..Len(q) : Append(q, x)[i] = q[i]
           /\ Append(q, x)[Len(q) + 1] = x
           /\ \A y : Contains(Append(q, x), y) <=> Contains(q, y) \/ y = x
  <1>1. /\ Append(q, x) \in Seq(S) /\ Len(Append(q, x)) = Len(q) + 1
        /\ \A i \in 1..Len(q) : Append(q, x)[i] = q[i]
        /\ Append(q, x)[Len(q) + 1] = x
    BY AppendProperties
  <1>2. Len(q) \in Nat
    OBVIOUS
  <1> DEFINE d == Append(q, x)
  <1> HIDE DEF d
  <1>3. ASSUME NEW y PROVE Contains(d, y) <=> Contains(q, y) \/ y = x
    <2>1. Len(d) = Len(q) + 1 /\ d[Len(q) + 1] = x /\ \A i \in 1..Len(q) : d[i] = q[i]
      BY <1>1 DEF d
    <2>2. Contains(d, y) => Contains(q, y) \/ y = x
      BY <1>2, <2>1 DEF Contains
    <2>3. Contains(q, y) => Contains(d, y)
      BY <1>2, <2>1 DEF Contains
    <2>4. Contains(d, x)
      BY <1>2, <2>1 DEF Contains
    <2> QED
      BY <2>2, <2>3, <2>4
  <1> QED
    BY <1>1, <1>3 DEF d

(* What is left when the first element is taken.                           *)
LEMMA ContainsTail ==
    ASSUME NEW S, NEW q \in Seq(S), q # <<>>
    PROVE  /\ Tail(q) \in Seq(S) /\ Len(Tail(q)) = Len(q) - 1 /\ Len(q) > 0
           /\ \A i \in 1..Len(q) - 1 : Tail(q)[i] = q[i + 1]
           /\ Head(q) = q[1] /\ Head(q) \in S /\ Contains(q, Head(q))
           /\ \A y : y # Head(q) => (Contains(Tail(q), y) <=> Contains(q, y))
           /\ (\A i, k \in 1..Len(q) : q[i] = q[k] => i = k) => ~Contains(Tail(q), Head(q))
  <1>1. /\ Tail(q) \in Seq(S) /\ Len(Tail(q)) = Len(q) - 1
        /\ Len(q) \in Nat /\ Len(q) > 0 /\ Head(q) = q[1] /\ Head(q) \in S
        /\ \A i \in 1..Len(q) - 1 : Tail(q)[i] = q[i + 1]
    BY HeadTailProperties, EmptySeq
  <1> DEFINE d == Tail(q)
  <1> HIDE DEF d
  <1>2. /\ Len(d) = Len(q) - 1 /\ \A i \in 1..Len(q) - 1 : d[i] = q[i + 1]
    BY <1>1 DEF d
  <1>3. Contains(q, Head(q))
    BY <1>1 DEF Contains
  <1>4. ASSUME NEW y, y # Head(q)
        PROVE  Contains(d, y) <=> Contains(q, y)
    <2>1. ASSUME Contains(d, y) PROVE Contains(q, y)
      <3>1. PICK i \in 1..Len(q) - 1 : d[i] = y
        BY <1>2, <2>1 DEF Contains
      <3>2. i + 1 \in 1..Len(q) /\ q[i + 1] = y
        BY <1>1, <1>2, <3>1
      <3> QED
        BY <3>2 DEF Contains
    <2>2. ASSUME Contains(q, y) PROVE Contains(d, y)
      <3>1. PICK i \in 1..Len(q) : q[i] = y
        BY <2>2 DEF Contains
      <3>2. i - 1 \in 1..Len(q) - 1 /\ d[i - 1] = q[(i - 1) + 1] /\ (i - 1) + 1 = i
        BY <1>1, <1>2, <1>4, <3>1
      <3> QED
        BY <1>2, <3>1, <3>2 DEF Contains
    <2> QED
      BY <2>1, <2>2
  <1>5. ASSUME \A i, k \in 1..Len(q) : q[i] = q[k] => i = k, Contains(d, Head(q))
        PROVE  FALSE
    <2>1. PICK i \in 1..Len(q) - 1 : d[i] = q[1]
      BY <1>1, <1>2, <1>5 DEF Contains
    <2>2. i + 1 \in 1..Len(q) /\ 1 \in 1..Len(q) /\ q[i + 1] = q[1] /\ i + 1 # 1
      BY <1>1, <1>2, <2>1
    <2> QED
      BY <1>5, <2>2
  <1> QED
    BY <1>1, <1>3, <1>4, <1>5 DEF d

-----------------------------------------------------------------------------
(* What the invariant of a node looks at.                                  *)
Untouched(k) ==
    /\ node'[k] = node[k] /\ arc'[k] = arc[k] /\ ref_count'[k] = ref_count[k]
    /\ Working(k)' = Working(k) /\ Carriers(k)' = Carriers(k)
    /\ Releasing(k)' = Releasing(k)
    /\ \A h \in Handles : Owners(k, h)' = Owners(k, h)
    /\ Contains(queue', k) <=> Contains(queue, k)
    /\ Contains(entries', k) <=> Contains(entries, k)
    /\ Contains(enqueued', k) <=> Contains(enqueued, k)
    /\ Batched(k)' <=> Batched(k)

(* A node that a step does not touch stays as it should be.                *)
LEMMA UntouchedOK ==
    ASSUME NEW k \in Jobs, NodeOK(k), Untouched(k)
    PROVE  NodeOK(k)'
  <1>1. Created(k)' <=> Created(k)
    BY DEF Untouched, Created
  <1>2. HeldHandles(k)' = HeldHandles(k) /\ (Polled(k)' <=> Polled(k)) /\ Closure(k)' = Closure(k)
    BY DEF Untouched, HeldHandles, Polled, Closure
  <1>3. Fresh(k)' /\ Alone(k)' /\ Flagged(k)'
    BY <1>1 DEF NodeOK, Untouched, Fresh, Alone, Flagged
  <1>4. ArcsCounted(k)' /\ RefsCounted(k)'
    BY <1>1, <1>2 DEF NodeOK, Untouched, ArcsCounted, RefsCounted
  <1> QED
    BY <1>3, <1>4 DEF NodeOK

(* A step of one actor does not change who works on another node.          *)
LEMMA ActorsApart ==
    ASSUME NEW k, NEW a \in Actors,
           \A b \in Actors \ {a} : loc'[b] = loc[b] /\ cur'[b] = cur[b] /\ rest'[b] = rest[b],
           cur[a] # k, cur'[a] # k
    PROVE  /\ Working(k)' = Working(k) /\ Carriers(k)' = Carriers(k)
           /\ Releasing(k)' = Releasing(k)
           /\ \A h \in Handles : Owners(k, h)' = Owners(k, h)
  BY DEF Working, Carriers, Releasing, Owners

(* The same when no actor moves.                                           *)
LEMMA ActorsStand ==
    ASSUME NEW k, UNCHANGED actorVars
    PROVE  /\ Working(k)' = Working(k) /\ Carriers(k)' = Carriers(k)
           /\ Releasing(k)' = Releasing(k)
           /\ \A h \in Handles : Owners(k, h)' = Owners(k, h)
  BY DEF Working, Carriers, Releasing, Owners, actorVars

(* At the start nobody knows a node.                                       *)
LEMMA InitEstablishesIInv == Init => IInv
  <1> SUFFICES ASSUME Init PROVE IInv
    OBVIOUS
  <1>1. TypeOK
    <2>1. NewNode \in NodeType
      BY DEF NewNode, NodeType
    <2>2. [r |-> 0, s |-> 0] \in [r : Nat, s : Nat]
      OBVIOUS
    <2>3. node \in [Jobs -> NodeType] /\ arc \in [Jobs -> [r : Nat, s : Nat]]
      BY <2>1, <2>2 DEF Init
    <2>4. queue \in Seq(Jobs) /\ enqueued \in Seq(Jobs) /\ done \in Seq(Jobs)
          /\ entries \in Seq(Jobs \cup {Io})
      BY DEF Init
    <2>5. /\ loc \in [Actors -> {"idle", "enqueue", "drop", "release"}]
          /\ cur \in [Actors -> Jobs \cup {NoJob}] /\ rest \in [Actors -> SUBSET {"r", "s"}]
          /\ ref_count \in [Jobs -> Nat]
      BY DEF Init
    <2>6. run \in BOOLEAN /\ told \in BOOLEAN
      BY Zenon DEF Init
    <2>8. idx \in Nat \ {0}
      BY DEF Init
    <2>7. loop \in {"built", "check", "poll", "drain", "process", "clear", "ended"}
      BY DEF Init
    <2> QED
      BY <2>3, <2>4, <2>5, <2>6, <2>7, <2>8 DEF TypeOK
  <1>3. PlacesOnce
    BY DEF Init, PlacesOnce
  <1>4. \A a \in Actors : ActorOK(a)
    BY DEF Init, ActorOK
  <1>2. ASSUME NEW j \in Jobs PROVE NodeOK(j)
    <2>1. \A a \in Actors : loc[a] = "idle" /\ cur[a] # j
      BY ConstantsAssumption DEF Init, NoJob
    <2>2. Working(j) = {} /\ Carriers(j) = {} /\ Releasing(j) = {}
          /\ \A h \in Handles : Owners(j, h) = {}
      BY <2>1 DEF Working, Carriers, Releasing, Owners
    <2>3. /\ node[j] = NewNode /\ arc[j].r = 0 /\ arc[j].s = 0 /\ ref_count[j] = 0
          /\ ~Contains(queue, j) /\ ~Contains(entries, j) /\ ~Contains(enqueued, j)
          /\ ~Batched(j)
      BY DEF Init, Contains, Batched
    <2>4. ~Created(j) /\ Closure(j) = 0
      BY <2>3 DEF Created, NewNode, Closure
    <2>5. Fresh(j) /\ Alone(j) /\ Flagged(j) /\ RefsCounted(j)
      BY <2>2, <2>3, <2>4 DEF Fresh, Alone, Flagged, RefsCounted, NewNode
    <2>6. ArcsCounted(j)
      BY <2>2, <2>3, <2>4, FS_EmptySet DEF ArcsCounted, Handles
    <2> QED
      BY <2>5, <2>6 DEF NodeOK
  <1> QED
    BY <1>1, <1>2, <1>3, <1>4 DEF IInv

(* Who owns a handle, and what follows when it is the last one.            *)
LEMMA OwnerCounts ==
    ASSUME NEW j \in Jobs, NodeOK(j), NEW a \in Actors, NEW h \in Handles, a \in Owners(j, h)
    PROVE  /\ Created(j) /\ arc[j][h] \in Nat /\ arc[j][h] >= 1
           /\ arc[j][h] = 1 => Owners(j, h) = {a} /\ ~node[j].job /\ ~Batched(j)
  <1>1. a \in Working(j)
    BY DEF Owners, Working
  <1>2. Created(j)
    BY <1>1 DEF NodeOK, Fresh
  <1>3. Owners(j, h) \in SUBSET Actors
    BY DEF Owners
  <1>4. Cardinality(Owners(j, h)) \in Nat \ {0} /\ IsFiniteSet(Owners(j, h))
    BY <1>3, ActorSets
  <1>5. arc[j][h] = Cardinality(Owners(j, h)) + Closure(j) /\ Closure(j) \in {0, 1}
    BY DEF NodeOK, ArcsCounted, Closure
  <1>6. ASSUME arc[j][h] = 1 PROVE Owners(j, h) = {a} /\ ~node[j].job /\ ~Batched(j)
    <2>1. Cardinality(Owners(j, h)) = 1 /\ Closure(j) = 0
      BY <1>4, <1>5, <1>6
    <2>2. \E x : Owners(j, h) = {x}
      BY <1>4, <2>1, FS_Singleton
    <2> QED
      BY <2>1, <2>2 DEF Closure
  <1> QED
    BY <1>2, <1>4, <1>5, <1>6

(* enqueue_job up to the enqueue, by a caller or by a callback.            *)
LEMMA PreparedNode ==
    /\ Prepared(NewNode) \in NodeType
    /\ LET n == Prepared(NewNode)
       IN  n.queued /\ n.job /\ ~n.dropped
  <1>1. /\ NewNode \in NodeType
        /\ ~NewNode.interest /\ ~NewNode.queued /\ ~NewNode.dropped /\ ~NewNode.job
    BY DEF NewNode, NodeType
  <1>2. PICK m : m = [NewNode EXCEPT !.ready = TRUE]
    OBVIOUS
  <1>3. m \in NodeType /\ m.ready /\ ~m.interest /\ ~m.queued /\ ~m.dropped /\ ~m.job
    BY <1>1, <1>2 DEF NodeType
  <1>4. PICK n : n = SetReadiness(NewNode)
    OBVIOUS
  <1>5. n \in NodeType /\ n.ready /\ ~n.interest /\ ~n.queued /\ ~n.dropped /\ ~n.job
    BY <1>2, <1>3, <1>4 DEF NodeType, SetReadiness, Queue
  <1>6. PICK o : o = [n EXCEPT !.interest = TRUE]
    OBVIOUS
  <1>7. o \in NodeType /\ o.ready /\ o.interest /\ ~o.queued /\ ~o.dropped /\ ~o.job
    BY <1>5, <1>6 DEF NodeType
  <1>8. PICK q : q = Queue(o)
    OBVIOUS
  <1>9. q \in NodeType /\ q.ready /\ q.interest /\ q.queued /\ ~q.dropped /\ ~q.job
    BY <1>7, <1>8 DEF NodeType, Queue
  <1>10. Prepared(NewNode) = [q EXCEPT !.job = n.job \/ (~n.queued /\ q.queued)]
    BY <1>4, <1>6, <1>8 DEF Prepared, Register
  <1> QED
    BY <1>5, <1>9, <1>10 DEF NodeType

LEMMA EnqueueJobKeeps ==
    ASSUME IInv, NEW a \in Actors, NEW j \in Jobs, EnqueueJob(a, j),
           UNCHANGED <<loop, entries>>, run' \in BOOLEAN, told' \in BOOLEAN,
           done' \in Seq(Jobs), idx' \in Nat \ {0}, loop = "clear" => idx' = idx
    PROVE  IInv'
  <1> USE DEF IInv
  <1>1. ~Created(j) /\ node[j] = NewNode /\ loc[a] = "idle" /\ cur[a] = NoJob
        /\ rest[a] = {} /\ Working(j) = {} /\ ref_count[j] = 0
        /\ ~Contains(queue, j) /\ ~Contains(entries, j) /\ ~Contains(enqueued, j)
    BY DEF EnqueueJob, NodeOK, Fresh, ActorOK, Created, TypeOK
  <1>2. node'[j] \in NodeType /\ node'[j].queued /\ node'[j].job /\ ~node'[j].dropped
    BY <1>1, PreparedNode DEF EnqueueJob, TypeOK
  <1>3. arc' = [arc EXCEPT ![j] = [r |-> 2, s |-> 2]]
    <2>1. node'[j].job
      BY <1>2
    <2> QED
      BY <2>1 DEF EnqueueJob, Clones
  <1>4. TypeOK'
    <2>1. [r |-> 2, s |-> 2] \in [r : Nat, s : Nat]
      OBVIOUS
    <2>2. arc' \in [Jobs -> [r : Nat, s : Nat]]
      BY <1>3, <2>1 DEF TypeOK
    <2>4. node' = [node EXCEPT ![j] = node'[j]]
      BY DEF EnqueueJob, TypeOK
    <2>5. node' \in [Jobs -> NodeType]
      BY <1>2, <2>4 DEF TypeOK
    <2>6. ref_count' \in [Jobs -> Nat]
      BY DEF EnqueueJob, TypeOK
    <2>7. /\ loc' \in [Actors -> {"idle", "enqueue", "drop", "release"}]
          /\ cur' \in [Actors -> Jobs \cup {NoJob}]
      BY DEF EnqueueJob, TypeOK
    <2> QED
      BY <2>2, <2>5, <2>6, <2>7 DEF TypeOK, EnqueueJob
  <1>5. PlacesOnce'
    BY DEF PlacesOnce, EnqueueJob
  <1>6. \A b \in Actors : ActorOK(b)'
    BY <1>1, ConstantsAssumption DEF ActorOK, EnqueueJob, TypeOK, NoJob
  <1>7. \A b \in Actors \ {a} : loc'[b] = loc[b] /\ cur'[b] = cur[b] /\ rest'[b] = rest[b]
    BY DEF EnqueueJob, TypeOK
  <1>8. cur'[a] = j /\ loc'[a] = "enqueue" /\ rest'[a] = {}
    BY <1>1 DEF EnqueueJob, TypeOK
  <1>9. ASSUME NEW k \in Jobs, k # j PROVE NodeOK(k)'
    <2>1. Batched(k)' <=> Batched(k)
      BY DEF Batched
    <2>2. /\ node'[k] = node[k] /\ arc'[k] = arc[k] /\ ref_count'[k] = ref_count[k]
          /\ UNCHANGED <<queue, enqueued>>
      BY <1>3, <1>9 DEF EnqueueJob, TypeOK
    <2>3. cur'[a] # k /\ cur[a] # k
      BY <1>1, <1>8, <1>9, ConstantsAssumption DEF NoJob
    <2>4. /\ Working(k)' = Working(k) /\ Carriers(k)' = Carriers(k)
          /\ Releasing(k)' = Releasing(k)
          /\ \A h \in Handles : Owners(k, h)' = Owners(k, h)
      BY <1>7, <2>3, ActorsApart
    <2>5. Untouched(k)
      BY <2>1, <2>2, <2>4 DEF Untouched
    <2> QED
      BY <2>5, UntouchedOK
  <1>10. NodeOK(j)'
    <2>1. \A b \in Actors \ {a} : cur'[b] # j
      BY <1>1, <1>7 DEF Working
    <2>2. /\ Working(j)' = {a} /\ Carriers(j)' = {a} /\ Releasing(j)' = {}
          /\ \A h \in Handles : Owners(j, h)' = {a}
      BY <1>8, <2>1 DEF Working, Carriers, Releasing, Owners
    <2>3. /\ arc'[j].r = 2 /\ arc'[j].s = 2 /\ ref_count'[j] = 3 /\ queue' = queue
          /\ enqueued' = enqueued
      BY <1>3 DEF EnqueueJob, TypeOK
    <2>4. Cardinality(HeldHandles(j)') = 2
      <3>1. HeldHandles(j)' = {h \in Handles : arc'[j][h] > 0}
        BY DEF HeldHandles
      <3> QED
        BY <2>3, <3>1, HeldHandlesCount
    <2>5. Cardinality({a}) = 1 /\ Cardinality({}) = 0
      BY FS_Singleton, FS_EmptySet
    <2>6. /\ node'[j].job /\ node'[j].queued /\ ~node'[j].dropped /\ Created(j)'
          /\ Closure(j)' = 1 /\ ~Polled(j)'
      BY <1>2, <2>3 DEF Created, Closure, Polled
    <2>7. Fresh(j)' /\ Alone(j)' /\ Flagged(j)'
      BY <1>1, <2>2, <2>3, <2>6 DEF Fresh, Alone, Flagged
    <2>8. ArcsCounted(j)'
      <3>1. \A h \in Handles : arc'[j][h] = 2 /\ Cardinality(Owners(j, h)') = 1
        BY <2>2, <2>3, <2>5 DEF Handles
      <3> QED
        BY <3>1, <2>6 DEF ArcsCounted
    <2>9. RefsCounted(j)'
      BY <2>2, <2>3, <2>4, <2>5, <2>6 DEF RefsCounted
    <2> QED
      BY <2>7, <2>8, <2>9 DEF NodeOK
  <1> QED
    BY <1>4, <1>5, <1>6, <1>9, <1>10

(* enqueue_with_wakeup.                                                    *)
LEMMA EnqueueNodeKeeps ==
    ASSUME IInv, NEW a \in Actors, EnqueueNode(a)
    PROVE  IInv'
  <1> USE DEF IInv
  <1>1. PICK j : j = cur[a]
    OBVIOUS
  <1>2. j \in Jobs /\ loc[a] = "enqueue" /\ rest[a] = {}
    BY <1>1 DEF EnqueueNode, ActorOK, TypeOK
  <1>3. a \in Carriers(j) /\ Working(j) = {a} /\ node[j].job
        /\ ~Contains(queue, j) /\ ~Contains(enqueued, j)
    <2>1. a \in Carriers(j)
      BY <1>1, <1>2 DEF Carriers
    <2> QED
      BY <1>2, <2>1 DEF NodeOK, Alone
  <1>4. /\ queue' = Append(queue, j) /\ enqueued' = Append(enqueued, j)
        /\ UNCHANGED <<node, ref_count, arc, cur, entries, loop, idx, run, told, done>>
        /\ loc'[a] = "drop" /\ rest'[a] = Handles /\ cur'[a] = j
        /\ \A b \in Actors \ {a} : loc'[b] = loc[b] /\ cur'[b] = cur[b] /\ rest'[b] = rest[b]
    BY <1>1 DEF EnqueueNode, nodeVars, loopVars, TypeOK, Handles
  <1>5. /\ \A k : Contains(queue', k) <=> Contains(queue, k) \/ k = j
        /\ \A k : Contains(enqueued', k) <=> Contains(enqueued, k) \/ k = j
        /\ queue' \in Seq(Jobs) /\ enqueued' \in Seq(Jobs)
        /\ Len(queue') = Len(queue) + 1 /\ queue'[Len(queue) + 1] = j
        /\ \A i \in 1..Len(queue) : queue'[i] = queue[i]
    BY <1>2, <1>4, ContainsAppend DEF TypeOK
  <1>6. TypeOK'
    <2>1. /\ loc' \in [Actors -> {"idle", "enqueue", "drop", "release"}]
          /\ rest' \in [Actors -> SUBSET {"r", "s"}]
      BY DEF EnqueueNode, TypeOK
    <2> QED
      BY <2>1, <1>4, <1>5 DEF TypeOK
  <1>7. PlacesOnce'
    <2>1. Len(queue) \in Nat /\ \A i \in 1..Len(queue) : queue[i] # j
      <3>1. queue \in Seq(Jobs)
        BY DEF TypeOK
      <3> QED
        BY <1>3, <3>1, NotContained
    <2> QED
      BY <1>4, <1>5, <2>1 DEF PlacesOnce
  <1>8. \A b \in Actors : ActorOK(b)'
    BY <1>1, <1>2, <1>4, ConstantsAssumption DEF ActorOK, NoJob
  <1>9. ASSUME NEW k \in Jobs, k # j PROVE NodeOK(k)'
    <2>1. Batched(k)' <=> Batched(k)
      BY <1>4 DEF Batched
    <2>2. Untouched(k)
      BY <2>1, <1>1, <1>4, <1>5, <1>9, ActorsApart DEF Untouched
    <2> QED
      BY <2>2, UntouchedOK
  <1>10. NodeOK(j)'
    <2>1. /\ Working(j)' = Working(j) /\ Carriers(j)' = {} /\ Releasing(j)' = Releasing(j)
          /\ \A h \in Handles : Owners(j, h)' = Owners(j, h)
      BY <1>1, <1>2, <1>3, <1>4 DEF Working, Carriers, Releasing, Owners
    <2>2. Created(j)' /\ Created(j) /\ Closure(j)' = Closure(j) /\ HeldHandles(j)' = HeldHandles(j)
      BY <1>2, <1>3, <1>4 DEF Created, Closure, HeldHandles, NodeOK, Fresh, Batched
    <2>3. ~Polled(j) /\ ~Polled(j)'
      BY <1>2, <1>3, <1>4 DEF Polled, NodeOK, Flagged
    <2>4. Fresh(j)' /\ Alone(j)'
      BY <2>1, <2>2 DEF Fresh, Alone
    <2>5. Flagged(j)'
      BY <1>2, <1>3, <1>4, <1>5, <2>2 DEF Flagged, NodeOK
    <2>6. ArcsCounted(j)'
      BY <1>2, <1>4, <2>1, <2>2 DEF ArcsCounted, NodeOK
    <2>7. RefsCounted(j)'
      BY <1>2, <1>4, <2>1, <2>2, <2>3 DEF RefsCounted, NodeOK
    <2> QED
      BY <2>4, <2>5, <2>6, <2>7 DEF NodeOK
  <1> QED
    BY <1>6, <1>7, <1>8, <1>9, <1>10

(* One Arc is dropped.                                                     *)
LEMMA DropArcKeeps ==
    ASSUME IInv, NEW a \in Actors, NEW h \in Handles, DropArc(a, h)
    PROVE  IInv'
  <1> USE DEF IInv
  <1>1. PICK j : j = cur[a]
    OBVIOUS
  <1> DEFINE last == arc[j][h] = 1
             final == last /\ h = "r"
  <1>2. j \in Jobs /\ loc[a] = "drop" /\ h \in rest[a] /\ a \in Owners(j, h)
    BY <1>1 DEF DropArc, ActorOK, TypeOK, Owners
  <1>3. /\ Created(j) /\ arc[j][h] \in Nat /\ arc[j][h] >= 1
        /\ last => Owners(j, h) = {a} /\ ~node[j].job /\ ~Batched(j)
    BY <1>2, OwnerCounts
  <1>4. /\ arc' = [arc EXCEPT ![j][h] = @ - 1]
        /\ rest' = [rest EXCEPT ![a] = @ \ {h}]
        /\ UNCHANGED <<ref_count, cur, loop, entries, idx, run, told, enqueued, done>>
        /\ loc' = IF last THEN [loc EXCEPT ![a] = "release"] ELSE loc
        /\ ~final => UNCHANGED <<node, queue>>
    BY <1>1 DEF DropArc, loopVars
  <1>5. final => /\ node' = [node EXCEPT ![j] = [@ EXCEPT !.dropped = TRUE, !.queued = TRUE]]
                 /\ queue' = IF node[j].queued THEN queue ELSE Append(queue, j)
    BY <1>1 DEF DropArc
  <1>6. /\ \A b \in Actors \ {a} : loc'[b] = loc[b] /\ cur'[b] = cur[b] /\ rest'[b] = rest[b]
        /\ cur'[a] = j /\ rest'[a] = rest[a] \ {h}
        /\ loc'[a] = IF last THEN "release" ELSE "drop"
    BY <1>1, <1>2, <1>4 DEF TypeOK
  <1>7. /\ arc' \in [Jobs -> [r : Nat, s : Nat]]
        /\ arc'[j][h] = arc[j][h] - 1
        /\ \A g \in Handles \ {h} : arc'[j][g] = arc[j][g]
        /\ \A k \in Jobs \ {j} : arc'[k] = arc[k]
    <2>1. PICK f : f = [arc[j] EXCEPT ![h] = @ - 1]
      OBVIOUS
    <2>2. arc' = [arc EXCEPT ![j] = f]
      BY <1>2, <1>4, <2>1 DEF TypeOK
    <2>3. arc[j] \in [r : Nat, s : Nat]
      BY <1>2 DEF TypeOK
    <2>4. CASE h = "r"
      <3>1. f \in [r : Nat, s : Nat] /\ f["r"] = arc[j]["r"] - 1 /\ f["s"] = arc[j]["s"]
        BY <2>1, <2>3, <2>4, <1>3
      <3> QED
        BY <3>1, <2>2, <2>4, <1>2 DEF TypeOK, Handles
    <2>5. CASE h = "s"
      <3>1. f \in [r : Nat, s : Nat] /\ f["s"] = arc[j]["s"] - 1 /\ f["r"] = arc[j]["r"]
        BY <2>1, <2>3, <2>5, <1>3
      <3> QED
        BY <3>1, <2>2, <2>5, <1>2 DEF TypeOK, Handles
    <2> QED
      BY <2>4, <2>5 DEF Handles
  <1>8. /\ node' \in [Jobs -> NodeType]
        /\ node'[j].job <=> node[j].job
        /\ node'[j].dropped <=> node[j].dropped \/ final
        /\ node'[j].queued <=> node[j].queued \/ final
        /\ \A k \in Jobs \ {j} : node'[k] = node[k]
    <2>1. CASE ~final
      BY <2>1, <1>2, <1>4 DEF TypeOK, NodeType
    <2>2. CASE final
      <3>1. PICK m : m = [node[j] EXCEPT !.dropped = TRUE, !.queued = TRUE]
        OBVIOUS
      <3>2. m \in NodeType /\ m.dropped /\ m.queued /\ m.job = node[j].job
        <4>1. node[j] \in NodeType
          BY <1>2 DEF TypeOK
        <4> QED
          BY <3>1, <4>1, NodeDropped
      <3>3. node' = [node EXCEPT ![j] = m]
        BY <2>2, <3>1, <1>2, <1>5 DEF TypeOK
      <3> QED
        BY <2>2, <3>2, <3>3, <1>2 DEF TypeOK
    <2> QED
      BY <2>1, <2>2
  <1>9. /\ queue' \in Seq(Jobs)
        /\ \A k \in Jobs : Contains(queue', k) <=> Contains(queue, k) \/ (k = j /\ final /\ ~node[j].queued)
    <2>1. CASE final /\ ~node[j].queued
      <3>1. queue' = Append(queue, j) /\ queue \in Seq(Jobs)
        BY <2>1, <1>5 DEF TypeOK
      <3> QED
        BY <2>1, <3>1, <1>2, ContainsAppend
    <2>2. CASE ~(final /\ ~node[j].queued)
      BY <2>2, <1>4, <1>5 DEF TypeOK
    <2> QED
      BY <2>1, <2>2
  <1>10. TypeOK'
    <2>1. /\ loc' \in [Actors -> {"idle", "enqueue", "drop", "release"}]
          /\ rest' \in [Actors -> SUBSET {"r", "s"}]
      BY <1>4 DEF TypeOK
    <2> QED
      BY <2>1, <1>4, <1>7, <1>8, <1>9 DEF TypeOK
  <1>11. PlacesOnce'
    <2>1. CASE final /\ ~node[j].queued
      <3>1. Len(queue) \in Nat /\ \A i \in 1..Len(queue) : queue[i] # j
        <4>1. queue \in Seq(Jobs)
          BY DEF TypeOK
        <4>2. ~Contains(queue, j)
          BY <1>2, <2>1 DEF NodeOK, Flagged
        <4> QED
          BY <4>1, <4>2, NotContained
      <3>2. /\ Len(queue') = Len(queue) + 1 /\ queue'[Len(queue) + 1] = j
            /\ \A i \in 1..Len(queue) : queue'[i] = queue[i]
        BY <1>2, <1>5, <2>1, ContainsAppend DEF TypeOK
      <3> QED
        BY <1>4, <3>1, <3>2 DEF PlacesOnce
    <2>2. CASE ~(final /\ ~node[j].queued)
      BY <2>2, <1>4, <1>5 DEF PlacesOnce
    <2> QED
      BY <2>1, <2>2
  <1>12. \A b \in Actors : ActorOK(b)'
    BY <1>1, <1>2, <1>6, ConstantsAssumption DEF ActorOK, NoJob
  <1>13. ASSUME NEW k \in Jobs, k # j PROVE NodeOK(k)'
    <2>1. Batched(k)' <=> Batched(k)
      BY <1>4 DEF Batched
    <2>2. /\ Working(k)' = Working(k) /\ Carriers(k)' = Carriers(k)
          /\ Releasing(k)' = Releasing(k)
          /\ \A g \in Handles : Owners(k, g)' = Owners(k, g)
      BY <1>1, <1>6, <1>13, ActorsApart
    <2>3. /\ node'[k] = node[k] /\ arc'[k] = arc[k] /\ ref_count'[k] = ref_count[k]
          /\ Contains(queue', k) <=> Contains(queue, k)
      BY <1>4, <1>7, <1>8, <1>9, <1>13
    <2>4. Untouched(k)
      BY <2>1, <2>2, <2>3, <1>4 DEF Untouched
    <2> QED
      BY <2>4, UntouchedOK
  <1>14. NodeOK(j)'
    <2>1. /\ Working(j)' = Working(j) /\ Carriers(j)' = Carriers(j)
          /\ \A g \in Handles \ {h} : Owners(j, g)' = Owners(j, g)
          /\ Owners(j, h)' = Owners(j, h) \ {a}
          /\ Releasing(j)' = IF last THEN Releasing(j) \cup {a} ELSE Releasing(j)
          /\ a \notin Releasing(j) /\ a \in Working(j)
      BY <1>1, <1>2, <1>6 DEF Working, Carriers, Releasing, Owners
    <2>2. Created(j)' /\ Closure(j)' = Closure(j)
      BY <1>3, <1>4, <1>8 DEF Created, Closure, Batched
    <2>3. Fresh(j)' /\ Alone(j)'
      BY <1>2, <2>1, <2>2, <1>4, <1>8, <1>9 DEF Fresh, Alone, NodeOK, Flagged
    <2>4. final => Carriers(j) = {}
      BY <1>2, <1>3 DEF NodeOK, Alone
    <2>5. Created(j) => (node[j].dropped <=> arc[j].r = 0)
      BY <1>2 DEF NodeOK, Flagged
    <2>6. node'[j].dropped <=> arc'[j].r = 0
      <3>1. CASE h = "r"
        BY <1>3, <1>7, <1>8, <2>5, <3>1
      <3>2. CASE h = "s"
        BY <1>3, <1>7, <1>8, <2>5, <3>2 DEF Handles
      <3> QED
        BY <3>1, <3>2 DEF Handles
    <2>7. Flagged(j)'
      BY <1>2, <1>3, <1>4, <1>8, <1>9, <2>1, <2>2, <2>6 DEF Flagged, NodeOK
    <2>8. ArcsCounted(j)'
      <3>1. Cardinality(Owners(j, h)') = Cardinality(Owners(j, h)) - 1
            /\ Cardinality(Owners(j, h)) \in Nat
        <4>1. Owners(j, h) \in SUBSET Actors
          BY DEF Owners
        <4> QED
          BY <1>2, <2>1, <4>1, ActorSets, FS_RemoveElement
      <3>2. \A g \in Handles : arc[j][g] = Cardinality(Owners(j, g)) + Closure(j)
        BY <1>2 DEF NodeOK, ArcsCounted
      <3>3. Closure(j) \in {0, 1}
        BY DEF Closure
      <3>4. \A g \in Handles : arc'[j][g] = Cardinality(Owners(j, g)') + Closure(j)
        BY <3>1, <3>2, <3>3, <1>7, <2>1
      <3> QED
        BY <3>4, <2>2 DEF ArcsCounted
    <2>9. RefsCounted(j)'
      <3>1. ref_count[j] = Cardinality(HeldHandles(j)) + Cardinality(Releasing(j))
                           + IF Polled(j) THEN 0 ELSE 1
        BY <1>2, <1>3 DEF NodeOK, RefsCounted
      <3>2. /\ Cardinality(Releasing(j)) \in Nat
            /\ Cardinality(Releasing(j)') = Cardinality(Releasing(j)) + IF last THEN 1 ELSE 0
        <4>1. Releasing(j) \in SUBSET Actors
          BY DEF Releasing
        <4> QED
          BY <2>1, <4>1, ActorSets, FS_AddElement
      <3>3. Cardinality(HeldHandles(j)') = Cardinality(HeldHandles(j)) - IF last THEN 1 ELSE 0
        <4>1. HeldHandles(j)' = {g \in Handles : arc'[j][g] > 0}
              /\ HeldHandles(j) = {g \in Handles : arc[j][g] > 0}
          BY DEF HeldHandles
        <4>2. /\ Cardinality(HeldHandles(j)') = (IF arc'[j]["r"] > 0 THEN 1 ELSE 0) + (IF arc'[j]["s"] > 0 THEN 1 ELSE 0)
              /\ Cardinality(HeldHandles(j)) = (IF arc[j]["r"] > 0 THEN 1 ELSE 0) + (IF arc[j]["s"] > 0 THEN 1 ELSE 0)
          BY <4>1, HeldHandlesCount
        <4>3. CASE h = "r"
          BY <4>2, <4>3, <1>3, <1>7 DEF Handles
        <4>4. CASE h = "s"
          BY <4>2, <4>4, <1>3, <1>7 DEF Handles
        <4> QED
          BY <4>3, <4>4 DEF Handles
      <3>4. Polled(j)' <=> Polled(j)
        BY <1>2, <1>3, <1>8, <1>9, <2>4, <2>5 DEF Polled, NodeOK, Flagged
      <3>5. Cardinality(HeldHandles(j)) \in Nat
        <4>1. HeldHandles(j) = {g \in Handles : arc[j][g] > 0}
          BY DEF HeldHandles
        <4> QED
          BY <4>1, HeldHandlesCount
      <3>6. ref_count'[j] = Cardinality(HeldHandles(j)') + Cardinality(Releasing(j)')
                           + IF Polled(j)' THEN 0 ELSE 1
        BY <1>4, <3>1, <3>2, <3>3, <3>4, <3>5
      <3> QED
        BY <3>6 DEF RefsCounted
    <2> QED
      BY <2>3, <2>7, <2>8, <2>9 DEF NodeOK
  <1> QED
    BY <1>10, <1>11, <1>12, <1>13, <1>14

(* release_node.                                                           *)
LEMMA ReleaseNodeKeeps ==
    ASSUME IInv, NEW a \in Actors, ReleaseNode(a)
    PROVE  IInv'
  <1> USE DEF IInv
  <1>1. PICK j : j = cur[a]
    OBVIOUS
  <1>2. j \in Jobs /\ loc[a] = "release" /\ a \in Releasing(j) /\ a \in Working(j)
    BY <1>1 DEF ReleaseNode, ActorOK, TypeOK, Releasing, Working
  <1>3. /\ ref_count' = [ref_count EXCEPT ![j] = @ - 1]
        /\ UNCHANGED <<node, arc, queue, cur, rest, loop, entries, idx, run, told, enqueued, done>>
        /\ loc'[a] = "drop" /\ cur'[a] = j /\ rest'[a] = rest[a]
        /\ \A b \in Actors \ {a} : loc'[b] = loc[b] /\ cur'[b] = cur[b] /\ rest'[b] = rest[b]
    BY <1>1 DEF ReleaseNode, loopVars, TypeOK
  <1>4. Created(j)
    BY <1>2 DEF NodeOK, Fresh
  <1>5. ref_count[j] = Cardinality(HeldHandles(j)) + Cardinality(Releasing(j))
                       + IF Polled(j) THEN 0 ELSE 1
    BY <1>2, <1>4 DEF NodeOK, RefsCounted
  <1>6. /\ Cardinality(Releasing(j)) \in Nat \ {0}
        /\ Releasing(j)' = Releasing(j) \ {a}
        /\ Cardinality(Releasing(j)') = Cardinality(Releasing(j)) - 1
    <2>1. Releasing(j) \in SUBSET Actors
      BY DEF Releasing
    <2>2. Releasing(j)' = Releasing(j) \ {a}
      BY <1>1, <1>2, <1>3 DEF Releasing
    <2>3. Cardinality(Releasing(j)) \in Nat /\ Cardinality(Releasing(j)) # 0
          /\ IsFiniteSet(Releasing(j))
      BY <1>2, <2>1, ActorSets
    <2> QED
      BY <1>2, <2>2, <2>3, FS_RemoveElement
  <1>7. Cardinality(HeldHandles(j)) \in Nat
    <2>1. HeldHandles(j) = {g \in Handles : arc[j][g] > 0}
      BY DEF HeldHandles
    <2> QED
      BY <2>1, HeldHandlesCount
  <1>8. ref_count'[j] = ref_count[j] - 1 /\ ref_count'[j] \in Nat
        /\ (~Polled(j) => ref_count'[j] > 0)
        /\ \A k \in Jobs \ {j} : ref_count'[k] = ref_count[k]
    <2>1. /\ ref_count'[j] = ref_count[j] - 1 /\ ref_count[j] \in Nat
          /\ \A k \in Jobs \ {j} : ref_count'[k] = ref_count[k]
      BY <1>2, <1>3 DEF TypeOK
    <2>2. ref_count[j] > 0 /\ (~Polled(j) => ref_count[j] > 1)
      BY <1>5, <1>6, <1>7
    <2> QED
      BY <2>1, <2>2
  <1>9. TypeOK'
    <2>1. loc' \in [Actors -> {"idle", "enqueue", "drop", "release"}]
      BY DEF ReleaseNode, TypeOK
    <2>2. ref_count' \in [Jobs -> Nat]
      BY <1>2, <1>3, <1>8 DEF TypeOK
    <2> QED
      BY <1>3, <2>1, <2>2 DEF TypeOK
  <1>10. PlacesOnce' /\ \A b \in Actors : ActorOK(b)'
    <2>1. PlacesOnce'
      BY <1>3 DEF PlacesOnce
    <2>2. \A b \in Actors : ActorOK(b)'
      BY <1>1, <1>2, <1>3, ConstantsAssumption DEF ActorOK, NoJob
    <2> QED
      BY <2>1, <2>2
  <1>11. ASSUME NEW k \in Jobs, k # j PROVE NodeOK(k)'
    <2>1. Batched(k)' <=> Batched(k)
      BY <1>3 DEF Batched
    <2>2. /\ Working(k)' = Working(k) /\ Carriers(k)' = Carriers(k)
          /\ Releasing(k)' = Releasing(k)
          /\ \A g \in Handles : Owners(k, g)' = Owners(k, g)
      BY <1>1, <1>3, <1>11, ActorsApart
    <2>3. Untouched(k)
      BY <2>1, <2>2, <1>3, <1>8, <1>11 DEF Untouched
    <2> QED
      BY <2>3, UntouchedOK
  <1>12. NodeOK(j)'
    <2>1. /\ Working(j)' = Working(j) /\ Carriers(j)' = Carriers(j)
          /\ \A g \in Handles : Owners(j, g)' = Owners(j, g)
      BY <1>1, <1>2, <1>3 DEF Working, Carriers, Owners
    <2>2. Closure(j)' = Closure(j) /\ HeldHandles(j)' = HeldHandles(j) /\ (Polled(j)' <=> Polled(j))
      BY <1>3 DEF Closure, Batched, HeldHandles, Polled
    <2>3. Created(j)'
      BY <1>3, <1>8 DEF Created, Polled
    <2>4. Fresh(j)' /\ Alone(j)' /\ Flagged(j)'
      BY <1>2, <1>3, <1>4, <2>1, <2>3 DEF Fresh, Alone, Flagged, NodeOK
    <2>5. ArcsCounted(j)'
      BY <1>2, <1>3, <2>1, <2>2 DEF ArcsCounted, NodeOK
    <2>6. RefsCounted(j)'
      BY <1>5, <1>6, <1>7, <1>8, <2>2 DEF RefsCounted
    <2> QED
      BY <2>4, <2>5, <2>6 DEF NodeOK
  <1> QED
    BY <1>9, <1>10, <1>11, <1>12

(* An actor that has dropped its handles goes on.                          *)
LEMMA DropsDoneKeeps ==
    ASSUME IInv, NEW a \in Actors, DropsDone(a)
    PROVE  IInv'
  <1> USE DEF IInv
  <1>1. PICK j : j = cur[a]
    OBVIOUS
  <1>2. j \in Jobs /\ loc[a] = "drop" /\ rest[a] = {}
    BY <1>1 DEF DropsDone, ActorOK, TypeOK
  <1>3. /\ UNCHANGED <<node, arc, ref_count, queue, rest, loop, entries, idx, run, told, enqueued, done>>
        /\ loc'[a] = "idle" /\ cur'[a] = NoJob /\ rest'[a] = rest[a]
        /\ \A b \in Actors \ {a} : loc'[b] = loc[b] /\ cur'[b] = cur[b] /\ rest'[b] = rest[b]
    BY <1>1 DEF DropsDone, nodeVars, loopVars, TypeOK
  <1>4. TypeOK'
    <2>1. /\ loc' \in [Actors -> {"idle", "enqueue", "drop", "release"}]
          /\ cur' \in [Actors -> Jobs \cup {NoJob}]
      BY DEF DropsDone, TypeOK
    <2> QED
      BY <1>3, <2>1 DEF TypeOK
  <1>5. PlacesOnce'
    BY <1>3 DEF PlacesOnce
  <1>6. \A b \in Actors : ActorOK(b)'
    BY <1>1, <1>2, <1>3 DEF ActorOK
  <1>7. ASSUME NEW k \in Jobs, k # j PROVE NodeOK(k)'
    <2>1. Batched(k)' <=> Batched(k)
      BY <1>3 DEF Batched
    <2>0. NoJob # k
      BY ConstantsAssumption DEF NoJob
    <2>2. /\ Working(k)' = Working(k) /\ Carriers(k)' = Carriers(k)
          /\ Releasing(k)' = Releasing(k)
          /\ \A g \in Handles : Owners(k, g)' = Owners(k, g)
      BY <1>1, <1>3, <1>7, <2>0, ActorsApart
    <2>3. Untouched(k)
      BY <2>1, <2>2, <1>3 DEF Untouched
    <2> QED
      BY <2>3, UntouchedOK
  <1>8. NodeOK(j)'
    <2>0. NoJob # j
      BY <1>2, ConstantsAssumption DEF NoJob
    <2>1. /\ Working(j)' = Working(j) \ {a} /\ Carriers(j)' = Carriers(j)
          /\ Releasing(j)' = Releasing(j) /\ a \in Working(j)
          /\ \A g \in Handles : Owners(j, g)' = Owners(j, g)
      BY <1>1, <1>2, <1>3, <2>0 DEF Working, Carriers, Releasing, Owners
    <2>2. Closure(j)' = Closure(j) /\ HeldHandles(j)' = HeldHandles(j) /\ (Polled(j)' <=> Polled(j))
          /\ (Created(j)' <=> Created(j)) /\ Created(j)
      BY <1>2, <1>3, <2>1 DEF Closure, Batched, HeldHandles, Polled, Created, NodeOK, Fresh
    <2>3. \A b \in Carriers(j) : Working(j) = {b} /\ b # a
      BY <1>2 DEF Carriers, NodeOK, Alone
    <2>4. Fresh(j)' /\ Alone(j)' /\ Flagged(j)'
      BY <1>2, <1>3, <2>1, <2>2, <2>3 DEF Fresh, Alone, Flagged, NodeOK
    <2>5. ArcsCounted(j)' /\ RefsCounted(j)'
      BY <1>2, <1>3, <2>1, <2>2 DEF ArcsCounted, RefsCounted, NodeOK
    <2> QED
      BY <2>4, <2>5 DEF NodeOK
  <1> QED
    BY <1>4, <1>5, <1>6, <1>7, <1>8

(* The steps of the loop that leave queue, nodes and actors alone.         *)
LEMMA LoopMovesKeep ==
    ASSUME IInv, UNCHANGED <<nodeVars, queue, actorVars, enqueued>>,
           run' \in BOOLEAN, told' \in BOOLEAN, done' \in Seq(Jobs), idx' \in Nat \ {0},
           loop' \in {"built", "check", "poll", "drain", "process", "clear", "ended"},
           entries' \in Seq(Jobs \cup {Io}),
           \A j \in Jobs : /\ Contains(entries', j) => Contains(entries, j)
                           /\ Batched(j)' <=> Batched(j),
           loop' \in {"built", "check", "poll", "ended"} => entries' = <<>>,
           \A i, k \in 1..Len(entries') : entries'[i] = entries'[k] /\ entries'[i] # Io => i = k
    PROVE  IInv'
  <1> USE DEF IInv
  <1>1. UNCHANGED <<node, arc, ref_count, queue, loc, cur, rest, enqueued>>
    BY DEF nodeVars, actorVars
  <1>2. TypeOK'
    BY <1>1 DEF TypeOK
  <1>3. PlacesOnce'
    BY <1>1 DEF PlacesOnce
  <1>4. \A b \in Actors : ActorOK(b)'
    BY <1>1 DEF ActorOK
  <1>5. ASSUME NEW j \in Jobs PROVE NodeOK(j)'
    <2>1. /\ Working(j)' = Working(j) /\ Carriers(j)' = Carriers(j)
          /\ Releasing(j)' = Releasing(j)
          /\ \A h \in Handles : Owners(j, h)' = Owners(j, h)
      BY ActorsStand
    <2>2. Closure(j)' = Closure(j) /\ HeldHandles(j)' = HeldHandles(j) /\ (Polled(j)' <=> Polled(j))
          /\ (Created(j)' <=> Created(j))
      BY <1>1 DEF Closure, HeldHandles, Polled, Created
    <2>3. Fresh(j)' /\ Alone(j)' /\ Flagged(j)'
      BY <1>1, <2>1, <2>2 DEF Fresh, Alone, Flagged, NodeOK
    <2>4. ArcsCounted(j)' /\ RefsCounted(j)'
      BY <1>1, <2>1, <2>2 DEF ArcsCounted, RefsCounted, NodeOK
    <2> QED
      BY <2>3, <2>4 DEF NodeOK
  <1> QED
    BY <1>2, <1>3, <1>4, <1>5

(* A poll takes a node: a dropped one loses the queue's reference, another *)
(* one hands its closure over to the batch.                                *)
LEMMA TakeNodeKeeps ==
    ASSUME IInv, TakeNode
    PROVE  IInv'
  <1> USE DEF IInv
  <1>1. PICK j : j = Head(queue)
    OBVIOUS
  <1>2. /\ loop = "drain" /\ queue # <<>> /\ queue' = Tail(queue)
        /\ UNCHANGED <<arc, loc, cur, rest, run, told, loop, idx, enqueued, done>>
        /\ IF node[j].dropped
           THEN /\ ref_count' = [ref_count EXCEPT ![j] = @ - 1]
                /\ UNCHANGED <<node, entries>>
           ELSE /\ node' = [node EXCEPT ![j] = [@ EXCEPT !.queued = FALSE, !.job = FALSE]]
                /\ entries' = Append(entries, IF node[j].job THEN j ELSE Io)
                /\ UNCHANGED ref_count
    BY <1>1 DEF TakeNode, At, actorVars, JobLeft
  <1>3. /\ j \in Jobs /\ Contains(queue, j) /\ ~Contains(queue', j) /\ queue' \in Seq(Jobs)
        /\ Len(queue) > 0 /\ Len(queue') = Len(queue) - 1 /\ Len(queue) \in Nat
        /\ \A i \in 1..Len(queue) - 1 : queue'[i] = queue[i + 1]
        /\ \A k : k # j => (Contains(queue', k) <=> Contains(queue, k))
    <2>1. queue \in Seq(Jobs) /\ queue # <<>> /\ queue' = Tail(queue) /\ Len(queue) \in Nat
      BY <1>2 DEF TypeOK
    <2>2. \A i, k \in 1..Len(queue) : queue[i] = queue[k] => i = k
      BY DEF PlacesOnce
    <2> QED
      BY <1>1, <2>1, <2>2, ContainsTail
  <1>4. /\ Created(j) /\ node[j].queued
        /\ Carriers(j) = {}
    BY <1>3 DEF NodeOK, Fresh, Flagged, Alone
  <1>5. ASSUME NEW k PROVE
           /\ Working(k)' = Working(k) /\ Carriers(k)' = Carriers(k)
           /\ Releasing(k)' = Releasing(k)
           /\ \A h \in Handles : Owners(k, h)' = Owners(k, h)
    BY <1>2, ActorsStand DEF actorVars
  <1>6. \A i, k \in 1..Len(queue') : queue'[i] = queue'[k] => i = k
    <2>1. \A i \in 1..Len(queue') : i + 1 \in 1..Len(queue) /\ queue'[i] = queue[i + 1]
      BY <1>3
    <2>2. \A i, k \in 1..Len(queue') : queue[i + 1] = queue[k + 1] => i + 1 = k + 1
      BY <2>1 DEF PlacesOnce
    <2> QED
      BY <2>1, <2>2, <1>3
  <1>7. \A b \in Actors : ActorOK(b)'
    BY <1>2 DEF ActorOK
  <1>8. ref_count[j] = Cardinality(HeldHandles(j)) + Cardinality(Releasing(j))
                       + IF Polled(j) THEN 0 ELSE 1
    BY <1>3, <1>4 DEF NodeOK, RefsCounted
  <1>9. /\ Cardinality(HeldHandles(j)) \in Nat /\ HeldHandles(j)' = HeldHandles(j)
        /\ Cardinality(Releasing(j)) \in Nat
    <2>1. HeldHandles(j) = {g \in Handles : arc[j][g] > 0} /\ HeldHandles(j)' = HeldHandles(j)
      BY <1>2 DEF HeldHandles
    <2>2. Cardinality(HeldHandles(j)) \in Nat
      BY <2>1, HeldHandlesCount
    <2>3. Releasing(j) \in SUBSET Actors
      BY DEF Releasing
    <2> QED
      BY <2>1, <2>2, <2>3, ActorSets
  <1>10. CASE node[j].dropped
    <2>1. UNCHANGED <<node, entries>> /\ ref_count' = [ref_count EXCEPT ![j] = @ - 1]
      BY <1>2, <1>10
    <2>2. Polled(j)' /\ ~Polled(j) /\ ref_count[j] \in Nat /\ ref_count[j] > 0
      BY <1>3, <1>8, <1>9, <1>10, <2>1 DEF Polled, TypeOK
    <2>3. ref_count' \in [Jobs -> Nat] /\ ref_count'[j] = ref_count[j] - 1
          /\ \A k \in Jobs \ {j} : ref_count'[k] = ref_count[k]
      <3>1. ref_count \in [Jobs -> Nat] /\ ref_count[j] - 1 \in Nat
        BY <2>2 DEF TypeOK
      <3> QED
        BY <1>3, <2>1, <3>1
    <2>4. TypeOK'
      BY <1>2, <1>3, <2>1, <2>3 DEF TypeOK
    <2>5. PlacesOnce'
      BY <1>2, <1>6, <2>1 DEF PlacesOnce
    <2>6. ASSUME NEW k \in Jobs, k # j PROVE NodeOK(k)'
      <3>1. Batched(k)' <=> Batched(k)
        BY <1>2, <2>1 DEF Batched
      <3>2. Untouched(k)
        BY <1>2, <1>3, <1>5, <2>1, <2>3, <2>6, <3>1 DEF Untouched
      <3> QED
        BY <3>2, UntouchedOK
    <2>7. NodeOK(j)'
      <3>1. Created(j)' /\ Closure(j)' = Closure(j)
        BY <1>2, <1>10, <2>1 DEF Created, Closure, Batched
      <3>2. Fresh(j)' /\ Alone(j)'
        BY <1>4, <1>5, <3>1 DEF Fresh, Alone
      <3>3. Flagged(j)'
        BY <1>2, <1>3, <1>4, <1>10, <2>1, <3>1 DEF Flagged, NodeOK
      <3>4. ArcsCounted(j)'
        <4>1. ArcsCounted(j) /\ arc' = arc
          BY <1>2, <1>3 DEF NodeOK
        <4> QED
          BY <1>5, <3>1, <4>1 DEF ArcsCounted
      <3>5. RefsCounted(j)'
        BY <1>5, <1>8, <1>9, <2>2, <2>3 DEF RefsCounted
      <3> QED
        BY <3>2, <3>3, <3>4, <3>5 DEF NodeOK
    <2> QED
      BY <1>7, <2>4, <2>5, <2>6, <2>7
  <1>11. CASE ~node[j].dropped
    <2>1. PICK e : e = IF node[j].job THEN j ELSE Io
      OBVIOUS
    <2>2. PICK m : m = [node[j] EXCEPT !.queued = FALSE, !.job = FALSE]
      OBVIOUS
    <2>3. /\ node' = [node EXCEPT ![j] = m] /\ entries' = Append(entries, e)
          /\ ref_count' = ref_count
      BY <1>2, <1>3, <1>11, <2>1, <2>2 DEF TypeOK
    <2>4. m \in NodeType /\ ~m.queued /\ ~m.job /\ ~m.dropped
      <3>1. node[j] \in NodeType
        BY <1>3 DEF TypeOK
      <3> QED
        BY <1>11, <2>2, <3>1, NodeTaken
    <2>5. /\ node' \in [Jobs -> NodeType] /\ node'[j] = m
          /\ \A k \in Jobs \ {j} : node'[k] = node[k]
      BY <1>3, <2>3, <2>4 DEF TypeOK
    <2>6. e \in Jobs \cup {Io} /\ (e # Io => e = j /\ node[j].job) /\ (node[j].job => e = j)
      BY <1>3, <2>1
    <2>7. /\ entries' \in Seq(Jobs \cup {Io}) /\ Len(entries') = Len(entries) + 1
          /\ \A i \in 1..Len(entries) : entries'[i] = entries[i]
          /\ entries'[Len(entries) + 1] = e /\ Len(entries) \in Nat
          /\ \A k : Contains(entries', k) <=> Contains(entries, k) \/ k = e
      <3>1. entries \in Seq(Jobs \cup {Io}) /\ Len(entries) \in Nat
        BY DEF TypeOK
      <3> QED
        BY <2>3, <2>6, <3>1, ContainsAppend
    <2>8. \A k \in Jobs : (Batched(k)' <=> Contains(entries', k)) /\ (Batched(k) <=> Contains(entries, k))
      BY <1>2 DEF Batched, Contains
    <2>9. TypeOK'
      BY <1>2, <1>3, <2>3, <2>5, <2>7 DEF TypeOK
    <2>10. PlacesOnce'
      <3>1. e # Io => \A i \in 1..Len(entries) : entries[i] # e
        BY <1>3, <2>6 DEF NodeOK, Flagged, Contains
      <3>2. \A i, k \in 1..Len(entries') : entries'[i] = entries'[k] /\ entries'[i] # Io => i = k
        BY <3>1, <2>7 DEF PlacesOnce
      <3> QED
        BY <1>2, <1>6, <3>2 DEF PlacesOnce
    <2>11. ASSUME NEW k \in Jobs, k # j PROVE NodeOK(k)'
      <3>1. k # e
        BY <2>6, <2>11, ConstantsAssumption
      <3>2. (Contains(entries', k) <=> Contains(entries, k)) /\ (Batched(k)' <=> Batched(k))
        BY <2>7, <2>8, <3>1
      <3>3. node'[k] = node[k] /\ arc'[k] = arc[k] /\ ref_count'[k] = ref_count[k]
        BY <1>2, <2>3, <2>5, <2>11
      <3>4. Untouched(k)
        BY <1>2, <1>3, <1>5, <2>11, <3>2, <3>3 DEF Untouched
      <3> QED
        BY <3>4, UntouchedOK
    <2>12. NodeOK(j)'
      <3>0. j # Io
        BY <1>3, ConstantsAssumption
      <3>1. Created(j)' /\ ~Polled(j) /\ ~Polled(j)'
        BY <1>4, <1>11, <2>3, <2>4, <2>5 DEF Created, Polled
      <3>2. Closure(j)' = Closure(j)
        BY <1>3, <2>4, <2>5, <2>6, <2>7, <2>8, <3>0 DEF Closure
      <3>3. Fresh(j)' /\ Alone(j)'
        BY <1>4, <1>5, <3>1 DEF Fresh, Alone
      <3>4. Flagged(j)'
        BY <1>2, <1>3, <1>4, <1>11, <2>4, <2>5, <3>1 DEF Flagged, NodeOK
      <3>5. ArcsCounted(j)'
        <4>1. ArcsCounted(j) /\ arc' = arc
          BY <1>2, <1>3 DEF NodeOK
        <4> QED
          BY <1>5, <3>2, <4>1 DEF ArcsCounted
      <3>6. RefsCounted(j)'
        BY <1>5, <1>8, <1>9, <2>3, <3>1 DEF RefsCounted
      <3> QED
        BY <3>3, <3>4, <3>5, <3>6 DEF NodeOK
    <2> QED
      BY <1>7, <2>9, <2>10, <2>11, <2>12
  <1> QED
    BY <1>10, <1>11

(* The closure of an entry is dropped: the loop's thread owns its clones.  *)
LEMMA ClearEntryKeeps ==
    ASSUME IInv, ClearEntry
    PROVE  IInv'
  <1> USE DEF IInv
  <1>1. PICK j : j = entries[idx]
    OBVIOUS
  <1>2. /\ loop = "clear" /\ loc[LoopThread] = "idle" /\ idx \in 1..Len(entries)
        /\ idx' = idx + 1 /\ j \in Jobs \cup {Io} /\ idx \in Nat
        /\ UNCHANGED <<node, ref_count, arc, queue, run, told, loop, entries, enqueued, done>>
    BY <1>1 DEF ClearEntry, At, nodeVars, TypeOK
  <1>3. ASSUME NEW k \in Jobs, k # j PROVE Batched(k)' <=> Batched(k)
    BY <1>1, <1>2, <1>3 DEF Batched
  <1>4. LoopThread \in Actors
    BY DEF Actors
  <1>5. CASE j = Io
    <2>1. UNCHANGED <<actorVars, nodeVars>>
      BY <1>1, <1>2, <1>5 DEF ClearEntry, nodeVars
    <2>2. \A k \in Jobs : Batched(k)' <=> Batched(k)
      BY <1>3, <1>5, ConstantsAssumption
    <2>3. /\ run' \in BOOLEAN /\ told' \in BOOLEAN /\ done' \in Seq(Jobs) /\ idx' \in Nat \ {0}
          /\ loop' \in {"built", "check", "poll", "drain", "process", "clear", "ended"}
          /\ entries' \in Seq(Jobs \cup {Io})
      BY <1>2 DEF TypeOK
    <2>4. \A i, k \in 1..Len(entries') : entries'[i] = entries'[k] /\ entries'[i] # Io => i = k
      BY <1>2 DEF PlacesOnce
    <2>5. UNCHANGED <<nodeVars, queue, actorVars, enqueued>>
      BY <1>2, <2>1
    <2>6. \A k \in Jobs : Contains(entries', k) => Contains(entries, k)
      BY <1>2
    <2>7. loop' \notin {"built", "check", "poll", "ended"}
      BY <1>2
    <2> QED
      BY <2>2, <2>3, <2>4, <2>5, <2>6, <2>7, LoopMovesKeep
  <1>6. CASE j # Io
    <2>1. j \in Jobs /\ Contains(entries, j) /\ ~node[j].job
      BY <1>1, <1>2, <1>6 DEF Contains, NodeOK, Flagged
    <2>2. /\ loc' = [loc EXCEPT ![LoopThread] = "drop"]
          /\ cur' = [cur EXCEPT ![LoopThread] = j]
          /\ rest' = [rest EXCEPT ![LoopThread] = Handles]
      BY <1>1, <1>6, <2>1 DEF ClearEntry, Handles
    <2>3. /\ \A b \in Actors \ {LoopThread} : loc'[b] = loc[b] /\ cur'[b] = cur[b] /\ rest'[b] = rest[b]
          /\ cur'[LoopThread] = j /\ loc'[LoopThread] = "drop" /\ rest'[LoopThread] = Handles
          /\ cur[LoopThread] = NoJob /\ rest[LoopThread] = {}
      BY <1>2, <1>4, <2>2 DEF TypeOK, ActorOK
    <2>4. TypeOK'
      <3>1. /\ loc' \in [Actors -> {"idle", "enqueue", "drop", "release"}]
            /\ cur' \in [Actors -> Jobs \cup {NoJob}] /\ rest' \in [Actors -> SUBSET {"r", "s"}]
        BY <2>1, <2>2 DEF TypeOK, Handles
      <3> QED
        BY <1>2, <3>1 DEF TypeOK
    <2>5. PlacesOnce'
      BY <1>2 DEF PlacesOnce
    <2>6. \A b \in Actors : ActorOK(b)'
      BY <1>4, <2>1, <2>3, ConstantsAssumption DEF ActorOK, NoJob
    <2>7. ASSUME NEW k \in Jobs, k # j PROVE NodeOK(k)'
      <3>0. NoJob # k
        BY ConstantsAssumption DEF NoJob
      <3>1. Batched(k)' <=> Batched(k)
        BY <1>3, <2>7
      <3>2. /\ Working(k)' = Working(k) /\ Carriers(k)' = Carriers(k)
            /\ Releasing(k)' = Releasing(k)
            /\ \A g \in Handles : Owners(k, g)' = Owners(k, g)
        BY <1>4, <2>3, <2>7, <3>0, ActorsApart
      <3>3. Untouched(k)
        BY <1>2, <3>1, <3>2 DEF Untouched
      <3> QED
        BY <3>3, UntouchedOK
    <2>8. NodeOK(j)'
      <3>0. NoJob # j
        BY <2>1, ConstantsAssumption DEF NoJob
      <3>1. Batched(j) /\ ~Batched(j)'
        <4>1. \A i \in 1..Len(entries) : entries[i] = j => i = idx
          BY <1>1, <1>2, <1>6 DEF PlacesOnce
        <4> QED
          BY <1>1, <1>2, <4>1 DEF Batched
      <3>2. Closure(j) = 1 /\ Closure(j)' = 0 /\ HeldHandles(j)' = HeldHandles(j)
            /\ (Polled(j)' <=> Polled(j)) /\ (Created(j)' <=> Created(j)) /\ Created(j)
        BY <1>2, <2>1, <3>1 DEF Closure, HeldHandles, Polled, Created, NodeOK, Fresh
      <3>3. Carriers(j) = {}
        BY <2>1 DEF NodeOK, Alone, Flagged
      <3>4. /\ Carriers(j)' = {} /\ Releasing(j)' = Releasing(j)
            /\ \A g \in Handles : Owners(j, g)' = Owners(j, g) \cup {LoopThread}
                                  /\ LoopThread \notin Owners(j, g)
        BY <1>4, <2>3, <3>0, <3>3 DEF Carriers, Releasing, Owners
      <3>5. Fresh(j)' /\ Alone(j)' /\ Flagged(j)'
        BY <1>2, <2>1, <3>2, <3>3, <3>4 DEF Fresh, Alone, Flagged, NodeOK
      <3>6. RefsCounted(j)'
        BY <1>2, <2>1, <3>2, <3>4 DEF RefsCounted, NodeOK
      <3>7. ASSUME NEW g \in Handles PROVE arc'[j][g] = Cardinality(Owners(j, g)') + 0
        <4>1. Owners(j, g) \in SUBSET Actors
          BY DEF Owners
        <4>2. Cardinality(Owners(j, g)') = Cardinality(Owners(j, g)) + 1
              /\ Cardinality(Owners(j, g)) \in Nat
          BY <4>1, <3>4, ActorSets, FS_AddElement
        <4>3. arc[j][g] = Cardinality(Owners(j, g)) + 1
          BY <2>1, <3>2 DEF NodeOK, ArcsCounted
        <4> QED
          BY <1>2, <4>2, <4>3
      <3>8. ArcsCounted(j)'
        BY <3>2, <3>7 DEF ArcsCounted
      <3> QED
        BY <3>5, <3>6, <3>8 DEF NodeOK
    <2> QED
      BY <2>4, <2>5, <2>6, <2>7, <2>8
  <1> QED
    BY <1>5, <1>6

(* Every step keeps the account of the nodes.                              *)
LEMMA NextKeepsIInv == IInv /\ [Next]_vars => IInv'
  <1> SUFFICES ASSUME IInv, [Next]_vars PROVE IInv'
    OBVIOUS
  <1>0. /\ TypeOK /\ PlacesOnce /\ \A j \in Jobs : NodeOK(j)
        /\ LoopThread \in Actors /\ Callers \subseteq Actors
    BY DEF IInv, Actors
  <1>1. ASSUME NEW a \in Actors, ActorStep(a) PROVE IInv'
    BY <1>1, EnqueueNodeKeeps, ReleaseNodeKeeps, DropsDoneKeeps, DropArcKeeps DEF ActorStep, Handles
  <1>2. CASE UNCHANGED vars
    <2>1. UNCHANGED <<nodeVars, queue, actorVars, enqueued, run, told, loop, entries, idx, done>>
      BY <1>2 DEF vars, loopVars
    <2>2. \A j \in Jobs : Batched(j)' <=> Batched(j)
      BY <2>1 DEF Batched
    <2> QED
      BY <1>0, <2>1, <2>2, LoopMovesKeep DEF TypeOK, PlacesOnce
  <1>3. CASE StartRun \/ CheckRun \/ PollFails
    <2>1. /\ UNCHANGED <<nodeVars, queue, actorVars, enqueued, told, entries, idx, done>>
          /\ loop \in {"built", "check", "poll"} /\ loop' \in {"check", "poll", "ended"}
      BY <1>3 DEF StartRun, CheckRun, PollFails, At
    <2>2. run' \in BOOLEAN
      BY <1>0, <1>3 DEF StartRun, CheckRun, PollFails, TypeOK
    <2>3. entries = <<>>
      BY <1>0, <2>1 DEF PlacesOnce
    <2>4. \A j \in Jobs : ~Batched(j)' /\ ~Batched(j)
      BY <2>1, <2>3 DEF Batched
    <2> QED
      BY <1>0, <2>1, <2>2, <2>3, <2>4, LoopMovesKeep DEF TypeOK, PlacesOnce
  <1>4. ASSUME NEW n \in 0..Capacity, Select(n) PROVE IInv'
    <2>1. /\ UNCHANGED <<nodeVars, queue, actorVars, enqueued, run, told, idx, done>>
          /\ loop = "poll" /\ loop' = "drain" /\ entries' = [i \in 1..n |-> Io]
      BY <1>4 DEF Select, At
    <2>2. n \in Nat
      BY ConstantsAssumption
    <2>3. entries' \in Seq(Jobs \cup {Io}) /\ Len(entries') = n /\ \A i \in 1..n : entries'[i] = Io
      BY <2>1, <2>2
    <2>4. entries = <<>>
      BY <1>0, <2>1 DEF PlacesOnce
    <2>5. \A j \in Jobs : ~Contains(entries', j) /\ ~Batched(j)' /\ ~Batched(j)
      BY <2>3, <2>4, ConstantsAssumption DEF Batched, Contains
    <2> QED
      BY <1>0, <2>1, <2>3, <2>5, LoopMovesKeep DEF TypeOK
  <1>5. CASE DrainEnds \/ ProcessEnds
    <2>1. /\ UNCHANGED <<nodeVars, queue, actorVars, enqueued, run, told, entries, done>>
          /\ idx' = 1 /\ loop # "clear" /\ loop' \in {"process", "clear"}
      BY <1>5 DEF DrainEnds, ProcessEnds, At
    <2>2. \A j \in Jobs : Batched(j)' <=> Batched(j)
      BY <2>1 DEF Batched
    <2> QED
      BY <1>0, <2>1, <2>2, LoopMovesKeep DEF TypeOK, PlacesOnce
  <1>6. CASE ClearEnds
    <2>1. /\ UNCHANGED <<nodeVars, queue, actorVars, enqueued, run, told, done>>
          /\ idx' = 1 /\ loop = "clear" /\ loop' = "check" /\ entries' = <<>>
          /\ idx > Len(entries)
      BY <1>6 DEF ClearEnds, At
    <2>2. \A j \in Jobs : ~Batched(j)' /\ ~Batched(j) /\ ~Contains(entries', j)
      BY <1>0, <2>1 DEF Batched, Contains, TypeOK
    <2> QED
      BY <1>0, <2>1, <2>2, LoopMovesKeep DEF TypeOK, PlacesOnce
  <1>7. ASSUME RunsEntry, Ran
        PROVE  /\ done' \in Seq(Jobs) /\ idx' \in Nat \ {0} /\ loop = "process"
               /\ UNCHANGED <<loop, entries>>
    <2>1. loop = "process" /\ idx \in 1..Len(entries) /\ idx' = idx + 1 /\ UNCHANGED <<loop, entries>>
      BY <1>0, <1>7 DEF RunsEntry, At, TypeOK
    <2>2. entries[idx] \in Jobs \cup {Io}
      BY <1>0, <2>1 DEF TypeOK
    <2>3. done' \in Seq(Jobs)
      <3>1. CASE entries[idx] = Io
        BY <1>0, <1>7, <3>1 DEF Ran, TypeOK
      <3>2. CASE entries[idx] # Io
        BY <1>0, <1>7, <2>2, <3>2, AppendProperties DEF Ran, TypeOK
      <3> QED
        BY <3>1, <3>2
    <2> QED
      BY <1>0, <2>1, <2>3 DEF TypeOK
  <1>8. CASE RunReturns \/ RunShutsDown
    <2>1. /\ UNCHANGED <<nodeVars, queue, actorVars, enqueued>> /\ RunsEntry /\ Ran
      BY <1>8 DEF RunReturns, RunShutsDown
    <2>2. run' \in BOOLEAN /\ told' \in BOOLEAN
      BY <1>0, <1>8 DEF RunReturns, RunShutsDown, Shutdown, ShutdownFlag, TypeOK
    <2>3. \A j \in Jobs : Batched(j)' <=> Batched(j)
      BY <1>7, <2>1 DEF Batched
    <2> QED
      BY <1>0, <1>7, <2>1, <2>2, <2>3, LoopMovesKeep DEF TypeOK, PlacesOnce
  <1>9. ASSUME NEW j \in Jobs, RunEnqueues(j) PROVE IInv'
    <2>1. RunsEntry /\ Ran /\ EnqueueJob(LoopThread, j) /\ UNCHANGED <<run, told>>
      BY <1>9 DEF RunEnqueues
    <2> QED
      BY <1>0, <1>7, <2>1, EnqueueJobKeeps DEF TypeOK
  <1>10. ASSUME NEW t \in Callers, CallerShutsDown(t) PROVE IInv'
    <2>1. UNCHANGED <<nodeVars, queue, actorVars, enqueued, loop, entries, idx, done>>
      BY <1>10 DEF CallerShutsDown
    <2>2. run' \in BOOLEAN /\ told' \in BOOLEAN
      BY <1>0, <1>10 DEF CallerShutsDown, Shutdown, ShutdownFlag, TypeOK
    <2>3. \A j \in Jobs : Batched(j)' <=> Batched(j)
      BY <2>1 DEF Batched
    <2> QED
      BY <1>0, <2>1, <2>2, <2>3, LoopMovesKeep DEF TypeOK, PlacesOnce
  <1>11. ASSUME NEW t \in Callers, NEW j \in Jobs, CallerEnqueues(t, j) PROVE IInv'
    <2>1. EnqueueJob(t, j) /\ UNCHANGED <<run, told, loop, entries, idx, done>>
      BY <1>11 DEF CallerEnqueues, loopVars
    <2> QED
      BY <1>0, <2>1, EnqueueJobKeeps DEF TypeOK
  <1> QED
    BY <1>0, <1>1, <1>2, <1>3, <1>4, <1>5, <1>6, <1>8, <1>9, <1>10, <1>11,
       TakeNodeKeeps, ClearEntryKeeps DEF Next, LoopStep

-----------------------------------------------------------------------------
(* What the loop sees of the nodes when it sleeps and nobody works.        *)
LEMMA IInvImpliesLifetime == IInv => NodeLifetime
  <1> SUFFICES ASSUME IInv PROVE NodeLifetime
    OBVIOUS
  <1> USE DEF IInv
  <1>1. ASSUME NEW j \in Jobs, Created(j)
        PROVE  ref_count[j] = Cardinality({h \in {"r", "s"} : arc[j][h] > 0})
                               + Cardinality({a \in Actors : loc[a] = "release" /\ cur[a] = j})
                               + IF node[j].dropped /\ ~Contains(queue, j) THEN 0 ELSE 1
    BY <1>1 DEF NodeOK, RefsCounted, HeldHandles, Handles, Releasing, Polled
  <1>2. ASSUME Asleep, \A a \in Actors : loc[a] = "idle", NEW j \in Jobs
        PROVE  ref_count[j] = 0
    <2>1. queue = <<>> /\ entries = <<>>
      BY <1>2 DEF Asleep, PlacesOnce
    <2>2. ~Contains(queue, j) /\ ~Batched(j)
      BY <2>1 DEF Contains, Batched
    <2>3. /\ Working(j) = {} /\ Carriers(j) = {} /\ Releasing(j) = {}
          /\ \A h \in Handles : Owners(j, h) = {}
      BY <1>2, ConstantsAssumption DEF ActorOK, Working, Carriers, Releasing, Owners, NoJob
    <2>4. Closure(j) = 0
      BY <2>2, <2>3 DEF Closure, NodeOK, Flagged
    <2>5. \A h \in Handles : arc[j][h] = 0
      BY <2>3, <2>4, FS_EmptySet DEF NodeOK, ArcsCounted
    <2>6. HeldHandles(j) = {}
      BY <2>5 DEF HeldHandles
    <2>7. CASE Created(j)
      <3>1. Polled(j)
        BY <2>2, <2>5, <2>7 DEF Polled, NodeOK, Flagged, Handles
      <3> QED
        BY <2>3, <2>6, <2>7, <3>1, FS_EmptySet DEF NodeOK, RefsCounted
    <2>8. CASE ~Created(j)
      BY <2>8 DEF Created, TypeOK
    <2> QED
      BY <2>7, <2>8
  <1> QED
    BY <1>1, <1>2 DEF NodeLifetime

(* IInv is an invariant.                                                   *)
LEMMA SpecImpliesIInv == Spec => []IInv
  BY InitEstablishesIInv, NextKeepsIInv, PTL DEF Spec

(* Every variable keeps its type; in particular no reference count and no  *)
(* strong count is ever decremented below zero (DropArc, ReleaseNode,      *)
(* TakeNode).                                                              *)
THEOREM TypeCorrect == Spec => []TypeOK
  <1>1. IInv => TypeOK
    BY DEF IInv
  <1> QED
    BY <1>1, SpecImpliesIInv, PTL

(* A job's node is referred to by exactly those that will release it, so   *)
(* enqueue_job neither frees it early, while it is queued or its job is to *)
(* run, nor leaks it, whoever drops the last r and the last s (Drop for    *)
(* Registration, release_node).                                            *)
THEOREM NodeLifetimeHolds == Spec => []NodeLifetime
  BY SpecImpliesIInv, IInvImpliesLifetime, PTL

-----------------------------------------------------------------------------
(* Steps by which no job moves.                                            *)
LEMMA OrderStands ==
    ASSUME IInv, OInv, UNCHANGED <<enqueued, done>>,
           \A i : (Unrun(i)' <=> Unrun(i)) /\ (Unrun(i) => entries'[i] = entries[i]),
           \A k \in 1..Len(enqueued) : node'[enqueued[k]].job <=> node[enqueued[k]].job,
           \A k \in 1..Len(queue') : node'[queue'[k]].job =>
               k \in 1..Len(queue) /\ queue'[k] = queue[k] /\ node[queue[k]].job
    PROVE  OInv'
  <1>2. Prefix'
    BY DEF OInv, Prefix
  <1>3. \A i : Unrun(i) => i \in 1..Len(entries) /\ i \in 1..Len(entries')
    BY DEF Unrun
  <1>5. Waiting'
    BY <1>3 DEF OInv, Waiting
  <1>6. InOrder'
    BY <1>3 DEF OInv, InOrder
  <1> QED
    BY <1>2, <1>5, <1>6 DEF OInv

(* A job that was enqueued and is still in its node is in the queue.       *)
LEMMA WaitingInQueue ==
    ASSUME IInv, NEW j \in Jobs, node[j].job, Contains(enqueued, j)
    PROVE  \E k \in 1..Len(queue) : queue[k] = j
  <1>1. Carriers(j) = {}
    BY DEF IInv, NodeOK, Alone
  <1> QED
    BY <1>1 DEF IInv, NodeOK, Flagged, Contains

(* A node joins the queue, and its job is the youngest.                    *)
LEMMA EnqueueNodeOrder ==
    ASSUME IInv, OInv, NEW a \in Actors, EnqueueNode(a)
    PROVE  OInv'
  <1> USE DEF IInv
  <1>1. PICK j : j = cur[a]
    OBVIOUS
  <1>2. j \in Jobs /\ a \in Carriers(j)
    BY <1>1 DEF EnqueueNode, ActorOK, TypeOK, Carriers
  <1>3. node[j].job /\ ~Contains(queue, j) /\ ~Contains(enqueued, j) /\ ~Contains(entries, j)
    BY <1>2 DEF NodeOK, Alone, Flagged
  <1>4. /\ queue' = Append(queue, j) /\ enqueued' = Append(enqueued, j)
        /\ UNCHANGED <<node, entries, loop, idx, done>>
    BY <1>1 DEF EnqueueNode, nodeVars, loopVars
  <1>5. /\ Len(queue') = Len(queue) + 1 /\ queue'[Len(queue) + 1] = j /\ Len(queue) \in Nat
        /\ \A i \in 1..Len(queue) : queue'[i] = queue[i]
        /\ Len(enqueued') = Len(enqueued) + 1 /\ enqueued'[Len(enqueued) + 1] = j
        /\ Len(enqueued) \in Nat /\ Len(done) \in Nat
        /\ \A i \in 1..Len(enqueued) : enqueued'[i] = enqueued[i]
        /\ \A k : Contains(enqueued', k) <=> Contains(enqueued, k) \/ k = j
    BY <1>2, <1>4, ContainsAppend DEF TypeOK
  <1>6. /\ \A i \in 1..Len(enqueued) : enqueued[i] # j
        /\ \A i \in 1..Len(queue) : queue[i] # j
        /\ \A i \in 1..Len(entries) : entries[i] # j
    BY <1>3 DEF Contains
  <1>7. Prefix'
    BY <1>4, <1>5, <1>6 DEF OInv, Prefix
  <1>8. \A i : Unrun(i)' <=> Unrun(i)
    BY <1>4 DEF Unrun
  <1>10. Waiting'
    <2>1. Len(enqueued) + 1 > Len(done)
      BY <1>5 DEF OInv, Prefix
    <2>2. ASSUME NEW k \in 1..Len(enqueued')
          PROVE  k > Len(done') <=>
                    \/ node'[enqueued'[k]].job
                    \/ \E i \in 1..Len(entries') : Unrun(i)' /\ entries'[i] = enqueued'[k]
      <3>1. CASE k \in 1..Len(enqueued)
        BY <1>4, <1>5, <1>8, <3>1 DEF OInv, Waiting
      <3>2. CASE k = Len(enqueued) + 1
        BY <1>3, <1>4, <1>5, <2>1, <3>2
      <3>3. k \in 1..Len(enqueued) \/ k = Len(enqueued) + 1
        BY <1>5
      <3> QED
        BY <3>1, <3>2, <3>3, Zenon
    <2>3. \A i \in 1..Len(entries') : Unrun(i)' => Contains(enqueued', entries'[i])
      BY <1>4, <1>5, <1>8 DEF OInv, Waiting
    <2>4. \A k \in 1..Len(queue') : node'[queue'[k]].job => Contains(enqueued', queue'[k])
      BY <1>4, <1>5 DEF OInv, Waiting
    <2> QED
      BY <2>2, <2>3, <2>4 DEF Waiting
  <1>11. ASSUME NEW x, NEW y, x # j, Before(enqueued, x, y) PROVE Before(enqueued', x, y)
    <2>1. SUFFICES ASSUME NEW k \in 1..Len(enqueued'), NEW l \in 1..Len(enqueued'),
                          enqueued'[k] = x, enqueued'[l] = y
                   PROVE  k < l
      BY DEF Before
    <2>2. k \in 1..Len(enqueued) /\ enqueued[k] = x
      BY <1>5, <1>11, <2>1
    <2>3. CASE l \in 1..Len(enqueued)
      BY <1>5, <1>11, <2>1, <2>2, <2>3 DEF Before
    <2>4. CASE l = Len(enqueued) + 1
      BY <1>5, <2>2, <2>4
    <2> QED
      BY <1>5, <2>3, <2>4
  <1>12. InOrder'
    <2>1. \A i, k \in 1..Len(entries') : Unrun(i)' /\ Unrun(k)' /\ i < k => Before(enqueued', entries'[i], entries'[k])
      BY <1>4, <1>6, <1>8, <1>11 DEF OInv, InOrder
    <2>2. ASSUME NEW i \in 1..Len(entries'), NEW k \in 1..Len(queue'), Unrun(i)', node'[queue'[k]].job
          PROVE  Before(enqueued', entries'[i], queue'[k])
      <3>1. CASE k \in 1..Len(queue)
        BY <1>4, <1>5, <1>6, <1>8, <1>11, <2>2, <3>1 DEF OInv, InOrder
      <3>2. CASE k = Len(queue) + 1
        BY <1>4, <1>5, <1>6, <2>2, <3>2 DEF Before
      <3> QED
        BY <1>5, <3>1, <3>2
    <2>3. ASSUME NEW i \in 1..Len(queue'), NEW k \in 1..Len(queue'), i < k,
                 node'[queue'[i]].job, node'[queue'[k]].job
          PROVE  Before(enqueued', queue'[i], queue'[k])
      <3>1. CASE k \in 1..Len(queue)
        BY <1>4, <1>5, <1>6, <1>11, <2>3, <3>1 DEF OInv, InOrder
      <3>2. CASE k = Len(queue) + 1
        BY <1>4, <1>5, <1>6, <2>3, <3>2 DEF Before
      <3> QED
        BY <1>5, <3>1, <3>2
    <2> QED
      BY <2>1, <2>2, <2>3 DEF InOrder
  <1> QED
    BY <1>7, <1>10, <1>12 DEF OInv

(* A job moves from the front of the queue to the end of the batch.        *)
LEMMA TakeNodeOrder ==
    ASSUME IInv, OInv, TakeNode
    PROVE  OInv'
  <1> USE DEF IInv
  <1>1. PICK j : j = Head(queue)
    OBVIOUS
  <1>2. /\ loop = "drain" /\ queue # <<>> /\ queue' = Tail(queue)
        /\ UNCHANGED <<loop, idx, enqueued, done>>
        /\ IF node[j].dropped
           THEN UNCHANGED <<node, entries>>
           ELSE /\ node' = [node EXCEPT ![j] = [@ EXCEPT !.queued = FALSE, !.job = FALSE]]
                /\ entries' = Append(entries, IF node[j].job THEN j ELSE Io)
    BY <1>1 DEF TakeNode, At, JobLeft
  <1>3. /\ j \in Jobs /\ j = queue[1] /\ Contains(queue, j) /\ j # Io
        /\ Len(queue) > 0 /\ Len(queue') = Len(queue) - 1 /\ Len(queue) \in Nat
        /\ \A i \in 1..Len(queue') : i + 1 \in 1..Len(queue) /\ queue'[i] = queue[i + 1]
    <2>1. queue \in Seq(Jobs) /\ queue # <<>> /\ queue' = Tail(queue) /\ Len(queue) \in Nat
      BY <1>2 DEF TypeOK
    <2>2. /\ j \in Jobs /\ j = queue[1] /\ Contains(queue, j) /\ Len(queue) > 0
          /\ Len(queue') = Len(queue) - 1
          /\ \A i \in 1..Len(queue) - 1 : queue'[i] = queue[i + 1]
      BY <1>1, <2>1, ContainsTail
    <2> QED
      BY <2>1, <2>2, ConstantsAssumption
  <1>4. \A i \in 1..Len(queue') : queue'[i] # j
    <2>1. \A i \in 1..Len(queue') : queue[i + 1] = queue[1] => i + 1 = 1
      BY <1>3 DEF PlacesOnce
    <2> QED
      BY <1>3, <2>1
  <1>5. Prefix'
    BY <1>2 DEF OInv, Prefix
  <1>6. \A k \in 1..Len(enqueued) : enqueued[k] \in Jobs
    BY DEF TypeOK
  <1>9. \A i \in 1..Len(queue') : queue'[i] \in Jobs
    <2>1. \A i \in 1..Len(queue) : queue[i] \in Jobs
      BY DEF TypeOK
    <2> QED
      BY <1>3, <2>1
  <1>7. CASE node[j].dropped \/ ~node[j].job
    <2>2. ~node[j].job
      BY <1>3, <1>7 DEF NodeOK, Flagged
    <2>3. \A k \in Jobs : node'[k].job <=> node[k].job
      <3>1. CASE node[j].dropped
        BY <1>2, <3>1
      <3>2. CASE ~node[j].dropped
        <4>1. PICK m : m = [node[j] EXCEPT !.queued = FALSE, !.job = FALSE]
          OBVIOUS
        <4>2. ~m.job
          <5>1. node[j] \in NodeType
            BY <1>3 DEF TypeOK
          <5> QED
            BY <4>1, <5>1, NodeTaken
        <4>3. node' = [node EXCEPT ![j] = m]
          BY <1>2, <1>3, <3>2, <4>1 DEF TypeOK
        <4> QED
          BY <1>3, <2>2, <4>2, <4>3 DEF TypeOK
      <3> QED
        BY <3>1, <3>2
    <2>4. \A i : (Unrun(i)' <=> Unrun(i)) /\ (Unrun(i) => entries'[i] = entries[i])
      <3>1. CASE node[j].dropped
        BY <1>2, <3>1 DEF Unrun
      <3>2. CASE ~node[j].dropped
        <4>1. entries' = Append(entries, Io) /\ entries \in Seq(Jobs \cup {Io}) /\ Len(entries) \in Nat
          <5>1. entries' = Append(entries, Io)
            BY <1>2, <2>2, <3>2
          <5>2. entries \in Seq(Jobs \cup {Io})
            BY DEF TypeOK
          <5> QED
            BY <5>1, <5>2
        <4>2. /\ Len(entries') = Len(entries) + 1 /\ entries'[Len(entries) + 1] = Io
              /\ \A i \in 1..Len(entries) : entries'[i] = entries[i]
          BY <4>1, ContainsAppend
        <4> QED
          BY <1>2, <4>1, <4>2 DEF Unrun
      <3> QED
        BY <3>1, <3>2
    <2>5. \A i : Unrun(i) => i \in 1..Len(entries) /\ i \in 1..Len(entries')
      BY <2>4 DEF Unrun
    <2>6. \A i \in 1..Len(queue') : queue'[i] \in Jobs
      BY <1>9
    <2>7. Waiting'
      <3>1. \A k \in 1..Len(enqueued') : 
               k > Len(done') <=>
                  \/ node'[enqueued'[k]].job
                  \/ \E i \in 1..Len(entries') : Unrun(i)' /\ entries'[i] = enqueued'[k]
        BY <1>2, <1>6, <2>3, <2>4, <2>5 DEF OInv, Waiting
      <3>2. \A i \in 1..Len(entries') : Unrun(i)' => Contains(enqueued', entries'[i])
        BY <1>2, <2>4, <2>5 DEF OInv, Waiting
      <3>3. \A k \in 1..Len(queue') : node'[queue'[k]].job => Contains(enqueued', queue'[k])
        BY <1>2, <1>3, <2>3, <2>6 DEF OInv, Waiting
      <3> QED
        BY <3>1, <3>2, <3>3 DEF Waiting
    <2>8. InOrder'
      <3>1. \A i, k \in 1..Len(entries') : Unrun(i)' /\ Unrun(k)' /\ i < k => Before(enqueued', entries'[i], entries'[k])
        BY <1>2, <2>4, <2>5 DEF OInv, InOrder
      <3>2. \A i \in 1..Len(entries'), k \in 1..Len(queue') :
               Unrun(i)' /\ node'[queue'[k]].job => Before(enqueued', entries'[i], queue'[k])
        BY <1>2, <1>3, <2>3, <2>4, <2>5, <2>6 DEF OInv, InOrder
      <3>3. \A i, k \in 1..Len(queue') :
               node'[queue'[i]].job /\ node'[queue'[k]].job /\ i < k => Before(enqueued', queue'[i], queue'[k])
        <4>1. \A i, k \in 1..Len(queue') : i < k => i + 1 < k + 1
          OBVIOUS
        <4> QED
          BY <1>2, <1>3, <2>3, <2>6, <4>1 DEF OInv, InOrder
      <3> QED
        BY <3>1, <3>2, <3>3 DEF InOrder
    <2> QED
      BY <1>5, <2>7, <2>8 DEF OInv
  <1>8. CASE ~node[j].dropped /\ node[j].job
    <2>1. PICK m : m = [node[j] EXCEPT !.queued = FALSE, !.job = FALSE]
      OBVIOUS
    <2>2. ~m.job
      <3>1. node[j] \in NodeType
        BY <1>3 DEF TypeOK
      <3> QED
        BY <2>1, <3>1, NodeTaken
    <2>3. node' = [node EXCEPT ![j] = m]
      BY <1>2, <1>3, <1>8, <2>1 DEF TypeOK
    <2>4. ~node'[j].job /\ \A k \in Jobs \ {j} : node'[k] = node[k]
      BY <1>3, <2>2, <2>3 DEF TypeOK
    <2>5. entries' = Append(entries, j) /\ entries \in Seq(Jobs \cup {Io}) /\ Len(entries) \in Nat
      <3>1. entries' = Append(entries, j)
        BY <1>2, <1>8
      <3>2. entries \in Seq(Jobs \cup {Io})
        BY DEF TypeOK
      <3> QED
        BY <3>1, <3>2
    <2>12. PICK n : n = Len(entries) + 1
      OBVIOUS
    <2>6. /\ Len(entries') = n /\ entries'[n] = j
          /\ \A i \in 1..Len(entries) : entries'[i] = entries[i]
      BY <1>3, <2>5, <2>12, ContainsAppend
    <2>7. /\ \A i \in 1..Len(entries) : (Unrun(i)' <=> Unrun(i)) /\ entries'[i] = entries[i] /\ i < n
          /\ Unrun(n)'
          /\ \A i \in 1..Len(entries') : i \in 1..Len(entries) \/ i = n
          /\ \A i \in 1..Len(entries) : i \in 1..Len(entries')
      <3>1. \A i \in 1..Len(entries) : entries'[i] = entries[i] /\ i < n /\ i \in 1..Len(entries')
        BY <2>5, <2>6, <2>12
      <3>2. \A i \in 1..Len(entries) : Unrun(i)' <=> Unrun(i)
        BY <1>2, <3>1 DEF Unrun
      <3>3. n \in 1..Len(entries')
        BY <2>5, <2>6, <2>12
      <3>4. Unrun(n)'
        BY <1>2, <1>3, <2>6, <3>3 DEF Unrun
      <3>5. \A i \in 1..Len(entries') : i \in 1..Len(entries) \/ i = n
        BY <2>5, <2>6, <2>12
      <3> QED
        BY <3>1, <3>2, <3>4, <3>5
    <2>8. \A i \in 1..Len(queue') : queue'[i] \in Jobs \ {j} /\ node'[queue'[i]] = node[queue[i + 1]]
      BY <1>3, <1>4, <1>9, <2>4
    <2>9. n \in 1..Len(entries')
      BY <2>5, <2>6, <2>12
    <2>10. Waiting'
      <3>1. ASSUME NEW k \in 1..Len(enqueued')
            PROVE  k > Len(done') <=>
                      \/ node'[enqueued'[k]].job
                      \/ \E i \in 1..Len(entries') : Unrun(i)' /\ entries'[i] = enqueued'[k]
        <4>0. enqueued'[k] = enqueued[k] /\ done' = done /\ k \in 1..Len(enqueued) /\ enqueued[k] \in Jobs
          BY <1>2, <1>6
        <4>1. CASE enqueued[k] = j
          <5>1. k > Len(done)
            BY <1>8, <4>0, <4>1 DEF OInv, Waiting
          <5>2. Unrun(n)' /\ entries'[n] = enqueued'[k]
            BY <4>0, <4>1, <2>6, <2>7
          <5>3. \E i \in 1..Len(entries') : Unrun(i)' /\ entries'[i] = enqueued'[k]
            BY <5>2, <2>9, Zenon
          <5> QED
            BY <4>0, <5>1, <5>3
        <4>2. CASE enqueued[k] # j
          <5>1. node'[enqueued[k]] = node[enqueued[k]]
            BY <2>4, <4>0, <4>2
          <5>2. (\E i \in 1..Len(entries') : Unrun(i)' /\ entries'[i] = enqueued[k])
                <=> (\E i \in 1..Len(entries) : Unrun(i) /\ entries[i] = enqueued[k])
            BY <2>6, <2>7, <4>2
          <5>3. k > Len(done) <=>
                   \/ node[enqueued[k]].job
                   \/ \E i \in 1..Len(entries) : Unrun(i) /\ entries[i] = enqueued[k]
            BY <4>0 DEF OInv, Waiting
          <5> QED
            BY <4>0, <5>1, <5>2, <5>3
        <4> QED
          BY <4>1, <4>2
      <3>2. \A i \in 1..Len(entries') : Unrun(i)' => Contains(enqueued', entries'[i])
        BY <1>2, <1>3, <1>8, <2>6, <2>7 DEF OInv, Waiting
      <3>3. \A k \in 1..Len(queue') : node'[queue'[k]].job => Contains(enqueued', queue'[k])
        BY <1>2, <1>3, <2>8 DEF OInv, Waiting
      <3> QED
        BY <3>1, <3>2, <3>3 DEF Waiting
    <2>11. InOrder'
      <3>0. 1 \in 1..Len(queue) /\ \A i \in 1..Len(queue') : 1 < i + 1
        BY <1>3
      <3>1. ASSUME NEW i \in 1..Len(entries'), NEW k \in 1..Len(entries'), Unrun(i)', Unrun(k)', i < k
            PROVE  Before(enqueued', entries'[i], entries'[k])
        <4>1. i # n /\ i \in 1..Len(entries)
          BY <2>5, <2>6, <2>7, <2>12, <3>1
        <4>2. CASE k = n
          BY <1>2, <1>3, <1>8, <2>6, <2>7, <3>0, <3>1, <4>1, <4>2 DEF OInv, InOrder
        <4>3. CASE k # n
          BY <1>2, <2>7, <3>1, <4>1, <4>3 DEF OInv, InOrder
        <4> QED
          BY <4>2, <4>3
      <3>2. ASSUME NEW i \in 1..Len(entries'), NEW k \in 1..Len(queue'), Unrun(i)', node'[queue'[k]].job
            PROVE  Before(enqueued', entries'[i], queue'[k])
        <4>1. k + 1 \in 1..Len(queue) /\ queue'[k] = queue[k + 1] /\ node[queue[k + 1]].job
          BY <1>3, <2>8, <3>2
        <4>2. CASE i = n
          BY <1>2, <1>3, <1>8, <2>6, <3>0, <4>1, <4>2 DEF OInv, InOrder
        <4>3. CASE i # n
          BY <1>2, <2>7, <3>2, <4>1, <4>3 DEF OInv, InOrder
        <4> QED
          BY <4>2, <4>3
      <3>3. ASSUME NEW i \in 1..Len(queue'), NEW k \in 1..Len(queue'), i < k,
                   node'[queue'[i]].job, node'[queue'[k]].job
            PROVE  Before(enqueued', queue'[i], queue'[k])
        <4>1. /\ k + 1 \in 1..Len(queue) /\ queue'[k] = queue[k + 1] /\ node[queue[k + 1]].job
              /\ i + 1 \in 1..Len(queue) /\ queue'[i] = queue[i + 1] /\ node[queue[i + 1]].job
          BY <1>3, <2>8, <3>3
        <4>2. i + 1 < k + 1
          BY <3>3, <1>3
        <4> QED
          BY <1>2, <4>1, <4>2 DEF OInv, InOrder
      <3> QED
        BY <3>1, <3>2, <3>3 DEF InOrder
    <2> QED
      BY <1>5, <2>10, <2>11 DEF OInv
  <1> QED
    BY <1>7, <1>8

(* io_process runs an entry: it is the oldest of those that wait.          *)
LEMMA RunOrder ==
    ASSUME IInv, OInv, RunsEntry, Ran, UNCHANGED <<enqueued, queue>>,
           \A k \in 1..Len(enqueued) : node'[enqueued[k]].job <=> node[enqueued[k]].job,
           \A k \in 1..Len(queue) : node'[queue[k]].job <=> node[queue[k]].job
    PROVE  OInv'
  <1> USE DEF IInv
  <1>1. /\ loop = "process" /\ idx \in 1..Len(entries) /\ idx' = idx + 1 /\ idx \in Nat
        /\ UNCHANGED <<loop, entries>> /\ Len(entries) \in Nat
    BY DEF RunsEntry, At, TypeOK
  <1>2. PICK e : e = entries[idx]
    OBVIOUS
  <1>3. e \in Jobs \cup {Io} /\ done \in Seq(Jobs) /\ Len(done) \in Nat /\ Len(enqueued) \in Nat
    BY <1>1, <1>2 DEF TypeOK
  <1>4. /\ \A i : Unrun(i)' => Unrun(i) /\ i # idx
        /\ \A i : Unrun(i) /\ i # idx => Unrun(i)'
        /\ \A i : Unrun(i) => i \in 1..Len(entries) /\ idx <= i
    <2>1. ASSUME NEW i, Unrun(i)' PROVE Unrun(i) /\ i # idx
      BY <1>1, <2>1 DEF Unrun
    <2>2. ASSUME NEW i, Unrun(i) PROVE i \in 1..Len(entries) /\ idx <= i
      BY <1>1, <2>2 DEF Unrun
    <2>3. ASSUME NEW i, Unrun(i), i # idx PROVE Unrun(i)'
      <3>1. idx + 1 <= i
        BY <1>1, <2>2, <2>3
      <3> QED
        BY <1>1, <2>3, <3>1 DEF Unrun
    <2> QED
      BY <2>1, <2>2, <2>3
  <1>5. InOrder'
    BY <1>1, <1>4 DEF OInv, InOrder
  <1>6. CASE e = Io
    <2>1. done' = done
      BY <1>2, <1>6 DEF Ran
    <2>2. ~Unrun(idx)
      BY <1>2, <1>6 DEF Unrun
    <2>3. Prefix'
      BY <2>1 DEF OInv, Prefix
    <2>4. Waiting'
      BY <1>1, <1>4, <2>1, <2>2 DEF OInv, Waiting
    <2> QED
      BY <1>5, <2>3, <2>4 DEF OInv
  <1>7. CASE e # Io
    <2>1. Unrun(idx) /\ e \in Jobs /\ Contains(entries, e)
      BY <1>1, <1>2, <1>3, <1>7 DEF Unrun, Contains
    <2>2. ~node[e].job
      BY <2>1 DEF NodeOK, Flagged
    <2>3. PICK k \in 1..Len(enqueued) : enqueued[k] = e
      BY <1>1, <1>2, <2>1 DEF OInv, Waiting, Contains
    <2>4. k > Len(done)
      BY <1>1, <1>2, <2>1, <2>3 DEF OInv, Waiting
    <2>5. PICK n \in 1..Len(enqueued) : n = Len(done) + 1 /\ n <= k
      BY <1>3, <2>4
    <2>6. enqueued[n] = e /\ n = k
      <3>1. n > Len(done) /\ enqueued[n] \in Jobs
        <4>1. enqueued \in Seq(Jobs)
          BY DEF TypeOK
        <4> QED
          BY <1>3, <2>5, <4>1
      <3>2. \/ node[enqueued[n]].job
            \/ \E i \in 1..Len(entries) : Unrun(i) /\ entries[i] = enqueued[n]
        BY <3>1 DEF OInv, Waiting
      <3>3. CASE node[enqueued[n]].job
        <4>1. Contains(enqueued, enqueued[n])
          BY DEF Contains
        <4>2. PICK q \in 1..Len(queue) : queue[q] = enqueued[n]
          BY <3>1, <3>3, <4>1, WaitingInQueue
        <4>3. Before(enqueued, entries[idx], queue[q])
          BY <1>1, <2>1, <3>3, <4>2 DEF OInv, InOrder
        <4>4. k < n
          BY <1>2, <2>3, <4>2, <4>3 DEF Before
        <4> QED
          BY <2>5, <4>4
      <3>4. ASSUME NEW i \in 1..Len(entries), Unrun(i), entries[i] = enqueued[n]
            PROVE  i = idx
        <4>1. SUFFICES ASSUME i # idx PROVE FALSE
          OBVIOUS
        <4>2. idx < i
          BY <1>1, <1>4, <3>4, <4>1
        <4>3. Before(enqueued, entries[idx], entries[i])
          BY <1>1, <2>1, <3>4, <4>2 DEF OInv, InOrder
        <4>4. k < n
          BY <1>2, <2>3, <3>4, <4>3 DEF Before
        <4> QED
          BY <2>5, <4>4
      <3>5. enqueued[n] = e
        BY <1>2, <3>2, <3>3, <3>4
      <3> QED
        BY <2>3, <3>5 DEF OInv, Prefix
    <2>7. done' = Append(done, e)
      BY <1>2, <1>7 DEF Ran
    <2>8. /\ Len(done') = n /\ done'[n] = e
          /\ \A i \in 1..Len(done) : done'[i] = done[i]
      BY <1>3, <2>1, <2>5, <2>7, ContainsAppend
    <2>9. Prefix'
      <3>1. Prefix /\ enqueued' = enqueued
        BY <1>1 DEF OInv
      <3>2. \A i \in 1..Len(done') : done'[i] = enqueued[i]
        BY <1>3, <2>5, <2>6, <2>8, <3>1 DEF Prefix
      <3> QED
        BY <2>5, <2>8, <3>1, <3>2 DEF Prefix
    <2>10. Waiting'
      <3>1. ASSUME NEW l \in 1..Len(enqueued')
            PROVE  l > Len(done') <=>
                      \/ node'[enqueued'[l]].job
                      \/ \E i \in 1..Len(entries') : Unrun(i)' /\ entries'[i] = enqueued'[l]
        <4>1. l \in 1..Len(enqueued) /\ enqueued'[l] = enqueued[l] /\ entries' = entries
              /\ (node'[enqueued[l]].job <=> node[enqueued[l]].job)
          BY <1>1
        <4>2. l > Len(done) <=>
                 \/ node[enqueued[l]].job
                 \/ \E i \in 1..Len(entries) : Unrun(i) /\ entries[i] = enqueued[l]
          BY <4>1 DEF OInv, Waiting
        <4>3. l > Len(done') <=> l > Len(done) /\ l # n
          BY <1>3, <2>5, <2>8
        <4>4. CASE l = n
          <5>1. \A i \in 1..Len(entries) : entries[i] = e => i = idx
            BY <1>1, <1>2, <1>7 DEF PlacesOnce
          <5>2. ~(\E i \in 1..Len(entries') : Unrun(i)' /\ entries'[i] = enqueued[l])
            <6>1. ASSUME NEW i \in 1..Len(entries'), Unrun(i)', entries'[i] = enqueued[l] PROVE FALSE
              <7>1. i = idx
                BY <1>1, <2>6, <4>4, <5>1, <6>1
              <7> QED
                BY <1>4, <6>1, <7>1
            <6> QED
              BY <6>1
          <5> QED
            BY <2>2, <2>6, <4>1, <4>3, <4>4, <5>2
        <4>5. CASE l # n
          <5>1. enqueued[l] # e
            BY <2>6, <4>1, <4>5 DEF OInv, Prefix
          <5>2. (\E i \in 1..Len(entries') : Unrun(i)' /\ entries'[i] = enqueued[l])
                <=> (\E i \in 1..Len(entries) : Unrun(i) /\ entries[i] = enqueued[l])
            BY <1>1, <1>2, <1>4, <5>1
          <5> QED
            BY <4>1, <4>2, <4>3, <4>5, <5>2
        <4> QED
          BY <4>4, <4>5
      <3>2. \A i \in 1..Len(entries') : Unrun(i)' => Contains(enqueued', entries'[i])
        BY <1>1, <1>4 DEF OInv, Waiting
      <3>3. \A q \in 1..Len(queue') : node'[queue'[q]].job => Contains(enqueued', queue'[q])
        BY DEF OInv, Waiting
      <3> QED
        BY <3>1, <3>2, <3>3 DEF Waiting
    <2> QED
      BY <1>5, <2>9, <2>10 DEF OInv
  <1> QED
    BY <1>6, <1>7

(* A new node's job is known to nobody else yet.                           *)
LEMMA EnqueueJobJobs ==
    ASSUME IInv, NEW a \in Actors, NEW j \in Jobs, EnqueueJob(a, j)
    PROVE  /\ UNCHANGED <<queue, enqueued>>
           /\ \A k \in 1..Len(enqueued) : node'[enqueued[k]] = node[enqueued[k]]
           /\ \A k \in 1..Len(queue) : node'[queue[k]] = node[queue[k]]
  <1>1. ~Created(j) /\ UNCHANGED <<queue, enqueued>>
    BY DEF IInv, TypeOK, EnqueueJob, Created
  <1>2. ~Contains(queue, j) /\ ~Contains(enqueued, j)
    BY <1>1 DEF IInv, NodeOK, Fresh
  <1>3. \A k \in Jobs \ {j} : node'[k] = node[k]
    BY DEF IInv, TypeOK, EnqueueJob
  <1>6. enqueued \in Seq(Jobs) /\ queue \in Seq(Jobs)
    BY DEF IInv, TypeOK
  <1>4. \A k \in 1..Len(enqueued) : enqueued[k] \in Jobs \ {j}
    BY <1>2, <1>6, NotContained
  <1>5. \A k \in 1..Len(queue) : queue[k] \in Jobs \ {j}
    BY <1>2, <1>6, NotContained
  <1> QED
    BY <1>1, <1>3, <1>4, <1>5

(* Only a node without a job comes back to the queue.                      *)
LEMMA DropArcOrder ==
    ASSUME IInv, OInv, NEW a \in Actors, NEW h \in Handles, DropArc(a, h)
    PROVE  OInv'
  <1> USE DEF IInv
  <1>1. PICK j : j = cur[a]
    OBVIOUS
  <1>2. j \in Jobs /\ a \in Owners(j, h)
    BY <1>1 DEF DropArc, ActorOK, TypeOK, Owners
  <1>3. /\ UNCHANGED <<loop, entries, idx, enqueued, done>>
        /\ \/ UNCHANGED <<node, queue>>
           \/ /\ node' = [node EXCEPT ![j] = [@ EXCEPT !.dropped = TRUE, !.queued = TRUE]]
              /\ queue' = IF node[j].queued THEN queue ELSE Append(queue, j)
              /\ arc[j][h] = 1
    BY <1>1 DEF DropArc, loopVars
  <1>4. \A i : (Unrun(i)' <=> Unrun(i)) /\ entries'[i] = entries[i]
    BY <1>3 DEF Unrun
  <1>5. \A k \in 1..Len(enqueued) : enqueued[k] \in Jobs
    BY DEF TypeOK
  <1>6. \A k \in 1..Len(queue) : queue[k] \in Jobs
    BY DEF TypeOK
  <1>7. CASE UNCHANGED <<node, queue>>
    BY <1>3, <1>4, <1>7, OrderStands
  <1>8. CASE /\ node' = [node EXCEPT ![j] = [@ EXCEPT !.dropped = TRUE, !.queued = TRUE]]
             /\ queue' = IF node[j].queued THEN queue ELSE Append(queue, j)
             /\ arc[j][h] = 1
    <2>1. ~node[j].job
      BY <1>2, <1>8, OwnerCounts
    <2>2. PICK m : m = [node[j] EXCEPT !.dropped = TRUE, !.queued = TRUE]
      OBVIOUS
    <2>3. m.job <=> node[j].job
      BY <1>2, <2>2 DEF TypeOK, NodeType
    <2>4. node' = [node EXCEPT ![j] = m]
      BY <1>2, <1>8, <2>2 DEF TypeOK
    <2>5. \A k \in Jobs : node'[k].job <=> node[k].job
      BY <1>2, <2>3, <2>4 DEF TypeOK
    <2>6. ASSUME NEW k \in 1..Len(queue'), node'[queue'[k]].job
          PROVE  k \in 1..Len(queue) /\ queue'[k] = queue[k] /\ node[queue[k]].job
      <3>1. CASE queue' = queue
        BY <1>6, <2>5, <2>6, <3>1
      <3>2. CASE queue' = Append(queue, j)
        <4>1. /\ Len(queue') = Len(queue) + 1 /\ queue'[Len(queue) + 1] = j /\ Len(queue) \in Nat
              /\ \A i \in 1..Len(queue) : queue'[i] = queue[i]
          BY <1>2, <3>2, ContainsAppend DEF TypeOK
        <4>2. k # Len(queue) + 1
          BY <1>2, <2>1, <2>5, <2>6, <4>1
        <4>3. k \in 1..Len(queue)
          BY <4>1, <4>2
        <4> QED
          BY <1>6, <2>5, <2>6, <4>1, <4>3
      <3> QED
        BY <1>8, <3>1, <3>2
    <2>7. \A k \in 1..Len(enqueued) : node'[enqueued[k]].job <=> node[enqueued[k]].job
      BY <1>5, <2>5
    <2> QED
      BY <1>3, <1>4, <2>6, <2>7, OrderStands
  <1> QED
    BY <1>3, <1>7, <1>8

(* Every step keeps the order.                                             *)
LEMMA NextKeepsOInv == IInv /\ OInv /\ [Next]_vars => OInv'
  <1> SUFFICES ASSUME IInv, OInv, [Next]_vars PROVE OInv'
    OBVIOUS
  <1>0. LoopThread \in Actors /\ Callers \subseteq Actors /\ TypeOK /\ PlacesOnce
    BY DEF Actors, IInv
  <1>1. ASSUME UNCHANGED <<node, queue, enqueued, done>>, 
               \A i : (Unrun(i)' <=> Unrun(i)) /\ (Unrun(i) => entries'[i] = entries[i])
        PROVE  OInv'
    BY <1>1, OrderStands
  <1>2. ASSUME UNCHANGED <<node, queue, enqueued, done, loop, entries, idx>>
        PROVE  OInv'
    <2>1. \A i : (Unrun(i)' <=> Unrun(i)) /\ entries'[i] = entries[i]
      BY <1>2 DEF Unrun
    <2> QED
      BY <1>1, <1>2, <2>1
  <1>3. ASSUME UNCHANGED <<node, queue, enqueued, done>>, \A i : ~Unrun(i)' /\ ~Unrun(i)
        PROVE  OInv'
    BY <1>1, <1>3
  <1>4. CASE UNCHANGED vars
    BY <1>2, <1>4 DEF vars, nodeVars, loopVars
  <1>5. ASSUME NEW a \in Actors, ActorStep(a) PROVE OInv'
    <2>1. CASE EnqueueNode(a)
      BY <2>1, EnqueueNodeOrder
    <2>2. CASE ReleaseNode(a) \/ DropsDone(a)
      BY <1>2, <2>2 DEF ReleaseNode, DropsDone, nodeVars, loopVars
    <2>3. ASSUME NEW h \in {"r", "s"}, DropArc(a, h) PROVE OInv'
      BY <2>3, DropArcOrder DEF Handles
    <2> QED
      BY <1>5, <2>1, <2>2, <2>3 DEF ActorStep
  <1>6. CASE StartRun \/ CheckRun \/ PollFails
    <2>1. UNCHANGED <<node, queue, enqueued, done>>
      BY <1>6 DEF StartRun, CheckRun, PollFails, nodeVars
    <2>2. loop \notin {"drain", "process"} /\ loop' \notin {"drain", "process"}
      BY <1>6 DEF StartRun, CheckRun, PollFails, At
    <2>3. \A i : ~Unrun(i)' /\ ~Unrun(i)
      BY <2>2 DEF Unrun
    <2> QED
      BY <1>3, <2>1, <2>3
  <1>7. ASSUME NEW n \in 0..Capacity, Select(n) PROVE OInv'
    <2>1. /\ UNCHANGED <<node, queue, enqueued, done>>
          /\ loop = "poll" /\ loop' = "drain" /\ entries' = [i \in 1..n |-> Io] /\ n \in Nat
      BY <1>7, ConstantsAssumption DEF Select, At, nodeVars
    <2>2. \A i \in 1..Len(entries') : entries'[i] = Io
      BY <2>1
    <2>3. \A i : ~Unrun(i)' /\ ~Unrun(i)
      BY <2>1, <2>2 DEF Unrun
    <2> QED
      BY <1>3, <2>1, <2>3
  <1>8. CASE DrainEnds
    <2>1. /\ UNCHANGED <<node, queue, enqueued, done, entries>>
          /\ loop = "drain" /\ loop' = "process" /\ idx' = 1
      BY <1>8 DEF DrainEnds, At, nodeVars
    <2>2. ASSUME NEW i PROVE (Unrun(i)' <=> Unrun(i)) /\ (Unrun(i) => entries'[i] = entries[i])
      <3>1. i \in 1..Len(entries) => 1 <= i
        OBVIOUS
      <3> QED
        BY <2>1, <3>1 DEF Unrun
    <2> QED
      BY <1>1, <2>1, <2>2
  <1>9. CASE ProcessEnds
    <2>1. /\ UNCHANGED <<node, queue, enqueued, done, entries>>
          /\ loop = "process" /\ loop' = "clear" /\ idx > Len(entries) /\ idx \in Nat /\ Len(entries) \in Nat
      BY <1>0, <1>9 DEF ProcessEnds, At, nodeVars, TypeOK
    <2>2. ASSUME NEW i PROVE ~Unrun(i)' /\ ~Unrun(i)
      <3>1. i \in 1..Len(entries) => ~(idx <= i)
        BY <2>1
      <3> QED
        BY <2>1, <3>1 DEF Unrun
    <2> QED
      BY <1>3, <2>1, <2>2
  <1>10. CASE ClearEntry \/ ClearEnds
    <2>1. /\ UNCHANGED <<node, queue, enqueued, done>>
          /\ loop = "clear" /\ loop' \in {"clear", "check"}
      BY <1>10 DEF ClearEntry, ClearEnds, At, nodeVars
    <2>2. \A i : ~Unrun(i)' /\ ~Unrun(i)
      BY <2>1 DEF Unrun
    <2> QED
      BY <1>3, <2>1, <2>2
  <1>11. CASE RunReturns \/ RunShutsDown
    <2>1. RunsEntry /\ Ran /\ UNCHANGED <<enqueued, queue, node>>
      BY <1>11 DEF RunReturns, RunShutsDown, nodeVars
    <2> QED
      BY <2>1, RunOrder
  <1>12. ASSUME NEW j \in Jobs, RunEnqueues(j) PROVE OInv'
    <2>1. RunsEntry /\ Ran /\ EnqueueJob(LoopThread, j)
      BY <1>12 DEF RunEnqueues
    <2> QED
      BY <1>0, <2>1, EnqueueJobJobs, RunOrder
  <1>13. ASSUME NEW t \in Callers, CallerShutsDown(t) PROVE OInv'
    BY <1>2, <1>13 DEF CallerShutsDown, nodeVars
  <1>14. ASSUME NEW t \in Callers, NEW j \in Jobs, CallerEnqueues(t, j) PROVE OInv'
    <2>1. EnqueueJob(t, j) /\ UNCHANGED <<loop, entries, idx, done>>
      BY <1>14 DEF CallerEnqueues, loopVars
    <2>2. /\ UNCHANGED <<queue, enqueued>>
          /\ \A k \in 1..Len(enqueued) : node'[enqueued[k]] = node[enqueued[k]]
          /\ \A k \in 1..Len(queue) : node'[queue[k]] = node[queue[k]]
      BY <1>0, <2>1, EnqueueJobJobs
    <2>3. \A i : (Unrun(i)' <=> Unrun(i)) /\ entries'[i] = entries[i]
      BY <2>1 DEF Unrun
    <2> QED
      BY <2>1, <2>2, <2>3, OrderStands
  <1> QED
    BY <1>0, <1>4, <1>5, <1>6, <1>7, <1>8, <1>9, <1>10, <1>11, <1>12, <1>13, <1>14,
       TakeNodeOrder DEF Next, LoopStep

(* What has run is the beginning of what was enqueued.                     *)
LEMMA OInvImpliesOrder == TypeOK /\ OInv => JobsInOrder
  <1> SUFFICES ASSUME TypeOK, OInv PROVE JobsInOrder
    OBVIOUS
  <1>1. /\ done \in Seq(Jobs) /\ enqueued \in Seq(Jobs)
        /\ Len(done) \in Nat /\ Len(enqueued) \in Nat /\ Len(done) <= Len(enqueued)
    BY DEF TypeOK, OInv, Prefix
  <1>2. SubSeq(done, 1, Len(done)) = [i \in 1..Len(done) |-> done[i]]
    BY <1>1
  <1>3. SubSeq(enqueued, 1, Len(done)) = [i \in 1..Len(done) |-> enqueued[i]]
    BY <1>1
  <1>4. \A i \in 1..Len(done) : done[i] = enqueued[i]
    BY DEF OInv, Prefix
  <1>5. SubSeq(done, 1, Len(done)) = SubSeq(enqueued, 1, Len(done))
    BY <1>2, <1>3, <1>4
  <1> QED
    BY <1>1, <1>5 DEF JobsInOrder, IsPrefix

(* Jobs run in the order they were enqueued and each once, through batches *)
(* of any size, jobs enqueued by jobs and nodes that come back to be       *)
(* released (enqueue_job, ReadinessQueue::poll, io_process).               *)
THEOREM JobsInOrderHolds == Spec => []JobsInOrder
  <1>1. Init => OInv
    BY DEF Init, OInv, Prefix, Waiting, InOrder, Unrun
  <1>2. IInv /\ OInv => JobsInOrder
    BY OInvImpliesOrder DEF IInv
  <1> QED
    BY <1>1, <1>2, SpecImpliesIInv, NextKeepsOInv, PTL DEF Spec
=============================================================================
