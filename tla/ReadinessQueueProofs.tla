------------------------ MODULE ReadinessQueueProofs ------------------------
(***************************************************************************)
(* The readiness queue for any number of nodes, producers and events: the  *)
(* intrusive list is a FIFO queue, wakes the poller, reports a level node  *)
(* once per poll and frees a node exactly when nothing reaches it.         *)
(*                                                                         *)
(* The state has pointers and stores that are still to come; what makes    *)
(* the proof possible is a witness, the sequence c of the cells from       *)
(* tail_readiness to head_readiness.  IInv(c) says that c is linked, up to *)
(* pending stores, who has which node in hand, what the flags, the markers *)
(* and the reference counts mean, and where poll's guard stands.  One      *)
(* lemma per step of the code shows that it leads from a list c to a list  *)
(* d (NextEvolves).  The last part shows that the recursive walk of the    *)
(* model collects the nodes of c, which gives the refinement.              *)
(***************************************************************************)
EXTENDS ReadinessQueue, FiniteSetTheorems, SequenceTheorems, WellFoundedInduction, TLAPS

(* The cells of a list, and an actor that has its cell in hand.            *)
In(c) == {c[i] : i \in 1..Len(c)}
Carrying(a) == pc[a] \in {"load", "cas", "process"}

(* c is the list: from the tail to the head, every cell followed by the    *)
(* one its link names or will name when a pending store is done.           *)
Linked(c) ==
    /\ c \in Seq(Cells) /\ Len(c) > 0
    /\ c[1] = tail /\ c[Len(c)] = head
    /\ \A i, j \in 1..Len(c) : c[i] = c[j] => i = j
    /\ \A i \in 1..Len(c) - 1 :
          \/ next[c[i]] = c[i + 1]
          \/ /\ next[c[i]] = Null
             /\ \E a \in Actors : pc[a] = "link" /\ prev[a] = c[i] /\ node[a] = c[i + 1]
    /\ next[head] = Null

(* A store that is pending belongs to a place in the list, and to one      *)
(* actor only.                                                             *)
Pending(c) ==
    /\ \A a \in Actors : pc[a] = "link" =>
          \E i \in 1..Len(c) - 1 :
             prev[a] = c[i] /\ node[a] = c[i + 1] /\ next[c[i]] = Null
    /\ \A a, b \in Actors :
          pc[a] = "link" /\ pc[b] = "link" /\ prev[a] = prev[b] => a = b

(* What an actor has in hand is not in the list nor in another's hand.     *)
Carried(c) ==
    /\ \A a \in Actors : Carrying(a) => node[a] \in Cells /\ node[a] \notin In(c)
    /\ \A a \in Actors : pc[a] = "cas" => next[node[a]] = Null
    /\ \A a, b \in Actors : Carrying(a) /\ Carrying(b) /\ node[a] = node[b] => a = b

(* What a producer inside a call works on.                                 *)
Calls ==
    /\ \A p \in Producers :
          /\ pc[p] \in {"idle", "load", "cas", "link", "wake", "release"}
          /\ pc[p] = "idle" => p \notin dropping /\ node[p] = Null
          /\ pc[p] = "release" => p \in dropping
          /\ pc[p] # "idle" => node[p] \in Nodes
          /\ pc[p] # "idle" /\ p \notin dropping => node[p] \in hold[p]
          /\ p \in dropping => node[p] \notin reg
    /\ \A p, q \in Producers \cap dropping : node[p] = node[q] => p = q

(* Where the poller is, and with which cell.                               *)
Enqueuing == {"load", "cas", "link"}
Dequeuing == {"clear", "dequeue", "dequeue_next", "dequeue_head", "dequeue_retry", "process"}
Polls ==
    /\ pc[Poller] \notin {"wake", "release"}
    /\ pc[Poller] \in Enqueuing =>
          \/ node[Poller] = End
          \/ node[Poller] = Closed /\ Poller \in dropping
          \/ node[Poller] \in Nodes /\ Poller \notin dropping
    /\ pc[Poller] = "process" => node[Poller] \in Nodes
    /\ pc[Poller] \notin Enqueuing \cup {"process"} => node[Poller] = Null
    /\ Poller \in dropping => pc[Poller] \in Enqueuing \cup Dequeuing \cup {"dropped"}
    /\ pc[Poller] = "dropped" => Poller \in dropping
    /\ \/ pc[Poller] \in {"dequeue_next", "dequeue_head", "dequeue_retry"}
       \/ pc[Poller] \in Enqueuing /\ node[Poller] = End
       => tail \notin {End, Sleep}

(* The marker nodes.                                                       *)
Marked(c) ==
    /\ Sleep \in In(c) => tail = Sleep /\ End \notin In(c)
    /\ Closed \in In(c) => head = Closed /\ Poller \in dropping
    /\ Poller \in dropping =>
          head = Closed \/ (pc[Poller] \in {"load", "cas"} /\ node[Poller] = Closed)
    /\ \A a \in Actors : pc[a] \in {"cas", "link"} => prev[a] \in Cells
    /\ \A a \in Actors : pc[a] = "cas" /\ prev[a] = Closed => head = Closed

(* What the flags of a node say: a node in the list or in an actor's hand  *)
(* is queued, and a queued one has a place until it or the queue is        *)
(* dropped.                                                                *)
Flagged(c) ==
    /\ \A n \in Nodes : dropped[n] => queued[n]
    /\ \A n \in Nodes : n \in reg <=> ~dropped[n]
    /\ \A n \in Nodes : n \in In(c) => queued[n]
    /\ \A a \in Actors : Carrying(a) /\ node[a] \in Nodes => queued[node[a]]
    /\ \A n \in Nodes : queued[n] /\ ~dropped[n] /\ head # Closed =>
          n \in In(c) \/ \E a \in Actors : Carrying(a) /\ node[a] = n

(* Whose reference is whose: one for each thread that holds a              *)
(* SetReadiness, one for the Registration until it has been released, one  *)
(* for the queue until the node that is flagged for good has left its      *)
(* place.                                                                  *)
Holders(n) == {p \in Producers : n \in hold[p]}
RegRef(n) == IF n \in reg \/ \E p \in Producers \cap dropping : node[p] = n THEN 1 ELSE 0
QueueRef(c, n) ==
    IF queued[n] /\ n \notin In(c) /\ ~(\E a \in Actors : Carrying(a) /\ node[a] = n)
    THEN 0 ELSE 1
Counted(c) ==
    \A n \in Nodes : ref_count[n] = Cardinality(Holders(n)) + RegRef(n) + QueueRef(c, n)

(* While the poller may block, the tail is the sleep marker, and who has   *)
(* put a node behind it has woken the poller or is about to.               *)
Told ==
    PollerAt("select") /\ blocking =>
        /\ tail = Sleep
        /\ \/ head = Sleep
           \/ Awakened
           \/ \E p \in Producers : pc[p] = "wake" \/ (pc[p] = "link" /\ prev[p] = Sleep)

(* The guard of poll against reporting a level node twice: until is the    *)
(* first one that was put back, and no level node that was reported comes  *)
(* before it in the list.                                                  *)
Level(n) == n \in Nodes /\ Opt[n] = "level"
LevelInv(c) ==
    IF Poller \in dropping THEN until = Null ELSE
    /\ pc[Poller] \in {"prepare", "select", "cleanup"} => until = Null /\ dst = {}
    /\ pc[Poller] \in Enqueuing \cup Dequeuing =>
        /\ until = Null => \A n \in dst : ~Level(n)
        /\ until # Null => until \in In(c) \/ (pc[Poller] \in {"load", "cas"} /\ node[Poller] = until)
        /\ \A i \in 1..Len(c) : c[i] \in dst /\ Level(c[i]) => \E k \in 1..i : c[k] = until
        /\ pc[Poller] \in {"load", "cas"} /\ node[Poller] = until =>
              \A n \in dst : Level(n) => n = until
        /\ pc[Poller] = "process" /\ Level(node[Poller]) => node[Poller] \notin dst
        /\ \/ pc[Poller] \in {"dequeue_head", "dequeue_retry"}
           \/ pc[Poller] \in Enqueuing /\ node[Poller] = End
           => tail # until

(* poll looks for a node only while the batch has room.                    *)
RoomLeft ==
    /\ Poller \notin dropping
    /\ \/ pc[Poller] \in Dequeuing \ {"clear"}
       \/ pc[Poller] \in Enqueuing /\ node[Poller] = End
    => room > 0

(* The invariant, for the list c.                                          *)
IInv(c) ==
    /\ TypeOK /\ Calls /\ Polls /\ Told /\ RoomLeft
    /\ Linked(c) /\ Pending(c) /\ Carried(c) /\ Marked(c) /\ Flagged(c)
    /\ Counted(c) /\ LevelInv(c)

-----------------------------------------------------------------------------
(* Nodes, markers and the null pointer are different cells.                *)
LEMMA CellFacts ==
    /\ Null \notin Cells /\ End \in Cells /\ Sleep \in Cells /\ Closed \in Cells
    /\ Nodes \subseteq Cells /\ Nodes \cap Markers = {}
    /\ Null \notin Nodes /\ End \notin Nodes /\ Sleep \notin Nodes /\ Closed \notin Nodes
    /\ Markers = {End, Sleep, Closed} /\ Cells = Nodes \cup {End, Sleep, Closed}
    /\ End # Sleep /\ End # Closed /\ Sleep # Closed
    /\ Null # End /\ Null # Sleep /\ Null # Closed
  BY ConstantsAssumption DEF Null, End, Sleep, Closed, Cells, Markers

(* The poller is an actor of its own.                                      *)
LEMMA ActorFacts ==
    /\ Poller \in Actors /\ Poller \notin Producers
    /\ Producers \subseteq Actors /\ Actors = Producers \cup {Poller}
  BY ConstantsAssumption DEF Actors

(* A cell behind the list.                                                 *)
LEMMA InAppend ==
    ASSUME NEW S, NEW c \in Seq(S), NEW x \in S
    PROVE  /\ Append(c, x) \in Seq(S) /\ Len(Append(c, x)) = Len(c) + 1
           /\ Append(c, x)[Len(c) + 1] = x
           /\ \A i \in 1..Len(c) : Append(c, x)[i] = c[i]
           /\ In(Append(c, x)) = In(c) \cup {x}
  <1>1. /\ Append(c, x) \in Seq(S) /\ Len(Append(c, x)) = Len(c) + 1
        /\ Append(c, x)[Len(c) + 1] = x
        /\ \A i \in 1..Len(c) : Append(c, x)[i] = c[i]
    BY AppendProperties
  <1> DEFINE d == Append(c, x)
  <1> HIDE DEF d
  <1>2. Len(d) = Len(c) + 1 /\ d[Len(c) + 1] = x /\ \A i \in 1..Len(c) : d[i] = c[i]
    BY <1>1 DEF d
  <1>4. Len(c) \in Nat
    OBVIOUS
  <1>3. In(d) = In(c) \cup {x}
    <2>1. In(d) \subseteq In(c) \cup {x}
      BY <1>2, <1>4 DEF In
    <2>2. x \in In(d)
      BY <1>2, <1>4 DEF In
    <2>3. In(c) \subseteq In(d)
      BY <1>2, <1>4 DEF In
    <2> QED
      BY <2>1, <2>2, <2>3
  <1> QED
    BY <1>1, <1>3 DEF d

(* A list without its first cell.                                          *)
LEMMA InTail ==
    ASSUME NEW S, NEW c \in Seq(S), Len(c) > 1,
           \A i, j \in 1..Len(c) : c[i] = c[j] => i = j
    PROVE  /\ Tail(c) \in Seq(S) /\ Len(Tail(c)) = Len(c) - 1
           /\ \A i \in 1..Len(c) - 1 : Tail(c)[i] = c[i + 1]
           /\ In(Tail(c)) = In(c) \ {c[1]}
  <1>1. /\ Tail(c) \in Seq(S) /\ Len(Tail(c)) = Len(c) - 1
        /\ \A i \in 1..Len(c) - 1 : Tail(c)[i] = c[i + 1]
    OBVIOUS
  <1> DEFINE d == Tail(c)
  <1> HIDE DEF d
  <1>2. Len(d) = Len(c) - 1 /\ \A i \in 1..Len(c) - 1 : d[i] = c[i + 1]
    BY <1>1 DEF d
  <1>4. Len(c) \in Nat
    OBVIOUS
  <1>3. In(d) = In(c) \ {c[1]}
    <2>1. ASSUME NEW x \in In(d) PROVE x \in In(c) /\ x # c[1]
      <3>1. PICK i \in 1..Len(c) - 1 : x = d[i]
        BY <1>2 DEF In
      <3> QED
        BY <3>1, <1>2, <1>4 DEF In
    <2>2. ASSUME NEW x \in In(c), x # c[1] PROVE x \in In(d)
      <3>1. PICK i \in 1..Len(c) : x = c[i]
        BY DEF In
      <3>2. i - 1 \in 1..Len(d) /\ d[i - 1] = x
        BY <3>1, <2>2, <1>2, <1>4
      <3> QED
        BY <3>2 DEF In
    <2> QED
      BY <2>1, <2>2
  <1> QED
    BY <1>1, <1>3 DEF d

(* A list of one cell.                                                     *)
LEMMA InOne ==
    ASSUME NEW S, NEW x \in S
    PROVE  <<x>> \in Seq(S) /\ Len(<<x>>) = 1 /\ <<x>>[1] = x /\ In(<<x>>) = {x}
  BY DEF In

(* The list stands when no link in it, and nobody who has one to store,    *)
(* changes.                                                                *)
SameList(c) ==
    /\ UNCHANGED <<head, tail>>
    /\ \A i \in 1..Len(c) : next'[c[i]] = next[c[i]]
    /\ \A b \in Actors : pc'[b] = "link" <=> pc[b] = "link"
    /\ \A b \in Actors : pc[b] = "link" => prev'[b] = prev[b] /\ node'[b] = node[b]

(* What a list always has: cells, a first one and a last one.              *)
LEMMA ListFacts ==
    ASSUME NEW c, Linked(c)
    PROVE  /\ Len(c) \in Nat /\ Len(c) > 0 /\ c \in Seq(Cells)
           /\ \A i \in 1..Len(c) : c[i] \in Cells /\ c[i] \in In(c)
           /\ In(c) \subseteq Cells
           /\ head \in In(c) /\ tail \in In(c)
           /\ c[1] = tail /\ c[Len(c)] = head
           /\ head = tail => Len(c) = 1 /\ In(c) = {tail}
           /\ head # tail => Len(c) > 1
  <1>1. Len(c) \in Nat /\ Len(c) > 0 /\ c \in Seq(Cells)
    BY DEF Linked
  <1>2. \A i \in 1..Len(c) : c[i] \in Cells /\ c[i] \in In(c)
    BY <1>1 DEF In
  <1>3. In(c) \subseteq Cells
    BY <1>2 DEF In
  <1>4. c[1] = tail /\ c[Len(c)] = head
    BY DEF Linked
  <1>5. head = tail => Len(c) = 1
    <2>1. \A i, j \in 1..Len(c) : c[i] = c[j] => i = j
      BY DEF Linked
    <2>2. 1 \in 1..Len(c) /\ Len(c) \in 1..Len(c)
      BY <1>1
    <2> QED
      BY <1>4, <2>1, <2>2
  <1>6. head = tail => In(c) = {tail}
    BY <1>1, <1>4, <1>5 DEF In
  <1> QED
    BY <1>1, <1>2, <1>3, <1>4, <1>5, <1>6

(* Steps that touch no link keep the list.                                 *)
LEMMA ListStands ==
    ASSUME NEW c, Linked(c), Pending(c), SameList(c)
    PROVE  Linked(c)' /\ Pending(c)'
  <1>0. Len(c) \in Nat /\ head = c[Len(c)] /\ Len(c) > 0
    BY DEF Linked
  <1>1. ASSUME NEW i \in 1..Len(c) - 1
        PROVE  \/ next'[c[i]] = c[i + 1]
               \/ /\ next'[c[i]] = Null
                  /\ \E b \in Actors : pc'[b] = "link" /\ prev'[b] = c[i] /\ node'[b] = c[i + 1]
    <2>1. CASE next[c[i]] = c[i + 1]
      BY <1>0, <2>1 DEF SameList
    <2>2. CASE next[c[i]] = Null /\ \E b \in Actors :
                  pc[b] = "link" /\ prev[b] = c[i] /\ node[b] = c[i + 1]
      BY <1>0, <2>2 DEF SameList
    <2> QED
      BY <2>1, <2>2 DEF Linked
  <1>2. next'[head'] = Null
    BY <1>0 DEF Linked, SameList
  <1>3. Linked(c)'
    BY <1>1, <1>2 DEF Linked, SameList
  <1>4. Pending(c)'
    <2>1. ASSUME NEW b \in Actors, pc'[b] = "link"
          PROVE  \E i \in 1..Len(c) - 1 :
                    prev'[b] = c[i] /\ node'[b] = c[i + 1] /\ next'[c[i]] = Null
      BY <2>1, <1>0 DEF Pending, SameList
    <2> QED
      BY <2>1 DEF Pending, SameList
  <1> QED
    BY <1>3, <1>4

(* enqueue_node clears the node's link and loads head_readiness; the node  *)
(* is not in the list, so nobody follows that link.                        *)
LEMMA LoadKeeps ==
    ASSUME NEW c, NEW a \in Actors, IInv(c), EnqueueLoad(a) PROVE IInv(c)'
  <1> USE DEF IInv
  <1>0. Len(c) \in Nat
    BY DEF Linked
  <1>1. /\ pc[a] = "load" /\ node[a] \in Cells /\ node[a] \notin In(c)
        /\ next' = [next EXCEPT ![node[a]] = Null]
        /\ prev' = [prev EXCEPT ![a] = head]
        /\ pc' = [pc EXCEPT ![a] = "cas"]
        /\ UNCHANGED <<head, tail, pipe, edge, queued, dropped, ready, ref_count, reg, hold,
                       node, dropping, until, room, dst, blocking>>
    BY DEF EnqueueLoad, Goto, stateVars, ownVars, pollVars, Carried, Carrying
  <1>2. TypeOK'
    BY <1>1, CellFacts DEF TypeOK, Locations
  <1>3. Calls'
    BY <1>1, ActorFacts DEF Calls, TypeOK
  <1>4. Polls'
    BY <1>1, ActorFacts DEF Polls, TypeOK, Enqueuing, Dequeuing
  <1>5. Told'
    BY <1>1, ActorFacts DEF Told, TypeOK, PollerAt, Awakened
  <1>6. RoomLeft'
    BY <1>1, ActorFacts DEF RoomLeft, TypeOK, Enqueuing, Dequeuing
  <1>7. Linked(c)' /\ Pending(c)'
    <2>1. \A i \in 1..Len(c) : next'[c[i]] = next[c[i]]
      BY <1>1, ListFacts DEF TypeOK
    <2> QED
      BY <1>1, <2>1, ListStands DEF SameList, TypeOK
  <1>9. Carried(c)'
    BY <1>1 DEF Carried, Carrying, TypeOK
  <1>10. Marked(c)'
    BY <1>1, ActorFacts DEF Marked, TypeOK
  <1>11. Flagged(c)'
    BY <1>1 DEF Flagged, Carrying, TypeOK
  <1>12. Counted(c)'
    BY <1>1 DEF Counted, Holders, RegRef, QueueRef, Carrying, TypeOK
  <1>13. LevelInv(c)'
    BY <1>1, ActorFacts DEF LevelInv, TypeOK, Enqueuing, Dequeuing, Level
  <1> QED
    BY <1>2, <1>3, <1>4, <1>5, <1>6, <1>7, <1>9, <1>10, <1>11, <1>12, <1>13

(* A failed exchange only reloads head_readiness.                          *)
LEMMA CasFailsKeeps ==
    ASSUME NEW c, NEW a \in Actors, IInv(c), EnqueueCas(a), head # prev[a] PROVE IInv(c)'
  <1> USE DEF IInv
  <1>1. /\ pc[a] = "cas"
        /\ prev' = [prev EXCEPT ![a] = head]
        /\ UNCHANGED <<head, tail, next, pipe, edge, queued, dropped, ready, ref_count, reg, hold,
                       pc, node, dropping, until, room, dst, blocking>>
    BY DEF EnqueueCas, Goto, stateVars, ownVars, pollVars
  <1>2. TypeOK'
    BY <1>1, CellFacts DEF TypeOK, Locations
  <1>3. Calls' /\ Polls' /\ RoomLeft'
    BY <1>1 DEF Calls, Polls, RoomLeft
  <1>5. Told'
    BY <1>1, ActorFacts DEF Told, TypeOK, PollerAt, Awakened
  <1>7. Linked(c)' /\ Pending(c)'
    BY <1>1, ListStands DEF SameList, TypeOK
  <1>9. Carried(c)' /\ Flagged(c)' /\ Counted(c)'
    BY <1>1 DEF Carried, Carrying, Flagged, Counted, Holders, RegRef, QueueRef
  <1>10. Marked(c)'
    BY <1>1, ActorFacts DEF Marked, TypeOK
  <1>13. LevelInv(c)'
    BY <1>1 DEF LevelInv
  <1> QED
    BY <1>2, <1>3, <1>5, <1>7, <1>9, <1>10, <1>13

(* The exchange that succeeds puts the node at the end of the list.        *)
LEMMA CasKeeps ==
    ASSUME NEW c, NEW a \in Actors, IInv(c), EnqueueCas(a), head = prev[a]
    PROVE  \E d : d = Append(c, node[a]) /\ IInv(d)'
  <1> USE DEF IInv
  <1> PICK x : x = node[a]
    OBVIOUS
  <1> PICK d : d = Append(c, x)
    OBVIOUS
  <1>1. /\ pc[a] = "cas" /\ prev[a] # Closed /\ prev[a] = head
        /\ x \in Cells /\ x \notin In(c) /\ next[x] = Null
        /\ head' = x
        /\ pc' = [pc EXCEPT ![a] = "link"]
        /\ UNCHANGED <<tail, next, prev, pipe, edge, queued, dropped, ready, ref_count, reg, hold,
                       node, dropping, until, room, dst, blocking>>
    BY DEF EnqueueCas, QueueClosed, Goto, stateVars, ownVars, pollVars, Carried, Carrying
  <1>0. /\ d \in Seq(Cells) /\ Len(d) = Len(c) + 1 /\ d[Len(c) + 1] = x
        /\ \A i \in 1..Len(c) : d[i] = c[i]
        /\ In(d) = In(c) \cup {x}
    BY <1>1, ListFacts, InAppend
  <1>l. Len(c) \in Nat /\ Len(c) > 0 /\ c[1] = tail /\ c[Len(c)] = head /\ head \in In(c)
    BY ListFacts
  <1>2. TypeOK'
    BY <1>1 DEF TypeOK, Locations
  <1>3. Calls'
    BY <1>1, ActorFacts DEF Calls, TypeOK
  <1>4. Polls'
    BY <1>1, ActorFacts DEF Polls, TypeOK, Enqueuing, Dequeuing
  <1>5. Told'
    BY <1>1, ActorFacts DEF Told, TypeOK, PollerAt, Awakened
  <1>6. RoomLeft'
    BY <1>1, ActorFacts DEF RoomLeft, TypeOK, Enqueuing, Dequeuing
  <1>7. Linked(d)'
    <2>1. \A i, j \in 1..Len(d) : d[i] = d[j] => i = j
      BY <1>0, <1>l, <1>1 DEF Linked, In
    <2>2. ASSUME NEW i \in 1..Len(d) - 1
          PROVE  \/ next[d[i]] = d[i + 1]
                 \/ /\ next[d[i]] = Null
                    /\ \E b \in Actors : pc'[b] = "link" /\ prev[b] = d[i] /\ node[b] = d[i + 1]
      <3>1. CASE i = Len(c)
        <4>1. d[i] = head /\ d[i + 1] = x /\ next[head] = Null /\ pc'[a] = "link"
          BY <3>1, <1>0, <1>l, <1>1 DEF Linked, TypeOK
        <4> QED
          BY <4>1, <1>1
      <3>2. CASE i # Len(c)
        <4>1. i \in 1..Len(c) - 1 /\ d[i] = c[i] /\ d[i + 1] = c[i + 1]
          BY <3>2, <1>0, <1>l
        <4>2. \A b \in Actors : pc[b] = "link" => pc'[b] = "link"
          BY <1>1 DEF TypeOK
        <4> QED
          BY <4>1, <4>2 DEF Linked
      <3> QED
        BY <3>1, <3>2
    <2>3. d[1] = tail /\ d[Len(d)] = x
      BY <1>0, <1>l
    <2> QED
      BY <1>0, <1>l, <1>1, <2>1, <2>2, <2>3 DEF Linked
  <1>8. Pending(d)'
    <2>1. ASSUME NEW b \in Actors, pc[b] = "link"
          PROVE  /\ \E i \in 1..Len(d) - 1 : prev[b] = d[i] /\ node[b] = d[i + 1] /\ next[d[i]] = Null
                 /\ prev[b] # head
      <3>1. PICK i \in 1..Len(c) - 1 : prev[b] = c[i] /\ node[b] = c[i + 1] /\ next[c[i]] = Null
        BY <2>1 DEF Pending
      <3>2. i \in 1..Len(d) - 1 /\ d[i] = c[i] /\ d[i + 1] = c[i + 1]
        BY <1>0, <1>l
      <3>3. c[i] # c[Len(c)]
        BY <1>l DEF Linked
      <3> QED
        BY <3>1, <3>2, <3>3, <1>l
    <2>2. \E i \in 1..Len(d) - 1 : prev[a] = d[i] /\ node[a] = d[i + 1] /\ next[d[i]] = Null
      BY <1>0, <1>l, <1>1 DEF Linked
    <2>3. \A b \in Actors : pc'[b] = "link" <=> b = a \/ pc[b] = "link"
      BY <1>1 DEF TypeOK
    <2>4. ASSUME NEW b1 \in Actors, NEW b2 \in Actors,
                 pc'[b1] = "link", pc'[b2] = "link", prev[b1] = prev[b2]
          PROVE  b1 = b2
      BY <1>1, <2>1, <2>3, <2>4 DEF Pending
    <2>5. ASSUME NEW b \in Actors, pc'[b] = "link"
          PROVE  \E i \in 1..Len(d) - 1 : prev[b] = d[i] /\ node[b] = d[i + 1] /\ next[d[i]] = Null
      <3>1. CASE b = a
        BY <3>1, <2>2
      <3>2. CASE b # a
        <4>1. pc[b] = "link"
          BY <3>2, <2>3, <2>5
        <4> QED
          BY <4>1, <2>1
      <3> QED
        BY <3>1, <3>2
    <2> QED
      BY <1>1, <2>4, <2>5 DEF Pending
  <1>9. Carried(d)'
    BY <1>0, <1>1 DEF Carried, Carrying, TypeOK
  <1>10. Marked(d)'
    BY <1>0, <1>1, <1>l, ActorFacts, CellFacts DEF Marked, TypeOK, Polls, Calls, Enqueuing
  <1>11. Flagged(d)'
    BY <1>0, <1>1 DEF Flagged, Carrying, TypeOK
  <1>12. Counted(d)'
    <2>1. \A n \in Nodes : QueueRef(d, n)' = QueueRef(c, n)
      <3> SUFFICES ASSUME NEW n \in Nodes PROVE QueueRef(d, n)' = QueueRef(c, n)
        OBVIOUS
      <3>1. CASE n = x
        BY <3>1, <1>0, <1>1 DEF QueueRef, Carrying, TypeOK
      <3>2. CASE n # x
        BY <3>2, <1>0, <1>1 DEF QueueRef, Carrying, TypeOK
      <3> QED
        BY <3>1, <3>2
    <2> QED
      BY <1>1, <2>1 DEF Counted, Holders, RegRef
  <1>13. LevelInv(d)'
    <2>1. Poller \notin dropping /\ pc[Poller] \in Enqueuing \cup Dequeuing =>
            \A i \in 1..Len(d) : d[i] \in dst /\ Level(d[i]) => \E k \in 1..i : d[k] = until
      <3> SUFFICES ASSUME Poller \notin dropping, pc[Poller] \in Enqueuing \cup Dequeuing,
                          NEW i \in 1..Len(d), d[i] \in dst, Level(d[i])
                   PROVE  \E k \in 1..i : d[k] = until
        OBVIOUS
      <3>1. CASE i \in 1..Len(c)
        BY <3>1, <1>0, <1>l DEF LevelInv
      <3>2. CASE i = Len(c) + 1 /\ until = x
        BY <3>2, <1>0, <1>l
      <3>3. CASE i = Len(c) + 1 /\ until # x
        <4>1. until \in In(c)
          BY <3>3, <1>0, <1>1, ActorFacts DEF LevelInv, Carried, Carrying
        <4> QED
          BY <4>1, <3>3, <1>0, <1>l DEF In
      <3> QED
        BY <3>1, <3>2, <3>3, <1>0, <1>l
    <2>2. CASE Poller \in dropping
      BY <2>2, <1>1 DEF LevelInv
    <2>3. CASE Poller \notin dropping /\ a = Poller
      <3>1. pc[Poller] = "cas" /\ pc'[Poller] = "link"
        BY <2>3, <1>1 DEF TypeOK
      <3> QED
        BY <2>1, <2>3, <3>1, <1>0, <1>1 DEF LevelInv, Enqueuing, Dequeuing, Level
    <2>4. CASE Poller \notin dropping /\ a # Poller
      <3>1. pc'[Poller] = pc[Poller]
        BY <2>4, <1>1, ActorFacts DEF TypeOK
      <3> QED
        BY <2>1, <2>4, <3>1, <1>0, <1>1 DEF LevelInv, Level
    <2> QED
      BY <2>2, <2>3, <2>4
  <1> QED
    BY <1>2, <1>3, <1>4, <1>5, <1>6, <1>7, <1>8, <1>9, <1>10, <1>11, <1>12, <1>13

(* The actor goes to r with m for its node.                                *)
ReturnsTo(a, r, m) ==
    /\ pc' = [pc EXCEPT ![a] = r] /\ node' = [node EXCEPT ![a] = m]
    /\ prev' = [prev EXCEPT ![a] = Null]
    /\ a \in Producers => IF a \in dropping THEN r = "release" /\ m = node[a]
                                            ELSE r = "idle" /\ m = Null
    /\ a = Poller =>
          /\ m = Null
          /\ r = IF node[a] = End THEN "dequeue_retry"
                 ELSE IF node[a] # Closed /\ room = 0 THEN "idle" ELSE "dequeue"

(* Where enqueue_node returns to, with which node in hand.                 *)
LEMMA ReturnEffect ==
    ASSUME NEW a \in Actors, ReturnFromEnqueue(a)
    PROVE  \E r, m : ReturnsTo(a, r, m)
  <1> DEFINE r == AfterEnqueue(a)
             m == IF r = "release" THEN node[a] ELSE Null
  <1>1. /\ pc' = [pc EXCEPT ![a] = r] /\ node' = [node EXCEPT ![a] = m]
        /\ prev' = [prev EXCEPT ![a] = Null]
    BY DEF ReturnFromEnqueue, Goto
  <1>2. a \in Producers => r = IF a \in dropping THEN "release" ELSE "idle"
    BY ActorFacts DEF AfterEnqueue
  <1>3. a = Poller => r = IF node[a] = End THEN "dequeue_retry"
                          ELSE IF node[a] # Closed /\ room = 0 THEN "idle" ELSE "dequeue"
    BY ActorFacts DEF AfterEnqueue
  <1> HIDE DEF r
  <1>4. ReturnsTo(a, r, m)
    BY <1>1, <1>2, <1>3, ActorFacts DEF ReturnsTo
  <1> QED
    BY <1>4

(* What a return leaves in order, whatever the actor did before it.        *)
LEMMA ReturnKeeps ==
    ASSUME NEW c, NEW a \in Actors, IInv(c), NEW r, NEW m, ReturnsTo(a, r, m),
           pc[a] \in {"cas", "link", "wake"},
           UNCHANGED <<head, tail, queued, dropped, ready, reg, hold, dropping, until, room,
                       dst, blocking>>,
           \A x \in Cells \ In(c) : next'[x] = next[x],
           pc[a] = "cas" => head = Closed
    PROVE  Calls' /\ Polls' /\ RoomLeft' /\ Carried(c)' /\ Marked(c)' /\ Flagged(c)' /\ LevelInv(c)'
  <1> USE DEF IInv
  <1>1. /\ pc' = [pc EXCEPT ![a] = r] /\ node' = [node EXCEPT ![a] = m]
        /\ prev' = [prev EXCEPT ![a] = Null]
    BY DEF ReturnsTo
  <1>2. CASE a \in Producers
    <2>1. /\ a # Poller /\ pc'[Poller] = pc[Poller] /\ node'[Poller] = node[Poller]
          /\ IF a \in dropping THEN r = "release" /\ m = node[a] ELSE r = "idle" /\ m = Null
          /\ node[a] \in Nodes
      BY <1>1, <1>2, ActorFacts DEF ReturnsTo, TypeOK, Calls
    <2>2. Calls'
      BY <1>1, <1>2, <2>1, ActorFacts DEF Calls, TypeOK
    <2>3. Polls' /\ RoomLeft'
      BY <1>1, <1>2, <2>1 DEF Polls, RoomLeft, Enqueuing, Dequeuing
    <2>4. Carried(c)'
      BY <1>1, <2>1 DEF Carried, Carrying, TypeOK
    <2>5. Marked(c)'
      BY <1>1, <2>1 DEF Marked, TypeOK
    <2>6. Flagged(c)'
      BY <1>1, <2>1 DEF Flagged, Carrying, TypeOK
    <2>7. LevelInv(c)'
      BY <1>1, <2>1 DEF LevelInv, Level, Enqueuing, Dequeuing
    <2> QED
      BY <2>2, <2>3, <2>4, <2>5, <2>6, <2>7
  <1>3. CASE a = Poller
    <2>1. /\ \A p \in Producers : pc'[p] = pc[p] /\ node'[p] = node[p]
          /\ pc'[Poller] = r /\ node'[Poller] = Null /\ m = Null
          /\ r = IF node[a] = End THEN "dequeue_retry"
                 ELSE IF node[a] # Closed /\ room = 0 THEN "idle" ELSE "dequeue"
      BY <1>1, <1>3, ActorFacts DEF ReturnsTo, TypeOK
    <2>2. Calls'
      BY <1>1, <1>3, <2>1, ActorFacts DEF Calls, TypeOK
    <2>3. Polls' /\ RoomLeft'
      BY <1>1, <1>3, <2>1, CellFacts DEF Polls, RoomLeft, Enqueuing, Dequeuing, TypeOK
    <2>4. Carried(c)'
      BY <1>1, <2>1 DEF Carried, Carrying, TypeOK
    <2>5. Marked(c)'
      BY <1>1, <2>1, <1>3 DEF Marked, TypeOK
    <2>6. Flagged(c)'
      BY <1>1, <2>1 DEF Flagged, Carrying, TypeOK
    <2>7. LevelInv(c)'
      <3>1. CASE pc[Poller] = "cas"
        BY <3>1, <1>3, ListFacts DEF LevelInv, Marked
      <3>2. CASE pc[Poller] = "link"
        BY <3>2, <1>3, <2>1 DEF LevelInv, Level, Enqueuing, Dequeuing
      <3> QED
        BY <3>1, <3>2, <1>3 DEF Polls
    <2> QED
      BY <2>2, <2>3, <2>4, <2>5, <2>6, <2>7
  <1> QED
    BY <1>2, <1>3, ActorFacts

(* The holders of a node are finitely many.                                *)
LEMMA HoldersCounted ==
    ASSUME NEW h, NEW n
    PROVE  /\ IsFiniteSet({p \in Producers : n \in h[p]})
           /\ Cardinality({p \in Producers : n \in h[p]}) \in Nat
  <1>1. {p \in Producers : n \in h[p]} \in SUBSET Producers
    OBVIOUS
  <1>2. IsFiniteSet({p \in Producers : n \in h[p]})
    BY <1>1, FS_Subset, ConstantsAssumption
  <1> QED
    BY <1>2, FS_CardinalityType

(* A return releases no reference: the Registration's stays until it is    *)
(* released, the queue's until the node has no place.                      *)
LEMMA ReturnCounts ==
    ASSUME NEW c, NEW a \in Actors, IInv(c), NEW r, NEW m, ReturnsTo(a, r, m),
           pc[a] \in {"cas", "link", "wake"}, UNCHANGED <<queued, reg, hold, dropping>>
    PROVE  /\ \A n \in Nodes : Holders(n)' = Holders(n) /\ RegRef(n)' = RegRef(n)
           /\ pc[a] # "cas" => \A n \in Nodes : QueueRef(c, n)' = QueueRef(c, n)
           /\ pc[a] = "cas" => \A n \in Nodes : QueueRef(c, n)' =
                                  IF n = node[a] THEN 0 ELSE QueueRef(c, n)
  <1> USE DEF IInv
  <1>1. /\ pc' = [pc EXCEPT ![a] = r] /\ node' = [node EXCEPT ![a] = m]
        /\ r \notin {"load", "cas", "process"}
    BY DEF ReturnsTo, Actors
  <1>2. ASSUME NEW n \in Nodes PROVE Holders(n)' = Holders(n) /\ RegRef(n)' = RegRef(n)
    <2>1. \A p \in Producers \cap dropping : node'[p] = node[p]
      BY <1>1, ActorFacts DEF ReturnsTo, TypeOK
    <2> QED
      BY <2>1 DEF Holders, RegRef
  <1>3. ASSUME NEW n \in Nodes, n # node[a] \/ pc[a] # "cas"
        PROVE  QueueRef(c, n)' = QueueRef(c, n)
    BY <1>1, <1>3 DEF QueueRef, Carrying, TypeOK
  <1>4. ASSUME NEW n \in Nodes, n = node[a], pc[a] = "cas"
        PROVE  QueueRef(c, n)' = 0
    <2>1. queued[n] /\ n \notin In(c)
      BY <1>4 DEF Flagged, Carrying, Carried
    <2>2. ~ \E b \in Actors : Carrying(b)' /\ node'[b] = n
      BY <1>1, <1>4 DEF Carrying, Carried, TypeOK
    <2> QED
      BY <2>1, <2>2 DEF QueueRef
  <1> QED
    BY <1>2, <1>3, <1>4

(* Types across a return.                                                  *)
LEMMA ReturnTypes ==
    ASSUME NEW a \in Actors, TypeOK, NEW r, NEW m, ReturnsTo(a, r, m)
    PROVE  /\ pc' \in [Actors -> Locations] /\ node' \in [Actors -> Cells \cup {Null}]
           /\ prev' \in [Actors -> Cells \cup {Null}]
  <1>1. r \in Locations /\ m \in Cells \cup {Null}
    BY ActorFacts DEF ReturnsTo, TypeOK, Locations
  <1> QED
    BY <1>1 DEF ReturnsTo, TypeOK

(* A store of the link behind a cell makes the pending link a real one.    *)
LEMMA LinkStored ==
    ASSUME NEW c, NEW a \in Actors, TypeOK, Linked(c), Pending(c), pc[a] = "link",
           next' = [next EXCEPT ![prev[a]] = node[a]],
           UNCHANGED <<head, tail>>,
           \A b \in Actors : pc'[b] = "link" <=> b # a /\ pc[b] = "link",
           \A b \in Actors : b # a => prev'[b] = prev[b] /\ node'[b] = node[b]
    PROVE  /\ Linked(c)' /\ Pending(c)'
           /\ \A x \in Cells \ In(c) : next'[x] = next[x]
           /\ next' \in [Cells -> Cells \cup {Null}]
  <1>1. PICK k \in 1..Len(c) - 1 : prev[a] = c[k] /\ node[a] = c[k + 1] /\ next[c[k]] = Null
    BY DEF Pending
  <1>2. /\ Len(c) \in Nat /\ \A i \in 1..Len(c) : c[i] \in Cells /\ c[i] \in In(c)
        /\ c[1] = tail /\ c[Len(c)] = head /\ Len(c) > 0 /\ c \in Seq(Cells)
    BY ListFacts
  <1>3. \A i, j \in 1..Len(c) : c[i] = c[j] => i = j
    BY DEF Linked
  <1>4. \A i \in 1..Len(c) : next'[c[i]] = IF i = k THEN c[k + 1] ELSE next[c[i]]
    BY <1>1, <1>2, <1>3 DEF TypeOK
  <1>5. \A x \in Cells \ In(c) : next'[x] = next[x]
    BY <1>1, <1>2 DEF TypeOK
  <1>6. next' \in [Cells -> Cells \cup {Null}]
    BY DEF TypeOK
  <1>7. ASSUME NEW i \in 1..Len(c) - 1
        PROVE  \/ next'[c[i]] = c[i + 1]
               \/ /\ next'[c[i]] = Null
                  /\ \E b \in Actors : pc'[b] = "link" /\ prev'[b] = c[i] /\ node'[b] = c[i + 1]
    <2>1. CASE i = k
      BY <2>1, <1>2, <1>4
    <2>2. CASE i # k
      <3>1. next'[c[i]] = next[c[i]] /\ c[i] # prev[a]
        BY <2>2, <1>1, <1>2, <1>3, <1>4
      <3>2. CASE next[c[i]] = c[i + 1]
        BY <3>1, <3>2
      <3>3. CASE next[c[i]] = Null /\ \E b \in Actors :
                    pc[b] = "link" /\ prev[b] = c[i] /\ node[b] = c[i + 1]
        BY <3>1, <3>3
      <3> QED
        BY <3>2, <3>3 DEF Linked
    <2> QED
      BY <2>1, <2>2
  <1>8. next'[head'] = Null
    BY <1>2, <1>4 DEF Linked
  <1>9. Linked(c)'
    BY <1>2, <1>3, <1>7, <1>8 DEF Linked
  <1>10. Pending(c)'
    <2>1. ASSUME NEW b \in Actors, pc'[b] = "link"
          PROVE  \E i \in 1..Len(c) - 1 :
                    prev'[b] = c[i] /\ node'[b] = c[i + 1] /\ next'[c[i]] = Null
      <3>1. b # a /\ pc[b] = "link" /\ prev'[b] = prev[b] /\ node'[b] = node[b]
        BY <2>1
      <3>2. PICK i \in 1..Len(c) - 1 : prev[b] = c[i] /\ node[b] = c[i + 1] /\ next[c[i]] = Null
        BY <3>1 DEF Pending
      <3>3. i # k
        BY <3>1, <3>2, <1>1 DEF Pending
      <3> QED
        BY <3>1, <3>2, <3>3, <1>2, <1>4
    <2> QED
      BY <2>1 DEF Pending
  <1> QED
    BY <1>5, <1>6, <1>9, <1>10

(* The store of the link behind the previous head.                         *)
LEMMA LinkKeeps ==
    ASSUME NEW c, NEW a \in Actors, IInv(c), EnqueueLink(a) PROVE IInv(c)'
  <1> USE DEF IInv
  <1>1. /\ pc[a] = "link" /\ next' = [next EXCEPT ![prev[a]] = node[a]]
        /\ UNCHANGED <<head, tail, pipe, edge, queued, dropped, ready, ref_count, reg, hold,
                       dropping, until, room, dst, blocking>>
    BY DEF EnqueueLink, stateVars, ownVars, pollVars
  <1>2. CASE MustWake(a)
    <2>1. a \in Producers /\ pc' = [pc EXCEPT ![a] = "wake"] /\ UNCHANGED <<node, prev>>
      BY <1>2, ActorFacts DEF EnqueueLink, MustWake, Goto, localVars
    <2>2. /\ Linked(c)' /\ Pending(c)' /\ \A x \in Cells \ In(c) : next'[x] = next[x]
          /\ next' \in [Cells -> Cells \cup {Null}]
      BY <1>1, <2>1, LinkStored DEF TypeOK
    <2>3. TypeOK'
      BY <1>1, <2>1, <2>2 DEF TypeOK, Locations
    <2>4. Calls' /\ Polls' /\ RoomLeft'
      BY <1>1, <2>1, ActorFacts DEF Calls, Polls, RoomLeft, TypeOK
    <2>5. Told'
      BY <1>1, <2>1, ActorFacts DEF Told, TypeOK, PollerAt, Awakened
    <2>6. Carried(c)'
      BY <1>1, <2>1, <2>2 DEF Carried, Carrying, TypeOK
    <2>7. Marked(c)'
      BY <1>1, <2>1, ActorFacts DEF Marked, TypeOK
    <2>8. Flagged(c)'
      BY <1>1, <2>1 DEF Flagged, Carrying, TypeOK
    <2>9. Counted(c)'
      BY <1>1, <2>1 DEF Counted, Holders, RegRef, QueueRef, Carrying, TypeOK
    <2>10. LevelInv(c)'
      BY <1>1, <2>1, ActorFacts DEF LevelInv, TypeOK
    <2> QED
      BY <2>2, <2>3, <2>4, <2>5, <2>6, <2>7, <2>8, <2>9, <2>10
  <1>3. CASE ~MustWake(a)
    <2>1. PICK r, m : ReturnsTo(a, r, m)
      BY <1>3, ReturnEffect DEF EnqueueLink
    <2>a. /\ pc' = [pc EXCEPT ![a] = r] /\ node' = [node EXCEPT ![a] = m]
          /\ prev' = [prev EXCEPT ![a] = Null] /\ r \notin {"link", "select"}
      BY <2>1 DEF ReturnsTo, Actors
    <2>2. /\ Linked(c)' /\ Pending(c)' /\ \A x \in Cells \ In(c) : next'[x] = next[x]
          /\ next' \in [Cells -> Cells \cup {Null}]
      BY <1>1, <2>a, LinkStored DEF TypeOK
    <2>3. TypeOK'
      BY <1>1, <2>1, <2>2, ReturnTypes DEF TypeOK
    <2>4. Calls' /\ Polls' /\ RoomLeft' /\ Carried(c)' /\ Marked(c)' /\ Flagged(c)' /\ LevelInv(c)'
      BY <1>1, <2>1, <2>2, ReturnKeeps
    <2>5. Told'
      BY <1>1, <1>3, <2>a, ActorFacts DEF Told, TypeOK, PollerAt, Awakened, MustWake
    <2>9. Counted(c)'
      BY <1>1, <2>1, ReturnCounts DEF Counted
    <2> QED
      BY <2>2, <2>3, <2>4, <2>5, <2>9
  <1> QED
    BY <1>2, <1>3

(* The byte written to the pipe.                                           *)
LEMMA WakeupKeeps ==
    ASSUME NEW c, NEW a \in Actors, IInv(c), Wakeup(a) PROVE IInv(c)'
  <1> USE DEF IInv
  <1>1. /\ pc[a] = "wake" /\ pipe' = TRUE /\ edge' = TRUE
        /\ UNCHANGED <<head, tail, next, queued, dropped, ready, ref_count, reg, hold,
                       dropping, until, room, dst, blocking>>
    BY DEF Wakeup, queueVars, stateVars, ownVars, pollVars
  <1>2. PICK r, m : ReturnsTo(a, r, m)
    BY ReturnEffect DEF Wakeup
  <1>3. /\ pc' = [pc EXCEPT ![a] = r] /\ node' = [node EXCEPT ![a] = m]
        /\ prev' = [prev EXCEPT ![a] = Null] /\ r \notin {"link", "select"}
    BY <1>2 DEF ReturnsTo, Actors
  <1>4. TypeOK'
    BY <1>1, <1>2, ReturnTypes DEF TypeOK
  <1>5. Calls' /\ Polls' /\ RoomLeft' /\ Carried(c)' /\ Marked(c)' /\ Flagged(c)' /\ LevelInv(c)'
    BY <1>1, <1>2, ReturnKeeps
  <1>6. Told'
    BY <1>1, <1>3, ActorFacts DEF Told, TypeOK, PollerAt, Awakened
  <1>7. Linked(c)' /\ Pending(c)'
    BY <1>1, <1>3, ListStands DEF SameList, TypeOK
  <1>8. Counted(c)'
    BY <1>1, <1>2, ReturnCounts DEF Counted
  <1> QED
    BY <1>4, <1>5, <1>6, <1>7, <1>8

(* The exchange that finds the closed marker gives the queue's reference   *)
(* back instead of putting the node in.                                    *)
LEMMA ClosedKeeps ==
    ASSUME NEW c, NEW a \in Actors, IInv(c), EnqueueClosed(a) PROVE IInv(c)'
  <1> USE DEF IInv
  <1>1. /\ pc[a] = "cas" /\ head = Closed
        /\ UNCHANGED <<head, tail, next, pipe, edge, queued, dropped, ready, reg, hold,
                       dropping, until, room, dst, blocking>>
    BY DEF EnqueueClosed, QueueClosed, queueVars, stateVars, pollVars, Marked
  <1>2. PICK r, m : ReturnsTo(a, r, m)
    BY ReturnEffect DEF EnqueueClosed
  <1>3. /\ pc' = [pc EXCEPT ![a] = r] /\ node' = [node EXCEPT ![a] = m]
        /\ prev' = [prev EXCEPT ![a] = Null] /\ r \notin {"link", "select"}
    BY <1>2 DEF ReturnsTo, Actors
  <1>5. Calls' /\ Polls' /\ RoomLeft' /\ Carried(c)' /\ Marked(c)' /\ Flagged(c)' /\ LevelInv(c)'
    BY <1>1, <1>2, ReturnKeeps
  <1>6. Told'
    BY <1>1, <1>3, ActorFacts DEF Told, TypeOK, PollerAt, Awakened
  <1>7. Linked(c)' /\ Pending(c)'
    BY <1>1, <1>3, ListStands DEF SameList, TypeOK
  <1>8. Counted(c)' /\ ref_count' \in [Nodes -> Nat]
    <2>1. ASSUME NEW n \in Nodes
          PROVE  /\ ref_count'[n] = Cardinality(Holders(n)) + RegRef(n)
                                      + IF n = node[a] THEN 0 ELSE QueueRef(c, n)
                 /\ ref_count'[n] \in Nat
      <3>1. ref_count'[n] = IF n = node[a] THEN ref_count[n] - 1 ELSE ref_count[n]
        BY <1>1 DEF EnqueueClosed, ReleaseNode, TypeOK
      <3>2. Cardinality(Holders(n)) \in Nat /\ RegRef(n) \in Nat
        BY HoldersCounted DEF Holders, RegRef
      <3>3. n = node[a] => QueueRef(c, n) = 1
        BY <1>1 DEF QueueRef, Carrying
      <3>4. QueueRef(c, n) \in Nat
        BY DEF QueueRef
      <3> QED
        BY <3>1, <3>2, <3>3, <3>4 DEF Counted
    <2>2. Counted(c)'
      BY <1>1, <1>2, <2>1, ReturnCounts DEF Counted
    <2>3. ref_count' \in [Nodes -> Int]
      BY DEF EnqueueClosed, ReleaseNode, TypeOK
    <2> QED
      BY <2>1, <2>2, <2>3
  <1>9. TypeOK'
    BY <1>1, <1>2, <1>8, ReturnTypes DEF TypeOK
  <1> QED
    BY <1>5, <1>6, <1>7, <1>8, <1>9

-----------------------------------------------------------------------------
(* An idle producer takes node n in hand: it was not flagged, so it has no *)
(* place yet.                                                              *)
LEMMA Unplaced ==
    ASSUME NEW c, IInv(c), NEW n \in Nodes, ~queued[n]
    PROVE  n \notin In(c) /\ \A b \in Actors : Carrying(b) => node[b] # n
  BY DEF IInv, Flagged

(* set_readiness: who turns queued on takes the node in hand.              *)
LEMMA SetReadinessKeeps ==
    ASSUME NEW c, NEW p \in Producers, NEW n \in Nodes, NEW r \in BOOLEAN,
           IInv(c), SetReadiness(p, n, r)
    PROVE  IInv(c)'
  <1> USE DEF IInv
  <1>1. /\ pc[p] = "idle" /\ n \in hold[p] /\ ~dropped[n]
        /\ p \in Actors /\ p # Poller /\ p \notin dropping
        /\ UNCHANGED <<head, tail, next, pipe, edge, dropped, ref_count, reg, hold, prev,
                       dropping, until, room, dst, blocking>>
    BY ActorFacts DEF SetReadiness, Idle, queueVars, ownVars, pollVars, Calls
  <1>2. /\ queued' \in [Nodes -> BOOLEAN] /\ ready' \in [Nodes -> BOOLEAN]
        /\ \A x \in Nodes : queued[x] => queued'[x]
        /\ \A x \in Nodes : x # n => queued'[x] = queued[x]
        /\ queued'[n] = (queued[n] \/ r)
    <2>1. queued' = [queued EXCEPT ![n] = queued[n] \/ r] /\ ready' = [ready EXCEPT ![n] = r]
      BY DEF SetReadiness
    <2> QED
      BY <2>1, Zenon DEF TypeOK
  <1>3. CASE r /\ ~queued[n]
    <2>1. /\ pc' = [pc EXCEPT ![p] = "load"] /\ node' = [node EXCEPT ![p] = n] /\ queued'[n]
          /\ n \in Cells
      BY <1>2, <1>3, CellFacts DEF SetReadiness, Enqueue, Goto
    <2>2. n \notin In(c) /\ \A b \in Actors : Carrying(b) => node[b] # n
      BY <1>3, Unplaced
    <2>3. TypeOK'
      BY <1>1, <1>2, <2>1 DEF TypeOK, Locations
    <2>4. Calls'
      BY <1>1, <2>1 DEF Calls, TypeOK
    <2>5. Polls' /\ RoomLeft'
      BY <1>1, <2>1, ActorFacts DEF Polls, RoomLeft, TypeOK
    <2>6. Told'
      BY <1>1, <2>1, ActorFacts DEF Told, PollerAt, Awakened, TypeOK
    <2>7. Linked(c)' /\ Pending(c)'
      BY <1>1, <2>1, ListStands DEF SameList, TypeOK
    <2>8. Carried(c)'
      BY <1>1, <2>1, <2>2 DEF Carried, Carrying, TypeOK
    <2>9. Marked(c)'
      BY <1>1, <2>1, ActorFacts DEF Marked, TypeOK
    <2>10. Flagged(c)'
      BY <1>1, <1>2, <2>1 DEF Flagged, Carrying, TypeOK
    <2>11. Counted(c)'
      <3>1. ASSUME NEW x \in Nodes PROVE QueueRef(c, x)' = QueueRef(c, x)
        <4>1. CASE x = n
          <5>1. Carrying(p)' /\ node'[p] = n
            BY <1>1, <2>1 DEF Carrying, TypeOK
          <5> QED
            BY <4>1, <5>1, <1>1, <1>3 DEF QueueRef
        <4>2. CASE x # n
          BY <4>2, <1>1, <1>2, <2>1 DEF QueueRef, Carrying, TypeOK
        <4> QED
          BY <4>1, <4>2
      <3>2. ASSUME NEW x \in Nodes PROVE RegRef(x)' = RegRef(x)
        BY <1>1, <2>1 DEF RegRef, TypeOK
      <3> QED
        BY <1>1, <3>1, <3>2 DEF Counted, Holders
    <2>12. LevelInv(c)'
      BY <1>1, <2>1, ActorFacts DEF LevelInv, TypeOK
    <2> QED
      BY <2>3, <2>4, <2>5, <2>6, <2>7, <2>8, <2>9, <2>10, <2>11, <2>12
  <1>4. CASE ~(r /\ ~queued[n])
    <2>1. UNCHANGED <<pc, node>> /\ \A x \in Nodes : queued'[x] = queued[x]
      BY <1>2, <1>4 DEF SetReadiness, TypeOK
    <2>2. TypeOK'
      BY <1>1, <1>2, <2>1 DEF TypeOK
    <2>3. Calls' /\ Polls' /\ RoomLeft' /\ Told' /\ Carried(c)' /\ Marked(c)' /\ LevelInv(c)'
      BY <1>1, <2>1 DEF Calls, Polls, RoomLeft, Told, PollerAt, Awakened, Carried, Carrying,
                        Marked, LevelInv
    <2>4. Linked(c)' /\ Pending(c)'
      BY <1>1, <2>1, ListStands DEF SameList
    <2>5. Flagged(c)' /\ Counted(c)'
      BY <1>1, <2>1 DEF Flagged, Carrying, Counted, Holders, RegRef, QueueRef
    <2> QED
      BY <2>2, <2>3, <2>4, <2>5
  <1> QED
    BY <1>3, <1>4

(* The drop of a Registration flags the node for good, and puts it into    *)
(* the list if it was not.                                                 *)
LEMMA DropRegistrationKeeps ==
    ASSUME NEW c, NEW p \in Producers, NEW n \in Nodes, IInv(c), DropRegistration(p, n)
    PROVE  IInv(c)'
  <1> USE DEF IInv
  <1> PICK l : l = IF FlagAsDropped(n) THEN "load" ELSE "release"
    OBVIOUS
  <1>1. /\ pc[p] = "idle" /\ n \in reg /\ n \in Cells /\ ~dropped[n]
        /\ p \in Actors /\ p # Poller /\ p \notin dropping
        /\ reg' = reg \ {n}
        /\ dropped' = [dropped EXCEPT ![n] = TRUE] /\ queued' = [queued EXCEPT ![n] = TRUE]
        /\ node' = [node EXCEPT ![p] = n] /\ dropping' = dropping \cup {p}
        /\ pc' = [pc EXCEPT ![p] = l]
        /\ l \in {"load", "release"} /\ (l = "load" <=> ~queued[n])
        /\ UNCHANGED <<head, tail, next, pipe, edge, ready, ref_count, hold, prev,
                       until, room, dst, blocking>>
    BY ActorFacts, CellFacts
    DEF DropRegistration, Idle, Goto, FlagAsDropped, queueVars, pollVars, Calls, Flagged
  <1>2. l = "load" => n \notin In(c) /\ \A b \in Actors : Carrying(b) => node[b] # n
    BY <1>1, Unplaced
  <1>3. TypeOK'
    BY <1>1 DEF TypeOK, Locations
  <1>4. Calls'
    BY <1>1 DEF Calls, TypeOK
  <1>5. Polls' /\ RoomLeft'
    BY <1>1, ActorFacts DEF Polls, RoomLeft, TypeOK
  <1>6. Told'
    BY <1>1, ActorFacts DEF Told, PollerAt, Awakened, TypeOK
  <1>7. Linked(c)' /\ Pending(c)'
    BY <1>1, ListStands DEF SameList, TypeOK
  <1>8. Carried(c)'
    BY <1>1, <1>2 DEF Carried, Carrying, TypeOK
  <1>9. Marked(c)'
    BY <1>1, ActorFacts DEF Marked, TypeOK
  <1>10. Flagged(c)'
    BY <1>1 DEF Flagged, Carrying, TypeOK
  <1>11. Counted(c)'
    <2>1. ASSUME NEW x \in Nodes PROVE QueueRef(c, x)' = QueueRef(c, x)
      <3>1. CASE x = n /\ l = "load"
        <4>1. Carrying(p)' /\ node'[p] = n
          BY <3>1, <1>1 DEF Carrying, TypeOK
        <4> QED
          BY <3>1, <4>1, <1>1 DEF QueueRef
      <3>2. CASE ~(x = n /\ l = "load")
        <4>1. queued'[x] = queued[x]
          BY <3>2, <1>1 DEF TypeOK
        <4>2. (\E b \in Actors : Carrying(b)' /\ node'[b] = x)
                <=> (\E b \in Actors : Carrying(b) /\ node[b] = x)
          BY <3>2, <1>1 DEF Carrying, TypeOK
        <4> QED
          BY <4>1, <4>2 DEF QueueRef
      <3> QED
        BY <3>1, <3>2
    <2>2. ASSUME NEW x \in Nodes PROVE RegRef(x)' = RegRef(x)
      <3>1. CASE x = n
        BY <3>1, <1>1 DEF RegRef, TypeOK
      <3>2. CASE x # n
        BY <3>2, <1>1 DEF RegRef, TypeOK
      <3> QED
        BY <3>1, <3>2
    <2> QED
      BY <1>1, <2>1, <2>2 DEF Counted, Holders
  <1>12. LevelInv(c)'
    BY <1>1, ActorFacts DEF LevelInv, TypeOK
  <1> QED
    BY <1>3, <1>4, <1>5, <1>6, <1>7, <1>8, <1>9, <1>10, <1>11, <1>12

(* The Registration's own reference goes.                                  *)
LEMMA ReleaseRegistrationKeeps ==
    ASSUME NEW c, NEW p \in Producers, IInv(c), ReleaseRegistration(p) PROVE IInv(c)'
  <1> USE DEF IInv
  <1> PICK n : n = node[p]
    OBVIOUS
  <1>1. /\ pc[p] = "release" /\ n = node[p] /\ n \in Nodes /\ n \notin reg
        /\ p \in Actors /\ p # Poller /\ p \in dropping
        /\ ref_count' = [ref_count EXCEPT ![n] = ref_count[n] - 1]
        /\ node' = [node EXCEPT ![p] = Null] /\ dropping' = dropping \ {p}
        /\ pc' = [pc EXCEPT ![p] = "idle"]
        /\ UNCHANGED <<head, tail, next, pipe, edge, queued, dropped, ready, reg, hold, prev,
                       until, room, dst, blocking>>
    BY ActorFacts
    DEF ReleaseRegistration, ReleaseNode, Goto, queueVars, stateVars, pollVars, Calls
  <1>2. Calls'
    BY <1>1 DEF Calls, TypeOK
  <1>3. Polls' /\ RoomLeft'
    BY <1>1, ActorFacts DEF Polls, RoomLeft, TypeOK
  <1>4. Told'
    BY <1>1, ActorFacts DEF Told, PollerAt, Awakened, TypeOK
  <1>5. Linked(c)' /\ Pending(c)'
    BY <1>1, ListStands DEF SameList, TypeOK
  <1>6. Carried(c)'
    BY <1>1 DEF Carried, Carrying, TypeOK
  <1>7. Marked(c)'
    BY <1>1, ActorFacts DEF Marked, TypeOK
  <1>8. Flagged(c)'
    BY <1>1 DEF Flagged, Carrying, TypeOK
  <1>9. Counted(c)' /\ ref_count' \in [Nodes -> Nat]
    <2>1. ASSUME NEW x \in Nodes PROVE QueueRef(c, x)' = QueueRef(c, x)
      BY <1>1 DEF QueueRef, Carrying, TypeOK
    <2>2. ASSUME NEW x \in Nodes
          PROVE  /\ x = n => RegRef(x) = 1 /\ RegRef(x)' = 0
                 /\ x # n => RegRef(x)' = RegRef(x)
      <3>1. CASE x = n
        <4>1. RegRef(x) = 1
          BY <3>1, <1>1 DEF RegRef
        <4>2. ~ \E q \in Producers \cap dropping' : node'[q] = x
          BY <3>1, <1>1 DEF Calls, TypeOK
        <4> QED
          BY <3>1, <4>1, <4>2, <1>1 DEF RegRef
      <3>2. CASE x # n
        BY <3>2, <1>1, CellFacts DEF RegRef, TypeOK
      <3> QED
        BY <3>1, <3>2
    <2>3. ASSUME NEW x \in Nodes
          PROVE  /\ ref_count'[x] = Cardinality(Holders(x)) + RegRef(x)' + QueueRef(c, x)
                 /\ ref_count'[x] \in Nat
      <3>1. Cardinality(Holders(x)) \in Nat /\ RegRef(x)' \in Nat /\ QueueRef(c, x) \in Nat
        BY HoldersCounted DEF Holders, RegRef, QueueRef
      <3>2. ref_count'[x] = IF x = n THEN ref_count[x] - 1 ELSE ref_count[x]
        BY <1>1 DEF TypeOK
      <3> QED
        BY <2>2, <3>1, <3>2 DEF Counted
    <2>4. Counted(c)'
      BY <1>1, <2>1, <2>3 DEF Counted, Holders
    <2>5. ref_count' \in [Nodes -> Int]
      BY <1>1 DEF TypeOK
    <2> QED
      BY <2>3, <2>4, <2>5
  <1>10. LevelInv(c)'
    BY <1>1, ActorFacts DEF LevelInv, TypeOK
  <1>11. TypeOK'
    BY <1>1, <1>9 DEF TypeOK, Locations
  <1> QED
    BY <1>2, <1>3, <1>4, <1>5, <1>6, <1>7, <1>8, <1>9, <1>10, <1>11

(* Dropping and cloning a SetReadiness changes its holders and the count.  *)
LEMMA HandleKeeps ==
    ASSUME NEW c, NEW p \in Producers, NEW q \in Producers, NEW n \in Nodes, IInv(c),
           DropHandle(p, n) \/ CloneHandle(p, q, n)
    PROVE  IInv(c)'
  <1> USE DEF IInv
  <1>1. /\ pc[p] = "idle" /\ p \in Actors
        /\ UNCHANGED <<head, tail, next, pipe, edge, queued, dropped, ready, reg, pc, node, prev,
                       dropping, until, room, dst, blocking>>
    BY ActorFacts
    DEF DropHandle, CloneHandle, Idle, queueVars, stateVars, localVars, pollVars
  <1>2. Polls' /\ RoomLeft' /\ Told' /\ Carried(c)' /\ Marked(c)' /\ Flagged(c)' /\ LevelInv(c)'
    BY <1>1 DEF Polls, RoomLeft, Told, PollerAt, Awakened, Carried, Carrying, Marked, Flagged, LevelInv
  <1>3. Linked(c)' /\ Pending(c)'
    BY <1>1, ListStands DEF SameList
  <1>4. \A x \in Nodes : RegRef(x)' = RegRef(x) /\ QueueRef(c, x)' = QueueRef(c, x)
    BY <1>1 DEF RegRef, QueueRef, Carrying
  <1>5. CASE DropHandle(p, n)
    <2>1. /\ n \in hold[p] /\ hold' = [hold EXCEPT ![p] = hold[p] \ {n}]
          /\ ref_count' = [ref_count EXCEPT ![n] = ref_count[n] - 1]
      BY <1>5 DEF DropHandle, ReleaseNode
    <2>2. Calls'
      BY <1>1, <2>1 DEF Calls, TypeOK
    <2>3. ASSUME NEW x \in Nodes
          PROVE  Holders(x)' = IF x = n THEN Holders(x) \ {p} ELSE Holders(x)
      BY <2>1 DEF Holders, TypeOK
    <2>4. ASSUME NEW x \in Nodes
          PROVE  /\ ref_count'[x] = Cardinality(Holders(x)') + RegRef(x) + QueueRef(c, x)
                 /\ ref_count'[x] \in Nat
      <3>1. /\ Cardinality(Holders(x)) \in Nat /\ RegRef(x) \in Nat /\ QueueRef(c, x) \in Nat
            /\ IsFiniteSet(Holders(x)) /\ Cardinality(Holders(x)') \in Nat
        BY HoldersCounted DEF Holders, RegRef, QueueRef
      <3>2. ref_count'[x] = IF x = n THEN ref_count[x] - 1 ELSE ref_count[x]
        BY <2>1 DEF TypeOK
      <3>3. x = n => p \in Holders(x)
        BY <2>1 DEF Holders
      <3>4. x = n => Cardinality(Holders(x) \ {p}) = Cardinality(Holders(x)) - 1
        BY <3>1, <3>3, FS_RemoveElement
      <3>5. Cardinality(Holders(x)') = Cardinality(Holders(x)) - (IF x = n THEN 1 ELSE 0)
        BY <2>3, <3>1, <3>4
      <3> QED
        BY <3>1, <3>2, <3>5 DEF Counted
    <2>5. ref_count' \in [Nodes -> Nat]
      <3>1. ref_count' \in [Nodes -> Int]
        BY <2>1 DEF TypeOK
      <3> QED
        BY <2>4, <3>1
    <2>6. Counted(c)'
      BY <1>4, <2>4 DEF Counted
    <2>7. TypeOK'
      BY <1>1, <2>1, <2>5 DEF TypeOK
    <2> QED
      BY <1>2, <1>3, <2>2, <2>6, <2>7
  <1>6. CASE CloneHandle(p, q, n)
    <2>1. /\ n \notin hold[q] /\ hold' = [hold EXCEPT ![q] = hold[q] \cup {n}]
          /\ ref_count' = [ref_count EXCEPT ![n] = ref_count[n] + 1]
      BY <1>6 DEF CloneHandle
    <2>2. Calls'
      BY <1>1, <2>1 DEF Calls, TypeOK
    <2>3. ASSUME NEW x \in Nodes
          PROVE  Holders(x)' = IF x = n THEN Holders(x) \cup {q} ELSE Holders(x)
      BY <2>1 DEF Holders, TypeOK
    <2>4. ASSUME NEW x \in Nodes
          PROVE  /\ ref_count'[x] = Cardinality(Holders(x)') + RegRef(x) + QueueRef(c, x)
                 /\ ref_count'[x] \in Nat
      <3>1. /\ Cardinality(Holders(x)) \in Nat /\ RegRef(x) \in Nat /\ QueueRef(c, x) \in Nat
            /\ IsFiniteSet(Holders(x)) /\ Cardinality(Holders(x)') \in Nat
        BY HoldersCounted DEF Holders, RegRef, QueueRef
      <3>2. ref_count'[x] = IF x = n THEN ref_count[x] + 1 ELSE ref_count[x]
        BY <2>1 DEF TypeOK
      <3>3. x = n => q \notin Holders(x)
        BY <2>1 DEF Holders
      <3>4. x = n => Cardinality(Holders(x) \cup {q}) = Cardinality(Holders(x)) + 1
        BY <3>1, <3>3, FS_AddElement
      <3>5. Cardinality(Holders(x)') = Cardinality(Holders(x)) + (IF x = n THEN 1 ELSE 0)
        <4>1. CASE x = n
          BY <4>1, <2>3, <3>4
        <4>2. CASE x # n
          BY <4>2, <2>3, <3>1
        <4> QED
          BY <4>1, <4>2
      <3> QED
        BY <3>1, <3>2, <3>5 DEF Counted
    <2>5. ref_count' \in [Nodes -> Nat]
      <3>1. ref_count' \in [Nodes -> Int]
        BY <2>1 DEF TypeOK
      <3> QED
        BY <2>4, <3>1
    <2>6. Counted(c)'
      BY <1>4, <2>4 DEF Counted
    <2>7. TypeOK'
      BY <1>1, <2>1, <2>5 DEF TypeOK
    <2> QED
      BY <1>2, <1>3, <2>2, <2>6, <2>7
  <1> QED
    BY <1>5, <1>6

-----------------------------------------------------------------------------
(* The poller goes on without a node in hand, and the list stays as it is. *)
LEMMA PollerMoves ==
    ASSUME NEW c, NEW l \in Locations, IInv(c),
           pc[Poller] \notin {"load", "cas", "link", "process"},
           l \notin {"load", "cas", "link", "process", "wake", "release"},
           pc' = [pc EXCEPT ![Poller] = l],
           \A x \in In(c) : next'[x] = next[x],
           \A x \in Cells : next'[x] \in {next[x], Null},
           UNCHANGED <<head, tail, queued, dropped, ref_count, reg, hold, node, prev, dropping>>
    PROVE  /\ Calls' /\ Linked(c)' /\ Pending(c)' /\ Carried(c)' /\ Marked(c)' /\ Flagged(c)'
           /\ Counted(c)' /\ pc' \in [Actors -> Locations] /\ pc'[Poller] = l
           /\ \A p \in Producers : pc'[p] = pc[p]
  <1> USE DEF IInv
  <1>1. /\ pc' \in [Actors -> Locations] /\ pc'[Poller] = l
        /\ \A p \in Producers : pc'[p] = pc[p]
    BY ActorFacts DEF TypeOK
  <1>2. Calls'
    BY <1>1 DEF Calls
  <1>3. Linked(c)' /\ Pending(c)'
    BY <1>1, ListStands, ListFacts DEF SameList, TypeOK
  <1>4. Carried(c)'
    BY DEF Carried, Carrying, TypeOK
  <1>5. Marked(c)'
    BY DEF Marked, TypeOK
  <1>6. Flagged(c)'
    BY DEF Flagged, Carrying, TypeOK
  <1>7. Counted(c)'
    BY DEF Counted, Holders, RegRef, QueueRef, Carrying, TypeOK
  <1> QED
    BY <1>1, <1>2, <1>3, <1>4, <1>5, <1>6, <1>7

(* A poll begins.                                                          *)
LEMMA BeginPollKeeps ==
    ASSUME NEW c, NEW zero \in BOOLEAN, IInv(c), BeginPoll(zero) PROVE IInv(c)'
  <1> USE DEF IInv
  <1> PICK l : l = IF zero THEN "select" ELSE "prepare"
    OBVIOUS
  <1>1. /\ pc[Poller] = "idle" /\ Poller \notin dropping /\ pc' = [pc EXCEPT ![Poller] = l]
        /\ l \in {"select", "prepare"}
        /\ until' = Null /\ room' = Capacity /\ dst' = {} /\ blocking' = FALSE
        /\ UNCHANGED <<head, tail, next, pipe, edge, queued, dropped, ready, ref_count, reg, hold,
                       node, prev, dropping>>
    BY DEF BeginPoll, PollerAt, ThenPoller, Goto, queueVars, stateVars, ownVars, localVars
  <1>2. /\ Calls' /\ Linked(c)' /\ Pending(c)' /\ Carried(c)' /\ Marked(c)' /\ Flagged(c)'
        /\ Counted(c)' /\ pc' \in [Actors -> Locations] /\ pc'[Poller] = l
    BY <1>1, PollerMoves DEF Locations
  <1>3. TypeOK'
    <2>1. Capacity \in 0..Capacity
      BY ConstantsAssumption
    <2> QED
      BY <1>1, <1>2, <2>1 DEF TypeOK
  <1>4. Polls' /\ Told' /\ RoomLeft' /\ LevelInv(c)'
    BY <1>1, <1>2 DEF Polls, Told, PollerAt, RoomLeft, LevelInv, Enqueuing, Dequeuing
  <1> QED
    BY <1>2, <1>3, <1>4

(* select returns, or gives up.                                            *)
LEMMA SelectKeeps ==
    ASSUME NEW c, IInv(c), SelectAwakened \/ SelectOther \/ SelectError \/ Cleanup
    PROVE  IInv(c)'
  <1> USE DEF IInv
  <1>1. /\ pc[Poller] \in {"select", "cleanup"}
        /\ \E l \in {"cleanup", "clear", "dequeue", "idle"} :
              /\ pc' = [pc EXCEPT ![Poller] = l]
              /\ l = "dequeue" => room' # 0
        /\ room' \in 0..Capacity
        /\ pipe' \in BOOLEAN /\ edge' \in BOOLEAN
        /\ UNCHANGED <<head, tail, next, queued, dropped, ready, ref_count, reg, hold,
                       node, prev, dropping, until, dst, blocking>>
    <2> USE DEF PollerAt, ThenPoller, Goto, PollQueue, queueVars, stateVars, ownVars, localVars,
                pollVars, TypeOK
    <2>1. \A io \in IoEvents : Capacity - io \in 0..Capacity
      BY ConstantsAssumption
    <2>2. CASE SelectAwakened
      BY <2>1, <2>2 DEF SelectAwakened
    <2>3. CASE SelectOther
      <3>1. PICK io \in IoEvents : room' = Capacity - io /\ ThenPoller(PollQueue(Capacity - io))
        BY <2>3 DEF SelectOther
      <3> QED
        BY <2>1, <2>3, <3>1 DEF SelectOther
    <2>4. CASE SelectError
      BY <2>4 DEF SelectError
    <2>5. CASE Cleanup
      BY <2>5 DEF Cleanup
    <2> QED
      BY <2>2, <2>3, <2>4, <2>5
  <1>2. PICK l \in {"cleanup", "clear", "dequeue", "idle"} :
              pc' = [pc EXCEPT ![Poller] = l] /\ (l = "dequeue" => room' # 0)
    BY <1>1
  <1>3. /\ Calls' /\ Linked(c)' /\ Pending(c)' /\ Carried(c)' /\ Marked(c)' /\ Flagged(c)'
        /\ Counted(c)' /\ pc' \in [Actors -> Locations] /\ pc'[Poller] = l
    BY <1>1, <1>2, PollerMoves DEF Locations
  <1>4. TypeOK'
    BY <1>1, <1>3 DEF TypeOK
  <1>5. Polls'
    BY <1>1, <1>3 DEF Polls, Enqueuing, Dequeuing
  <1>6. Told' /\ RoomLeft'
    BY <1>1, <1>2, <1>3 DEF Told, PollerAt, RoomLeft, Enqueuing, Dequeuing, TypeOK
  <1>7. LevelInv(c)'
    BY <1>1, <1>3 DEF LevelInv, Level, Enqueuing, Dequeuing
  <1> QED
    BY <1>3, <1>4, <1>5, <1>6, <1>7

(* One marker takes the place of another that is the whole list.           *)
LEMMA MarkerSwap ==
    ASSUME NEW c, NEW l \in Locations, NEW m \in {End, Sleep}, IInv(c),
           pc[Poller] \notin {"load", "cas", "link", "process"},
           l \notin {"load", "cas", "link", "process", "wake", "release"},
           pc' = [pc EXCEPT ![Poller] = l],
           head = tail, tail \in {End, Sleep}, head' = m, tail' = m,
           next' = [next EXCEPT ![m] = Null],
           UNCHANGED <<queued, dropped, ref_count, reg, hold, node, prev, dropping>>
    PROVE  /\ Calls' /\ Linked(<<m>>)' /\ Pending(<<m>>)' /\ Carried(<<m>>)' /\ Marked(<<m>>)'
           /\ Flagged(<<m>>)' /\ Counted(<<m>>)'
           /\ pc' \in [Actors -> Locations] /\ pc'[Poller] = l
           /\ Poller \notin dropping /\ next' \in [Cells -> Cells \cup {Null}] /\ In(c) = {tail}
  <1> USE DEF IInv
  <1>1. /\ pc' \in [Actors -> Locations] /\ pc'[Poller] = l
        /\ \A p \in Producers : pc'[p] = pc[p]
    BY ActorFacts DEF TypeOK
  <1>2. Len(c) = 1 /\ In(c) = {tail}
    BY ListFacts
  <1>3. <<m>> \in Seq(Cells) /\ Len(<<m>>) = 1 /\ <<m>>[1] = m /\ In(<<m>>) = {m} /\ m \in Cells
    BY InOne, CellFacts
  <1>4. Poller \notin dropping
    BY CellFacts DEF Marked
  <1>5. \A a \in Actors : pc[a] # "link" /\ pc'[a] # "link"
    BY <1>2 DEF Pending, TypeOK
  <1>6. next'[m] = Null /\ next' \in [Cells -> Cells \cup {Null}]
        /\ \A x \in Cells : next'[x] \in {next[x], Null}
    BY <1>3 DEF TypeOK
  <1>7. Calls'
    BY <1>1 DEF Calls
  <1>8. Linked(<<m>>)'
    BY <1>3, <1>6 DEF Linked
  <1>9. Pending(<<m>>)'
    BY <1>5 DEF Pending
  <1>10. Carried(<<m>>)'
    <2>1. \A a \in Actors : Carrying(a)' => Carrying(a) /\ node[a] \in Nodes
      BY <1>1, ActorFacts DEF Carrying, Calls
    <2> QED
      BY <2>1, <1>3, <1>6, CellFacts, ActorFacts DEF Carried, Carrying, TypeOK
  <1>11. Marked(<<m>>)'
    <2>1. \A a \in Actors : pc'[a] \in {"cas", "link"} => prev'[a] \in Cells
      BY DEF Marked, TypeOK
    <2>2. \A a \in Actors : pc'[a] = "cas" => prev[a] # Closed
      BY CellFacts DEF Marked, TypeOK
    <2> QED
      BY <2>1, <2>2, <1>3, <1>4, CellFacts DEF Marked
  <1>12. Flagged(<<m>>)'
    <2>1. \A a \in Actors : Carrying(a)' <=> Carrying(a)
      BY <1>1, ActorFacts DEF Carrying
    <2>2. head # Closed /\ \A n \in Nodes : n \notin In(c) /\ n \notin In(<<m>>)
      BY <1>2, <1>3, CellFacts
    <2> QED
      BY <2>1, <2>2 DEF Flagged
  <1>13. Counted(<<m>>)'
    <2>1. \A n \in Nodes : n \notin In(c) /\ n \notin In(<<m>>)
      BY <1>2, <1>3, CellFacts
    <2>2. \A n \in Nodes : QueueRef(<<m>>, n)' = QueueRef(c, n)
      BY <2>1 DEF QueueRef, Carrying, TypeOK
    <2> QED
      BY <2>2 DEF Counted, Holders, RegRef
  <1> QED
    BY <1>1, <1>2, <1>4, <1>6, <1>7, <1>8, <1>9, <1>10, <1>11, <1>12, <1>13

(* prepare_for_sleep exchanges the end marker for the sleep marker only    *)
(* when it is the whole list.                                              *)
LEMMA PrepareKeeps ==
    ASSUME NEW c, IInv(c), PrepareForSleep
    PROVE  \E d : IInv(d)' /\ (d = c \/ (In(c) = {End} /\ d = <<Sleep>>))
  <1> USE DEF IInv
  <1>1. /\ pc[Poller] = "prepare" /\ pc' = [pc EXCEPT ![Poller] = "select"]
        /\ Poller \notin dropping /\ node[Poller] = Null
        /\ UNCHANGED <<pipe, edge, queued, dropped, ready, ref_count, reg, hold, node, prev,
                       until, room, dst, dropping>>
    BY DEF PrepareForSleep, PollerAt, ThenPoller, Goto, stateVars, ownVars, localVars, Polls,
           Enqueuing, Dequeuing
  <1>2. CASE tail = End /\ head = End
    <2>1. /\ next' = [next EXCEPT ![Sleep] = Null] /\ head' = Sleep /\ tail' = Sleep
          /\ blocking' = TRUE
      BY <1>2, CellFacts DEF PrepareForSleep, MarkedEmpty
    <2> PICK d : d = <<Sleep>>
      OBVIOUS
    <2>2. /\ Calls' /\ Linked(d)' /\ Pending(d)' /\ Carried(d)' /\ Marked(d)'
          /\ Flagged(d)' /\ Counted(d)'
          /\ pc' \in [Actors -> Locations] /\ pc'[Poller] = "select"
          /\ next' \in [Cells -> Cells \cup {Null}] /\ In(c) = {End}
      BY <1>1, <1>2, <2>1, MarkerSwap DEF Locations
    <2>3. TypeOK'
      BY <1>1, <2>1, <2>2, CellFacts DEF TypeOK
    <2>4. Polls' /\ Told' /\ RoomLeft' /\ LevelInv(d)'
      BY <1>1, <2>1, <2>2 DEF Polls, Told, PollerAt, RoomLeft, LevelInv, Enqueuing, Dequeuing
    <2> QED
      BY <2>2, <2>3, <2>4
  <1>3. CASE ~(tail = End /\ head = End)
    <2>1. /\ UNCHANGED <<head, tail>> /\ blocking' \in BOOLEAN
          /\ blocking' => tail = Sleep /\ head = Sleep
          /\ next' = next \/ (tail = End /\ next' = [next EXCEPT ![Sleep] = Null])
      BY <1>3, CellFacts DEF PrepareForSleep, MarkedEmpty, queueVars
    <2>2. /\ \A x \in In(c) : next'[x] = next[x]
          /\ \A x \in Cells : next'[x] \in {next[x], Null}
          /\ next' \in [Cells -> Cells \cup {Null}]
      BY <2>1, ListFacts, CellFacts DEF Marked, TypeOK
    <2>3. /\ Calls' /\ Linked(c)' /\ Pending(c)' /\ Carried(c)' /\ Marked(c)' /\ Flagged(c)'
          /\ Counted(c)' /\ pc' \in [Actors -> Locations] /\ pc'[Poller] = "select"
      BY <1>1, <2>1, <2>2, PollerMoves DEF Locations
    <2>4. TypeOK'
      BY <1>1, <2>1, <2>2, <2>3 DEF TypeOK
    <2>5. Polls' /\ Told' /\ RoomLeft' /\ LevelInv(c)'
      BY <1>1, <2>1, <2>3 DEF Polls, Told, PollerAt, RoomLeft, LevelInv, Enqueuing, Dequeuing
    <2> QED
      BY <2>3, <2>4, <2>5
  <1> QED
    BY <1>2, <1>3

(* clear_sleep_marker does the reverse.                                    *)
LEMMA ClearKeeps ==
    ASSUME NEW c, IInv(c), ClearSleepMarker
    PROVE  \E d : IInv(d)' /\ (d = c \/ (In(c) = {Sleep} /\ d = <<End>>))
  <1> USE DEF IInv
  <1> PICK l : l = IF Poller \in dropping THEN "dropped" ELSE "idle"
    OBVIOUS
  <1>1. /\ pc[Poller] = "clear" /\ pc' = [pc EXCEPT ![Poller] = l] /\ l \in {"dropped", "idle"}
        /\ node[Poller] = Null
        /\ UNCHANGED <<pipe, edge, queued, dropped, ready, ref_count, reg, hold, node, prev,
                       until, room, dst, dropping, blocking>>
    BY DEF ClearSleepMarker, Empty, PollerAt, ThenPoller, Goto, stateVars, ownVars, localVars,
           pollVars, Polls, Enqueuing, Dequeuing
  <1>2. CASE tail = Sleep /\ head = Sleep
    <2>1. next' = [next EXCEPT ![End] = Null] /\ head' = End /\ tail' = End
      BY <1>2 DEF ClearSleepMarker, MarkedEmpty
    <2> PICK d : d = <<End>>
      OBVIOUS
    <2>2. /\ Calls' /\ Linked(d)' /\ Pending(d)' /\ Carried(d)' /\ Marked(d)'
          /\ Flagged(d)' /\ Counted(d)' /\ Poller \notin dropping
          /\ pc' \in [Actors -> Locations] /\ pc'[Poller] = l
          /\ next' \in [Cells -> Cells \cup {Null}] /\ In(c) = {Sleep}
      BY <1>1, <1>2, <2>1, MarkerSwap DEF Locations
    <2>3. TypeOK'
      BY <1>1, <2>1, <2>2, CellFacts DEF TypeOK
    <2>4. Polls' /\ Told' /\ RoomLeft' /\ LevelInv(d)'
      BY <1>1, <2>1, <2>2 DEF Polls, Told, PollerAt, RoomLeft, LevelInv, Enqueuing, Dequeuing
    <2> QED
      BY <2>2, <2>3, <2>4
  <1>3. CASE ~(tail = Sleep /\ head = Sleep)
    <2>1. /\ UNCHANGED <<head, tail>>
          /\ next' = next \/ (tail = Sleep /\ next' = [next EXCEPT ![End] = Null])
      BY <1>3 DEF ClearSleepMarker, MarkedEmpty, queueVars
    <2>2. /\ \A x \in In(c) : next'[x] = next[x]
          /\ \A x \in Cells : next'[x] \in {next[x], Null}
          /\ next' \in [Cells -> Cells \cup {Null}]
      BY <2>1, ListFacts, CellFacts DEF Marked, TypeOK
    <2>3. /\ Calls' /\ Linked(c)' /\ Pending(c)' /\ Carried(c)' /\ Marked(c)' /\ Flagged(c)'
          /\ Counted(c)' /\ pc' \in [Actors -> Locations] /\ pc'[Poller] = l
      BY <1>1, <2>1, <2>2, PollerMoves DEF Locations
    <2>4. TypeOK'
      BY <1>1, <2>1, <2>2, <2>3 DEF TypeOK
    <2>5. Polls' /\ Told' /\ RoomLeft' /\ LevelInv(c)'
      BY <1>1, <2>1, <2>3 DEF Polls, Told, PollerAt, RoomLeft, LevelInv, Enqueuing, Dequeuing
    <2> QED
      BY <2>3, <2>4, <2>5
  <1> QED
    BY <1>2, <1>3

(* The tail moves to the next cell: only where the link has been stored.   *)
LEMMA ListAdvances ==
    ASSUME NEW c, TypeOK, Linked(c), Pending(c), next[tail] # Null,
           tail' = next[tail], UNCHANGED <<head, next>>,
           \A b \in Actors : pc'[b] = "link" <=> pc[b] = "link",
           \A b \in Actors : pc[b] = "link" => prev'[b] = prev[b] /\ node'[b] = node[b]
    PROVE  /\ Linked(Tail(c))' /\ Pending(Tail(c))'
           /\ Len(c) > 1 /\ tail' = c[2] /\ tail' \in In(c) /\ head # tail /\ tail' # tail
           /\ Len(Tail(c)) = Len(c) - 1
           /\ \A i \in 1..Len(c) - 1 : Tail(c)[i] = c[i + 1]
           /\ In(Tail(c)) = In(c) \ {tail} /\ tail \in In(c)
  <1>1. /\ Len(c) \in Nat /\ Len(c) > 0 /\ c \in Seq(Cells) /\ c[1] = tail /\ c[Len(c)] = head
        /\ \A i \in 1..Len(c) : c[i] \in Cells /\ c[i] \in In(c)
    BY ListFacts
  <1>2. head # tail
    BY DEF Linked
  <1>3. Len(c) > 1
    BY <1>2, ListFacts
  <1>4. next[c[1]] = c[2]
    BY <1>1, <1>3 DEF Linked
  <1>5. \A i, j \in 1..Len(c) : c[i] = c[j] => i = j
    BY DEF Linked
  <1> PICK d : d = Tail(c)
    OBVIOUS
  <1>6. /\ d \in Seq(Cells) /\ Len(d) = Len(c) - 1 /\ \A i \in 1..Len(c) - 1 : d[i] = c[i + 1]
        /\ In(d) = In(c) \ {tail}
    BY <1>1, <1>3, <1>5, InTail
  <1>7. Linked(d)'
    <2>1. \A i, j \in 1..Len(d) : d[i] = d[j] => i = j
      BY <1>1, <1>5, <1>6
    <2>2. ASSUME NEW i \in 1..Len(d) - 1
          PROVE  \/ next'[d[i]] = d[i + 1]
                 \/ /\ next'[d[i]] = Null
                    /\ \E b \in Actors : pc'[b] = "link" /\ prev'[b] = d[i] /\ node'[b] = d[i + 1]
      <3>1. i + 1 \in 1..Len(c) - 1 /\ d[i] = c[i + 1] /\ d[i + 1] = c[(i + 1) + 1]
        BY <1>1, <1>6
      <3> QED
        BY <3>1 DEF Linked
    <2>3. d[1] = tail' /\ d[Len(d)] = head' /\ Len(d) > 0 /\ next'[head'] = Null
      BY <1>1, <1>3, <1>4, <1>6 DEF Linked
    <2> QED
      BY <1>6, <2>1, <2>2, <2>3 DEF Linked
  <1>8. Pending(d)'
    <2>1. ASSUME NEW b \in Actors, pc'[b] = "link"
          PROVE  \E i \in 1..Len(d) - 1 :
                    prev'[b] = d[i] /\ node'[b] = d[i + 1] /\ next'[d[i]] = Null
      <3>1. PICK i \in 1..Len(c) - 1 : prev[b] = c[i] /\ node[b] = c[i + 1] /\ next[c[i]] = Null
        BY <2>1 DEF Pending
      <3>2. i # 1
        BY <3>1, <1>1
      <3>3. i - 1 \in 1..Len(d) - 1 /\ d[i - 1] = c[i] /\ d[(i - 1) + 1] = c[i + 1]
        BY <3>2, <1>1, <1>6
      <3> QED
        BY <2>1, <3>1, <3>3
    <2> QED
      BY <2>1 DEF Pending
  <1>9. c[1] # c[2]
    BY <1>1, <1>3, <1>5
  <1> QED
    BY <1>1, <1>2, <1>3, <1>4, <1>6, <1>7, <1>8, <1>9

(* dequeue_node steps over a marker.                                       *)
LEMMA SkipKeeps ==
    ASSUME NEW c, IInv(c), pc[Poller] = "dequeue", tail \in Markers, next[tail] # Null,
           tail' = next[tail], pc' = [pc EXCEPT ![Poller] = "dequeue_next"],
           UNCHANGED <<head, next, pipe, edge, queued, dropped, ready, ref_count, reg, hold,
                       node, prev, dropping, until, room, dst, blocking>>
    PROVE  IInv(Tail(c))'
  <1> USE DEF IInv
  <1> PICK d : d = Tail(c)
    OBVIOUS
  <1>1. /\ pc' \in [Actors -> Locations] /\ pc'[Poller] = "dequeue_next"
        /\ \A p \in Producers : pc'[p] = pc[p]
    BY ActorFacts DEF TypeOK, Locations
  <1>2. /\ Linked(d)' /\ Pending(d)' /\ Len(c) > 1 /\ tail' = c[2] /\ tail' \in In(c)
        /\ head # tail /\ tail' # tail /\ Len(d) = Len(c) - 1 /\ \A i \in 1..Len(c) - 1 : d[i] = c[i + 1]
        /\ In(d) = In(c) \ {tail} /\ tail \in In(c)
    <2>1. \A b \in Actors : pc'[b] = "link" <=> pc[b] = "link"
      BY <1>1, ActorFacts
    <2> QED
      BY <2>1, ListAdvances
  <1>3. Len(c) \in Nat /\ c[1] = tail /\ In(c) \subseteq Cells
    BY <1>2, ListFacts
  <1>4. TypeOK'
    BY <1>1, <1>2, <1>3 DEF TypeOK
  <1>5. Calls'
    BY <1>1 DEF Calls
  <1>6. Polls'
    <2>1. tail' \notin {End, Sleep}
      BY <1>2, <1>3, CellFacts DEF Marked
    <2> QED
      BY <1>1, <2>1 DEF Polls, Enqueuing, Dequeuing
  <1>7. Told' /\ RoomLeft'
    BY <1>1 DEF Told, PollerAt, RoomLeft, Enqueuing, Dequeuing
  <1>8. Carried(d)'
    BY <1>1, <1>2 DEF Carried, Carrying, TypeOK
  <1>9. Marked(d)'
    BY <1>1, <1>2, CellFacts DEF Marked, TypeOK
  <1>10. Flagged(d)'
    <2>1. \A a \in Actors : Carrying(a)' <=> Carrying(a)
      BY <1>1, ActorFacts DEF Carrying
    <2>2. \A n \in Nodes : n \in In(d) <=> n \in In(c)
      BY <1>2, CellFacts
    <2> QED
      BY <2>1, <2>2 DEF Flagged
  <1>11. Counted(d)'
    <2>1. \A n \in Nodes : n \in In(d) <=> n \in In(c)
      BY <1>2, CellFacts
    <2>2. \A n \in Nodes : QueueRef(d, n)' = QueueRef(c, n)
      BY <2>1 DEF QueueRef, Carrying, TypeOK
    <2> QED
      BY <2>2 DEF Counted, Holders, RegRef
  <1>12. LevelInv(d)'
    <2> SUFFICES ASSUME Poller \notin dropping PROVE LevelInv(d)'
      BY DEF LevelInv
    <2> DEFINE D == {n \in dst : Level(n)}
    <2>1. \A i \in 1..Len(c) : c[i] \in D => \E k \in 1..i : c[k] = until
      BY DEF LevelInv, Dequeuing
    <2>2. c[1] # until
      BY <1>3, CellFacts DEF TypeOK
    <2> HIDE DEF D
    <2>3. ASSUME NEW i \in 1..Len(d), d[i] \in D PROVE \E k \in 1..i : d[k] = until
      <3>1. i + 1 \in 1..Len(c) /\ c[i + 1] = d[i]
        BY <1>2, <1>3
      <3>2. PICK k \in 1..i + 1 : c[k] = until
        BY <2>1, <2>3, <3>1
      <3>3. k - 1 \in 1..i /\ d[k - 1] = until
        BY <1>2, <1>3, <2>2, <3>1, <3>2
      <3> QED
        BY <3>3
    <2>4. until # Null => until \in In(d)
      BY <1>2, <1>3, <2>2 DEF LevelInv, Dequeuing
    <2> QED
      BY <1>1, <2>3, <2>4 DEF LevelInv, Level, Enqueuing, Dequeuing, D
  <1> QED
    BY <1>2, <1>4, <1>5, <1>6, <1>7, <1>8, <1>9, <1>10, <1>11, <1>12

(* dequeue_node hands out the node at the tail.                            *)
LEMMA TakeKeeps ==
    ASSUME NEW c, IInv(c), pc[Poller] \in {"dequeue_next", "dequeue_retry"}, tail # until,
           next[tail] # Null, Data(next[tail]),
           UNCHANGED <<head, next, pipe, edge, queued, dropped, ready, ref_count, reg, hold,
                       prev, dropping, until, room, dst, blocking>>
    PROVE  IInv(Tail(c))' /\ tail \in Nodes
  <1> USE DEF IInv
  <1> PICK d : d = Tail(c)
    OBVIOUS
  <1>0. /\ tail' = next[tail] /\ pc' = [pc EXCEPT ![Poller] = "process"]
        /\ node' = [node EXCEPT ![Poller] = tail]
    BY DEF Data, ThenPoller, Goto
  <1>1. /\ pc' \in [Actors -> Locations] /\ pc'[Poller] = "process" /\ node'[Poller] = tail
        /\ \A p \in Producers : pc'[p] = pc[p] /\ node'[p] = node[p]
    BY <1>0, ActorFacts DEF TypeOK, Locations
  <1>2. /\ Linked(d)' /\ Pending(d)' /\ Len(c) > 1 /\ tail' = c[2] /\ tail' \in In(c)
        /\ head # tail /\ tail' # tail /\ Len(d) = Len(c) - 1 /\ \A i \in 1..Len(c) - 1 : d[i] = c[i + 1]
        /\ In(d) = In(c) \ {tail} /\ tail \in In(c)
    <2>1. /\ \A b \in Actors : pc'[b] = "link" <=> pc[b] = "link"
          /\ \A b \in Actors : pc[b] = "link" => prev'[b] = prev[b] /\ node'[b] = node[b]
      BY <1>1, ActorFacts
    <2> QED
      BY <1>0, <2>1, ListAdvances
  <1>3. Len(c) \in Nat /\ c[1] = tail /\ In(c) \subseteq Cells
    BY <1>2, ListFacts
  <1>n. tail \in Nodes
    BY <1>2, <1>3, CellFacts DEF Marked, Polls
  <1>4. TypeOK'
    BY <1>0, <1>1, <1>2, <1>3 DEF TypeOK
  <1>5. Calls'
    BY <1>1 DEF Calls
  <1>6. Polls'
    BY <1>1, <1>n DEF Polls, Enqueuing, Dequeuing
  <1>7. Told' /\ RoomLeft'
    BY <1>1 DEF Told, PollerAt, RoomLeft, Enqueuing, Dequeuing
  <1>8. Carried(d)'
    <2>1. \A a \in Actors : Carrying(a)' => a = Poller \/ (Carrying(a) /\ node'[a] = node[a])
      BY <1>1, ActorFacts DEF Carrying
    <2>2. \A a \in Actors : Carrying(a) => node[a] \notin In(c)
      BY DEF Carried
    <2>3. \A a \in Actors : Carrying(a)' => node'[a] \in Cells /\ node'[a] \notin In(d)
      BY <1>1, <1>2, <1>3, <2>1 DEF Carried
    <2>4. \A a \in Actors : pc'[a] = "cas" => next'[node'[a]] = Null
      BY <1>1, ActorFacts DEF Carried
    <2>5. \A a, b \in Actors : Carrying(a)' /\ Carrying(b)' /\ node'[a] = node'[b] => a = b
      BY <1>1, <1>2, <2>1, <2>2 DEF Carried
    <2> QED
      BY <2>3, <2>4, <2>5 DEF Carried
  <1>9. Marked(d)'
    BY <1>0, <1>1, <1>2, <1>n, CellFacts DEF Marked, TypeOK, Polls
  <1>10. Flagged(d)'
    <2>1. \A a \in Actors : Carrying(a)' => a = Poller \/ (Carrying(a) /\ node'[a] = node[a])
      BY <1>1, ActorFacts DEF Carrying
    <2>2. /\ \A a \in Actors : Carrying(a) => Carrying(a)' /\ node'[a] = node[a]
          /\ Carrying(Poller)' /\ node'[Poller] = tail
      BY <1>1, ActorFacts DEF Carrying
    <2>3. ASSUME NEW n \in Nodes, n \in In(c) \/ \E a \in Actors : Carrying(a) /\ node[a] = n
          PROVE  n \in In(d) \/ \E a \in Actors : Carrying(a)' /\ node'[a] = n
      BY <1>2, <2>2, <2>3, ActorFacts
    <2>4. \A n \in Nodes : queued[n] /\ ~dropped[n] /\ head # Closed =>
             n \in In(d) \/ \E a \in Actors : Carrying(a)' /\ node'[a] = n
      BY <2>3 DEF Flagged
    <2> QED
      BY <1>1, <1>2, <1>n, <2>1, <2>4 DEF Flagged
  <1>11. Counted(d)'
    <2>1. ASSUME NEW n \in Nodes PROVE QueueRef(d, n)' = QueueRef(c, n)
      <3>1. CASE n = tail
        BY <3>1, <1>1, <1>2, ActorFacts DEF QueueRef, Carrying
      <3>2. CASE n # tail
        <4>1. (\E b \in Actors : Carrying(b)' /\ node'[b] = n)
                <=> (\E b \in Actors : Carrying(b) /\ node[b] = n)
          BY <3>2, <1>1, ActorFacts DEF Carrying
        <4> QED
          BY <3>2, <4>1, <1>2 DEF QueueRef
      <3> QED
        BY <3>1, <3>2
    <2>2. \A n \in Nodes : RegRef(n)' = RegRef(n)
      BY <1>1 DEF RegRef
    <2> QED
      BY <2>1, <2>2 DEF Counted, Holders
  <1>12. LevelInv(d)'
    <2> SUFFICES ASSUME Poller \notin dropping PROVE LevelInv(d)'
      BY DEF LevelInv
    <2> DEFINE D == {n \in dst : Level(n)}
    <2>1. \A i \in 1..Len(c) : c[i] \in D => \E k \in 1..i : c[k] = until
      BY DEF LevelInv, Dequeuing
    <2>2. c[1] # until
      BY <1>3
    <2>5. tail \notin D
      <3>1. tail \in D => \E k \in 1..1 : c[k] = until
        BY <1>2, <1>3, <2>1
      <3> QED
        BY <3>1, <2>2
    <2> HIDE DEF D
    <2>3. ASSUME NEW i \in 1..Len(d), d[i] \in D PROVE \E k \in 1..i : d[k] = until
      <3>1. i + 1 \in 1..Len(c) /\ c[i + 1] = d[i]
        BY <1>2, <1>3
      <3>2. PICK k \in 1..i + 1 : c[k] = until
        BY <2>1, <2>3, <3>1
      <3>3. k - 1 \in 1..i /\ d[k - 1] = until
        BY <1>2, <1>3, <2>2, <3>1, <3>2
      <3> QED
        BY <3>3
    <2>4. until # Null => until \in In(d)
      BY <1>2, <1>3, <2>2 DEF LevelInv, Dequeuing
    <2> QED
      BY <1>1, <2>3, <2>4, <2>5 DEF LevelInv, Level, Enqueuing, Dequeuing, D
  <1> QED
    BY <1>n, <1>2, <1>4, <1>5, <1>6, <1>7, <1>8, <1>9, <1>10, <1>11, <1>12

(* dequeue_node goes on, or finds nothing it may hand out.                 *)
LEMMA DequeueMoves ==
    ASSUME NEW c, IInv(c), NEW l \in {"clear", "dequeue", "dequeue_next", "dequeue_head", "idle", "dropped"},
           pc[Poller] \in {"dequeue", "dequeue_next", "dequeue_head", "dequeue_retry"},
           pc' = [pc EXCEPT ![Poller] = l],
           l = "dequeue_next" => tail \notin Markers,
           l = "dequeue_head" => pc[Poller] = "dequeue_next" /\ tail # until,
           l \in {"dropped", "dequeue"} => Poller \in dropping,
           l = "idle" => Poller \notin dropping,
           UNCHANGED <<head, tail, next, pipe, edge, queued, dropped, ready, ref_count, reg, hold,
                       node, prev, dropping, until, room, dst, blocking>>
    PROVE  IInv(c)'
  <1> USE DEF IInv
  <1>1. /\ Calls' /\ Linked(c)' /\ Pending(c)' /\ Carried(c)' /\ Marked(c)' /\ Flagged(c)'
        /\ Counted(c)' /\ pc' \in [Actors -> Locations] /\ pc'[Poller] = l
    <2>1. /\ l \in Locations /\ pc[Poller] \notin {"load", "cas", "link", "process"}
          /\ l \notin {"load", "cas", "link", "process", "wake", "release"}
      BY DEF Locations
    <2>2. /\ \A x \in In(c) : next'[x] = next[x]
          /\ \A x \in Cells : next'[x] \in {next[x], Null}
      OBVIOUS
    <2> QED
      BY <2>1, <2>2, PollerMoves
  <1>2. TypeOK'
    BY <1>1 DEF TypeOK
  <1>3. Polls'
    BY <1>1, CellFacts DEF Polls, Enqueuing, Dequeuing
  <1>4. Told' /\ RoomLeft'
    BY <1>1 DEF Told, PollerAt, RoomLeft, Enqueuing, Dequeuing
  <1>5. LevelInv(c)'
    BY <1>1 DEF LevelInv, Level, Enqueuing, Dequeuing
  <1> QED
    BY <1>1, <1>2, <1>3, <1>4, <1>5

(* The poller is about to enqueue the cell x, which has no place yet.      *)
LEMMA PollerEnqueues ==
    ASSUME NEW c, IInv(c), NEW x \in {End, Closed}, x \notin In(c),
           pc[Poller] \in {"dequeue_head", "idle"},
           pc' = [pc EXCEPT ![Poller] = "load"], node' = [node EXCEPT ![Poller] = x],
           UNCHANGED <<head, tail, next, queued, dropped, ref_count, reg, hold, prev>>,
           dropping' \cap Producers = dropping \cap Producers
    PROVE  /\ Calls' /\ Linked(c)' /\ Pending(c)' /\ Carried(c)' /\ Flagged(c)' /\ Counted(c)'
           /\ pc' \in [Actors -> Locations] /\ node' \in [Actors -> Cells \cup {Null}]
           /\ pc'[Poller] = "load" /\ node'[Poller] = x
           /\ \A p \in Producers : pc'[p] = pc[p] /\ node'[p] = node[p]
  <1> USE DEF IInv
  <1>1. /\ pc' \in [Actors -> Locations] /\ node' \in [Actors -> Cells \cup {Null}]
        /\ pc'[Poller] = "load" /\ node'[Poller] = x
        /\ \A p \in Producers : pc'[p] = pc[p] /\ node'[p] = node[p]
        /\ x \in Cells /\ x \notin Nodes
    BY ActorFacts, CellFacts DEF TypeOK, Locations
  <1>2. Calls'
    BY <1>1 DEF Calls
  <1>3. Linked(c)' /\ Pending(c)'
    BY <1>1, ActorFacts, ListStands DEF SameList
  <1>4. Carried(c)'
    <2>1. \A a \in Producers : Carrying(a) => node[a] \in Nodes
      BY DEF Carrying, Calls
    <2> QED
      BY <1>1, <2>1, ActorFacts DEF Carried, Carrying
  <1>5. Flagged(c)'
    BY <1>1, ActorFacts DEF Flagged, Carrying
  <1>6. Counted(c)'
    <2>1. ASSUME NEW n \in Nodes PROVE QueueRef(c, n)' = QueueRef(c, n)
      BY <1>1, ActorFacts DEF QueueRef, Carrying
    <2>2. ASSUME NEW n \in Nodes PROVE RegRef(n)' = RegRef(n)
      BY <1>1 DEF RegRef
    <2> QED
      BY <2>1, <2>2 DEF Counted, Holders
  <1> QED
    BY <1>1, <1>2, <1>3, <1>4, <1>5, <1>6

(* dequeue_node's first load.                                              *)
LEMMA DequeueSkipKeeps ==
    ASSUME NEW c, IInv(c), DequeueSkip
    PROVE  \E d : IInv(d)' /\ (d = c \/ (d = Tail(c) /\ tail \in Markers /\ Len(c) > 1))
  <1>1. /\ pc[Poller] = "dequeue"
        /\ UNCHANGED <<head, next, pipe, edge, queued, dropped, ready, ref_count, reg, hold,
                       node, prev, dropping, until, room, dst, blocking>>
    BY DEF DequeueSkip, PollerAt, stateVars, ownVars, localVars, pollVars
  <1>2. CASE tail \in Markers /\ next[tail] # Null
    <2>1. tail' = next[tail] /\ pc' = [pc EXCEPT ![Poller] = "dequeue_next"]
      BY <1>2 DEF DequeueSkip, ThenPoller, Goto
    <2>2. IInv(Tail(c))'
      BY <1>1, <1>2, <2>1, SkipKeeps
    <2>3. Len(c) > 1
      BY <1>2, ListFacts DEF IInv, Linked
    <2> QED
      BY <1>2, <2>2, <2>3
  <1>3. CASE tail \in Markers /\ next[tail] = Null
    <2>1. tail' = tail /\ pc' = [pc EXCEPT ![Poller] = "clear"]
      BY <1>3 DEF DequeueSkip, ThenPoller, Goto
    <2> QED
      BY <1>1, <2>1, DequeueMoves
  <1>4. CASE tail \notin Markers
    <2>1. tail' = tail /\ pc' = [pc EXCEPT ![Poller] = "dequeue_next"]
      BY <1>4 DEF DequeueSkip, ThenPoller, Goto
    <2> QED
      BY <1>1, <1>4, <2>1, DequeueMoves
  <1> QED
    BY <1>2, <1>3, <1>4

(* dequeue_node's other loads.                                             *)
LEMMA DequeueKeeps ==
    ASSUME NEW c, IInv(c), DequeueNext \/ DequeueRetry
    PROVE  \E d : IInv(d)' /\ (d = c \/ (d = Tail(c) /\ tail \in Nodes /\ Len(c) > 1))
  <1>1. /\ pc[Poller] \in {"dequeue_next", "dequeue_retry"}
        /\ UNCHANGED <<head, next, pipe, edge, queued, dropped, ready, ref_count, reg, hold,
                       prev, dropping, until, room, dst, blocking>>
    BY DEF DequeueNext, DequeueRetry, PollerAt, stateVars, ownVars, pollVars
  <1>2. CASE next[tail] # Null /\ Data(next[tail])
             /\ (tail # until \/ pc[Poller] = "dequeue_retry")
    <2>1. tail # until
      <3>1. CASE pc[Poller] = "dequeue_retry" /\ Poller \notin dropping
        BY <3>1 DEF IInv, LevelInv, Dequeuing
      <3>2. CASE pc[Poller] = "dequeue_retry" /\ Poller \in dropping
        BY <3>2, CellFacts DEF IInv, LevelInv, TypeOK
      <3> QED
        BY <1>2, <3>1, <3>2
    <2>2. IInv(Tail(c))' /\ tail \in Nodes
      BY <1>1, <1>2, <2>1, TakeKeeps
    <2>3. Len(c) > 1
      BY <1>2, ListFacts DEF IInv, Linked
    <2> QED
      BY <2>2, <2>3
  <1>3. CASE \E l \in {"dequeue", "dequeue_head", "idle", "dropped"} :
                /\ pc' = [pc EXCEPT ![Poller] = l] /\ UNCHANGED <<tail, node>>
                /\ l = "dequeue_head" => pc[Poller] = "dequeue_next" /\ tail # until
                /\ l \in {"dropped", "dequeue"} => Poller \in dropping
                /\ l = "idle" => Poller \notin dropping
    <2>1. PICK l \in {"dequeue", "dequeue_head", "idle", "dropped"} :
                /\ pc' = [pc EXCEPT ![Poller] = l] /\ UNCHANGED <<tail, node>>
                /\ l = "dequeue_head" => pc[Poller] = "dequeue_next" /\ tail # until
                /\ l \in {"dropped", "dequeue"} => Poller \in dropping
                /\ l = "idle" => Poller \notin dropping
      BY <1>3
    <2> QED
      BY <1>1, <2>1, DequeueMoves
  <1> QED
    BY <1>2, <1>3 DEF DequeueNext, DequeueRetry, Empty, Inconsistent, ThenPoller, Goto, PollerAt

(* The tail is the last cell: the end marker goes behind it.               *)
LEMMA DequeueHeadKeeps ==
    ASSUME NEW c, IInv(c), DequeueHead PROVE IInv(c)'
  <1> USE DEF IInv
  <1>1. /\ pc[Poller] = "dequeue_head"
        /\ UNCHANGED <<head, tail, next, pipe, edge, queued, dropped, ready, ref_count, reg, hold,
                       prev, dropping, until, room, dst, blocking>>
    BY DEF DequeueHead, PollerAt, queueVars, stateVars, ownVars, pollVars
  <1>2. CASE LastCell
    <2>1. pc' = [pc EXCEPT ![Poller] = "load"] /\ node' = [node EXCEPT ![Poller] = End]
      BY <1>2 DEF DequeueHead, Enqueue, Goto
    <2>2. tail \notin {End, Sleep} /\ End \notin In(c)
      BY <1>1, <1>2, ListFacts DEF Polls, LastCell
    <2>3. /\ Calls' /\ Linked(c)' /\ Pending(c)' /\ Carried(c)' /\ Flagged(c)' /\ Counted(c)'
          /\ pc' \in [Actors -> Locations] /\ node' \in [Actors -> Cells \cup {Null}]
          /\ pc'[Poller] = "load" /\ node'[Poller] = End
          /\ \A p \in Producers : pc'[p] = pc[p] /\ node'[p] = node[p]
      BY <1>1, <2>1, <2>2, PollerEnqueues
    <2>4. TypeOK'
      BY <1>1, <2>3 DEF TypeOK
    <2>5. Polls' /\ Told' /\ RoomLeft'
      BY <1>1, <2>2, <2>3 DEF Polls, Told, PollerAt, RoomLeft, Enqueuing, Dequeuing
    <2>6. Marked(c)'
      BY <1>1, <2>3, ActorFacts, CellFacts DEF Marked
    <2>7. LevelInv(c)'
      BY <1>1, <2>3, CellFacts DEF LevelInv, Level, Enqueuing, Dequeuing, TypeOK
    <2> QED
      BY <2>3, <2>4, <2>5, <2>6, <2>7
  <1>3. CASE ~LastCell
    <2>1. /\ node' = node
          /\ pc' = [pc EXCEPT ![Poller] = IF Poller \in dropping THEN "dequeue" ELSE "idle"]
      BY <1>3 DEF DequeueHead, Inconsistent, ThenPoller, Goto
    <2> QED
      BY <1>1, <2>1, DequeueMoves
  <1> QED
    BY <1>2, <1>3

(* The queue is dropped: the closed marker is to go in.                    *)
LEMMA DropQueueKeeps ==
    ASSUME NEW c, IInv(c), DropQueue PROVE IInv(c)'
  <1> USE DEF IInv
  <1>1. /\ pc[Poller] = "idle" /\ Poller \notin dropping /\ dropping' = dropping \cup {Poller}
        /\ until' = Null
        /\ pc' = [pc EXCEPT ![Poller] = "load"] /\ node' = [node EXCEPT ![Poller] = Closed]
        /\ UNCHANGED <<head, tail, next, pipe, edge, queued, dropped, ready, ref_count, reg, hold,
                       prev, room, dst, blocking>>
    BY DEF DropQueue, PollerAt, Enqueue, Goto, queueVars, stateVars, ownVars
  <1>2. Closed \notin In(c)
    BY <1>1 DEF Marked
  <1>3. /\ Calls' /\ Linked(c)' /\ Pending(c)' /\ Carried(c)' /\ Flagged(c)' /\ Counted(c)'
        /\ pc' \in [Actors -> Locations] /\ node' \in [Actors -> Cells \cup {Null}]
        /\ pc'[Poller] = "load" /\ node'[Poller] = Closed
        /\ \A p \in Producers : pc'[p] = pc[p] /\ node'[p] = node[p]
    BY <1>1, <1>2, ActorFacts, PollerEnqueues
  <1>4. TypeOK'
    BY <1>1, <1>3, ActorFacts DEF TypeOK
  <1>5. Polls' /\ Told' /\ RoomLeft'
    BY <1>1, <1>3, CellFacts DEF Polls, Told, PollerAt, RoomLeft, Enqueuing, Dequeuing
  <1>6. Marked(c)'
    BY <1>1, <1>2, <1>3, ActorFacts, CellFacts DEF Marked
  <1>7. LevelInv(c)'
    BY <1>1 DEF LevelInv
  <1> QED
    BY <1>3, <1>4, <1>5, <1>6, <1>7

(* The poller has looked at the node in its hand and puts it away.         *)
LEMMA ProcessDroppedKeeps ==
    ASSUME NEW c, IInv(c), ProcessDropped PROVE IInv(c)'
  <1> USE DEF IInv
  <1> PICK n : n = node[Poller]
    OBVIOUS
  <1>1. /\ pc[Poller] = "process" /\ n = node[Poller] /\ n \in Nodes
        /\ ref_count' = [ref_count EXCEPT ![n] = ref_count[n] - 1]
        /\ pc' = [pc EXCEPT ![Poller] = "dequeue"] /\ node' = [node EXCEPT ![Poller] = Null]
        /\ UNCHANGED <<head, tail, next, pipe, edge, queued, dropped, ready, reg, hold,
                       prev, dropping, until, room, dst, blocking>>
    BY DEF ProcessDropped, PollerAt, ReleaseNode, DoneWith, ThenPoller, Goto, queueVars,
           stateVars, pollVars, Polls
  <1>2. /\ pc' \in [Actors -> Locations] /\ node' \in [Actors -> Cells \cup {Null}]
        /\ pc'[Poller] = "dequeue" /\ node'[Poller] = Null
        /\ \A p \in Producers : pc'[p] = pc[p] /\ node'[p] = node[p]
    BY <1>1, ActorFacts DEF TypeOK, Locations
  <1>3. Calls'
    BY <1>1, <1>2 DEF Calls
  <1>4. Polls' /\ Told' /\ RoomLeft'
    BY <1>1, <1>2 DEF Polls, Told, PollerAt, RoomLeft, Enqueuing, Dequeuing
  <1>5. Linked(c)' /\ Pending(c)'
    BY <1>1, <1>2, ActorFacts, ListStands DEF SameList
  <1>6. Carried(c)' /\ Flagged(c)'
    <2>1. \A a \in Actors : Carrying(a)' <=> a # Poller /\ Carrying(a)
      BY <1>1, <1>2, ActorFacts DEF Carrying
    <2>2. \A a \in Actors : a # Poller => node'[a] = node[a] /\ pc'[a] = pc[a]
      BY <1>2, ActorFacts
    <2>3. dropped[n] \/ head = Closed
      BY <1>1 DEF ProcessDropped, Marked
    <2>4. Carried(c)'
      BY <1>1, <1>2, <2>1, <2>2 DEF Carried
    <2>5. \A x \in Nodes : x # n /\ (\E a \in Actors : Carrying(a) /\ node[a] = x) =>
             \E a \in Actors : Carrying(a)' /\ node'[a] = x
      BY <1>1, <2>1, <2>2
    <2>6. Flagged(c)'
      BY <1>1, <2>1, <2>2, <2>3, <2>5 DEF Flagged
    <2> QED
      BY <2>4, <2>6
  <1>7. Marked(c)'
    BY <1>1, <1>2, ActorFacts DEF Marked
  <1>8. LevelInv(c)'
    BY <1>1, <1>2 DEF LevelInv, Level, Enqueuing, Dequeuing
  <1>9. Counted(c)' /\ ref_count' \in [Nodes -> Nat]
    <2>1. ASSUME NEW x \in Nodes
          PROVE  /\ x = n => QueueRef(c, x) = 1 /\ QueueRef(c, x)' = 0
                 /\ x # n => QueueRef(c, x)' = QueueRef(c, x)
      <3>1. CASE x = n
        <4>1. QueueRef(c, x) = 1
          BY <3>1, <1>1, ActorFacts DEF QueueRef, Carrying
        <4>2. queued[x] /\ x \notin In(c)
          BY <3>1, <1>1, ActorFacts DEF Flagged, Carried, Carrying
        <4>3. ~ \E b \in Actors : Carrying(b)' /\ node'[b] = x
          BY <3>1, <1>1, <1>2, ActorFacts DEF Carried, Carrying
        <4> QED
          BY <3>1, <4>1, <4>2, <4>3, <1>1 DEF QueueRef
      <3>2. CASE x # n
        <4>1. (\E b \in Actors : Carrying(b)' /\ node'[b] = x)
                <=> (\E b \in Actors : Carrying(b) /\ node[b] = x)
          BY <3>2, <1>1, <1>2, ActorFacts, CellFacts DEF Carrying
        <4> QED
          BY <3>2, <4>1, <1>1 DEF QueueRef
      <3> QED
        BY <3>1, <3>2
    <2>2. ASSUME NEW x \in Nodes PROVE RegRef(x)' = RegRef(x)
      BY <1>1, <1>2 DEF RegRef
    <2>3. ASSUME NEW x \in Nodes
          PROVE  /\ ref_count'[x] = Cardinality(Holders(x)) + RegRef(x) + QueueRef(c, x)'
                 /\ ref_count'[x] \in Nat
      <3>1. /\ Cardinality(Holders(x)) \in Nat /\ RegRef(x) \in Nat /\ QueueRef(c, x)' \in Nat
            /\ QueueRef(c, x) \in Nat
        BY HoldersCounted DEF Holders, RegRef, QueueRef
      <3>2. ref_count'[x] = IF x = n THEN ref_count[x] - 1 ELSE ref_count[x]
        BY <1>1 DEF TypeOK
      <3> QED
        BY <2>1, <3>1, <3>2 DEF Counted
    <2>4. Counted(c)'
      BY <1>1, <2>2, <2>3 DEF Counted, Holders
    <2>5. ref_count' \in [Nodes -> Int]
      BY <1>1 DEF TypeOK
    <2> QED
      BY <2>3, <2>4, <2>5
  <1>10. TypeOK'
    BY <1>1, <1>2, <1>9 DEF TypeOK
  <1> QED
    BY <1>3, <1>4, <1>5, <1>6, <1>7, <1>8, <1>9, <1>10

(* poll reports a node, which stays queued if it is level and ready.       *)
LEMMA ProcessNodeKeeps ==
    ASSUME NEW c, IInv(c), ProcessNode PROVE IInv(c)'
  <1> USE DEF IInv
  <1> PICK n : n = node[Poller]
    OBVIOUS
  <1>1. /\ pc[Poller] = "process" /\ n = node[Poller] /\ n \in Nodes /\ n \in Cells
        /\ Poller \notin dropping /\ ~dropped[n]
        /\ UNCHANGED <<head, tail, next, pipe, edge, dropped, ref_count, reg, hold,
                       prev, dropping, blocking>>
    BY CellFacts DEF ProcessNode, PollerAt, queueVars, ownVars, Polls
  <1>2. /\ queued' \in [Nodes -> BOOLEAN] /\ ready' \in [Nodes -> BOOLEAN]
        /\ queued'[n] = StaysQueued(n) /\ \A x \in Nodes : x # n => queued'[x] = queued[x]
    <2>1. /\ queued' = [queued EXCEPT ![n] = StaysQueued(n)]
          /\ ready' = [ready EXCEPT ![n] = ready[n] /\ Opt[n] # "oneshot"]
      BY DEF ProcessNode
    <2>2. StaysQueued(n) \in BOOLEAN
      BY DEF StaysQueued
    <2> QED
      BY <1>1, <2>1, <2>2, Zenon DEF TypeOK
  <1>3. /\ room' \in 0..Capacity /\ room > 0 /\ room' = IF ready[n] THEN room - 1 ELSE room
        /\ dst' = IF ready[n] THEN dst \cup {n} ELSE dst
        /\ dst' \subseteq Nodes
    <2>1. room > 0
      BY <1>1 DEF RoomLeft, Dequeuing
    <2>2. /\ room' = IF ready[n] THEN room - 1 ELSE room
          /\ dst' = IF ready[n] THEN dst \cup {n} ELSE dst
      BY DEF ProcessNode
    <2>3. room' \in 0..Capacity
      BY <2>1, <2>2, ConstantsAssumption DEF TypeOK
    <2> QED
      BY <1>1, <2>1, <2>2, <2>3 DEF TypeOK
  <1>4. /\ n \notin In(c) /\ queued[n]
        /\ \A a \in Actors : Carrying(a) /\ node[a] = n => a = Poller
    BY <1>1, ActorFacts DEF Carried, Carrying, Flagged
  <1>5. Level(n) => n \notin dst
    BY <1>1 DEF LevelInv, Dequeuing
  <1>6. until # Null => until \in In(c) /\ until # n
    BY <1>1, <1>4 DEF LevelInv, Dequeuing
  <1>7. CASE StaysQueued(n)
    <2>1. /\ Level(n) /\ ready[n] /\ queued'[n]
          /\ pc' = [pc EXCEPT ![Poller] = "load"] /\ node' = [node EXCEPT ![Poller] = n]
          /\ until' = IF until = Null THEN n ELSE until
      BY <1>1, <1>2, <1>7 DEF ProcessNode, StaysQueued, Level, Enqueue, Goto, UntilOf
    <2>2. /\ pc' \in [Actors -> Locations] /\ node' = node
          /\ pc'[Poller] = "load" /\ \A p \in Producers : pc'[p] = pc[p]
          /\ \A x \in Nodes : queued'[x] = queued[x]
      BY <1>1, <1>2, <1>4, <2>1, ActorFacts DEF TypeOK, Locations
    <2>3. TypeOK'
      BY <1>1, <1>2, <1>3, <2>1, <2>2 DEF TypeOK
    <2>4. Calls' /\ Polls' /\ Told' /\ RoomLeft'
      BY <1>1, <2>2, CellFacts DEF Calls, Polls, Told, PollerAt, RoomLeft, Enqueuing, Dequeuing
    <2>5. Linked(c)' /\ Pending(c)'
      BY <1>1, <2>2, ActorFacts, ListStands DEF SameList
    <2>6. Carried(c)' /\ Flagged(c)'
      BY <1>1, <2>2, ActorFacts DEF Carried, Flagged, Carrying
    <2>7. Marked(c)'
      BY <1>1, <2>2, ActorFacts DEF Marked
    <2>8. Counted(c)'
      <3>1. ASSUME NEW x \in Nodes PROVE QueueRef(c, x)' = QueueRef(c, x)
        BY <1>1, <2>2, ActorFacts DEF QueueRef, Carrying
      <3> QED
        BY <1>1, <2>2, <3>1 DEF Counted, Holders, RegRef
    <2>9. LevelInv(c)'
      <3>1. \A i \in 1..Len(c) : c[i] # n
        BY <1>4 DEF In
      <3>2. dst' = dst \cup {n}
        BY <1>3, <2>1
      <3>3. CASE until = Null
        <4>1. until' = n /\ \A x \in dst : ~Level(x)
          BY <1>1, <2>1, <3>3 DEF LevelInv, Dequeuing
        <4> QED
          BY <1>1, <2>2, <3>1, <3>2, <4>1, CellFacts DEF LevelInv, Level, Enqueuing, Dequeuing
      <3>4. CASE until # Null
        <4>1. until' = until
          BY <2>1, <3>4
        <4> QED
          BY <1>1, <1>6, <2>2, <3>1, <3>2, <3>4, <4>1, CellFacts
          DEF LevelInv, Level, Enqueuing, Dequeuing
      <3> QED
        BY <3>3, <3>4
    <2> QED
      BY <2>3, <2>4, <2>5, <2>6, <2>7, <2>8, <2>9
  <1>8. CASE ~StaysQueued(n)
    <2> PICK l : l = IF room' = 0 THEN "idle" ELSE "dequeue"
      OBVIOUS
    <2>1. /\ pc' = [pc EXCEPT ![Poller] = l] /\ node' = [node EXCEPT ![Poller] = Null]
          /\ until' = until /\ ~queued'[n] /\ (ready[n] => ~Level(n))
      BY <1>1, <1>2, <1>8 DEF ProcessNode, StaysQueued, Level, DoneWith, ThenPoller, Goto
    <2>2. /\ pc' \in [Actors -> Locations] /\ node' \in [Actors -> Cells \cup {Null}]
          /\ pc'[Poller] = l /\ node'[Poller] = Null /\ l \in {"idle", "dequeue"}
          /\ \A p \in Producers : pc'[p] = pc[p] /\ node'[p] = node[p]
          /\ l = "dequeue" => room' # 0
      BY <1>1, <2>1, ActorFacts DEF TypeOK, Locations
    <2>3. TypeOK'
      BY <1>1, <1>2, <1>3, <2>1, <2>2 DEF TypeOK
    <2>4. Calls' /\ Polls' /\ Told' /\ RoomLeft'
      BY <1>1, <1>3, <2>2, CellFacts
      DEF Calls, Polls, Told, PollerAt, RoomLeft, Enqueuing, Dequeuing
    <2>5. Linked(c)' /\ Pending(c)'
      BY <1>1, <2>2, ActorFacts, ListStands DEF SameList
    <2>6. Carried(c)'
      BY <1>1, <2>2, ActorFacts DEF Carried, Carrying
    <2>7. Flagged(c)'
      <3>1. \A x \in Nodes : x \in In(c) => x # n
        BY <1>4
      <3>2. \A a \in Actors : Carrying(a)' => a # Poller /\ Carrying(a) /\ node'[a] = node[a] /\ node[a] # n
        BY <1>1, <1>4, <2>2, ActorFacts DEF Carrying
      <3>3. \A a \in Actors : Carrying(a) /\ node[a] # n => Carrying(a)' /\ node'[a] = node[a]
        BY <1>1, <2>2, ActorFacts DEF Carrying
      <3>4. \A x \in Nodes : x # n /\ (\E a \in Actors : Carrying(a) /\ node[a] = x) =>
               \E a \in Actors : Carrying(a)' /\ node'[a] = x
        BY <3>3
      <3> QED
        BY <1>1, <1>2, <2>1, <3>1, <3>2, <3>4 DEF Flagged
    <2>8. Marked(c)'
      BY <1>1, <2>2, ActorFacts DEF Marked
    <2>9. Counted(c)'
      <3>1. ASSUME NEW x \in Nodes PROVE QueueRef(c, x)' = QueueRef(c, x)
        <4>1. CASE x = n
          BY <4>1, <1>1, <2>1, ActorFacts DEF QueueRef, Carrying
        <4>2. CASE x # n
          <5>1. (\E b \in Actors : Carrying(b)' /\ node'[b] = x)
                  <=> (\E b \in Actors : Carrying(b) /\ node[b] = x)
            BY <4>2, <1>1, <2>2, ActorFacts, CellFacts DEF Carrying
          <5> QED
            BY <4>2, <5>1, <1>2 DEF QueueRef
        <4> QED
          BY <4>1, <4>2
      <3>2. ASSUME NEW x \in Nodes PROVE RegRef(x)' = RegRef(x)
        BY <1>1, <2>2 DEF RegRef
      <3> QED
        BY <1>1, <3>1, <3>2 DEF Counted, Holders
    <2>10. LevelInv(c)'
      <3>1. \A x \in dst' : Level(x) => x \in dst
        BY <1>3, <2>1
      <3> QED
        BY <1>1, <2>1, <2>2, <3>1 DEF LevelInv, Level, Enqueuing, Dequeuing
    <2> QED
      BY <2>3, <2>4, <2>5, <2>6, <2>7, <2>8, <2>9, <2>10
  <1> QED
    BY <1>7, <1>8

-----------------------------------------------------------------------------
(* A new queue is the end marker alone.                                    *)
LEMMA InitIInv == Init => IInv(<<End>>)
  <1> SUFFICES ASSUME Init PROVE IInv(<<End>>)
    OBVIOUS
  <1> USE DEF Init
  <1>1. <<End>> \in Seq(Cells) /\ Len(<<End>>) = 1 /\ <<End>>[1] = End /\ In(<<End>>) = {End}
    BY InOne, CellFacts
  <1>2. Cardinality(Producers) \in Nat
    BY FS_CardinalityType, ConstantsAssumption
  <1>3. TypeOK
    <2>1. 0 \in 0..Capacity /\ 2 + Cardinality(Producers) \in Nat
      BY <1>2, ConstantsAssumption
    <2> QED
      BY <2>1, CellFacts DEF TypeOK, Locations
  <1>4. Calls /\ Polls /\ Told /\ RoomLeft
    BY ActorFacts DEF Calls, Polls, Told, PollerAt, RoomLeft, Enqueuing, Dequeuing
  <1>5. Linked(<<End>>) /\ Pending(<<End>>)
    BY <1>1, CellFacts DEF Linked, Pending
  <1>6. Carried(<<End>>) /\ Marked(<<End>>) /\ Flagged(<<End>>)
    BY <1>1, CellFacts DEF Carried, Carrying, Marked, Flagged
  <1>7. Counted(<<End>>)
    <2>1. ASSUME NEW n \in Nodes
          PROVE  Holders(n) = Producers /\ RegRef(n) = 1 /\ QueueRef(<<End>>, n) = 1
      BY DEF Holders, RegRef, QueueRef
    <2> QED
      BY <1>2, <2>1 DEF Counted
  <1>8. LevelInv(<<End>>)
    BY ActorFacts DEF LevelInv, Enqueuing, Dequeuing
  <1> QED
    BY <1>3, <1>4, <1>5, <1>6, <1>7, <1>8 DEF IInv

(* What one step does to the list: nothing, a cell at the end while the    *)
(* queue is open, a cell less at the front, or one marker for another.     *)
Evolves(c, d) ==
    \/ d = c /\ head' = head
    \/ \E x \in Cells : x \notin In(c) /\ d = Append(c, x) /\ head # Closed /\ head' = x
    \/ d = Tail(c) /\ Len(c) > 1 /\ head' = head
    \/ /\ In(c) \cap Nodes = {} /\ In(d) \cap Nodes = {}
       /\ head # Closed /\ head' # Closed

(* enqueue_node, step by step.                                             *)
LEMMA EnqueueEvolves ==
    ASSUME NEW c, IInv(c), NEW a \in Actors, EnqueueStep(a)
    PROVE  \E d : IInv(d)' /\ Evolves(c, d)
  <1>1. CASE EnqueueLoad(a)
    BY <1>1, LoadKeeps DEF EnqueueLoad, Evolves
  <1>2. CASE EnqueueClosed(a)
    BY <1>2, ClosedKeeps DEF EnqueueClosed, queueVars, Evolves
  <1>3. CASE EnqueueLink(a)
    BY <1>3, LinkKeeps DEF EnqueueLink, Evolves
  <1>4. CASE EnqueueCas(a) /\ head # prev[a]
    <2>1. head' = head
      BY <1>4 DEF EnqueueCas
    <2> QED
      BY <1>4, <2>1, CasFailsKeeps DEF Evolves
  <1>5. CASE EnqueueCas(a) /\ head = prev[a]
    <2>1. head # Closed /\ head' = node[a] /\ node[a] \in Cells /\ node[a] \notin In(c)
      BY <1>5 DEF EnqueueCas, QueueClosed, IInv, Carried, Carrying
    <2>2. PICK d : d = Append(c, node[a]) /\ IInv(d)'
      BY <1>5, CasKeeps
    <2> QED
      BY <2>1, <2>2 DEF Evolves
  <1> QED
    BY <1>1, <1>2, <1>3, <1>4, <1>5 DEF EnqueueStep

(* The poller, step by step.                                               *)
LEMMA PollerEvolves ==
    ASSUME NEW c, IInv(c), PollerStep
    PROVE  \E d : IInv(d)' /\ Evolves(c, d)
  <1>1. CASE EnqueueStep(Poller)
    BY <1>1, ActorFacts, EnqueueEvolves
  <1>2. CASE PrepareForSleep
    <2>1. PICK d : IInv(d)' /\ (d = c \/ (In(c) = {End} /\ d = <<Sleep>>))
      BY <1>2, PrepareKeeps
    <2>2. CASE head' = head /\ d = c
      BY <2>1, <2>2 DEF Evolves
    <2>3. CASE In(c) = {End} /\ d = <<Sleep>>
      <3>1. In(d) = {Sleep} /\ head = End /\ head' \in {End, Sleep}
        BY <1>2, <2>3, InOne, ListFacts, CellFacts DEF PrepareForSleep, queueVars, IInv
      <3> QED
        BY <2>1, <2>3, <3>1, CellFacts DEF Evolves
    <2>4. CASE head' # head /\ d = c
      <3>1. head = End /\ head' = Sleep /\ tail = End /\ tail' = Sleep
        BY <1>2, <2>4 DEF PrepareForSleep, queueVars, MarkedEmpty
      <3>2. c[1] = tail /\ d[1] = tail'
        BY <2>1 DEF IInv, Linked
      <3> QED
        BY <2>4, <3>1, <3>2, CellFacts
    <2> QED
      BY <2>1, <2>2, <2>3, <2>4
  <1>3. CASE ClearSleepMarker
    <2>1. PICK d : IInv(d)' /\ (d = c \/ (In(c) = {Sleep} /\ d = <<End>>))
      BY <1>3, ClearKeeps
    <2>2. CASE head' = head /\ d = c
      BY <2>1, <2>2 DEF Evolves
    <2>3. CASE In(c) = {Sleep} /\ d = <<End>>
      <3>1. In(d) = {End} /\ head = Sleep /\ head' \in {End, Sleep}
        BY <1>3, <2>3, InOne, ListFacts, CellFacts DEF ClearSleepMarker, queueVars, IInv
      <3> QED
        BY <2>1, <2>3, <3>1, CellFacts DEF Evolves
    <2>4. CASE head' # head /\ d = c
      <3>1. tail = Sleep /\ tail' = End
        BY <1>3, <2>4 DEF ClearSleepMarker, queueVars, MarkedEmpty
      <3>2. c[1] = tail /\ d[1] = tail'
        BY <2>1 DEF IInv, Linked
      <3> QED
        BY <2>4, <3>1, <3>2, CellFacts
    <2> QED
      BY <2>1, <2>2, <2>3, <2>4
  <1>4. CASE DequeueSkip
    BY <1>4, DequeueSkipKeeps DEF DequeueSkip, Evolves
  <1>5. CASE DequeueNext \/ DequeueRetry
    BY <1>5, DequeueKeeps DEF DequeueNext, DequeueRetry, Evolves
  <1>6. CASE DequeueHead
    BY <1>6, DequeueHeadKeeps DEF DequeueHead, queueVars, Evolves
  <1>7. CASE ProcessDropped
    BY <1>7, ProcessDroppedKeeps DEF ProcessDropped, queueVars, Evolves
  <1>8. CASE ProcessNode
    BY <1>8, ProcessNodeKeeps DEF ProcessNode, queueVars, Evolves
  <1>9. CASE SelectAwakened \/ Cleanup
    BY <1>9, SelectKeeps DEF SelectAwakened, Cleanup, queueVars, Evolves
  <1> QED
    BY <1>1, <1>2, <1>3, <1>4, <1>5, <1>6, <1>7, <1>8, <1>9 DEF PollerStep

(* Every step leads to a list again, and one that evolved.                 *)
LEMMA NextEvolves ==
    ASSUME NEW c, IInv(c), [Next]_vars
    PROVE  \E d : IInv(d)' /\ Evolves(c, d)
  <1>1. CASE UNCHANGED vars
    <2>0. UNCHANGED <<head, tail, next, pipe, edge, queued, dropped, ready, ref_count, reg, hold,
                      pc, node, prev, dropping, until, room, dst, blocking>>
      BY <1>1 DEF vars, queueVars, stateVars, ownVars, localVars, pollVars
    <2>1. IInv(c)'
      <3> USE DEF IInv
      <3>1. TypeOK' /\ Calls' /\ Polls' /\ Told' /\ RoomLeft'
        BY <2>0 DEF TypeOK, Calls, Polls, Told, PollerAt, Awakened, RoomLeft
      <3>2. Linked(c)' /\ Pending(c)'
        BY <2>0, ListStands DEF SameList
      <3>3. Carried(c)' /\ Marked(c)' /\ Flagged(c)'
        BY <2>0 DEF Carried, Carrying, Marked, Flagged
      <3>4. Counted(c)' /\ LevelInv(c)'
        BY <2>0 DEF Counted, Carrying, Holders, RegRef, QueueRef, LevelInv
      <3> QED
        BY <3>1, <3>2, <3>3, <3>4
    <2> QED
      BY <1>1, <2>1 DEF vars, queueVars, Evolves
  <1>2. ASSUME NEW p \in Producers, UserCall(p) PROVE \E d : IInv(d)' /\ Evolves(c, d)
    <2>1. PICK n \in Nodes :
            \/ \E r \in BOOLEAN : SetReadiness(p, n, r)
            \/ DropRegistration(p, n)
            \/ DropHandle(p, n)
            \/ \E q \in Producers : CloneHandle(p, q, n)
      BY <1>2 DEF UserCall
    <2>2. ASSUME NEW r \in BOOLEAN, SetReadiness(p, n, r) PROVE IInv(c)' /\ head' = head
      BY <2>2, SetReadinessKeeps DEF SetReadiness, queueVars
    <2>3. ASSUME DropRegistration(p, n) PROVE IInv(c)' /\ head' = head
      BY <2>3, DropRegistrationKeeps DEF DropRegistration, queueVars
    <2>4. ASSUME DropHandle(p, n) PROVE IInv(c)' /\ head' = head
      BY <2>4, HandleKeeps DEF DropHandle, queueVars
    <2>5. ASSUME NEW q \in Producers, CloneHandle(p, q, n) PROVE IInv(c)' /\ head' = head
      BY <2>5, HandleKeeps DEF CloneHandle, queueVars
    <2> QED
      BY <2>1, <2>2, <2>3, <2>4, <2>5 DEF Evolves
  <1>3. ASSUME NEW p \in Producers, ProducerStep(p) PROVE \E d : IInv(d)' /\ Evolves(c, d)
    <2>1. p \in Actors
      BY ActorFacts
    <2>2. CASE EnqueueStep(p)
      BY <2>1, <2>2, EnqueueEvolves
    <2>3. CASE Wakeup(p)
      BY <2>1, <2>3, WakeupKeeps DEF Wakeup, queueVars, Evolves
    <2>4. CASE ReleaseRegistration(p)
      BY <2>4, ReleaseRegistrationKeeps DEF ReleaseRegistration, queueVars, Evolves
    <2> QED
      BY <1>3, <2>2, <2>3, <2>4 DEF ProducerStep
  <1>4. ASSUME NEW zero \in BOOLEAN, BeginPoll(zero) PROVE \E d : IInv(d)' /\ Evolves(c, d)
    BY <1>4, BeginPollKeeps DEF BeginPoll, queueVars, Evolves
  <1>5. CASE PollerStep
    BY <1>5, PollerEvolves
  <1>6. CASE SelectOther \/ SelectError
    BY <1>6, SelectKeeps DEF SelectOther, SelectError, queueVars, Evolves
  <1>7. CASE DropQueue
    BY <1>7, DropQueueKeeps DEF DropQueue, queueVars, Evolves
  <1> QED
    BY <1>1, <1>2, <1>3, <1>4, <1>5, <1>6, <1>7 DEF Next

(* There is a list.                                                        *)
Inv == \E c : IInv(c)

(* There always is.                                                        *)
LEMMA SpecImpliesInv == Spec => []Inv
  <1>1. Init => Inv
    BY InitIInv DEF Inv
  <1>2. Inv /\ [Next]_vars => Inv'
    BY NextEvolves DEF Inv
  <1> QED
    BY <1>1, <1>2, PTL DEF Spec

-----------------------------------------------------------------------------
(* From the list to the abstract queue.  walk is defined by recursion; its *)
(* existence, its type and its value on the list are shown by taking the   *)
(* least number for which they fail.                                       *)

(* A set of numbers has a least one (induction without an operator).       *)
LEMMA LeastElement ==
    ASSUME NEW S \in SUBSET Nat, S # {}
    PROVE  \E n \in S : \A m \in S : n <= m
  <1> DEFINE R == {ss \in Nat \X Nat : ss[1] < ss[2]}
  <1>1. IsWellFoundedOn(R, Nat)
    BY NatLessThanWellFounded, Zenon DEF OpToRel
  <1> HIDE DEF R
  <1>2. PICK n \in S : \A m \in S : ~(<<m, n>> \in R)
    BY <1>1, WFMin
  <1>3. \A m \in S : ~(m < n)
    BY <1>2 DEF R
  <1> QED
    BY <1>3

(* What the abstract queue keeps of a cell.                                *)
Kept(x) == IF x \in Nodes THEN <<x>> ELSE <<>>

(* A node is kept and a marker is not.                                     *)
LEMMA KeptFacts ==
    ASSUME NEW x
    PROVE  /\ Kept(x) \in Seq(Nodes)
           /\ x \in Nodes => Kept(x) = <<x>> /\ In(Kept(x)) = {x}
           /\ x \notin Nodes => Kept(x) = <<>> /\ In(Kept(x)) = {}
  BY DEF Kept, In

LEMMA KeptAssociative ==
    ASSUME NEW y \in Seq(Nodes), NEW z \in Seq(Nodes), NEW u \in Seq(Nodes)
    PROVE  (y \o z) \o u = y \o (z \o u)
  BY ConcatAssociative

(* The next cell is a cell, if there is one.                               *)
LEMMA SuccessorType ==
    ASSUME TypeOK, NEW x \in Cells
    PROVE  Successor(x) \in Cells \cup {Null}
  <1>1. CASE next[x] # Null
    BY <1>1 DEF TypeOK, Successor
  <1>2. CASE next[x] = Null /\ \E a \in Actors : pc[a] = "link" /\ prev[a] = x
    <2> DEFINE a == CHOOSE a \in Actors : pc[a] = "link" /\ prev[a] = x
    <2>1. a \in Actors
      BY <1>2
    <2>2. Successor(x) = node[a]
      BY <1>2 DEF Successor
    <2> QED
      BY <2>1, <2>2 DEF TypeOK
  <1>3. CASE next[x] = Null /\ ~ \E a \in Actors : pc[a] = "link" /\ prev[a] = x
    BY <1>3 DEF Successor
  <1> QED
    BY <1>1, <1>2, <1>3
(* There are finitely many cells.                                          *)
LEMMA CellsFinite == IsFiniteSet(Cells) /\ Cardinality(Cells) \in Nat
  <1>1. IsFiniteSet(Nodes \cup {End}) /\ IsFiniteSet((Nodes \cup {End}) \cup {Sleep})
    BY FS_AddElement, ConstantsAssumption
  <1>2. IsFiniteSet(((Nodes \cup {End}) \cup {Sleep}) \cup {Closed})
    BY <1>1, FS_AddElement
  <1>3. Cells = ((Nodes \cup {End}) \cup {Sleep}) \cup {Closed}
    BY DEF Cells, Markers
  <1> QED
    BY <1>2, <1>3, FS_CardinalityType

(* The equation of walk, up to n cells.                                    *)
Steps(w, n) ==
    [i \in 0..n |->
        [c \in Cells \cup {Null} |->
            IF i = 0 \/ c = Null THEN <<>>
            ELSE (IF c \in Nodes THEN <<c>> ELSE <<>>) \o w[i - 1][Successor(c)]]]

(* A walk of n cells extends to one cell more ...                          *)
LEMMA StepsExtend ==
    ASSUME NEW n \in Nat, NEW v, v = Steps(v, n)
    PROVE  \E w : w = Steps(w, n + 1)
  <1> DEFINE Line(u, i) == [c \in Cells \cup {Null} |->
            IF i = 0 \/ c = Null THEN <<>>
            ELSE (IF c \in Nodes THEN <<c>> ELSE <<>>) \o u[i - 1][Successor(c)]]
  <1> DEFINE w == [i \in 0..n + 1 |-> Line(v, i)]
  <1>0. \A u, m : Steps(u, m) = [i \in 0..m |-> Line(u, i)]
    BY DEF Steps
  <1>a. \A u, t, i : i # 0 /\ u[i - 1] = t[i - 1] => Line(u, i) = Line(t, i)
    OBVIOUS
  <1>b. \A u, t : Line(u, 0) = Line(t, 0)
    OBVIOUS
  <1> HIDE DEF Line
  <1>1. \A i \in 0..n : w[i] = v[i]
    BY <1>0
  <1>2. \A i \in 0..n + 1 : i # 0 => i - 1 \in 0..n
    OBVIOUS
  <1>3. ASSUME NEW i \in 0..n + 1 PROVE Line(w, i) = Line(v, i)
    <2>1. CASE i = 0
      BY <2>1, <1>b
    <2>2. CASE i # 0
      <3>1. w[i - 1] = v[i - 1]
        BY <2>2, <1>1, <1>2
      <3> HIDE DEF w
      <3> QED
        BY <2>2, <3>1, <1>a
    <2> QED
      BY <2>1, <2>2
  <1>4. w = [i \in 0..n + 1 |-> Line(w, i)]
    BY <1>3
  <1>5. w = Steps(w, n + 1)
    BY <1>4, <1>0
  <1> QED
    BY <1>5

(* ... so walks of any length exist.                                       *)
LEMMA StepsExist ==
    ASSUME NEW n \in Nat
    PROVE  \E w : w = Steps(w, n)
  <1> DEFINE S == {k \in Nat : ~ \E w : w = Steps(w, k)}
  <1> SUFFICES ASSUME S # {} PROVE FALSE
    OBVIOUS
  <1>1. PICK k \in S : \A m \in S : k <= m
    BY LeastElement
  <1>2. k # 0
    <2> DEFINE Zero == [c \in Cells \cup {Null} |-> <<>>]
               w == [i \in 0..0 |-> Zero]
    <2>1. Steps(w, 0) = [i \in 0..0 |-> Zero]
      BY DEF Steps
    <2> QED
      BY <2>1
  <1>3. k - 1 \in Nat /\ k - 1 \notin S
    BY <1>1, <1>2
  <1>4. PICK v : v = Steps(v, k - 1)
    BY <1>3
  <1>5. \E w : w = Steps(w, (k - 1) + 1)
    BY <1>3, <1>4, StepsExtend
  <1> QED
    BY <1>5, <1>1

(* walk satisfies the equation that defines it.                            *)
LEMMA WalkEquation == walk = Steps(walk, Cardinality(Cells))
  <1> DEFINE P(x) == x = Steps(x, Cardinality(Cells))
  <1>1. \E w : P(w)
    BY CellsFinite, StepsExist
  <1>2. walk = CHOOSE x : P(x)
    BY DEF walk, Steps
  <1> HIDE DEF P
  <1>3. P(CHOOSE x : P(x))
    BY <1>1
  <1> QED
    BY <1>2, <1>3 DEF P

(* Its value at a cell.                                                    *)
LEMMA WalkValue ==
    ASSUME NEW i \in 0..Cardinality(Cells), NEW x \in Cells \cup {Null}
    PROVE  /\ x = Null \/ i = 0 => walk[i][x] = <<>>
           /\ x \in Cells /\ i # 0 => walk[i][x] = Kept(x) \o walk[i - 1][Successor(x)]
  <1>1. walk[i] =
          [c \in Cells \cup {Null} |->
            IF i = 0 \/ c = Null THEN <<>>
            ELSE (IF c \in Nodes THEN <<c>> ELSE <<>>) \o walk[i - 1][Successor(c)]]
    <2>1. PICK w : w = walk /\ w = Steps(walk, Cardinality(Cells))
      BY WalkEquation
    <2> QED
      BY <2>1 DEF Steps
  <1>2. walk[i][x] = IF i = 0 \/ x = Null THEN <<>>
                     ELSE (IF x \in Nodes THEN <<x>> ELSE <<>>) \o walk[i - 1][Successor(x)]
    BY <1>1
  <1> QED
    BY <1>2, CellFacts DEF Kept

(* A walk collects nodes.                                                  *)
LEMMA WalkType ==
    ASSUME TypeOK, NEW j \in 0..Cardinality(Cells), NEW y \in Cells \cup {Null}
    PROVE  walk[j][y] \in Seq(Nodes)
  <1> DEFINE C == Cells \cup {Null}
             S == {i \in 0..Cardinality(Cells) : \E x \in C : walk[i][x] \notin Seq(Nodes)}
  <1> SUFFICES ASSUME S # {} PROVE FALSE
    OBVIOUS
  <1>0. Cardinality(Cells) \in Nat
    BY CellsFinite
  <1>1. PICK i \in S : \A m \in S : i <= m
    <2>1. S \in SUBSET Nat
      BY <1>0
    <2> HIDE DEF S
    <2> QED
      BY <2>1, LeastElement
  <1>2. PICK x \in C : walk[i][x] \notin Seq(Nodes)
    BY <1>1
  <1>3. i \in 0..Cardinality(Cells)
    BY <1>1
  <1>4. i # 0 /\ x # Null
    <2>1. <<>> \in Seq(Nodes)
      OBVIOUS
    <2> QED
      BY <2>1, <1>2, <1>3, WalkValue
  <1>5. i - 1 \in 0..Cardinality(Cells) /\ i - 1 \notin S
    BY <1>0, <1>1, <1>3, <1>4
  <1>6. walk[i - 1][Successor(x)] \in Seq(Nodes)
    BY <1>4, <1>5, SuccessorType
  <1>7. walk[i][x] = Kept(x) \o walk[i - 1][Successor(x)]
    BY <1>3, <1>4, WalkValue
  <1> QED
    BY <1>2, <1>6, <1>7, KeptFacts

(* A set of numbers up to n has a greatest one.                            *)
LEMMA GreatestElement ==
    ASSUME NEW n \in Nat, NEW S \in SUBSET (1..n), S # {}
    PROVE  \E k \in S : \A m \in S : m <= k
  <1> DEFINE T == {i \in 0..n : n - i \in S}
  <1>1. T \in SUBSET Nat
    OBVIOUS
  <1>2. T # {}
    <2>1. PICK k \in S : TRUE
      OBVIOUS
    <2>2. n - k \in 0..n /\ n - (n - k) = k
      OBVIOUS
    <2> QED
      BY <2>2
  <1>3. PICK i \in T : \A m \in T : i <= m
    <2> HIDE DEF T
    <2> QED
      BY <1>1, <1>2, LeastElement
  <1>4. n - i \in S /\ i \in 0..n
    OBVIOUS
  <1>5. ASSUME NEW m \in S PROVE m <= n - i
    <2>1. n - m \in 0..n /\ n - (n - m) = m
      OBVIOUS
    <2>2. n - m \in T
      BY <2>1
    <2>3. i <= n - m
      BY <1>3, <2>2
    <2> QED
      BY <2>3, <1>4
  <1> QED
    BY <1>4, <1>5

(* q[k] is what is left of the cells c[k], c[k + 1], ... without markers.  *)
Filter(q, c) ==
    /\ q \in [1..Len(c) + 1 -> Seq(Nodes)]
    /\ q[Len(c) + 1] = <<>>
    /\ \A k \in 1..Len(c) : q[k] = Kept(c[k]) \o q[k + 1]

(* A list has one filter.                                                  *)
LEMMA FilterUnique ==
    ASSUME NEW c \in Seq(Cells), NEW q, Filter(q, c), NEW r, Filter(r, c)
    PROVE  \A k \in 1..Len(c) + 1 : q[k] = r[k]
  <1> DEFINE S == {k \in 1..Len(c) + 1 : q[k] # r[k]}
  <1> SUFFICES ASSUME S # {} PROVE FALSE
    OBVIOUS
  <1>0. Len(c) \in Nat /\ Len(c) + 1 \in Nat
    OBVIOUS
  <1>1. PICK k \in S : \A m \in S : m <= k
    <2>1. S \in SUBSET (1..Len(c) + 1)
      OBVIOUS
    <2> HIDE DEF S
    <2> QED
      BY <2>1, <1>0, GreatestElement
  <1>2. k \in 1..Len(c) + 1 /\ q[k] # r[k]
    OBVIOUS
  <1>3. k # Len(c) + 1
    BY <1>2 DEF Filter
  <1>4. k \in 1..Len(c) /\ k + 1 \in 1..Len(c) + 1 /\ k + 1 \notin S
    BY <1>0, <1>1, <1>2, <1>3
  <1>5. q[k + 1] = r[k + 1]
    BY <1>4
  <1> QED
    BY <1>2, <1>4, <1>5 DEF Filter

(* The members of a concatenation.                                         *)
LEMMA InConcat ==
    ASSUME NEW s \in Seq(Nodes), NEW t \in Seq(Nodes)
    PROVE  In(s \o t) = In(s) \cup In(t)
  <1> DEFINE u == s \o t
  <1>1. /\ Len(u) = Len(s) + Len(t)
        /\ \A i \in 1..Len(s) + Len(t) : u[i] = IF i <= Len(s) THEN s[i] ELSE t[i - Len(s)]
    BY ConcatProperties
  <1>0. Len(s) \in Nat /\ Len(t) \in Nat
    OBVIOUS
  <1> HIDE DEF u
  <1>2. ASSUME NEW x \in In(u) PROVE x \in In(s) \cup In(t)
    <2>1. PICK i \in 1..Len(s) + Len(t) : x = u[i]
      BY <1>1 DEF In
    <2>2. CASE i <= Len(s)
      BY <2>1, <2>2, <1>0, <1>1 DEF In
    <2>3. CASE ~(i <= Len(s))
      <3>1. i - Len(s) \in 1..Len(t) /\ x = t[i - Len(s)]
        BY <2>1, <2>3, <1>0, <1>1
      <3> QED
        BY <3>1 DEF In
    <2> QED
      BY <2>2, <2>3
  <1>3. ASSUME NEW x \in In(s) PROVE x \in In(u)
    <2>1. PICK i \in 1..Len(s) : x = s[i]
      BY DEF In
    <2>2. i \in 1..Len(s) + Len(t) /\ u[i] = x
      BY <2>1, <1>0, <1>1
    <2> QED
      BY <2>2, <1>1 DEF In
  <1>4. ASSUME NEW x \in In(t) PROVE x \in In(u)
    <2>1. PICK i \in 1..Len(t) : x = t[i]
      BY DEF In
    <2>2. i + Len(s) \in 1..Len(s) + Len(t) /\ ~(i + Len(s) <= Len(s)) /\ (i + Len(s)) - Len(s) = i
      BY <1>0
    <2>3. u[i + Len(s)] = x
      BY <2>1, <2>2, <1>1
    <2> QED
      BY <2>2, <2>3, <1>1 DEF In
  <1> QED
    BY <1>2, <1>3, <1>4 DEF u

(* The filter has the nodes of the list, and each suffix those of the rest *)
(* of the list.                                                            *)
LEMMA FilterMembers ==
    ASSUME NEW c \in Seq(Cells), NEW q, Filter(q, c)
    PROVE  /\ In(q[1]) = In(c) \cap Nodes
           /\ \A k \in 1..Len(c) + 1 : In(q[k]) = {c[i] : i \in k..Len(c)} \cap Nodes
  <1> DEFINE From(k) == {c[i] : i \in k..Len(c)} \cap Nodes
             S == {k \in 1..Len(c) + 1 : In(q[k]) # From(k)}
  <1>0. Len(c) \in Nat /\ Len(c) + 1 \in Nat
    OBVIOUS
  <1>a. S = {}
    <2> SUFFICES ASSUME S # {} PROVE FALSE
      OBVIOUS
    <2>1. PICK k \in S : \A m \in S : m <= k
      <3>1. S \in SUBSET (1..Len(c) + 1)
        OBVIOUS
      <3> HIDE DEF S
      <3> QED
        BY <3>1, <1>0, GreatestElement
    <2>2. k \in 1..Len(c) + 1 /\ In(q[k]) # From(k)
      OBVIOUS
    <2>3. k # Len(c) + 1
      <3>1. From(Len(c) + 1) = {}
        BY <1>0
      <3>2. In(<<>>) = {}
        BY DEF In
      <3> QED
        BY <2>2, <3>1, <3>2 DEF Filter
    <2>4. k \in 1..Len(c) /\ k + 1 \in 1..Len(c) + 1 /\ k + 1 \notin S
      <3> HIDE DEF S
      <3> QED
        BY <1>0, <2>1, <2>2, <2>3
    <2>5. In(q[k + 1]) = From(k + 1)
      BY <2>4
    <2>6. q[k] = Kept(c[k]) \o q[k + 1] /\ q[k + 1] \in Seq(Nodes)
      BY <2>4 DEF Filter
    <2>7. In(q[k]) = In(Kept(c[k])) \cup From(k + 1)
      BY <2>5, <2>6, InConcat, KeptFacts
    <2>8. In(Kept(c[k])) = {c[k]} \cap Nodes
      <3>1. CASE c[k] \in Nodes
        BY <3>1, KeptFacts
      <3>2. CASE c[k] \notin Nodes
        BY <3>2, KeptFacts
      <3> QED
        BY <3>1, <3>2
    <2>9. From(k) = ({c[k]} \cap Nodes) \cup From(k + 1)
      <3>1. k..Len(c) = {k} \cup ((k + 1)..Len(c))
        BY <2>4, <1>0
      <3> QED
        BY <3>1
    <2> QED
      BY <2>2, <2>7, <2>8, <2>9
  <1>1. \A k \in 1..Len(c) + 1 : In(q[k]) = From(k)
    BY <1>a
  <1>2. In(q[1]) = From(1)
    BY <1>1, <1>0
  <1> QED
    BY <1>1, <1>2 DEF In

(* A list without repetitions has a filter without repetitions.            *)
LEMMA FilterOnce ==
    ASSUME NEW c \in Seq(Cells), NEW q, Filter(q, c),
           \A i, j \in 1..Len(c) : c[i] = c[j] => i = j
    PROVE  \A i, j \in 1..Len(q[1]) : q[1][i] = q[1][j] => i = j
  <1> DEFINE Once(s) == \A i, j \in 1..Len(s) : s[i] = s[j] => i = j
             S == {k \in 1..Len(c) + 1 : ~Once(q[k])}
  <1>0. Len(c) \in Nat /\ Len(c) + 1 \in Nat
    OBVIOUS
  <1>a. S = {}
    <2> SUFFICES ASSUME S # {} PROVE FALSE
      OBVIOUS
    <2>1. PICK k \in S : \A m \in S : m <= k
      <3>1. S \in SUBSET (1..Len(c) + 1)
        OBVIOUS
      <3> HIDE DEF S
      <3> QED
        BY <3>1, <1>0, GreatestElement
    <2>2. k \in 1..Len(c) + 1 /\ ~Once(q[k])
      OBVIOUS
    <2>3. k # Len(c) + 1
      <3>1. Once(<<>>)
        OBVIOUS
      <3> HIDE DEF Once
      <3> QED
        BY <2>2, <3>1 DEF Filter
    <2>4. k \in 1..Len(c) /\ k + 1 \in 1..Len(c) + 1 /\ k + 1 \notin S
      <3> HIDE DEF S
      <3> QED
        BY <1>0, <2>1, <2>2, <2>3
    <2>5. Once(q[k + 1])
      BY <2>4
    <2>6. q[k] = Kept(c[k]) \o q[k + 1]
      BY <2>4 DEF Filter
    <2>7. PICK t : t = q[k + 1] /\ t \in Seq(Nodes)
      BY <2>4 DEF Filter
    <2>8. CASE c[k] \notin Nodes
      <3>1. q[k] = q[k + 1]
        <4>1. Kept(c[k]) = <<>>
          BY <2>8, KeptFacts
        <4>2. <<>> \o t = t
          BY <2>7, ConcatEmptySeq
        <4> QED
          BY <2>6, <2>7, <4>1, <4>2, Zenon
      <3> HIDE DEF Once
      <3> QED
        BY <2>2, <2>5, <3>1
    <2>9. CASE c[k] \in Nodes
      <3>1. PICK x \in Nodes : x = c[k]
        BY <2>9
      <3>2. x \notin In(t)
        <4>1. In(t) = {c[i] : i \in (k + 1)..Len(c)} \cap Nodes
          <5>1. \A l \in 1..Len(c) + 1 : In(q[l]) = {c[i] : i \in l..Len(c)} \cap Nodes
            BY FilterMembers
          <5> QED
            BY <2>4, <2>7, <5>1, Zenon
        <4>2. \A i \in (k + 1)..Len(c) : i \in 1..Len(c) /\ i # k
          BY <1>0, <2>4
        <4> QED
          BY <2>4, <3>1, <4>1, <4>2
      <3>3. PICK s : s = <<x>> \o t
        OBVIOUS
      <3>4. /\ Len(s) = 1 + Len(t) /\ Len(t) \in Nat /\ s[1] = x
            /\ \A i \in 2..1 + Len(t) : s[i] = t[i - 1] /\ i - 1 \in 1..Len(t)
        <4>1. <<x>> \in Seq(Nodes) /\ Len(<<x>>) = 1 /\ <<x>>[1] = x /\ Len(t) \in Nat
          BY <2>7
        <4>2. /\ Len(s) = Len(<<x>>) + Len(t)
              /\ \A i \in 1..Len(<<x>>) + Len(t) :
                    s[i] = IF i <= Len(<<x>>) THEN <<x>>[i] ELSE t[i - Len(<<x>>)]
          BY <2>7, <3>3, <4>1, ConcatProperties
        <4>3. \A i \in 2..1 + Len(t) :
                 i \in 1..1 + Len(t) /\ ~(i <= 1) /\ i - 1 \in 1..Len(t)
          BY <4>1
        <4>4. \A i \in 2..1 + Len(t) : s[i] = t[i - 1]
          BY <4>1, <4>2, <4>3
        <4>5. s[1] = x /\ Len(s) = 1 + Len(t)
          BY <4>1, <4>2
        <4> QED
          BY <4>1, <4>3, <4>4, <4>5
      <3>5. \A i \in 1..Len(t) : t[i] # x
        BY <3>2 DEF In
      <3>6. Once(t)
        BY <2>5, <2>7
      <3>7. ASSUME NEW i \in 1..Len(s), NEW j \in 1..Len(s), s[i] = s[j] PROVE i = j
        <4>1. i = 1 \/ i \in 2..1 + Len(t)
          BY <3>4
        <4>2. j = 1 \/ j \in 2..1 + Len(t)
          BY <3>4
        <4>3. i - 1 = j - 1 => i = j
          BY <4>1, <4>2
        <4>4. CASE i = 1 /\ j = 1
          BY <4>4
        <4>5. CASE i = 1 /\ j \in 2..1 + Len(t)
          BY <3>4, <3>5, <3>7, <4>5
        <4>6. CASE i \in 2..1 + Len(t) /\ j = 1
          BY <3>4, <3>5, <3>7, <4>6
        <4>7. CASE i \in 2..1 + Len(t) /\ j \in 2..1 + Len(t)
          <5>1. i - 1 \in 1..Len(t) /\ j - 1 \in 1..Len(t) /\ t[i - 1] = t[j - 1]
            BY <3>4, <3>7, <4>7
          <5> QED
            BY <3>6, <4>3, <5>1
        <4> QED
          BY <4>1, <4>2, <4>4, <4>5, <4>6, <4>7
      <3>8. s = q[k]
        BY <2>6, <2>7, <3>1, <3>3, KeptFacts
      <3> QED
        BY <2>2, <3>7, <3>8
    <2> QED
      BY <2>8, <2>9
  <1>1. Once(q[1])
    BY <1>a, <1>0
  <1> QED
    BY <1>1

(* A cell behind the list is at the end of the filter, if it is kept.      *)
LEMMA FilterAppend ==
    ASSUME NEW c \in Seq(Cells), NEW x \in Cells, NEW q, Filter(q, c),
           NEW r, Filter(r, Append(c, x))
    PROVE  r[1] = q[1] \o Kept(x)
  <1> DEFINE n == Len(c)
             t == [k \in 1..n + 2 |-> IF k = n + 2 THEN <<>> ELSE q[k] \o Kept(x)]
  <1>0. n \in Nat
    OBVIOUS
  <1>1. PICK d : d = Append(c, x)
    OBVIOUS
  <1>2. d \in Seq(Cells) /\ Len(d) = n + 1 /\ d[n + 1] = x /\ \A i \in 1..n : d[i] = c[i]
    BY <1>1, InAppend
  <1>3. /\ q \in [1..n + 1 -> Seq(Nodes)] /\ q[n + 1] = <<>>
        /\ \A k \in 1..n : q[k] = Kept(c[k]) \o q[k + 1]
    BY DEF Filter
  <1>4. Kept(x) \in Seq(Nodes) /\ \A y : Kept(y) \in Seq(Nodes)
    BY KeptFacts
  <1> HIDE DEF n
  <1>5. ASSUME NEW k \in 1..n + 1 PROVE t[k] = q[k] \o Kept(x) /\ t[k] \in Seq(Nodes)
    <2>1. k \in 1..n + 2 /\ k # n + 2
      BY <1>0
    <2>2. q[k] \in Seq(Nodes)
      BY <1>3
    <2>3. q[k] \o Kept(x) \in Seq(Nodes)
      BY <2>2, <1>4, ConcatProperties
    <2> QED
      BY <2>1, <2>3
  <1>6. t[n + 2] = <<>> /\ n + 2 \in 1..n + 2
    BY <1>0
  <1>7. t \in [1..n + 2 -> Seq(Nodes)]
    <2>1. ASSUME NEW k \in 1..n + 2 PROVE t[k] \in Seq(Nodes)
      <3>1. CASE k = n + 2
        <4>1. <<>> \in Seq(Nodes)
          OBVIOUS
        <4> QED
          BY <3>1, <1>6, <4>1
      <3>2. CASE k # n + 2
        <4>1. k \in 1..n + 1
          BY <3>2, <1>0
        <4> QED
          BY <4>1, <1>5
      <3> QED
        BY <3>1, <3>2
    <2> QED
      BY <2>1
  <1> HIDE DEF t
  <1>8. ASSUME NEW k \in 1..n + 1 PROVE t[k] = Kept(d[k]) \o t[k + 1]
    <2>1. CASE k = n + 1
      <3>1. t[k] = <<>> \o Kept(x) /\ t[k + 1] = <<>> /\ d[k] = x
        <4>1. k + 1 = n + 2
          BY <2>1, <1>0
        <4> QED
          BY <2>1, <4>1, <1>2, <1>3, <1>5, <1>6
      <3>2. <<>> \o Kept(x) = Kept(x) /\ Kept(x) \o <<>> = Kept(x)
        BY <1>4, ConcatEmptySeq
      <3> QED
        BY <3>1, <3>2
    <2>2. CASE k # n + 1
      <3>1. k \in 1..n /\ k + 1 \in 1..n + 1
        BY <2>2, <1>0
      <3>2. q[k] = Kept(c[k]) \o q[k + 1] /\ q[k + 1] \in Seq(Nodes) /\ d[k] = c[k]
        BY <3>1, <1>2, <1>3
      <3>3. t[k] = (Kept(c[k]) \o q[k + 1]) \o Kept(x) /\ t[k + 1] = q[k + 1] \o Kept(x)
        BY <3>1, <3>2, <1>5
      <3>4. (Kept(c[k]) \o q[k + 1]) \o Kept(x) = Kept(c[k]) \o (q[k + 1] \o Kept(x))
        <4>1. PICK y, z, u : y = Kept(c[k]) /\ z = q[k + 1] /\ u = Kept(x)
          OBVIOUS
        <4>2. y \in Seq(Nodes) /\ z \in Seq(Nodes) /\ u \in Seq(Nodes)
          BY <3>2, <4>1, <1>4
        <4>3. (y \o z) \o u = y \o (z \o u)
          BY <4>2, KeptAssociative
        <4> QED
          BY <4>1, <4>3
      <3> QED
        BY <3>2, <3>3, <3>4
    <2> QED
      BY <2>1, <2>2
  <1>9. Filter(t, d)
    <2>1. Len(d) + 1 = n + 2
      BY <1>2, <1>0
    <2> QED
      BY <2>1, <1>2, <1>6, <1>7, <1>8 DEF Filter
  <1>10. Filter(r, d)
    BY <1>1
  <1>11. 1 \in 1..Len(d) + 1
    BY <1>2, <1>0
  <1>12. r[1] = t[1]
    BY <1>2, <1>9, <1>10, <1>11, FilterUnique
  <1>13. t[1] = q[1] \o Kept(x)
    <2>1. 1 \in 1..n + 1
      BY <1>0
    <2> QED
      BY <2>1, <1>5
  <1> QED
    BY <1>12, <1>13

(* The first cell of the list is at the head of the filter, if it is kept. *)
LEMMA FilterTail ==
    ASSUME NEW c \in Seq(Cells), Len(c) > 1, NEW q, Filter(q, c),
           NEW r, Filter(r, Tail(c))
    PROVE  q[1] = Kept(c[1]) \o r[1] /\ r[1] \in Seq(Nodes)
  <1> DEFINE n == Len(c)
             t == [k \in 1..n |-> q[k + 1]]
  <1>0. n \in Nat /\ n > 1
    OBVIOUS
  <1>1. PICK d : d = Tail(c)
    OBVIOUS
  <1>2. d \in Seq(Cells) /\ Len(d) = n - 1 /\ \A i \in 1..n - 1 : d[i] = c[i + 1]
    BY <1>1
  <1>3. /\ q \in [1..n + 1 -> Seq(Nodes)] /\ q[n + 1] = <<>>
        /\ \A k \in 1..n : q[k] = Kept(c[k]) \o q[k + 1]
    BY DEF Filter
  <1> HIDE DEF n
  <1>4. \A k \in 1..n : k + 1 \in 1..n + 1 /\ t[k] = q[k + 1]
    BY <1>0
  <1>5. t \in [1..n -> Seq(Nodes)]
    BY <1>3, <1>4
  <1>6. t[n] = <<>> /\ n \in 1..n
    BY <1>0, <1>3, <1>4
  <1> HIDE DEF t
  <1>7. ASSUME NEW k \in 1..n - 1 PROVE t[k] = Kept(d[k]) \o t[k + 1]
    <2>1. k \in 1..n /\ k + 1 \in 1..n
      BY <1>0
    <2> QED
      BY <2>1, <1>2, <1>3, <1>4
  <1>8. Filter(t, d)
    <2>1. Len(d) + 1 = n
      BY <1>0, <1>2
    <2> QED
      BY <2>1, <1>2, <1>5, <1>6, <1>7 DEF Filter
  <1>9. Filter(r, d)
    BY <1>1
  <1>10. 1 \in 1..Len(d) + 1 /\ 1 \in 1..n /\ 1 + 1 \in 1..n + 1
    BY <1>0, <1>2
  <1>11. r[1] = t[1]
    BY <1>2, <1>8, <1>9, <1>10, FilterUnique
  <1> QED
    BY <1>3, <1>4, <1>5, <1>10, <1>11

(* Along the list, the successor of a cell is the next one.                *)
LEMMA SuccessorOnList ==
    ASSUME NEW c, IInv(c)
    PROVE  /\ \A i \in 1..Len(c) - 1 : Successor(c[i]) = c[i + 1]
           /\ Successor(c[Len(c)]) = Null
  <1>0. /\ c \in Seq(Cells) /\ Len(c) \in Nat /\ Len(c) > 0 /\ c[Len(c)] = head
        /\ \A i \in 1..Len(c) : c[i] \in Cells
        /\ \A i, j \in 1..Len(c) : c[i] = c[j] => i = j
        /\ next[head] = Null
    BY DEF IInv, Linked
  <1>1. ASSUME NEW i \in 1..Len(c) - 1 PROVE Successor(c[i]) = c[i + 1]
    <2>0. c[i] \in Cells /\ c[i + 1] \in Cells /\ c[i + 1] # Null
      BY <1>0, CellFacts
    <2>1. CASE next[c[i]] = c[i + 1]
      BY <2>0, <2>1 DEF Successor
    <2>2. CASE /\ next[c[i]] = Null
               /\ \E a \in Actors : pc[a] = "link" /\ prev[a] = c[i] /\ node[a] = c[i + 1]
      <3>1. PICK a \in Actors : pc[a] = "link" /\ prev[a] = c[i] /\ node[a] = c[i + 1]
        BY <2>2
      <3> DEFINE b == CHOOSE b \in Actors : pc[b] = "link" /\ prev[b] = c[i]
      <3>2. b \in Actors /\ pc[b] = "link" /\ prev[b] = c[i]
        BY <3>1
      <3>3. Successor(c[i]) = node[b]
        BY <2>2, <3>1 DEF Successor
      <3> HIDE DEF b
      <3>4. a = b
        BY <3>1, <3>2 DEF IInv, Pending
      <3> QED
        BY <3>1, <3>3, <3>4
    <2> QED
      BY <2>1, <2>2 DEF IInv, Linked
  <1>2. Successor(c[Len(c)]) = Null
    <2>1. ASSUME NEW a \in Actors, pc[a] = "link", prev[a] = head PROVE FALSE
      <3>1. PICK i \in 1..Len(c) - 1 : prev[a] = c[i]
        BY <2>1 DEF IInv, Pending
      <3>2. i \in 1..Len(c) /\ Len(c) \in 1..Len(c) /\ i # Len(c)
        BY <1>0
      <3> QED
        BY <2>1, <3>1, <3>2, <1>0
    <2> QED
      BY <1>0, <2>1 DEF Successor
  <1> QED
    BY <1>1, <1>2

(* No list is longer than the number of cells, so walk sees all of it.     *)
LEMMA ListBounded ==
    ASSUME NEW c, IInv(c)
    PROVE  Len(c) <= Cardinality(Cells)
  <1>1. c \in Seq(Cells) /\ Len(c) \in Nat /\ c \in [1..Len(c) -> Cells]
    BY LenProperties DEF IInv, Linked
  <1>2. c \in Injection(1..Len(c), Cells)
    BY <1>1 DEF IInv, Linked, Injection, IsInjective
  <1>3. Cardinality(1..Len(c)) <= Cardinality(Cells)
    BY <1>2, CellsFinite, FS_Injection
  <1>4. Cardinality(1..Len(c)) = Len(c)
    BY <1>1, FS_Interval
  <1> QED
    BY <1>3, <1>4

(* The abstract queue is the list without its markers.                     *)
QueueOfList == \A c : IInv(c) => \E q : Filter(q, c) /\ queue = q[1]

(* By the walk along the list.                                             *)
LEMMA ListQueue == QueueOfList
  <1> SUFFICES ASSUME NEW c, IInv(c) PROVE \E q : Filter(q, c) /\ queue = q[1]
    BY DEF QueueOfList
  <1> DEFINE N == Cardinality(Cells)
             L == Len(c)
             q == [k \in 1..L + 1 |-> IF k = L + 1 THEN <<>> ELSE walk[N - k + 1][c[k]]]
  <1>1. /\ c \in Seq(Cells) /\ L \in Nat /\ L > 0 /\ L <= N /\ N \in Nat
        /\ c[1] = tail /\ \A i \in 1..L : c[i] \in Cells
        /\ TypeOK
    BY ListBounded, CellsFinite DEF IInv, Linked
  <1>2. queue = walk[N][tail]
    BY DEF queue
  <1>3. /\ \A i \in 1..L - 1 : Successor(c[i]) = c[i + 1]
        /\ Successor(c[L]) = Null
    BY SuccessorOnList
  <1> HIDE DEF N, L
  <1>4. ASSUME NEW k \in 1..L
        PROVE  /\ q[k] = walk[N - k + 1][c[k]]
               /\ N - k + 1 \in 0..N /\ N - k + 1 # 0 /\ (N - k + 1) - 1 = N - k
               /\ N - k \in 0..N /\ q[k] \in Seq(Nodes) /\ c[k] \in Cells
    <2>1. /\ N - k + 1 \in 0..N /\ N - k + 1 # 0 /\ (N - k + 1) - 1 = N - k
          /\ N - k \in 0..N /\ c[k] \in Cells
      BY <1>1
    <2>2. q[k] = walk[N - k + 1][c[k]]
      BY <1>1
    <2>3. walk[N - k + 1][c[k]] \in Seq(Nodes)
      BY <2>1, <1>1, WalkType DEF N
    <2> QED
      BY <2>1, <2>2, <2>3
  <1>5. q[L + 1] = <<>> /\ L + 1 \in 1..L + 1
    BY <1>1
  <1>6. q \in [1..L + 1 -> Seq(Nodes)]
    <2>1. ASSUME NEW k \in 1..L + 1 PROVE q[k] \in Seq(Nodes)
      <3>1. CASE k = L + 1
        <4>1. <<>> \in Seq(Nodes)
          OBVIOUS
        <4> QED
          BY <3>1, <4>1, <1>5
      <3>2. CASE k # L + 1
        <4>1. k \in 1..L
          BY <1>1, <3>2
        <4> QED
          BY <4>1, <1>4
      <3> QED
        BY <3>1, <3>2
    <2> QED
      BY <2>1
  <1> HIDE DEF q
  <1>7. ASSUME NEW k \in 1..L PROVE q[k] = Kept(c[k]) \o q[k + 1]
    <2>1. q[k] = Kept(c[k]) \o walk[N - k][Successor(c[k])]
      <3>1. walk[N - k + 1][c[k]] = Kept(c[k]) \o walk[(N - k + 1) - 1][Successor(c[k])]
        BY <1>4, WalkValue DEF N
      <3> QED
        BY <3>1, <1>4
    <2>2. CASE k = L
      <3>1. walk[N - k][Null] = <<>>
        BY <1>4, WalkValue DEF N
      <3> QED
        BY <2>1, <2>2, <3>1, <1>3, <1>5
    <2>3. CASE k # L
      <3>1. k \in 1..L - 1 /\ k + 1 \in 1..L /\ N - (k + 1) + 1 = N - k
        BY <1>1, <2>3
      <3> QED
        BY <2>1, <3>1, <1>3, <1>4
    <2> QED
      BY <2>2, <2>3
  <1>8. Filter(q, c)
    BY <1>5, <1>6, <1>7 DEF Filter, L
  <1>9. queue = q[1]
    <2>1. 1 \in 1..L /\ N - 1 + 1 = N
      BY <1>1
    <2> QED
      BY <2>1, <1>1, <1>2, <1>4
  <1> QED
    BY <1>8, <1>9

(* The same of the next state.                                             *)
LEMMA ListQueueNext == QueueOfList'
  <1>1. QueueOfList
    BY ListQueue
  <1> QED
    BY <1>1, PTL

(* The abstract queue holds the nodes of the list, each once.              *)
LEMMA QueueMembers ==
    ASSUME NEW c, IInv(c)
    PROVE  /\ queue \in Seq(Nodes) /\ In(queue) = In(c) \cap Nodes
           /\ \A n \in Nodes : InQueue(n) <=> n \in In(c)
           /\ queue = <<>> <=> In(c) \cap Nodes = {}
           /\ \A i, j \in DOMAIN queue : queue[i] = queue[j] => i = j
  <1>1. PICK q : Filter(q, c) /\ queue = q[1]
    BY ListQueue DEF QueueOfList
  <1>2. c \in Seq(Cells) /\ Len(c) \in Nat
    BY DEF IInv, Linked
  <1>3. In(queue) = In(c) \cap Nodes
    BY <1>1, <1>2, FilterMembers
  <1>4. queue \in Seq(Nodes)
    BY <1>1, <1>2 DEF Filter
  <1>5. PICK s \in Seq(Nodes) : s = queue
    BY <1>4
  <1>6. DOMAIN s = 1..Len(s) /\ Len(s) \in Nat
    OBVIOUS
  <1>7. \A n \in Nodes : InQueue(n) <=> n \in In(s)
    BY <1>5, <1>6 DEF InQueue, In
  <1>8. s = <<>> <=> In(s) = {}
    <2>1. s = <<>> => In(s) = {}
      BY DEF In
    <2>2. ASSUME s # <<>> PROVE In(s) # {}
      <3>1. 1 \in 1..Len(s)
        BY <2>2, EmptySeq
      <3> QED
        BY <3>1 DEF In
    <2> QED
      BY <2>1, <2>2
  <1>9. \A i, j \in DOMAIN s : s[i] = s[j] => i = j
    <2>1. \A i, j \in 1..Len(c) : c[i] = c[j] => i = j
      BY DEF IInv, Linked
    <2>2. \A i, j \in 1..Len(q[1]) : q[1][i] = q[1][j] => i = j
      BY <1>1, <1>2, <2>1, FilterOnce
    <2> QED
      BY <1>1, <1>5, <1>6, <2>2
  <1> QED
    BY <1>3, <1>4, <1>5, <1>7, <1>8, <1>9

-----------------------------------------------------------------------------
(* Head, tail and links name cells, counts stay natural and every thread   *)
(* is at a place of enqueue_node, poll, drop or select.                    *)
THEOREM TypeCorrect == Spec => []TypeOK
  <1>1. Inv => TypeOK
    BY DEF Inv, IInv
  <1> QED
    BY <1>1, SpecImpliesInv, PTL

(* One poll reports a level-triggered node at most once, for every batch   *)
(* size and every set of nodes: until is in the list whenever a level node *)
(* has been reported, at or before every level node that was.              *)
THEOREM LevelOncePerPollHolds == Spec => []LevelOncePerPoll
  <1>1. ASSUME NEW c, IInv(c) PROVE LevelOncePerPoll
    BY <1>1, CellFacts DEF IInv, LevelInv, Level, Polls, LevelOncePerPoll, PollerAt, Dequeuing
  <1>2. Inv => LevelOncePerPoll
    BY <1>1 DEF Inv
  <1> QED
    BY <1>2, SpecImpliesInv, PTL

(* What each way to reach a node contributes to its count.                 *)
LEMMA Referenced ==
    ASSUME NEW c, IInv(c), NEW n \in Nodes
    PROVE  /\ n \in reg => RegRef(n) = 1
           /\ (\E p \in Producers \cap dropping : node[p] = n) => RegRef(n) = 1
           /\ RegRef(n) \in Nat /\ QueueRef(c, n) \in Nat /\ Cardinality(Holders(n)) \in Nat
           /\ (\E p \in Producers : n \in hold[p]) => Cardinality(Holders(n)) > 0
           /\ n \in In(c) => QueueRef(c, n) = 1
           /\ (\E a \in Actors : Carrying(a) /\ node[a] = n) => QueueRef(c, n) = 1
           /\ ref_count[n] = Cardinality(Holders(n)) + RegRef(n) + QueueRef(c, n)
  <1>1. IsFiniteSet(Holders(n)) /\ Cardinality(Holders(n)) \in Nat
    BY HoldersCounted DEF Holders
  <1>2. (\E p \in Producers : n \in hold[p]) => Holders(n) # {}
    BY DEF Holders
  <1>3. Holders(n) # {} => Cardinality(Holders(n)) > 0
    BY <1>1, FS_EmptySet
  <1>4. ref_count[n] = Cardinality(Holders(n)) + RegRef(n) + QueueRef(c, n)
    BY DEF IInv, Counted
  <1>5. /\ n \in reg => RegRef(n) = 1
        /\ (\E p \in Producers \cap dropping : node[p] = n) => RegRef(n) = 1
        /\ RegRef(n) \in Nat
    BY DEF RegRef
  <1>6. /\ n \in In(c) => QueueRef(c, n) = 1
        /\ (\E a \in Actors : Carrying(a) /\ node[a] = n) => QueueRef(c, n) = 1
        /\ QueueRef(c, n) \in Nat
    BY DEF QueueRef
  <1> QED
    BY <1>1, <1>2, <1>3, <1>4, <1>5, <1>6

(* What a producer works on inside a call it still has a handle of, or it  *)
(* has the reference of the Registration it drops.                         *)
LEMMA ProducerOwns ==
    ASSUME NEW c, IInv(c), NEW p \in Producers, NEW n \in Nodes, node[p] = n
    PROVE  Cardinality(Holders(n)) + RegRef(n) > 0
  <1>1. pc[p] # "idle"
    BY CellFacts DEF IInv, Calls
  <1>2. CASE p \in dropping
    BY <1>2, Referenced
  <1>3. CASE p \notin dropping
    <2>1. n \in hold[p]
      BY <1>1, <1>3 DEF IInv, Calls
    <2> QED
      BY <2>1, Referenced
  <1> QED
    BY <1>2, <1>3

(* The debug_asserts of enqueue_node, prepare_for_sleep,                   *)
(* clear_sleep_marker and poll hold in every interleaving.                 *)
THEOREM DebugAssertionsHold == Spec => []DebugAssertions
  <1>1. ASSUME NEW c, IInv(c) PROVE DebugAssertions
    <2> USE <1>1
    <2>0. /\ c \in Seq(Cells) /\ Len(c) \in Nat /\ Len(c) > 0 /\ c[1] = tail /\ c[Len(c)] = head
          /\ head \in In(c) /\ tail \in In(c) /\ next[head] = Null
      BY DEF IInv, Linked, In
    <2>1. ASSUME NEW a \in Actors, pc[a] = "link" PROVE next[prev[a]] = Null
      BY <2>1 DEF IInv, Pending
    <2>2. ASSUME NEW a \in Actors, pc[a] = "cas", prev[a] = Closed
          PROVE  /\ node[a] \notin {Closed, Sleep}
                 /\ node[a] \in Nodes => ref_count[node[a]] >= 2
      <3>1. head = Closed /\ Closed \in In(c) /\ Poller \in dropping
        BY <2>0, <2>2 DEF IInv, Marked
      <3>2. Carrying(a) /\ node[a] \notin In(c)
        BY <2>2 DEF IInv, Carried, Carrying
      <3>3. CASE a = Poller
        <4>1. node[a] = End
          BY <2>2, <3>1, <3>2, <3>3 DEF IInv, Polls, Enqueuing
        <4> QED
          BY <4>1, CellFacts
      <3>4. CASE a \in Producers
        <4>1. node[a] \in Nodes
          BY <2>2, <3>4 DEF IInv, Calls
        <4>2. PICK n \in Nodes : node[a] = n
          BY <4>1
        <4>3. Cardinality(Holders(n)) + RegRef(n) > 0
          BY <3>4, <4>2, ProducerOwns
        <4>4. QueueRef(c, n) = 1
          BY <3>2, <4>2, Referenced
        <4>5. ref_count[n] >= 2
          BY <4>3, <4>4, Referenced
        <4> QED
          BY <4>1, <4>2, <4>5, CellFacts
      <3> QED
        BY <3>3, <3>4, ActorFacts
    <2>3. PollerAt("prepare") /\ tail = End => head # Sleep /\ (head = End => next[End] = Null)
      BY <2>0, CellFacts DEF IInv, Marked
    <2>4. PollerAt("clear") /\ tail = Sleep => head # End
      BY <2>0 DEF IInv, Marked
    <2>5. PollerAt("process") => queued[node[Poller]]
      BY ActorFacts DEF IInv, Polls, Flagged, PollerAt, Carrying
    <2> QED
      BY <2>1, <2>2, <2>3, <2>4, <2>5 DEF DebugAssertions
  <1>2. Inv => DebugAssertions
    BY <1>1 DEF Inv
  <1> QED
    BY <1>2, SpecImpliesInv, PTL

(* No producer's node is in the list behind a poller that may sleep        *)
(* without a wakeup having been written or being on its way.               *)
THEOREM NoLostWakeupHolds == Spec => []NoLostWakeup
  <1>1. ASSUME NEW c, IInv(c) PROVE NoLostWakeup
    <2> USE <1>1
    <2>1. SUFFICES ASSUME PollerAt("select"), blocking, queue # <<>>
                   PROVE  \/ Awakened
                          \/ \E p \in Producers :
                                pc[p] = "wake" \/ (pc[p] = "link" /\ prev[p] = Sleep)
      BY DEF NoLostWakeup
    <2>2. head # Sleep \/ tail # Sleep
      <3>1. SUFFICES ASSUME head = Sleep, tail = Sleep PROVE FALSE
        OBVIOUS
      <3>2. /\ c \in Seq(Cells) /\ Len(c) \in Nat /\ Len(c) > 0
            /\ c[1] = Sleep /\ c[Len(c)] = Sleep
            /\ \A i, j \in 1..Len(c) : c[i] = c[j] => i = j
        BY <3>1 DEF IInv, Linked
      <3>3. Len(c) = 1
        <4>1. 1 \in 1..Len(c) /\ Len(c) \in 1..Len(c) /\ c[1] = c[Len(c)]
          BY <3>2
        <4> QED
          BY <4>1, <3>2
      <3>4. In(c) \cap Nodes = {}
        BY <3>2, <3>3, CellFacts DEF In
      <3> QED
        BY <2>1, <3>4, QueueMembers
    <2> QED
      BY <2>1, <2>2 DEF IInv, Told
  <1>2. Inv => NoLostWakeup
    BY <1>1 DEF Inv
  <1> QED
    BY <1>2, SpecImpliesInv, PTL

(* A flagged node is in the list or in an actor's hand, once: what         *)
(* set_readiness finds queued will be polled.                              *)
THEOREM QueuedExactlyHolds == Spec => []QueuedExactly
  <1>1. ASSUME NEW c, IInv(c) PROVE QueuedExactly
    <2> USE <1>1
    <2>1. SUFFICES ASSUME NEW n \in Nodes
                   PROVE  LET places == Cardinality({i \in DOMAIN queue : queue[i] = n})
                                          + Cardinality(Carriers(n))
                          IN  /\ places <= 1
                              /\ places = 1 => queued[n]
                              /\ queued[n] /\ ~dropped[n] /\ ~closed => places = 1
      BY DEF QueuedExactly
    <2> DEFINE I == {i \in DOMAIN queue : queue[i] = n}
               A == Carriers(n)
    <2>2. I = {} \/ \E i : I = {i}
      BY QueueMembers
    <2>3. A = {} \/ \E a : A = {a}
      BY DEF IInv, Carried, Carriers, Carrying
    <2>4. I # {} => n \in In(c)
      BY QueueMembers DEF InQueue
    <2>5. I = {} => n \notin In(c)
      BY QueueMembers DEF InQueue
    <2>6. A # {} => n \notin In(c) /\ queued[n]
      BY DEF IInv, Carried, Flagged, Carriers, Carrying
    <2>7. n \in In(c) => queued[n]
      BY DEF IInv, Flagged
    <2>8. queued[n] /\ ~dropped[n] /\ ~closed => n \in In(c) \/ A # {}
      BY DEF IInv, Flagged, Carriers, Carrying, closed
    <2>9. /\ I = {} => Cardinality(I) = 0
          /\ (\E i : I = {i}) => Cardinality(I) = 1
          /\ A = {} => Cardinality(A) = 0
          /\ (\E a : A = {a}) => Cardinality(A) = 1
      <3> HIDE DEF I, A
      <3> QED
        BY FS_EmptySet, FS_Singleton
    <2>10. /\ I = {} /\ A = {} => Cardinality(I) + Cardinality(A) = 0
           /\ I # {} /\ A = {} => Cardinality(I) + Cardinality(A) = 1
           /\ I = {} /\ A # {} => Cardinality(I) + Cardinality(A) = 1
      <3> HIDE DEF I, A
      <3> QED
        <4>1. I # {} => Cardinality(I) = 1
          BY <2>2, <2>9
        <4>2. A # {} => Cardinality(A) = 1
          BY <2>3, <2>9
        <4> QED
          BY <2>9, <4>1, <4>2
    <2> HIDE DEF I, A
    <2>11. /\ Cardinality(I) + Cardinality(A) <= 1
           /\ Cardinality(I) + Cardinality(A) = 1 => queued[n]
           /\ queued[n] /\ ~dropped[n] /\ ~closed => Cardinality(I) + Cardinality(A) = 1
      BY <2>4, <2>5, <2>6, <2>7, <2>8, <2>10
    <2> QED
      BY <2>11 DEF I, A
  <1>2. Inv => QueuedExactly
    BY <1>1 DEF Inv
  <1> QED
    BY <1>2, SpecImpliesInv, PTL

(* A node that a handle, the list or a running call can reach has a        *)
(* reference left: release_node frees nothing that is still in use.        *)
THEOREM NoUseAfterFreeHolds == Spec => []NoUseAfterFree
  <1>1. ASSUME NEW c, IInv(c) PROVE NoUseAfterFree
    <2> USE <1>1
    <2>1. SUFFICES ASSUME NEW n \in Nodes,
                          \/ n \in reg
                          \/ \E p \in Producers : n \in hold[p]
                          \/ InQueue(n)
                          \/ \E a \in Actors : node[a] = n \/ (pc[a] = "link" /\ prev[a] = n)
                   PROVE  ref_count[n] > 0
      BY DEF NoUseAfterFree
    <2>2. CASE n \in reg
      BY <2>2, Referenced
    <2>3. CASE \E p \in Producers : n \in hold[p]
      BY <2>3, Referenced
    <2>4. ASSUME n \in In(c) PROVE ref_count[n] > 0
      BY <2>4, Referenced
    <2>5. CASE InQueue(n)
      BY <2>4, <2>5, QueueMembers
    <2>0. Len(c) \in Nat
      BY DEF IInv, Linked
    <2>6. ASSUME NEW a \in Actors, pc[a] = "link", prev[a] = n \/ node[a] = n
          PROVE  n \in In(c)
      <3>1. PICK i \in 1..Len(c) - 1 : prev[a] = c[i] /\ node[a] = c[i + 1]
        BY <2>6 DEF IInv, Pending
      <3>2. i \in 1..Len(c) /\ i + 1 \in 1..Len(c)
        BY <2>0
      <3> QED
        BY <2>6, <3>1, <3>2 DEF In
    <2>7. ASSUME NEW a \in Actors, node[a] = n PROVE ref_count[n] > 0
      <3>1. CASE a \in Producers
        BY <2>7, <3>1, ProducerOwns, Referenced
      <3>2. CASE a = Poller
        <4>1. pc[a] \in {"load", "cas", "link", "process"}
          BY <2>7, <3>2, CellFacts DEF IInv, Polls, Enqueuing
        <4>2. CASE pc[a] = "link"
          BY <2>4, <2>6, <2>7, <4>2
        <4>3. CASE Carrying(a)
          BY <2>7, <4>3, Referenced
        <4> QED
          BY <4>1, <4>2, <4>3 DEF Carrying
      <3> QED
        BY <3>1, <3>2, ActorFacts
    <2> QED
      BY <2>1, <2>2, <2>3, <2>4, <2>5, <2>6, <2>7
  <1>2. Inv => NoUseAfterFree
    BY <1>1 DEF Inv
  <1> QED
    BY <1>2, SpecImpliesInv, PTL

(* A node nothing reaches any more has been freed, whatever the order in   *)
(* which Registration, handles and queue were dropped.                     *)
THEOREM NoLeakHolds == Spec => []NoLeak
  <1>1. ASSUME NEW c, IInv(c) PROVE NoLeak
    <2> USE <1>1
    <2>1. SUFFICES ASSUME NEW n \in Nodes, n \notin reg,
                          \A p \in Producers : n \notin hold[p],
                          \A a \in Actors : node[a] # n,
                          ~InQueue(n)
                   PROVE  ref_count[n] = 0
      BY DEF NoLeak
    <2>2. Cardinality(Holders(n)) = 0
      <3>1. Holders(n) = {}
        BY <2>1 DEF Holders
      <3> QED
        BY <3>1, FS_EmptySet
    <2>3. RegRef(n) = 0
      BY <2>1, ActorFacts DEF RegRef
    <2>4. QueueRef(c, n) = 0
      <3>1. n \notin In(c)
        BY <2>1, QueueMembers
      <3>2. queued[n]
        BY <2>1 DEF IInv, Flagged
      <3> QED
        BY <2>1, <3>1, <3>2 DEF QueueRef
    <2> QED
      BY <2>2, <2>3, <2>4, Referenced
  <1>2. Inv => NoLeak
    BY <1>1 DEF Inv
  <1> QED
    BY <1>2, SpecImpliesInv, PTL

(* Taking the first node of a queue.                                       *)
LEMMA TailOfCons ==
    ASSUME NEW x \in Nodes, NEW s \in Seq(Nodes)
    PROVE  <<x>> \o s # <<>> /\ Tail(<<x>> \o s) = s
  <1>1. /\ <<x>> \in Seq(Nodes) /\ Len(<<x>>) = 1 /\ <<x>>[1] = x
    OBVIOUS
  <1>2. PICK t : t = <<x>> \o s
    OBVIOUS
  <1>3. /\ t \in Seq(Nodes) /\ Len(t) = 1 + Len(s) /\ Len(s) \in Nat
        /\ \A i \in 1..1 + Len(s) : t[i] = IF i <= 1 THEN <<x>>[i] ELSE s[i - 1]
    BY <1>1, <1>2, ConcatProperties
  <1>4. t # <<>>
    BY <1>3
  <1>5. Tail(t) \in Seq(Nodes) /\ Len(Tail(t)) = Len(s)
        /\ \A i \in 1..Len(s) : Tail(t)[i] = t[i + 1]
    BY <1>3, <1>4
  <1>6. \A i \in 1..Len(s) : t[i + 1] = s[i]
    BY <1>3
  <1>7. Tail(t) = s
    BY <1>5, <1>6, SeqEqual
  <1> QED
    BY <1>2, <1>4, <1>7

(* The list, with its markers, its pending links and its re-queued level   *)
(* nodes, is a queue: nodes leave in the order they entered it, none is in *)
(* it twice and none enters once it is closed.                             *)
THEOREM ImplementsEventQueueHolds == Spec => ImplementsEventQueue
  <1>1. Init => Abstract!Init
    <2>1. SUFFICES ASSUME Init PROVE queue = <<>> /\ closed = FALSE
      BY DEF Abstract!Init
    <2>2. IInv(<<End>>)
      BY <2>1, InitIInv
    <2>3. In(<<End>>) \cap Nodes = {}
      BY CellFacts DEF In
    <2>4. queue = <<>>
      BY <2>2, <2>3, QueueMembers
    <2> QED
      BY <2>1, <2>4, CellFacts DEF Init, closed
  <1>2. ASSUME NEW c, IInv(c), [Next]_vars
        PROVE  [Abstract!Next]_<<queue, closed>>
    <2> USE <1>2
    <2>1. PICK d : IInv(d)' /\ Evolves(c, d)
      BY NextEvolves
    <2>2. PICK q : Filter(q, c) /\ queue = q[1]
      BY ListQueue DEF QueueOfList
    <2>3. PICK r : Filter(r, d) /\ queue' = r[1]
      BY <2>1, ListQueueNext DEF QueueOfList
    <2>4. c \in Seq(Cells) /\ Len(c) \in Nat /\ Len(c) > 0 /\ \A i \in 1..Len(c) : c[i] \in Cells
      BY DEF IInv, Linked
    <2>5. d \in Seq(Cells) /\ Len(d) \in Nat
      BY <2>1 DEF IInv, Linked
    <2>6. queue \in Seq(Nodes) /\ queue' \in Seq(Nodes)
      <3>1. 1 \in 1..Len(c) + 1 /\ 1 \in 1..Len(d) + 1
        BY <2>4, <2>5
      <3>2. q[1] \in Seq(Nodes) /\ r[1] \in Seq(Nodes)
        BY <2>2, <2>3, <3>1 DEF Filter
      <3> QED
        BY <2>2, <2>3, <3>2
    <2>7. closed = (head = Closed) /\ closed' = (head' = Closed)
      BY DEF closed
    <2>8. CASE d = c /\ head' = head
      <3>1. queue' = queue
        BY <2>2, <2>3, <2>4, <2>8, FilterUnique
      <3> QED
        BY <3>1, <2>7, <2>8
    <2>9. ASSUME NEW x \in Cells, x \notin In(c), d = Append(c, x), head # Closed, head' = x
          PROVE  [Abstract!Next]_<<queue, closed>>
      <3>1. queue' = queue \o Kept(x)
        BY <2>2, <2>3, <2>4, <2>9, FilterAppend
      <3>2. CASE x \in Nodes
        <4>1. queue' = Append(queue, x)
          <5>1. PICK s \in Seq(Nodes) : s = queue
            BY <2>6
          <5>2. queue' = s \o <<x>>
            BY <3>1, <3>2, <5>1, KeptFacts
          <5>3. s \o <<x>> = Append(s, x)
            BY <3>2, AppendIsConcat
          <5> QED
            BY <5>1, <5>2, <5>3
        <4>2. x \notin Abstract!Contents
          <5>1. ~InQueue(x)
            BY <2>9, <3>2, QueueMembers
          <5> QED
            BY <5>1 DEF InQueue, Abstract!Contents
        <4>3. ~closed /\ closed' = closed
          BY <2>7, <2>9, <3>2, CellFacts
        <4>4. Abstract!Put(x)
          BY <4>1, <4>2, <4>3 DEF Abstract!Put
        <4> QED
          BY <3>2, <4>4 DEF Abstract!Next
      <3>3. CASE x \notin Nodes
        <4>1. queue' = queue
          BY <2>6, <3>1, <3>3, KeptFacts, ConcatEmptySeq
        <4>2. CASE x = Closed
          <5>1. Abstract!Close
            BY <2>7, <2>9, <4>1, <4>2 DEF Abstract!Close
          <5> QED
            BY <5>1 DEF Abstract!Next
        <4>3. CASE x # Closed
          BY <2>7, <2>9, <4>1, <4>3
        <4> QED
          BY <4>2, <4>3
      <3> QED
        BY <3>2, <3>3
    <2>10. CASE d = Tail(c) /\ Len(c) > 1 /\ head' = head
      <3>1. queue = Kept(c[1]) \o queue'
        BY <2>2, <2>3, <2>4, <2>10, FilterTail
      <3>2. closed' = closed
        BY <2>7, <2>10
      <3>3. CASE c[1] \in Nodes
        <4>1. PICK x \in Nodes, s \in Seq(Nodes) : x = c[1] /\ s = queue'
          BY <2>6, <3>3
        <4>2. queue = <<x>> \o s
          BY <3>1, <4>1, KeptFacts
        <4>3. queue # <<>> /\ queue' = Tail(queue)
          BY <4>1, <4>2, TailOfCons
        <4>4. Abstract!Take
          BY <3>2, <4>3 DEF Abstract!Take
        <4> QED
          BY <4>4 DEF Abstract!Next
      <3>4. CASE c[1] \notin Nodes
        <4>1. queue' = queue
          BY <2>6, <3>1, <3>4, KeptFacts, ConcatEmptySeq
        <4> QED
          BY <3>2, <4>1
      <3> QED
        BY <3>3, <3>4
    <2>11. CASE /\ In(c) \cap Nodes = {} /\ In(d) \cap Nodes = {}
                /\ head # Closed /\ head' # Closed
      <3>0. ASSUME NEW s \in Seq(Nodes), In(s) = {} PROVE s = <<>>
        <4>1. SUFFICES ASSUME s # <<>> PROVE FALSE
          OBVIOUS
        <4>2. 1 \in 1..Len(s)
          BY <4>1, EmptySeq
        <4> QED
          BY <4>2, <3>0 DEF In
      <3>1. In(queue) = {} /\ In(queue') = {}
        BY <2>2, <2>3, <2>4, <2>5, <2>11, FilterMembers
      <3>2. queue = <<>> /\ queue' = <<>>
        BY <2>6, <3>0, <3>1
      <3> QED
        BY <2>7, <2>11, <3>2
    <2> QED
      BY <2>1, <2>8, <2>9, <2>10, <2>11 DEF Evolves
  <1>3. Inv /\ [Next]_vars => [Abstract!Next]_<<queue, closed>>
    BY <1>2 DEF Inv
  <1> QED
    BY <1>1, <1>3, SpecImpliesInv, PTL DEF Spec, ImplementsEventQueue, Abstract!Spec
=============================================================================
