-------------------------- MODULE ConnectionProofs --------------------------
(***************************************************************************)
(* Proofs about a client's stream while it is connected (Connector, first  *)
(* part), as a connection (TcpConnection, second part), and in the pair of *)
(* connections of a tunnel's session (TunnelServer, third part).  The      *)
(* modules share no name, so all three are extended here.                  *)
(***************************************************************************)
EXTENDS Connector, TcpConnection, TunnelServer, FiniteSetTheorems, SequenceTheorems, TLAPS

(***************************************************************************)
(* For any number of connects, overlapping or not: what the unwraps and    *)
(* the assertion of Connector and TcpClient take for granted, that a       *)
(* connect has one outcome, and that the handler is told the truth.        *)
(*                                                                         *)
(* The argument rests on the stored stream: only it can have an event to   *)
(* come (Stored), a batch holds one event at most and then there is a      *)
(* stored stream (BatchFits), and what has an outcome and is still stored  *)
(* was deregistered by its timeout (Outcomes).  When connects do not       *)
(* overlap, an event or a timeout is always that of the last stream        *)
(* (Sequential).                                                           *)
(***************************************************************************)
Told == {"on_error", "on_connect", "timeout"}

(* TypeOK without the batch, which BatchFits describes, and with the       *)
(* outcomes.                                                               *)
Types ==
    /\ opened \in 0..MaxStreams /\ early \in BOOLEAN
    /\ sock \in [Streams -> {"none", "connecting", "established", "failed", "closed"}]
    /\ job \in [Streams -> {"none", "connector", "connection"}]
    /\ armed \in [Streams -> BOOLEAN]
    /\ tcp_stream \in 0..opened /\ timer \in 0..opened
    /\ pending \subseteq 1..opened
    /\ caller \in {"none", "loop", "other"} /\ poisoned \in BOOLEAN
    /\ outcome \in [Streams -> Seq(Told)]
    /\ panic \in {"none", "connect", "assert", "unwrap", "poisoned"}

(* Streams that were not opened yet.                                       *)
Blank ==
    \A s \in Streams : s > opened =>
        job[s] = "none" /\ ~armed[s] /\ outcome[s] = <<>>

(* Nothing but the stored stream can still be reported to the connector.   *)
Stored ==
    \A s \in Streams : armed[s] /\ job[s] = "connector" /\ sock[s] # "closed" =>
        s = tcp_stream

(* A batch has one event of a stream at most, and it comes first; then     *)
(* there is a stored stream, though it may be another one.                 *)
NoEvent == batch = <<>> \/ batch = <<Timers>>
EventOf(s) == batch = <<s>> \/ batch = <<s, Timers>>
BatchFits == NoEvent \/ (tcp_stream # None /\ \E s \in 1..opened : EventOf(s))

(* Between the halves of connect the stored stream, if nobody has taken    *)
(* it, is not registered; only after overlapping connects it is taken.     *)
Halfway ==
    /\ caller # "none" /\ tcp_stream # None =>
          job[tcp_stream] = "none" /\ outcome[tcp_stream] = <<>>
    /\ caller # "none" /\ tcp_stream = None => early
    /\ caller = "loop" => panic = "none"

(* A stored stream that has its outcome has timed out.                     *)
Outcomes ==
    /\ \A s \in Streams : outcome[s] = <<>> \/ Len(outcome[s]) = 1
    /\ tcp_stream # None /\ outcome[tcp_stream] # <<>> =>
          job[tcp_stream] = "none" /\ NoEvent

(* Connects that do not overlap: an event, or a timeout, belongs to the    *)
(* last stream, which is stored, registered and without an outcome.        *)
Sequential ==
    ~early =>
        /\ \A s \in 1..opened : outcome[s] = <<>> => s = opened
        /\ \A s \in 1..opened : EventOf(s) =>
              /\ s = opened /\ tcp_stream = s /\ caller = "none"
              /\ job[s] = "connector" /\ Decided(s) /\ outcome[s] = <<>>
        /\ pending # {} =>
              /\ opened > 0 /\ pending = {opened} /\ timer = opened
              /\ tcp_stream = opened /\ outcome[opened] = <<>>
              /\ job[opened] = "connector" \/ caller = "loop"

IInv ==
    /\ Types /\ Blank /\ Stored /\ BatchFits /\ Halfway /\ Outcomes /\ Sequential
    /\ UnwrapsHold

-----------------------------------------------------------------------------
(* Sequences of one and two events, and the sequence of a set of at most   *)
(* one stream.                                                             *)
LEMMA Batches ==
    ASSUME NEW s, NEW t
    PROVE  /\ <<>> # <<s>> /\ <<>> # <<s, t>> /\ <<s>> # <<t>> \o <<s>>
           /\ Head(<<s>>) = s /\ Tail(<<s>>) = <<>>
           /\ Head(<<s, t>>) = s /\ Tail(<<s, t>>) = <<t>>
           /\ \A u : <<u>> = <<s>> => u = s
           /\ \A u, v : <<u, v>> = <<s, t>> => u = s /\ v = t
           /\ \A u : <<u>> # <<s, t>>
  OBVIOUS

(* A set of at most one stream as a sequence.                              *)
LEMMA SetToSeqOfOne ==
    ASSUME NEW s
    PROVE  SetToSeq({}) = <<>> /\ SetToSeq({s}) = <<s>>
  <1>1. SetToSeq({}) = <<>>
    <2>1. Cardinality({}) = 0 /\ 1..0 = {}
      BY FS_EmptySet
    <2>2. <<>> \in [1..0 -> {}] /\ IsInjective(<<>>)
      BY DEF IsInjective
    <2>3. \A f \in [1..0 -> {}] : f = <<>>
      OBVIOUS
    <2> QED
      BY <2>1, <2>2, <2>3 DEF SetToSeq
  <1>2. SetToSeq({s}) = <<s>>
    <2>1. Cardinality({s}) = 1 /\ 1..1 = {1}
      BY FS_Singleton
    <2>2. <<s>> \in [1..1 -> {s}] /\ IsInjective(<<s>>)
      BY DEF IsInjective
    <2>3. \A f \in [1..1 -> {s}] : f = <<s>>
      OBVIOUS
    <2> QED
      BY <2>1, <2>2, <2>3 DEF SetToSeq
  <1> QED
    BY <1>1, <1>2

(* Nothing was connected yet.                                              *)
LEMMA InitIInv == Init => IInv
  <1> SUFFICES ASSUME Init PROVE IInv
    OBVIOUS
  <1>1. outcome \in [Streams -> Seq(Told)]
    <2>1. <<>> \in Seq(Told)
      OBVIOUS
    <2> QED
      BY <2>1 DEF Init
  <1>2. 0 \in 0..MaxStreams /\ 0 \in 0..0
    BY MaxStreamsAssumption
  <1>3. Types
    BY <1>1, <1>2 DEF Init, Types, None
  <1>4. Blank /\ Stored /\ BatchFits /\ Halfway /\ Outcomes /\ UnwrapsHold
    BY DEF Init, Blank, Stored, BatchFits, NoEvent, Halfway, Outcomes, UnwrapsHold
  <1>5. Sequential
    BY DEF Init, Sequential, EventOf
  <1> QED
    BY <1>3, <1>4, <1>5 DEF IInv

(* What has happened to a socket does not matter to the connector, except  *)
(* that a decided one stays decided.                                       *)
LEMMA DecideKeeps ==
    ASSUME IInv, NEW s \in Streams, NEW v \in {"established", "failed"}, Decide(s, v)
    PROVE  IInv'
  <1> USE DEF IInv
  <1>1. /\ sock' = [sock EXCEPT ![s] = v]
        /\ UNCHANGED <<opened, early, job, armed, tcp_stream, timer, pending, caller,
                       poisoned, batch, outcome, panic>>
        /\ sock[s] # "closed"
    BY DEF Decide, calls, callerVars, selector, fields
  <1>2. Types' /\ Blank' /\ Halfway' /\ Outcomes' /\ BatchFits' /\ UnwrapsHold'
    BY <1>1 DEF Types, Blank, Halfway, Outcomes, BatchFits, NoEvent, EventOf, UnwrapsHold
  <1>3. Stored'
    BY <1>1 DEF Stored, Types
  <1>4. \A t \in Streams : Decided(t) => Decided(t)'
    BY <1>1 DEF Decided, Types
  <1>5. Sequential'
    BY <1>1, <1>4 DEF Sequential, EventOf, Types, Streams
  <1> QED
    BY <1>2, <1>3, <1>5

(* connect stores a new stream and closes the one that was stored.  It is  *)
(* not early only if all streams have an outcome, hence nothing is to come.*)
LEMMA ConnectKeeps ==
    ASSUME IInv, NEW who \in {"loop", "other"}, NEW timed \in BOOLEAN, Connect(who, timed)
    PROVE  IInv'
  <1> USE DEF IInv
  <1> PICK n : n = opened + 1
    OBVIOUS
  <1>1. /\ opened' = n /\ opened < MaxStreams /\ caller = "none" /\ panic = "none"
        /\ early' = (early \/ \E s \in 1..opened : outcome[s] = <<>>)
        /\ tcp_stream' = n /\ timer' = (IF timed THEN n ELSE timer)
        /\ pending' = (IF timed THEN pending \cup {n} ELSE pending)
        /\ caller' = who /\ (timed => who = "loop")
        /\ armed' = [s \in Streams |-> armed[s] /\ s # tcp_stream]
        /\ UNCHANGED <<job, poisoned, batch, outcome, panic>>
    BY DEF Connect, MayConnect, Replaced
  <1>2. n \in Streams /\ n \notin 1..opened /\ n # None /\ n > opened
        /\ opened \in Nat /\ 1..n = (1..opened) \cup {n}
        /\ opened \in 0..n /\ tcp_stream \in 0..n /\ tcp_stream # n
    <2>1. opened \in Nat /\ MaxStreams \in Nat /\ tcp_stream \in 0..opened
      BY MaxStreamsAssumption DEF Types
    <2>2. 1..opened + 1 = (1..opened) \cup {opened + 1}
      BY <2>1
    <2> QED
      BY <1>1, <2>1, <2>2 DEF Streams, None
  <1>3. sock' \in [Streams -> {"none", "connecting", "established", "failed", "closed"}]
    BY <1>1 DEF Connect, Types
  <1>4. Types'
    BY <1>1, <1>2, <1>3, MaxStreamsAssumption DEF Types, Streams
  <1>5. Blank'
    BY <1>1, <1>2 DEF Blank, Types, Streams
  <1>6. Stored'
    <2>1. SUFFICES ASSUME NEW s \in Streams, armed'[s], job'[s] = "connector",
                          sock'[s] # "closed"
                   PROVE  s = n
      BY <1>1 DEF Stored
    <2>2. armed[s] /\ s # tcp_stream /\ job[s] = "connector"
      BY <1>1, <2>1 DEF Types
    <2>3. CASE s # n
      <3>1. sock'[s] = sock[s]
        BY <1>1, <2>2, <2>3 DEF Connect, Replaced
      <3> QED
        BY <2>1, <2>2, <3>1 DEF Stored
    <2> QED
      BY <2>3
  <1>7. BatchFits'
    BY <1>1, <1>2 DEF BatchFits, NoEvent, EventOf
  <1>8. job[n] = "none" /\ outcome[n] = <<>>
    BY <1>2 DEF Blank
  <1>9. Halfway' /\ Outcomes'
    BY <1>1, <1>2, <1>8 DEF Halfway, Outcomes, NoEvent
  <1>10. Sequential'
    <2>1. SUFFICES ASSUME ~early' PROVE Sequential'
      BY DEF Sequential
    <2>2. ~early /\ \A s \in 1..opened : outcome[s] # <<>>
      BY <1>1, <2>1
    <2>3. \A s \in 1..opened : ~EventOf(s)
      BY <2>2 DEF Sequential
    <2>4. pending = {}
      <3>1. SUFFICES ASSUME pending # {} PROVE FALSE
        OBVIOUS
      <3>2. opened > 0 /\ outcome[opened] = <<>>
        BY <2>2, <3>1 DEF Sequential
      <3> QED
        BY <1>2, <2>2, <3>2
    <2>5. NoEvent
      BY <2>3 DEF BatchFits
    <2>6. \A s \in 1..n : ~EventOf(s)'
      <3>1. SUFFICES ASSUME NEW s \in 1..n, EventOf(s)' PROVE FALSE
        OBVIOUS
      <3>2. s # 0
        BY <1>2
      <3>3. batch = <<s>> \/ batch = <<s, 0>>
        BY <1>1, <3>1 DEF EventOf, Timers, None
      <3>4. batch = <<>> \/ batch = <<0>>
        BY <2>5 DEF NoEvent, Timers, None
      <3> QED
        BY <3>2, <3>3, <3>4, Batches
    <2>7. pending' = {} \/ (pending' = {n} /\ timer' = n /\ caller' = "loop")
      BY <1>1, <2>4
    <2>8. n > 0 /\ \A s \in 1..n : outcome[s] = <<>> => s = n
      BY <1>2, <2>2
    <2> QED
      BY <1>1, <1>8, <2>6, <2>7, <2>8 DEF Sequential
  <1>11. UnwrapsHold'
    BY <1>1 DEF UnwrapsHold
  <1> QED
    BY <1>4, <1>5, <1>6, <1>7, <1>9, <1>10, <1>11

(* A connect that panics at once changes nothing but the panic.            *)
LEMMA PanicsKeep ==
    ASSUME IInv, CallerPanics
    PROVE  IInv'
  <1>1. /\ panic' = (IF poisoned THEN "poisoned" ELSE "connect")
        /\ panic = "none" /\ caller = "none"
        /\ UNCHANGED <<opened, early, sock, job, armed, tcp_stream, timer, pending, caller,
                       poisoned, batch, outcome>>
    BY DEF CallerPanics, MayConnect, kernel, calls, selector, fields, callerVars
  <1> QED
    BY <1>1 DEF IInv, Types, Blank, Stored, BatchFits, NoEvent, EventOf, Halfway, Outcomes,
                Sequential, Decided, UnwrapsHold

(* The second half of connect, unless the stream was taken meanwhile.      *)
LEMMA RegisterKeeps ==
    ASSUME IInv, Register
    PROVE  IInv'
  <1> USE DEF IInv
  <1>1. /\ caller # "none" /\ caller' = "none"
        /\ UNCHANGED <<opened, early, sock, tcp_stream, timer, pending, batch, outcome, panic>>
    BY DEF Register, kernel, calls, fields
  <1>2. CASE tcp_stream = None \/ panic # "none"
    <2>1. UNCHANGED <<job, armed>> /\ poisoned' = TRUE
      BY <1>2 DEF Register, selector
    <2>2. Types' /\ Blank' /\ Stored' /\ BatchFits' /\ Halfway' /\ Outcomes'
      BY <1>1, <2>1 DEF Types, Blank, Stored, BatchFits, NoEvent, EventOf, Halfway, Outcomes
    <2>5. UnwrapsHold'
      BY <1>1, <1>2 DEF Halfway, UnwrapsHold
    <2>3. ~early /\ pending # {} => job[opened] = "connector"
      BY <1>2 DEF Sequential, Halfway, Types, None
    <2>4. Sequential'
      BY <1>1, <2>1, <2>3 DEF Sequential, EventOf, Decided
    <2> QED
      BY <2>2, <2>4, <2>5
  <1>3. CASE tcp_stream # None /\ panic = "none"
    <2>1. /\ poisoned' = poisoned
          /\ job' = [job EXCEPT ![tcp_stream] = "connector"]
          /\ armed' = [armed EXCEPT ![tcp_stream] = TRUE]
          /\ outcome[tcp_stream] = <<>>
          /\ tcp_stream \in Streams /\ tcp_stream \in 1..opened /\ opened \in Nat
      <3>1. opened \in Nat /\ MaxStreams \in Nat /\ tcp_stream \in 0..opened /\ opened <= MaxStreams
        BY MaxStreamsAssumption DEF Types
      <3>2. tcp_stream \in Streams /\ tcp_stream \in 1..opened
        BY <1>3, <3>1 DEF Streams, None
      <3> QED
        BY <1>1, <1>3, <3>1, <3>2 DEF Register, Halfway
    <2>2. Types'
      BY <1>1, <2>1 DEF Types
    <2>3. Blank' /\ Stored' /\ BatchFits'
      BY <1>1, <2>1 DEF Types, Blank, Stored, BatchFits, NoEvent, EventOf
    <2>4. Halfway' /\ Outcomes' /\ UnwrapsHold'
      BY <1>1, <1>3, <2>1 DEF Types, Halfway, Outcomes, NoEvent, UnwrapsHold
    <2>5. Sequential'
      <3>1. SUFFICES ASSUME ~early PROVE Sequential'
        BY <1>1 DEF Sequential
      <3>2. \A s \in 1..opened : ~EventOf(s)
        BY <1>1, <3>1 DEF Sequential
      <3>3. pending # {} => tcp_stream = opened /\ job'[opened] = "connector"
        BY <2>1, <3>1 DEF Sequential, Types
      <3> QED
        BY <1>1, <2>1, <3>1, <3>2, <3>3 DEF Sequential, EventOf
    <2> QED
      BY <2>2, <2>3, <2>4, <2>5
  <1> QED
    BY <1>2, <1>3

(* Which stream an event is of, and what is left when it is handled.       *)
LEMMA EventFacts ==
    ASSUME Types, BatchFits
    PROVE  /\ batch # <<>> /\ Head(batch) # Timers =>
                 /\ tcp_stream # None
                 /\ \E s \in 1..opened : EventOf(s) /\ s = Head(batch)
                 /\ Tail(batch) = <<>> \/ Tail(batch) = <<Timers>>
           /\ batch # <<>> /\ Head(batch) = Timers => NoEvent /\ Tail(batch) = <<>>
           /\ NoEvent => \A s \in 1..opened : ~EventOf(s)
           /\ \A s, t \in 1..opened : EventOf(s) /\ EventOf(t) => s = t
  <1> USE DEF Timers, None
  <1>0. opened \in Nat /\ \A s \in 1..opened : s # 0
    BY MaxStreamsAssumption DEF Types
  <1>1. CASE NoEvent
    <2>1. \A s \in 1..opened : ~EventOf(s)
      BY <1>0, <1>1, Batches DEF NoEvent, EventOf
    <2>2. batch # <<>> => Head(batch) = 0 /\ Tail(batch) = <<>>
      BY <1>1, Batches DEF NoEvent
    <2> QED
      BY <1>1, <2>1, <2>2
  <1>2. CASE ~NoEvent
    <2>1. tcp_stream # None /\ \E s \in 1..opened : EventOf(s)
      BY <1>2 DEF BatchFits
    <2>2. PICK s \in 1..opened : EventOf(s)
      BY <2>1
    <2>3. Head(batch) = s /\ (Tail(batch) = <<>> \/ Tail(batch) = <<0>>)
      <3>1. CASE batch = <<s>>
        BY <3>1, Batches
      <3>2. CASE batch = <<s, 0>>
        BY <3>2, Batches
      <3> QED
        BY <2>2, <3>1, <3>2 DEF EventOf
    <2>4. \A t \in 1..opened : EventOf(t) => t = Head(batch)
      BY Batches DEF EventOf
    <2> QED
      BY <1>0, <1>2, <2>1, <2>2, <2>3, <2>4
  <1> QED
    BY <1>1, <1>2

(* The same of the next state.                                             *)
SameEvent ==
    /\ NoEvent => \A s \in 1..opened : ~EventOf(s)
    /\ \A s, t \in 1..opened : EventOf(s) /\ EventOf(t) => s = t

(* By what holds of every state.                                           *)
LEMMA EventFactsNext == (Types /\ BatchFits => SameEvent)'
  <1>1. Types /\ BatchFits => SameEvent
    BY EventFacts DEF SameEvent
  <1> QED
    BY <1>1, PTL

(* A batch is fetched: the only stream that can be ready is the stored     *)
(* one, and it has no outcome yet.                                         *)
LEMMA FetchKeeps ==
    ASSUME IInv, Fetch
    PROVE  IInv'
  <1> USE DEF IInv
  <1> DEFINE R == {s \in Streams : Ready(s)}
  <1>1. /\ batch = <<>>
        /\ \E timers \in {<<>>, <<Timers>>} : batch' = SetToSeq(R) \o timers
        /\ armed' = [s \in Streams |-> armed[s] /\ ~Ready(s)]
        /\ UNCHANGED <<opened, early, sock, job, tcp_stream, timer, pending, caller,
                       poisoned, outcome, panic>>
    BY DEF Fetch, BatchOrder, kernel, calls, callerVars, fields
  <1>2. \A s \in R : s = tcp_stream /\ job[s] = "connector" /\ Decided(s)
    BY DEF Stored, Ready, Decided
  <1>3. R = {} \/ R = {tcp_stream}
    BY <1>2
  <1>4. NoEvent' \/ (tcp_stream \in R /\ EventOf(tcp_stream)')
    <2>1. SetToSeq(R) = <<>> \/ (tcp_stream \in R /\ SetToSeq(R) = <<tcp_stream>>)
      <3> HIDE DEF R
      <3> QED
        BY <1>3, SetToSeqOfOne
    <2>2. PICK t : t = tcp_stream
      OBVIOUS
    <2>3. /\ <<>> \o <<>> = <<>> /\ <<>> \o <<Timers>> = <<Timers>>
          /\ <<t>> \o <<>> = <<t>> /\ <<t>> \o <<Timers>> = <<t, Timers>>
      <3> DEFINE S == {t, Timers}
      <3>1. /\ <<>> \in Seq(S) /\ <<t>> \in Seq(S) /\ <<Timers>> \in Seq(S)
            /\ t \in S /\ Timers \in S
        OBVIOUS
      <3> HIDE DEF S
      <3>2. Append(<<t>>, Timers) = <<t, Timers>>
        <4>1. PICK a, b : a = Append(<<t>>, Timers) /\ b = <<t, Timers>>
          OBVIOUS
        <4>2. a \in Seq(S) /\ Len(a) = 2 /\ a[1] = t /\ a[2] = Timers
          BY <3>1, <4>1, AppendProperties
        <4>3. b \in Seq(S) /\ Len(b) = 2 /\ b[1] = t /\ b[2] = Timers
          BY <3>1, <4>1
        <4>4. \A i \in 1..2 : i = 1 \/ i = 2
          OBVIOUS
        <4>5. \A i \in 1..Len(a) : a[i] = b[i]
          BY <4>2, <4>3, <4>4
        <4>6. a = b
          BY <4>2, <4>3, <4>5, SeqEqual
        <4> QED
          BY <4>1, <4>6
      <3> QED
        BY <3>1, <3>2, ConcatEmptySeq, AppendIsConcat
    <2>4. tcp_stream' = tcp_stream
      BY <1>1
    <2>5. CASE SetToSeq(R) = <<>>
      BY <1>1, <2>3, <2>5 DEF NoEvent
    <2>6. CASE tcp_stream \in R /\ SetToSeq(R) = <<tcp_stream>>
      <3>1. batch' = <<t>> \/ batch' = <<t, Timers>>
        BY <1>1, <2>2, <2>3, <2>6
      <3> QED
        BY <2>2, <2>4, <2>6, <3>1 DEF EventOf
    <2> QED
      BY <2>1, <2>5, <2>6
  <1>5. /\ opened \in Nat /\ tcp_stream \in 0..opened
        /\ \A s \in R : s \in 1..opened /\ s # None
    BY <1>2, MaxStreamsAssumption DEF Types, Streams, None
  <1>6. Types' /\ Blank' /\ Stored' /\ Halfway' /\ UnwrapsHold'
    BY <1>1 DEF Types, Blank, Stored, Halfway, UnwrapsHold
  <1>7. BatchFits'
    BY <1>1, <1>4, <1>5 DEF BatchFits
  <1>8. tcp_stream \in R => outcome[tcp_stream] = <<>> /\ caller = "none"
    BY <1>2, <1>5 DEF Outcomes, Halfway
  <1>9. Outcomes'
    <2>1. tcp_stream # None /\ outcome[tcp_stream] # <<>> => NoEvent'
      BY <1>4, <1>8
    <2> QED
      BY <1>1, <2>1 DEF Outcomes
  <1>10. Sequential'
    <2>1. SUFFICES ASSUME ~early PROVE Sequential'
      BY <1>1 DEF Sequential
    <2>2. ASSUME NEW s \in 1..opened, EventOf(s)'
          PROVE  /\ s = opened /\ tcp_stream = s /\ caller = "none"
                 /\ job[s] = "connector" /\ Decided(s)' /\ outcome[s] = <<>>
      <3>1. Types' /\ BatchFits'
        BY <1>6, <1>7
      <3>2. (NoEvent => \A t \in 1..opened : ~EventOf(t))'
            /\ (\A t, u \in 1..opened : EventOf(t) /\ EventOf(u) => t = u)'
        BY <3>1, EventFactsNext DEF SameEvent
      <3>3. s \in 1..opened'
        BY <1>1
      <3>4. tcp_stream \in R /\ EventOf(tcp_stream)'
        BY <1>4, <2>2, <3>2, <3>3
      <3>5. s = tcp_stream
        <4>1. tcp_stream \in 1..opened' /\ tcp_stream' = tcp_stream
          BY <1>1, <1>5, <3>4
        <4> QED
          BY <2>2, <3>2, <3>3, <3>4, <4>1 DEF EventOf
      <3>6. s = opened
        BY <1>8, <2>1, <3>4, <3>5 DEF Sequential
      <3> QED
        BY <1>1, <1>2, <1>8, <3>4, <3>5, <3>6 DEF Decided
    <2> QED
      BY <1>1, <2>1, <2>2 DEF Sequential
  <1> QED
    BY <1>6, <1>7, <1>9, <1>10

(* An event takes the stored stream, whichever stream it is of; when       *)
(* connects do not overlap the stream is registered and decided.           *)
LEMMA HandleEffect ==
    ASSUME IInv, HandleEvent
    PROVE  \E t \in 1..opened :
              /\ t = tcp_stream /\ t \in Streams /\ outcome[t] = <<>>
              /\ \E e \in 1..opened : EventOf(e)
              /\ NoEvent' /\ pending' = pending \ {timer} /\ tcp_stream' = None
              /\ UNCHANGED <<opened, early, timer, caller, poisoned>> /\ LoopFree
              /\ \/ /\ sock[t] = "failed" /\ sock' = [sock EXCEPT ![t] = "closed"]
                    /\ outcome' = [outcome EXCEPT ![t] = <<"on_error">>]
                    /\ UNCHANGED <<job, armed, panic>>
                 \/ /\ sock[t] # "failed" /\ job[t] # "none"
                    /\ job' = [job EXCEPT ![t] = "connection"]
                    /\ armed' = [armed EXCEPT ![t] = TRUE]
                    /\ outcome' = [outcome EXCEPT ![t] = <<"on_connect">>]
                    /\ UNCHANGED <<sock, panic>>
                 \/ /\ early /\ job[t] = "none" /\ panic' = "unwrap"
                    /\ UNCHANGED <<sock, job, armed, outcome>>
  <1> USE DEF IInv
  <1>1. /\ LoopFree /\ batch # <<>> /\ Head(batch) # Timers /\ batch' = Tail(batch)
        /\ pending' = pending \ {timer} /\ tcp_stream' = None
        /\ UNCHANGED <<opened, early, timer, caller, poisoned>>
    BY DEF HandleEvent, AfterCancel, calls, callerVars
  <1>2. /\ tcp_stream # None /\ NoEvent'
        /\ \E e \in 1..opened : EventOf(e)
    BY <1>1, EventFacts DEF NoEvent
  <1>3. PICK t : t = tcp_stream
    OBVIOUS
  <1>4. t \in 1..opened /\ t \in Streams
    <2>1. opened \in Nat /\ MaxStreams \in Nat /\ t \in 0..opened /\ opened <= MaxStreams
      BY <1>3, MaxStreamsAssumption DEF Types
    <2> QED
      BY <1>2, <1>3, <2>1 DEF Streams, None
  <1>5. ~NoEvent
    BY <1>2, EventFacts
  <1>6. outcome[t] = <<>>
    BY <1>2, <1>3, <1>5 DEF Outcomes
  <1>7. ~early => job[t] = "connector"
    BY <1>2, <1>3 DEF Sequential
  <1>8. \A x : Append(<<>>, x) = <<x>>
    OBVIOUS
  <1>9. ConnectError(t) \/ HandOver(t) \/ HandOverPanics(t)
    BY <1>2, <1>3 DEF HandleEvent
  <1>10. \/ /\ sock[t] = "failed" /\ sock' = [sock EXCEPT ![t] = "closed"]
            /\ outcome' = [outcome EXCEPT ![t] = <<"on_error">>]
            /\ UNCHANGED <<job, armed, panic>>
         \/ /\ sock[t] # "failed" /\ job[t] # "none"
            /\ job' = [job EXCEPT ![t] = "connection"]
            /\ armed' = [armed EXCEPT ![t] = TRUE]
            /\ outcome' = [outcome EXCEPT ![t] = <<"on_connect">>]
            /\ UNCHANGED <<sock, panic>>
         \/ /\ early /\ job[t] = "none" /\ panic' = "unwrap"
            /\ UNCHANGED <<sock, job, armed, outcome>>
    <2>1. CASE ConnectError(t)
      BY <2>1, <1>4, <1>6, <1>8 DEF ConnectError, TakeError, selector, Types
    <2>2. CASE HandOver(t)
      BY <2>2, <1>4, <1>6, <1>8 DEF HandOver, TakeError, NewJob, Types
    <2>3. CASE HandOverPanics(t)
      BY <2>3, <1>7 DEF HandOverPanics, selector
    <2> QED
      BY <1>9, <2>1, <2>2, <2>3
  <1> QED
    BY <1>1, <1>2, <1>3, <1>4, <1>6, <1>10

(* One outcome more, of a stream that had none.                            *)
LEMMA OutcomeGrows ==
    ASSUME Types, Outcomes, NEW t \in Streams, NEW x \in Told,
           outcome' = [outcome EXCEPT ![t] = <<x>>]
    PROVE  /\ outcome' \in [Streams -> Seq(Told)]
           /\ \A s \in Streams : (outcome[s] = <<>> \/ Len(outcome[s]) = 1)'
           /\ \A s \in Streams : outcome'[s] = <<>> => outcome[s] = <<>>
           /\ outcome'[t] # <<>>
  <1>1. <<x>> \in Seq(Told) /\ Len(<<x>>) = 1 /\ <<x>> # <<>>
    OBVIOUS
  <1>2. /\ outcome'[t] = <<x>>
        /\ \A s \in Streams : s # t => outcome'[s] = outcome[s]
        /\ outcome' \in [Streams -> Seq(Told)]
    BY <1>1 DEF Types
  <1>3. ASSUME NEW s \in Streams
        PROVE  /\ (outcome[s] = <<>> \/ Len(outcome[s]) = 1)'
               /\ outcome'[s] = <<>> => outcome[s] = <<>>
    <2>1. CASE s = t
      BY <1>1, <1>2, <2>1
    <2>2. CASE s # t
      BY <1>2, <2>2 DEF Outcomes
    <2> QED
      BY <2>1, <2>2
  <1> QED
    BY <1>1, <1>2, <1>3

(* handle_event leaves no stored stream and no event.                      *)
LEMMA HandleKeeps ==
    ASSUME IInv, HandleEvent
    PROVE  IInv'
  <1> USE DEF IInv
  <1>1. PICK t \in 1..opened :
              /\ t = tcp_stream /\ t \in Streams /\ outcome[t] = <<>>
              /\ \E e \in 1..opened : EventOf(e)
              /\ NoEvent' /\ pending' = pending \ {timer} /\ tcp_stream' = None
              /\ UNCHANGED <<opened, early, timer, caller, poisoned>> /\ LoopFree
              /\ \/ /\ sock[t] = "failed" /\ sock' = [sock EXCEPT ![t] = "closed"]
                    /\ outcome' = [outcome EXCEPT ![t] = <<"on_error">>]
                    /\ UNCHANGED <<job, armed, panic>>
                 \/ /\ sock[t] # "failed" /\ job[t] # "none"
                    /\ job' = [job EXCEPT ![t] = "connection"]
                    /\ armed' = [armed EXCEPT ![t] = TRUE]
                    /\ outcome' = [outcome EXCEPT ![t] = <<"on_connect">>]
                    /\ UNCHANGED <<sock, panic>>
                 \/ /\ early /\ job[t] = "none" /\ panic' = "unwrap"
                    /\ UNCHANGED <<sock, job, armed, outcome>>
    BY HandleEffect
  <1>0. opened \in Nat /\ 0 \in 0..opened
    BY MaxStreamsAssumption DEF Types
  <1>2. /\ outcome' \in [Streams -> Seq(Told)]
        /\ \A s \in Streams : (outcome[s] = <<>> \/ Len(outcome[s]) = 1)'
        /\ \A s \in Streams : outcome'[s] = <<>> => outcome[s] = <<>>
    <2>1. CASE outcome' = outcome
      BY <2>1 DEF Types, Outcomes
    <2>2. CASE outcome' = [outcome EXCEPT ![t] = <<"on_error">>]
      BY <1>1, <2>2, OutcomeGrows DEF Told
    <2>3. CASE outcome' = [outcome EXCEPT ![t] = <<"on_connect">>]
      BY <1>1, <2>3, OutcomeGrows DEF Told
    <2> QED
      BY <1>1, <2>1, <2>2, <2>3
  <1>3. Types'
    BY <1>0, <1>1, <1>2 DEF Types, None
  <1>4. Blank'
    <2>1. \A s \in Streams : s > opened =>
            job'[s] = job[s] /\ armed'[s] = armed[s] /\ outcome'[s] = outcome[s]
      BY <1>0, <1>1 DEF Types
    <2> QED
      BY <1>1, <2>1 DEF Blank
  <1>5. Stored'
    <2>1. SUFFICES ASSUME NEW s \in Streams, armed'[s], job'[s] = "connector",
                          sock'[s] # "closed"
                   PROVE  FALSE
      BY DEF Stored
    <2>2. CASE s = t
      BY <1>1, <2>1, <2>2 DEF Types
    <2>3. CASE s # t
      BY <1>1, <2>1, <2>3 DEF Types, Stored
    <2> QED
      BY <2>2, <2>3
  <1>6. BatchFits' /\ Halfway' /\ Outcomes'
    <2>1. caller # "none" => early
      BY <1>1 DEF Sequential
    <2> QED
      BY <1>1, <1>2, <2>1 DEF BatchFits, Halfway, Outcomes, LoopFree
  <1>7. UnwrapsHold'
    BY <1>1 DEF UnwrapsHold
  <1>8. Sequential'
    <2>1. SUFFICES ASSUME ~early PROVE Sequential'
      BY <1>1 DEF Sequential
    <2>2. \A s \in 1..opened' : ~EventOf(s)'
      BY <1>1, <1>3, <1>6, EventFactsNext DEF SameEvent
    <2>3. pending' = {}
      BY <1>1, <2>1 DEF Sequential
    <2>4. \A s \in 1..opened : s \in Streams /\ (outcome'[s] = <<>> => s = opened)
      BY <1>2, <2>1, MaxStreamsAssumption DEF Sequential, Types, Streams
    <2> QED
      BY <1>1, <2>2, <2>3, <2>4 DEF Sequential
  <1> QED
    BY <1>3, <1>4, <1>5, <1>6, <1>7, <1>8

(* The closure of a timeout deregisters the stored stream.                 *)
LEMMA TimeOutKeeps ==
    ASSUME IInv, NEW s \in Streams, TimeOut(s)
    PROVE  IInv'
  <1> USE DEF IInv
  <1>1. /\ LoopFree /\ batch # <<>> /\ Head(batch) = Timers /\ s \in pending
        /\ pending' = pending \ {s, timer}
        /\ UNCHANGED <<opened, early, sock, armed, tcp_stream, timer, caller, poisoned, batch>>
    BY DEF TimeOut, kernel, calls, callerVars, fields
  <1>2. NoEvent /\ NoEvent' /\ \A e \in 1..opened : ~EventOf(e) /\ ~EventOf(e)'
    BY <1>1, EventFacts DEF NoEvent, EventOf
  <1>3. ~early => /\ tcp_stream = opened /\ opened \in 1..opened /\ pending = {timer}
                  /\ job[opened] = "connector"
    BY <1>1, MaxStreamsAssumption DEF Sequential, LoopFree, Types
  <1>0. opened \in Nat /\ opened <= MaxStreams /\ MaxStreams \in Nat
    BY MaxStreamsAssumption DEF Types
  <1>4. CASE tcp_stream = None \/ job[tcp_stream] = "none"
    <2>1. panic' = "unwrap" /\ UNCHANGED <<job, outcome>>
      BY <1>4 DEF TimeOut
    <2>2. early
      BY <1>0, <1>3, <1>4 DEF None
    <2>3. Types'
      BY <1>1, <2>1 DEF Types
    <2>4. Blank' /\ Stored' /\ BatchFits' /\ Outcomes'
      BY <1>1, <1>2, <2>1 DEF Blank, Stored, BatchFits, Outcomes
    <2>5. Halfway' /\ Sequential' /\ UnwrapsHold'
      BY <1>1, <2>1, <2>2 DEF Halfway, Sequential, UnwrapsHold, LoopFree
    <2> QED
      BY <2>3, <2>4, <2>5
  <1>5. CASE tcp_stream # None /\ job[tcp_stream] # "none"
    <2>1. PICK t : t = tcp_stream
      OBVIOUS
    <2>2. t \in Streams /\ t \in 1..opened
      BY <1>0, <1>5, <2>1 DEF Types, Streams, None
    <2>3. outcome[t] = <<>> /\ caller = "none"
      BY <1>5, <2>1 DEF Outcomes, Halfway
    <2>4. /\ job' = [job EXCEPT ![t] = "none"]
          /\ outcome' = [outcome EXCEPT ![t] = <<"timeout">>]
          /\ panic' = panic
      <3>1. Append(<<>>, "timeout") = <<"timeout">>
        OBVIOUS
      <3> QED
        BY <1>5, <2>1, <2>2, <2>3, <3>1 DEF TimeOut, Types
    <2>5. /\ outcome' \in [Streams -> Seq(Told)]
          /\ \A x \in Streams : (outcome[x] = <<>> \/ Len(outcome[x]) = 1)'
          /\ \A x \in Streams : outcome'[x] = <<>> => outcome[x] = <<>>
      BY <2>2, <2>4, OutcomeGrows DEF Told
    <2>6. Types'
      BY <1>1, <2>4, <2>5 DEF Types
    <2>7. \A x \in Streams : x # t => job'[x] = job[x] /\ outcome'[x] = outcome[x]
      BY <2>2, <2>4 DEF Types
    <2>8. job'[t] = "none"
      BY <2>2, <2>4 DEF Types
    <2>9. Blank'
      <3>1. \A x \in Streams : x > opened => x # t
        BY <1>0, <2>2
      <3> QED
        BY <1>1, <2>7, <3>1 DEF Blank
    <2>10. Stored'
      BY <1>1, <2>7, <2>8 DEF Stored
    <2>11. BatchFits' /\ Halfway' /\ Outcomes' /\ UnwrapsHold'
      BY <1>1, <1>2, <2>1, <2>3, <2>4, <2>5, <2>8 DEF BatchFits, Halfway, Outcomes, UnwrapsHold
    <2>12. Sequential'
      <3>1. SUFFICES ASSUME ~early PROVE Sequential'
        BY <1>1 DEF Sequential
      <3>2. pending' = {}
        BY <1>1, <1>3, <3>1
      <3>3. \A x \in 1..opened : x \in Streams /\ (outcome'[x] = <<>> => x = opened)
        BY <1>0, <2>5, <3>1 DEF Sequential, Streams
      <3> QED
        BY <1>1, <1>2, <3>2, <3>3 DEF Sequential
    <2> QED
      BY <2>6, <2>9, <2>10, <2>11, <2>12
  <1> QED
    BY <1>4, <1>5

(* The timer's event was the last of its batch.                            *)
LEMMA TimersDoneKeeps ==
    ASSUME IInv, TimersDone
    PROVE  IInv'
  <1> USE DEF IInv
  <1>1. /\ batch # <<>> /\ Head(batch) = Timers /\ batch' = Tail(batch)
        /\ UNCHANGED <<opened, early, sock, job, armed, tcp_stream, timer, pending, caller,
                       poisoned, outcome, panic>>
    BY DEF TimersDone, kernel, calls, callerVars, selector, fields
  <1>2. batch' = <<>> /\ NoEvent'
    BY <1>1, EventFacts DEF NoEvent
  <1>3. Types' /\ Blank' /\ Stored' /\ BatchFits' /\ Halfway' /\ Outcomes' /\ UnwrapsHold'
    BY <1>1, <1>2 DEF Types, Blank, Stored, BatchFits, Halfway, Outcomes, UnwrapsHold
  <1>4. \A s \in 1..opened' : ~EventOf(s)'
    BY <1>2, <1>3, EventFactsNext DEF SameEvent
  <1>5. Sequential'
    BY <1>1, <1>4 DEF Sequential
  <1> QED
    BY <1>3, <1>5

(* The invariant holds throughout.                                         *)
LEMMA SpecImpliesIInv == Spec => []IInv
  <1>1. ASSUME IInv, [Next]_vars PROVE IInv'
    <2> USE <1>1
    <2>1. CASE UNCHANGED vars
      <3>1. UNCHANGED <<opened, early, sock, job, armed, tcp_stream, timer, pending, caller,
                        poisoned, batch, outcome, panic>>
        BY <2>1 DEF vars, kernel, calls, callerVars, selector, fields
      <3> QED
        BY <3>1 DEF IInv, Types, Blank, Stored, BatchFits, NoEvent, EventOf, Halfway, Outcomes,
                    Sequential, Decided, UnwrapsHold
    <2>2. CASE Next
      BY <2>2, DecideKeeps, ConnectKeeps, PanicsKeep, RegisterKeeps, FetchKeeps,
         HandleKeeps, TimeOutKeeps, TimersDoneKeeps DEF Next
    <2> QED
      BY <2>1, <2>2
  <1> QED
    BY <1>1, InitIInv, PTL DEF Spec

-----------------------------------------------------------------------------
(* Every variable has its type and a batch has two events at most.         *)
THEOREM TypeCorrect == Spec => []TypeOK
  <1>1. IInv => TypeOK
    <2> SUFFICES ASSUME IInv PROVE TypeOK
      OBVIOUS
    <2>0. opened \in Nat /\ 0 \in 0..opened /\ \A s \in 1..opened : s \in 0..opened
      BY MaxStreamsAssumption DEF IInv, Types
    <2>1. batch \in Seq(0..opened) /\ Len(batch) <= 2
      <3> DEFINE S == 0..opened
      <3>0. Timers \in S /\ \A s \in 1..opened : s \in S
        BY <2>0 DEF Timers, None
      <3> HIDE DEF S
      <3>1. ASSUME NoEvent PROVE batch \in Seq(S) /\ Len(batch) <= 2
        <4>1. <<>> \in Seq(S) /\ Len(<<>>) <= 2 /\ <<Timers>> \in Seq(S) /\ Len(<<Timers>>) <= 2
          BY <3>0
        <4> QED
          BY <3>1, <4>1, Zenon DEF NoEvent
      <3>2. ASSUME NEW s \in 1..opened, EventOf(s) PROVE batch \in Seq(S) /\ Len(batch) <= 2
        <4>1. s \in S
          BY <3>0
        <4>2. /\ <<s>> \in Seq(S) /\ Len(<<s>>) <= 2
              /\ <<s, Timers>> \in Seq(S) /\ Len(<<s, Timers>>) <= 2
          BY <3>0, <4>1
        <4> QED
          BY <3>2, <4>2, Zenon DEF EventOf
      <3> QED
        BY <3>1, <3>2 DEF IInv, BatchFits, S
    <2>2. \A s \in Streams : Len(outcome[s]) <= 2
      <3>1. Len(<<>>) <= 2 /\ \A n : n = 1 => n <= 2
        OBVIOUS
      <3> QED
        BY <3>1, Zenon DEF IInv, Outcomes
    <2> QED
      BY <2>1, <2>2 DEF IInv, Types, TypeOK
  <1> QED
    BY <1>1, SpecImpliesIInv, PTL

(* The assertion of handle_on_connect never fails, however connects and    *)
(* events overlap; and the unwraps of handle_event and of the timeout's    *)
(* closure fail only after overlapping connects.                           *)
THEOREM UnwrapsHoldAlways == Spec => []UnwrapsHold
  <1>1. IInv => UnwrapsHold
    BY DEF IInv
  <1> QED
    BY <1>1, SpecImpliesIInv, PTL

(* No stream is reported twice, or both reported and timed out.            *)
THEOREM OneOutcomeHolds == Spec => []OneOutcome
  <1>1. IInv => OneOutcome
    <2>1. Len(<<>>) <= 1 /\ \A n : n = 1 => n <= 1
      OBVIOUS
    <2> QED
      BY <2>1, Zenon DEF IInv, Outcomes, OneOutcome
  <1> QED
    BY <1>1, SpecImpliesIInv, PTL

(* Without overlapping connects, on_connect is only ever told of a stream  *)
(* that is established and on_error of one that failed.                    *)
THEOREM ToldTheTruthHolds == Spec => ToldTheTruth
  <1> DEFINE Truth ==
        \A s \in Streams : ~early /\ outcome'[s] # outcome[s] =>
          CASE Last(outcome'[s]) = "on_connect" -> sock[s] = "established"
            [] Last(outcome'[s]) = "on_error" -> sock[s] = "failed"
            [] OTHER -> TRUE
  <1>0. \A x : Last(<<x>>) = x
    BY DEF Last
  <1>1. ASSUME IInv, Next PROVE Truth
    <2> USE <1>1
    <2>1. SUFFICES ASSUME NEW s \in Streams, ~early, outcome'[s] # outcome[s]
                   PROVE  \/ Last(outcome'[s]) = "on_connect" /\ sock[s] = "established"
                          \/ Last(outcome'[s]) = "on_error" /\ sock[s] = "failed"
                          \/ Last(outcome'[s]) = "timeout"
      OBVIOUS
    <2>2. CASE HandleEvent
      <3>1. PICK t \in 1..opened :
              /\ t = tcp_stream /\ t \in Streams
              /\ \E e \in 1..opened : EventOf(e)
              /\ \/ /\ sock[t] = "failed"
                    /\ outcome' = [outcome EXCEPT ![t] = <<"on_error">>]
                 \/ /\ sock[t] # "failed"
                    /\ outcome' = [outcome EXCEPT ![t] = <<"on_connect">>]
                 \/ outcome' = outcome
        BY <2>2, HandleEffect
      <3>2. Decided(t)
        BY <2>1, <3>1 DEF IInv, Sequential
      <3>3. s = t
        BY <2>1, <3>1 DEF IInv, Types
      <3> QED
        BY <1>0, <2>1, <3>1, <3>2, <3>3 DEF Decided, IInv, Types
    <2>3. ASSUME NEW u \in Streams, TimeOut(u) PROVE Last(outcome'[s]) = "timeout"
      <3>1. /\ tcp_stream # None /\ job[tcp_stream] # "none"
            /\ outcome' = [outcome EXCEPT ![tcp_stream] = Append(@, "timeout")]
        BY <2>1, <2>3 DEF TimeOut
      <3>2. s = tcp_stream /\ outcome'[s] = Append(outcome[s], "timeout")
        BY <2>1, <3>1 DEF IInv, Types
      <3>3. outcome[s] = <<>>
        BY <3>1, <3>2 DEF IInv, Outcomes
      <3>4. Append(<<>>, "timeout") = <<"timeout">>
        OBVIOUS
      <3> QED
        BY <1>0, <3>2, <3>3, <3>4
    <2>4. CASE ~HandleEvent /\ ~ \E u \in Streams : TimeOut(u)
      <3>1. outcome' = outcome
        BY <2>4 DEF Next, Decide, Connect, CallerPanics, Register, Fetch, TimersDone
      <3> QED
        BY <2>1, <3>1
    <2> QED
      BY <2>2, <2>3, <2>4
  <1>2. IInv /\ [Next]_vars => [Truth]_vars
    BY <1>1
  <1> QED
    BY <1>2, SpecImpliesIInv, PTL DEF Spec, ToldTheTruth

-----------------------------------------------------------------------------
(***************************************************************************)
(* Proofs about TcpConnection for any amount of traffic and any size of    *)
(* the send buffer: no input is left without an event, the connection is   *)
(* torn down once, and what reaches the wire is in order.                  *)
(*                                                                         *)
(* The three are independent of each other.  Edge-triggered reading needs  *)
(* to know that a fetched event is handled before the next is fetched, and *)
(* the order of the wire that nothing is ever left in write_buffer_waiting *)
(* and that every byte on the wire was numbered before `next`.             *)
(***************************************************************************)
(* The event in hand belongs to the holder of the mutex or waits for it.   *)
EventHeld == event = {} => pc = "free"

Counted == rx \in Nat /\ arrived \in Nat

ReadInv == Counted /\ EventHeld /\ NoStrandedInput

(* An event fetched while there is input, an end or an error is readable:  *)
(* EPOLLIN is asked for, and nothing on the way drops it.                  *)
LEMMA FetchedIsReadable ==
    ASSUME rx > 0 \/ eof \/ err
    PROVE  IsReadable(GetReady(Reported(Happens, Asked)))
  <1>1. "IN" \in Happens
    BY DEF Happens, EpollFlags
  <1>2. "IN" \in Asked
    BY DEF Asked, IoeventToEpoll, EpollFlags, IsReadable, ContainsBits
  <1>3. "IN" \in Reported(Happens, Asked)
    BY <1>1, <1>2 DEF Reported
  <1>4. ReadyOf("IN") = {0}
    BY DEF ReadyOf, READABLE
  <1>5. 0 \in GetReady(Reported(Happens, Asked))
    BY <1>3, <1>4 DEF GetReady
  <1> QED
    BY <1>5 DEF IsReadable, ContainsBits, READABLE

(* handle_close never opens a connection again.                            *)
LEMMA CloseStays ==
    ASSUME HandleClose \/ UNCHANGED life, closed
    PROVE  closed'
  BY DEF HandleClose, MustClose, life

LEMMA WriteDataLife ==
    ASSUME NEW buf, WriteData(buf)
    PROVE  HandleClose \/ UNCHANGED life
  BY DEF WriteData

LEMMA NextKeepsReadInv == ReadInv /\ [ConnNext]_connVars => ReadInv'
  <1> SUFFICES ASSUME ReadInv, [ConnNext]_connVars PROVE ReadInv'
    OBVIOUS
  <1> USE DEF ReadInv
  <1>1. CASE UNCHANGED connVars
    BY <1>1 DEF connVars, socket, life, Counted, EventHeld, NoStrandedInput
  <1>2. CASE PeerSend \/ PeerClose \/ PeerReset
    BY <1>2 DEF PeerSend, PeerClose, PeerReset, Counted, EventHeld, NoStrandedInput
  <1>3. CASE PeerReads
    BY <1>3 DEF PeerReads, life, Counted, EventHeld, NoStrandedInput
  <1>4. CASE FetchEvent
    <2>1. UNCHANGED <<rx, arrived, eof, err, pc, closed>> /\ pc = "free"
      BY <1>4 DEF FetchEvent, socket, life, EventHeld
    <2>2. rx > 0 \/ eof \/ err => IsReadable(event')
      BY <1>4, FetchedIsReadable DEF FetchEvent
    <2> QED
      BY <2>1, <2>2 DEF Counted, EventHeld, NoStrandedInput
  <1>5. CASE StartHandleEvent
    BY <1>5 DEF StartHandleEvent, socket, life, Counted, EventHeld, NoStrandedInput
  <1>6. CASE ReadSome
    <2>1. PICK n \in 1..rx : rx' = rx - n
      BY <1>6 DEF ReadSome
    <2>2. rx' \in Nat
      BY <2>1 DEF Counted
    <2> QED
      BY <1>6, <2>2 DEF ReadSome, AfterRead, life, Counted, EventHeld, NoStrandedInput
  <1>7. CASE ReadEnds
    <2>1. UNCHANGED <<rx, arrived, eof, err, edge, event>> /\ rx = 0 /\ pc = "read"
      BY <1>7 DEF ReadEnds, socket
    <2>2. eof \/ err => closed'
      BY <1>7 DEF ReadEnds, HandleClose, MustClose, life
    <2> QED
      BY <2>1, <2>2 DEF Counted, EventHeld, NoStrandedInput
  <1>8. CASE HandleWrite
    <2>1. UNCHANGED <<rx, arrived, eof, err, edge, event>> /\ pc = "write"
      BY <1>8 DEF HandleWrite
    <2>2. closed => closed'
      BY <1>8, CloseStays, WriteDataLife DEF HandleWrite
    <2> QED
      BY <2>1, <2>2 DEF Counted, EventHeld, NoStrandedInput
  <1>9. CASE HandleError
    <2>1. UNCHANGED <<rx, arrived, eof, err, edge>> /\ pc = "error" /\ pc' = "free"
      BY <1>9 DEF HandleError, socket
    <2>2. closed => closed'
      BY <1>9, CloseStays DEF HandleError
    <2> QED
      BY <2>1, <2>2 DEF Counted, EventHeld, NoStrandedInput
  <1>10. ASSUME NEW n \in 1..MaxTx, Send(n) PROVE ReadInv'
    <2>1. UNCHANGED <<rx, arrived, eof, err, edge, event, pc>>
      BY <1>10 DEF Send
    <2>2. closed => closed'
      BY <1>10, CloseStays, WriteDataLife DEF Send
    <2> QED
      BY <2>1, <2>2 DEF Counted, EventHeld, NoStrandedInput
  <1>11. ASSUME NEW how \in {"read", "write", "both"}, Shutdown(how) PROVE ReadInv'
    BY <1>11 DEF Shutdown, Counted, EventHeld, NoStrandedInput
  <1> QED
    BY <1>1, <1>2, <1>3, <1>4, <1>5, <1>6, <1>7, <1>8, <1>9, <1>10, <1>11
    DEF ConnNext, LoopStep

(* While the connection is open, every byte, end of stream or error that   *)
(* arrives has an edge or a readable event that brings it up.              *)
THEOREM NoStrandedInputHolds == ConnSpec => []NoStrandedInput
  <1>1. ConnInit => ReadInv
    BY DEF ConnInit, ReadInv, Counted, EventHeld, NoStrandedInput
  <1>2. ReadInv => NoStrandedInput
    BY DEF ReadInv
  <1> QED
    BY <1>1, <1>2, NextKeepsReadInv, PTL DEF ConnSpec

-----------------------------------------------------------------------------
(* handle_close runs its body once.                                        *)
LEMMA HandleCloseOnce ==
    ASSUME ClosedOnce, HandleClose \/ UNCHANGED life
    PROVE  ClosedOnce'
  BY DEF ClosedOnce, HandleClose, MustClose, life

LEMMA NextKeepsClosedOnce == ClosedOnce /\ [ConnNext]_connVars => ClosedOnce'
  <1> SUFFICES ASSUME ClosedOnce, [ConnNext]_connVars PROVE ClosedOnce'
    OBVIOUS
  <1>1. CASE UNCHANGED connVars
    BY <1>1, HandleCloseOnce DEF connVars
  <1>2. CASE PeerSend \/ PeerClose \/ PeerReset \/ PeerReads \/ FetchEvent \/ StartHandleEvent \/ ReadSome
    BY <1>2, HandleCloseOnce
    DEF PeerSend, PeerClose, PeerReset, PeerReads, FetchEvent, StartHandleEvent, ReadSome
  <1>3. CASE ReadEnds \/ HandleWrite \/ HandleError
    BY <1>3, HandleCloseOnce, WriteDataLife DEF ReadEnds, HandleWrite, HandleError
  <1>4. ASSUME NEW n \in 1..MaxTx, Send(n) PROVE ClosedOnce'
    BY <1>4, HandleCloseOnce, WriteDataLife DEF Send
  <1>5. ASSUME NEW how \in {"read", "write", "both"}, Shutdown(how) PROVE ClosedOnce'
    BY <1>5 DEF Shutdown, ClosedOnce
  <1> QED
    BY <1>1, <1>2, <1>3, <1>4, <1>5 DEF ConnNext, LoopStep

(* close_job and deregister run exactly once, whoever notices the end, and *)
(* however many events were fetched before the close.                      *)
THEOREM ClosedOnceHolds == ConnSpec => []ClosedOnce
  <1>1. ConnInit => ClosedOnce
    BY DEF ConnInit, ClosedOnce
  <1> QED
    BY <1>1, NextKeepsClosedOnce, PTL DEF ConnSpec

-----------------------------------------------------------------------------
(* Nothing waits, and what is on the wire was numbered before.             *)
WireInv ==
    /\ waiting = <<>> /\ wire \in Seq(Nat) /\ next \in Nat
    /\ \A i \in 1..Len(wire) : wire[i] < next
    /\ WireInOrder

(* The first elements of a sequence.                                       *)
LEMMA PartOf ==
    ASSUME NEW S, NEW s \in Seq(S), NEW n \in 0..Len(s)
    PROVE  /\ SubSeq(s, 1, n) \in Seq(S) /\ Len(SubSeq(s, 1, n)) = n
           /\ \A i \in 1..n : SubSeq(s, 1, n)[i] = s[i]
  BY SubSeqProperties

(* Appending the first k of n fresh numbers keeps the wire in order.       *)
LEMMA AppendFresh ==
    ASSUME WireInv, NEW n \in Nat, NEW buf,
           buf = waiting \o [i \in 1..n |-> next + i - 1],
           NEW k \in 1..Len(buf), wire' = wire \o SubSeq(buf, 1, k),
           dropped' = (dropped \/ k < Len(buf)),
           next' = next + n, waiting' = <<>>
    PROVE  WireInv'
  <1> DEFINE fresh == [i \in 1..n |-> next + i - 1]
  <1>1. fresh \in Seq(Nat) /\ Len(fresh) = n
    BY DEF WireInv
  <1>2. buf = fresh
    BY <1>1 DEF WireInv
  <1>3. k \in 1..n
    BY <1>1, <1>2
  <1> DEFINE part == SubSeq(buf, 1, k)
  <1>4. part \in Seq(Nat) /\ Len(part) = k /\ \A i \in 1..k : part[i] = next + i - 1
    <2>1. \A i \in 1..n : fresh[i] = next + i - 1
      OBVIOUS
    <2>2. part = SubSeq(fresh, 1, k)
      BY <1>2
    <2> HIDE DEF fresh, part
    <2>3. k \in 0..Len(fresh)
      BY <1>1, <1>3
    <2>4. part \in Seq(Nat) /\ Len(part) = k /\ \A i \in 1..k : part[i] = fresh[i]
      BY <1>1, <2>2, <2>3, PartOf
    <2>5. \A i \in 1..k : i \in 1..n
      BY <1>3
    <2> QED
      BY <2>1, <2>4, <2>5
  <1> HIDE DEF part, fresh
  <1>5. /\ wire' \in Seq(Nat) /\ Len(wire') = Len(wire) + k
        /\ \A i \in 1..Len(wire') : wire'[i] = IF i <= Len(wire) THEN wire[i]
                                               ELSE part[i - Len(wire)]
    BY <1>3, <1>4 DEF WireInv, part
  <1>6. \A i \in 1..Len(wire') :
            i > Len(wire) => wire'[i] = next + (i - Len(wire)) - 1
    BY <1>3, <1>4, <1>5 DEF WireInv
  <1>7. \A i \in 1..Len(wire') : wire'[i] < next'
    BY <1>3, <1>5, <1>6 DEF WireInv
  <1>8. \A i, j \in 1..Len(wire') : i < j => wire'[i] < wire'[j]
    BY <1>3, <1>5, <1>6 DEF WireInv, WireInOrder
  <1>9. ASSUME ~dropped' PROVE Len(wire') = next' - 1 /\ \A i \in 1..Len(wire') : wire'[i] = i
    <2>1. ~dropped /\ k = n
      <3>1. ~dropped /\ ~(k < Len(buf))
        BY <1>9
      <3>2. Len(buf) = n
        BY <1>1, <1>2
      <3> QED
        BY <1>3, <3>1, <3>2
    <2>2. Len(wire) = next - 1 /\ \A i \in 1..Len(wire) : wire[i] = i
      BY <2>1 DEF WireInv, WireInOrder
    <2>3. Len(wire') = next' - 1
      BY <1>5, <2>1, <2>2 DEF WireInv
    <2>4. ASSUME NEW i \in 1..Len(wire') PROVE wire'[i] = i
      <3>1. CASE i <= Len(wire)
        BY <1>5, <2>2, <3>1 DEF WireInv
      <3>2. CASE i > Len(wire)
        BY <1>6, <2>2, <3>2 DEF WireInv
      <3> QED
        BY <3>1, <3>2 DEF WireInv
    <2> QED
      BY <2>3, <2>4
  <1>10. WireInOrder'
    BY <1>8, <1>9 DEF WireInOrder
  <1>11. next' \in Nat /\ waiting' = <<>>
    BY DEF WireInv
  <1> HIDE DEF part
  <1> QED
    BY <1>5, <1>7, <1>10, <1>11 DEF WireInv

LEMMA NextKeepsWireInv == WireInv /\ [ConnNext]_connVars => WireInv'
  <1> SUFFICES ASSUME WireInv, [ConnNext]_connVars PROVE WireInv'
    OBVIOUS
  <1>1. CASE UNCHANGED out
    BY <1>1 DEF out, WireInv, WireInOrder
  <1>2. CASE HandleWrite
    BY <1>2 DEF HandleWrite, WireInv, WireInOrder
  <1>3. ASSUME NEW n \in 1..MaxTx, Send(n) PROVE WireInv'
    <2> DEFINE buf == waiting \o [i \in 1..n |-> next + i - 1]
    <2>1. n \in Nat /\ next' = next + n /\ WriteData(buf)
      BY <1>3, ConstantsAssumption DEF Send
    <2> HIDE DEF buf
    <2>2. CASE wire' = wire /\ waiting' = <<>> /\ dropped'
      BY <2>1, <2>2 DEF WireInv, WireInOrder
    <2>3. ASSUME NEW k \in 1..Len(buf), wire' = wire \o SubSeq(buf, 1, k), waiting' = <<>>,
                 dropped' = (dropped \/ k < Len(buf))
          PROVE  WireInv'
      BY <2>1, <2>3, AppendFresh DEF buf
    <2> QED
      BY <2>1, <2>2, <2>3 DEF WriteData, Left
  <1> QED
    BY <1>1, <1>2, <1>3 DEF ConnNext, LoopStep, connVars, PeerSend, PeerClose, PeerReset, PeerReads,
       FetchEvent, StartHandleEvent, ReadSome, ReadEnds, HandleError, Shutdown

(* The peer receives the bytes in the order of the calls of send, and none *)
(* of them twice, however short the writes are; and all of them until a    *)
(* write fails or is short.                                                *)
THEOREM WireInOrderHolds == ConnSpec => []WireInOrder
  <1>1. ConnInit => WireInv
    BY DEF ConnInit, WireInv, WireInOrder
  <1>2. WireInv => WireInOrder
    BY DEF WireInv
  <1> QED
    BY <1>1, <1>2, NextKeepsWireInv, PTL DEF ConnSpec

-----------------------------------------------------------------------------
(* A closed connection is out of the loop's poll and is not written to.    *)
CloseInv == WireInv /\ (closed => ~write_enabled /\ ~registered)

(* Nothing is sent by a closed connection, and it is not opened again.     *)
ClosedIsFinal == [][closed => closed' /\ ~registered' /\ wire' = wire]_connVars

LEMMA CloseDisables ==
    ASSUME closed => ~write_enabled /\ ~registered, HandleClose \/ UNCHANGED life
    PROVE  /\ closed' => ~write_enabled' /\ ~registered'
           /\ closed => closed'
  BY DEF HandleClose, MustClose, life

(* However an event fetched before the close, a send from another thread   *)
(* and a shutdown interleave, the connection that handle_close has torn    *)
(* down writes no further byte and stays deregistered.                     *)
THEOREM ClosedIsFinalHolds == ConnSpec => ClosedIsFinal
  <1> DEFINE Final == closed => closed' /\ ~registered' /\ wire' = wire
  <1>1. ConnInit => CloseInv
    BY DEF ConnInit, CloseInv, WireInv, WireInOrder
  <1>2. ASSUME CloseInv, [ConnNext]_connVars PROVE CloseInv' /\ Final
    <2>1. WireInv' /\ waiting = <<>> /\ (closed => ~write_enabled /\ ~registered)
      BY <1>2, NextKeepsWireInv DEF CloseInv, WireInv
    <2>2. ASSUME HandleClose \/ UNCHANGED life, closed => wire' = wire PROVE CloseInv' /\ Final
      BY <2>1, <2>2, CloseDisables DEF CloseInv
    <2>3. CASE UNCHANGED <<life, out>>
      BY <2>2, <2>3 DEF out
    <2>4. CASE ReadEnds \/ HandleError
      BY <2>2, <2>4 DEF ReadEnds, HandleError, out
    <2>5. CASE HandleWrite
      BY <2>1, <2>2, <2>5 DEF HandleWrite
    <2>6. ASSUME NEW n \in 1..MaxTx, Send(n) PROVE CloseInv' /\ Final
      <3>1. ~closed /\ (HandleClose \/ UNCHANGED life)
        BY <2>1, <2>6, WriteDataLife DEF Send
      <3> QED
        BY <2>2, <3>1
    <2>7. ASSUME NEW how \in {"read", "write", "both"}, Shutdown(how) PROVE CloseInv' /\ Final
      <3>1. /\ write_enabled' = (write_enabled /\ how = "read")
            /\ closed' = closed /\ registered' = registered /\ wire' = wire
        BY <2>7 DEF Shutdown, out
      <3> QED
        BY <2>1, <3>1 DEF CloseInv
    <2>8. CASE PeerSend \/ PeerClose \/ PeerReset \/ PeerReads \/ FetchEvent \/ StartHandleEvent
                 \/ ReadSome \/ UNCHANGED connVars
      BY <2>3, <2>8 DEF PeerSend, PeerClose, PeerReset, PeerReads, FetchEvent, StartHandleEvent,
                        ReadSome, connVars
    <2> QED
      BY <1>2, <2>4, <2>5, <2>6, <2>7, <2>8 DEF ConnNext, LoopStep
  <1>3. CloseInv /\ [ConnNext]_connVars => CloseInv' /\ [Final]_connVars
    BY <1>2
  <1> QED
    BY <1>1, <1>3, PTL DEF ConnSpec, ClosedIsFinal

(***************************************************************************)
(* Third part: the tunnel, for any number of clients, bytes and faults.    *)
(*                                                                         *)
(* Of a session's two connections and of the jobs that wait for it the     *)
(* invariant says what has come through so far: upstream to client         *)
(* (ReplyOK) directly, client to upstream (RequestOK) through the buffer   *)
(* and the send jobs.  Of the loop it says that a batch has at most one    *)
(* entry for a socket, and only for sockets that were registered           *)
(* (BatchOK), so that an entry is never handled for a connection that is   *)
(* not open yet, or dropped.                                               *)
(***************************************************************************)
ConnStates == {"none", "backlog", "connecting", "connected", "open", "closed", "dropped"}
ConnType ==
    [conn : ConnStates, sent : Nat, rx : Nat, buf : Seq(Nat), got : Seq(Nat),
     fin : BOOLEAN, rst : BOOLEAN, write_enabled : BOOLEAN, edge : BOOLEAN]
JobType ==
    [kind : {"flush", "send", "shut_client", "shut_upstream"}, c : Clients, bytes : Seq(Nat)]
Sockets == {Listener} \cup {Client(c) : c \in Clients} \cup {Upstream(c) : c \in Clients}
EntryType == [sock : Sockets, readable : BOOLEAN, hup : BOOLEAN]

LoopPlaces ==
    {"poll", "batch", "accept", "connect", "read", "hangup",
     "refused", "shutdown", "deregister", "stuck"}

TunnelTypes ==
    /\ bound \in BOOLEAN /\ accept_job \in BOOLEAN /\ listener_edge \in BOOLEAN
    /\ accept_failed \in BOOLEAN /\ backlog \in Seq(Clients)
    /\ cli \in [Clients -> ConnType] /\ up \in [Clients -> ConnType]
    /\ jobs \in Seq(JobType) /\ run \in Seq(JobType)
    /\ todo \in SUBSET EntryType /\ cur \in EntryType
    /\ loop \in LoopPlaces
    /\ short \in BOOLEAN

(* A connection in the backlog is there once, and nobody else has it.      *)
BacklogOK ==
    /\ \A i \in 1..Len(backlog) : cli[backlog[i]].conn = "backlog"
    /\ \A i, j \in 1..Len(backlog) : backlog[i] = backlog[j] => i = j

(* An entry speaks of a connection that is, or was, registered.            *)
EntryOK(e) ==
    /\ \A c \in Clients : e.sock = Client(c) =>
          cli[c].conn \in {"open", "closed"} /\ (e.hup => cli[c].fin \/ cli[c].rst)
    /\ \A c \in Clients : e.sock = Upstream(c) =>
          up[c].conn \in {"connected", "open", "closed"} /\ (e.hup => up[c].fin \/ up[c].rst)

(* A batch has one entry for a socket at most, and what the loop handles   *)
(* it has taken from the batch.                                            *)
BatchOK ==
    /\ \A e \in todo : EntryOK(e)
    /\ \A e, f \in todo : e.sock = f.sock => e = f
    /\ loop = "poll" => todo = {} /\ run = <<>>

HandlingOK ==
    /\ loop \in {"accept", "connect", "read", "hangup"} =>
          EntryOK(cur) /\ \A e \in todo : e.sock # cur.sock
    /\ loop = "accept" => cur.sock = Listener
    /\ \A c \in Clients : loop = "connect" /\ cur.sock = Upstream(c) => up[c].conn = "connected"
    /\ \A c \in Clients : loop \in {"read", "hangup"} /\ cur.sock = Upstream(c) =>
          up[c].conn # "connected"
    /\ loop = "hangup" => cur.hup
    /\ \A c \in Clients : loop = "hangup" /\ cur.sock = Upstream(c) => up[c].rx = 0

(* What the fields of a connection say of each other, and how far the two  *)
(* connections of a session can be apart.                                  *)
KernelOK(k) == k.rx <= k.sent /\ (k.rst => k.rx = 0) /\ (k.conn = "closed" => ~k.write_enabled)

PairOK(k, u) ==
    /\ KernelOK(k) /\ KernelOK(u)
    /\ k.conn \in {"none", "backlog", "open", "closed", "dropped"}
    /\ u.conn \in {"none", "connecting", "connected", "open", "closed", "dropped"}
    /\ k.conn \in {"none", "backlog", "dropped"} => u.conn = "none"
    /\ u.conn \in {"none", "connecting"} =>
          u.sent = 0 /\ ~u.fin /\ ~u.rst /\ u.buf = <<>> /\ k.got = <<>>
    /\ k.conn \in {"none", "backlog"} => k.write_enabled
    /\ u.conn \in {"none", "connecting", "connected", "dropped"} => u.got = <<>>
    /\ k.conn = "open" => u.buf = <<>>

(* The jobs that wait for a session, in the batch (r) and behind it (q).   *)
JobIn(q, kind, c) == \E i \in 1..Len(q) : q[i].kind = kind /\ q[i].c = c
Waits(r, q, kind, c) == JobIn(r, kind, c) \/ JobIn(q, kind, c)

JobsOK(r, q, k, u, c) ==
    /\ Waits(r, q, "send", c) \/ Waits(r, q, "flush", c) => u.conn \in {"open", "closed"}
    /\ Waits(r, q, "shut_client", c) => u.rst \/ (u.fin /\ u.rx = 0)
    /\ k.conn = "open" /\ u.conn = "open" /\ ~u.rst /\ k.buf # <<>> => Waits(r, q, "flush", c)

Rising(s) == \A i, j \in 1..Len(s) : i < j => s[i] < s[j]
Counts(s) == \A i \in 1..Len(s) : s[i] = i

(* From the upstream to the client.                                        *)
ReplyOK(k, u, lost) ==
    /\ Rising(k.got) /\ (~lost => Counts(k.got))
    /\ \A i \in 1..Len(k.got) : k.got[i] <= u.sent - u.rx
    /\ k.conn = "open" /\ ~lost /\ ~u.rst => Len(k.got) = u.sent - u.rx
    /\ k.conn = "open" /\ ~k.write_enabled => u.rst \/ (u.fin /\ u.rx = 0)

(* From the client to the upstream.  The send jobs of a queue carry the    *)
(* numbers from lo + 1 to hi: p says how far they have come at each place. *)
IsSend(j, c) == j.kind = "send" /\ j.c = c
Carries(j, n) == \A i \in 1..Len(j.bytes) : j.bytes[i] = n + i
Places(q, c, p) ==
    /\ \A i \in 1..Len(q) :
          /\ IsSend(q[i], c) => p[i] = p[i - 1] + Len(q[i].bytes) /\ Carries(q[i], p[i - 1])
          /\ ~IsSend(q[i], c) => p[i] = p[i - 1]
    /\ \A i, j \in 0..Len(q) : i <= j => p[i] <= p[j]
Chain(q, c, lo, hi) ==
    \E p \in [0..Len(q) -> Nat] : p[0] = lo /\ p[Len(q)] = hi /\ Places(q, c, p)
Chains(r, q, c, lo, hi) == \E mid \in Nat : Chain(r, c, lo, mid) /\ Chain(q, c, mid, hi)

(* What the upstream has got, what the jobs carry and what is left in the  *)
(* buffer follow each other, as long as anything can be written.           *)
Follows(k, u, lost, lo, hi) ==
    /\ \A i \in 1..Len(u.got) : u.got[i] <= lo
    /\ ~lost => Len(u.got) = lo
    /\ \A i \in 1..Len(k.buf) : k.buf[i] = hi + i
    /\ ~k.rst => hi + Len(k.buf) = k.sent - k.rx
    /\ k.buf # <<>> \/ u.conn \notin {"open", "closed"} => lo = hi

RequestOK(r, q, k, u, lost, c) ==
    /\ Rising(u.got) /\ (~lost => Counts(u.got))
    /\ u.write_enabled =>
          \E lo, hi \in Nat : Chains(r, q, c, lo, hi) /\ Follows(k, u, lost, lo, hi)

SessionOK(r, q, k, u, lost, c) ==
    /\ PairOK(k, u) /\ JobsOK(r, q, k, u, c)
    /\ ReplyOK(k, u, lost) /\ RequestOK(r, q, k, u, lost, c)

(* Nothing that has to be handled is forgotten.                            *)
Due(k) == k.conn = "open" /\ (k.rx > 0 \/ k.fin \/ k.rst)
Noticed(s, k) ==
    \/ k.edge \/ Ended \/ At("read", s)
    \/ \E e \in todo : e.sock = s /\ e.readable
NoticedOK(c) ==
    /\ Due(cli[c]) => Noticed(Client(c), cli[c])
    /\ Due(up[c]) => Noticed(Upstream(c), up[c])
BacklogNoticed ==
    bound /\ ~accept_failed /\ backlog # <<>> =>
        listener_edge \/ Ended \/ loop = "accept" \/ \E e \in todo : e.sock = Listener

TunnelInv ==
    /\ TunnelTypes /\ BacklogOK /\ BatchOK /\ HandlingOK /\ BacklogNoticed /\ LoopSurvives
    /\ \A c \in Clients :
          SessionOK(run, jobs, cli[c], up[c], short, c) /\ NoticedOK(c)

-----------------------------------------------------------------------------
(* The queue of jobs: one more job, one job less.                          *)
LEMMA JobAppended ==
    ASSUME NEW q \in Seq(JobType), NEW j \in JobType, NEW s, s = Append(q, j)
    PROVE  /\ s \in Seq(JobType) /\ Len(s) = Len(q) + 1 /\ s[Len(q) + 1] = j /\ Len(q) \in Nat
           /\ \A i \in 1..Len(q) : s[i] = q[i]
  BY AppendProperties

LEMMA JobInAppended ==
    ASSUME NEW q \in Seq(JobType), NEW j \in JobType, NEW s, s = Append(q, j)
    PROVE  \A kind, c : JobIn(s, kind, c) <=> JobIn(q, kind, c) \/ (j.kind = kind /\ j.c = c)
  <1>1. /\ s \in Seq(JobType) /\ Len(s) = Len(q) + 1 /\ s[Len(q) + 1] = j /\ Len(q) \in Nat
        /\ \A i \in 1..Len(q) : s[i] = q[i]
    BY JobAppended
  <1>2. ASSUME NEW kind, NEW c
        PROVE  JobIn(s, kind, c) <=> JobIn(q, kind, c) \/ (j.kind = kind /\ j.c = c)
    <2>1. ASSUME JobIn(s, kind, c) PROVE JobIn(q, kind, c) \/ (j.kind = kind /\ j.c = c)
      <3>1. PICK i \in 1..Len(q) + 1 : s[i].kind = kind /\ s[i].c = c
        BY <1>1, <2>1 DEF JobIn
      <3>2. i \in 1..Len(q) \/ i = Len(q) + 1
        BY <1>1
      <3> QED
        BY <1>1, <3>1, <3>2 DEF JobIn
    <2>2. ASSUME JobIn(q, kind, c) PROVE JobIn(s, kind, c)
      <3>1. PICK i \in 1..Len(q) : q[i].kind = kind /\ q[i].c = c
        BY <2>2 DEF JobIn
      <3>2. i \in 1..Len(s) /\ s[i] = q[i]
        BY <1>1
      <3> QED
        BY <3>1, <3>2 DEF JobIn
    <2>3. ASSUME j.kind = kind, j.c = c PROVE JobIn(s, kind, c)
      <3>1. Len(q) + 1 \in 1..Len(s)
        BY <1>1
      <3> QED
        BY <1>1, <2>3, <3>1 DEF JobIn
    <2> QED
      BY <2>1, <2>2, <2>3
  <1> QED
    BY <1>2

LEMMA JobTaken ==
    ASSUME NEW q \in Seq(JobType), q # <<>>, NEW j, j = Head(q), NEW s, s = Tail(q)
    PROVE  /\ j \in JobType /\ s \in Seq(JobType) /\ Len(q) \in Nat /\ Len(q) > 0
           /\ Len(s) = Len(q) - 1 /\ q[1] = j
           /\ \A i \in 1..Len(s) : s[i] = q[i + 1]
  BY HeadTailProperties

LEMMA JobInTaken ==
    ASSUME NEW q \in Seq(JobType), q # <<>>, NEW j, j = Head(q), NEW s, s = Tail(q)
    PROVE  \A kind, c : JobIn(q, kind, c) <=> JobIn(s, kind, c) \/ (j.kind = kind /\ j.c = c)
  <1>1. /\ j \in JobType /\ s \in Seq(JobType) /\ Len(q) \in Nat /\ Len(q) > 0
        /\ Len(s) = Len(q) - 1 /\ q[1] = j
        /\ \A i \in 1..Len(s) : s[i] = q[i + 1]
    BY JobTaken
  <1>2. ASSUME NEW kind, NEW c
        PROVE  JobIn(q, kind, c) <=> JobIn(s, kind, c) \/ (j.kind = kind /\ j.c = c)
    <2>1. ASSUME JobIn(q, kind, c) PROVE JobIn(s, kind, c) \/ (j.kind = kind /\ j.c = c)
      <3>1. PICK i \in 1..Len(q) : q[i].kind = kind /\ q[i].c = c
        BY <2>1 DEF JobIn
      <3>2. CASE i = 1
        BY <1>1, <3>1, <3>2
      <3>3. CASE i # 1
        <4>1. PICK h \in 1..Len(s) : h + 1 = i
          BY <1>1, <3>3
        <4>2. s[h] = q[i]
          BY <1>1, <4>1
        <4> QED
          BY <3>1, <4>2 DEF JobIn
      <3> QED
        BY <3>2, <3>3
    <2>2. ASSUME JobIn(s, kind, c) PROVE JobIn(q, kind, c)
      <3>1. PICK i \in 1..Len(s) : s[i].kind = kind /\ s[i].c = c
        BY <2>2 DEF JobIn
      <3>2. i + 1 \in 1..Len(q) /\ s[i] = q[i + 1]
        BY <1>1
      <3> QED
        BY <3>1, <3>2 DEF JobIn
    <2>3. ASSUME j.kind = kind, j.c = c PROVE JobIn(q, kind, c)
      <3>1. 1 \in 1..Len(q)
        BY <1>1
      <3> QED
        BY <1>1, <2>3, <3>1 DEF JobIn
    <2> QED
      BY <2>1, <2>2, <2>3
  <1> QED
    BY <1>2

(* What a queue carries, with a job that is not a send of this session ... *)
LEMMA ChainAppended ==
    ASSUME NEW q \in Seq(JobType), NEW j \in JobType, NEW s, s = Append(q, j),
           NEW c, NEW lo \in Nat, NEW hi \in Nat, Chain(q, c, lo, hi)
    PROVE  /\ ~IsSend(j, c) => Chain(s, c, lo, hi)
           /\ IsSend(j, c) /\ Carries(j, hi) => Chain(s, c, lo, hi + Len(j.bytes))
  <1>1. /\ Len(s) = Len(q) + 1 /\ s[Len(q) + 1] = j /\ Len(q) \in Nat
        /\ \A i \in 1..Len(q) : s[i] = q[i]
    BY JobAppended
  <1>2. PICK p \in [0..Len(q) -> Nat] : p[0] = lo /\ p[Len(q)] = hi /\ Places(q, c, p)
    BY DEF Chain
  <1>3. Len(j.bytes) \in Nat
    BY DEF JobType
  <1>4. PICK m \in Nat : m = IF IsSend(j, c) THEN hi + Len(j.bytes) ELSE hi
    BY <1>3
  <1>5. SUFFICES ASSUME IsSend(j, c) => Carries(j, hi)
                 PROVE  Chain(s, c, lo, m)
    BY <1>4
  <1>6. PICK n : n = [i \in 0..Len(s) |-> IF i = Len(s) THEN m ELSE p[i]]
    OBVIOUS
  <1>7. /\ n \in [0..Len(s) -> Nat] /\ n[Len(s)] = m
        /\ \A i \in 0..Len(q) : n[i] = p[i]
    BY <1>1, <1>6
  <1>8. n[0] = lo /\ n[Len(q)] = hi
    BY <1>1, <1>2, <1>7
  <1>9. ASSUME NEW i \in 1..Len(s)
        PROVE  /\ IsSend(s[i], c) => n[i] = n[i - 1] + Len(s[i].bytes) /\ Carries(s[i], n[i - 1])
               /\ ~IsSend(s[i], c) => n[i] = n[i - 1]
    <2>1. CASE i \in 1..Len(q)
      <3>1. i \in 0..Len(q) /\ i - 1 \in 0..Len(q)
        BY <1>1, <2>1
      <3>2. n[i] = p[i] /\ n[i - 1] = p[i - 1] /\ s[i] = q[i]
        BY <1>1, <1>7, <2>1, <3>1
      <3> QED
        BY <1>2, <2>1, <3>2 DEF Places
    <2>2. CASE i = Len(q) + 1
      <3>1. s[i] = j /\ n[i] = m /\ n[i - 1] = hi
        BY <1>1, <1>7, <1>8, <2>2
      <3> QED
        BY <1>4, <1>5, <3>1
    <2> QED
      BY <1>1, <2>1, <2>2
  <1>10. hi <= m
    BY <1>3, <1>4
  <1>11. ASSUME NEW i \in 0..Len(s), NEW h \in 0..Len(s), i <= h PROVE n[i] <= n[h]
    <2>1. CASE h \in 0..Len(q)
      <3>1. i \in 0..Len(q)
        BY <1>1, <1>11, <2>1
      <3> QED
        BY <1>2, <1>7, <1>11, <2>1, <3>1 DEF Places
    <2>2. CASE h = Len(q) + 1 /\ i \in 0..Len(q)
      <3>1. Len(q) \in 0..Len(q) /\ i <= Len(q)
        BY <1>1, <2>2
      <3>2. p[i] <= hi
        BY <1>2, <2>2, <3>1 DEF Places
      <3>3. n[i] = p[i] /\ n[h] = m /\ p[i] \in Nat
        BY <1>1, <1>2, <1>7, <2>2
      <3> QED
        BY <1>4, <1>10, <3>2, <3>3
    <2>3. CASE h = Len(q) + 1 /\ i = Len(q) + 1
      BY <1>1, <1>4, <1>7, <2>3
    <2> QED
      BY <1>1, <1>11, <2>1, <2>2, <2>3
  <1>12. Places(s, c, n)
    BY <1>9, <1>11 DEF Places
  <1> QED
    BY <1>7, <1>8, <1>12 DEF Chain

(* ... and without its first job.                                          *)
LEMMA ChainTaken ==
    ASSUME NEW q \in Seq(JobType), q # <<>>, NEW j, j = Head(q), NEW s, s = Tail(q),
           NEW c, NEW lo \in Nat, NEW hi \in Nat, Chain(q, c, lo, hi)
    PROVE  /\ ~IsSend(j, c) => Chain(s, c, lo, hi)
           /\ IsSend(j, c) => Carries(j, lo) /\ Chain(s, c, lo + Len(j.bytes), hi)
  <1>1. /\ j \in JobType /\ Len(q) \in Nat /\ Len(q) > 0 /\ Len(s) = Len(q) - 1 /\ q[1] = j
        /\ Len(s) \in Nat /\ \A i \in 1..Len(s) : s[i] = q[i + 1]
    BY JobTaken
  <1>2. PICK p \in [0..Len(q) -> Nat] : p[0] = lo /\ p[Len(q)] = hi /\ Places(q, c, p)
    BY DEF Chain
  <1>3. PICK n : n = [i \in 0..Len(s) |-> p[i + 1]]
    OBVIOUS
  <1>4. /\ n \in [0..Len(s) -> Nat]
        /\ \A i \in 0..Len(s) : n[i] = p[i + 1] /\ i + 1 \in 0..Len(q) /\ i + 1 \in 1..Len(q)
    BY <1>1, <1>3
  <1>5. n[0] = p[1] /\ n[Len(s)] = hi
    BY <1>1, <1>2, <1>4
  <1>6. 1 \in 1..Len(q) /\ 1 - 1 = 0
    BY <1>1
  <1>7. /\ IsSend(j, c) => p[1] = lo + Len(j.bytes) /\ Carries(j, lo)
        /\ ~IsSend(j, c) => p[1] = lo
    BY <1>1, <1>2, <1>6 DEF Places
  <1>8. ASSUME NEW i \in 1..Len(s)
        PROVE  /\ IsSend(s[i], c) => n[i] = n[i - 1] + Len(s[i].bytes) /\ Carries(s[i], n[i - 1])
               /\ ~IsSend(s[i], c) => n[i] = n[i - 1]
    <2>1. i \in 0..Len(s) /\ i - 1 \in 0..Len(s) /\ (i - 1) + 1 = i /\ (i + 1) - 1 = i
      BY <1>1
    <2>2. n[i] = p[i + 1] /\ n[i - 1] = p[i] /\ s[i] = q[i + 1] /\ i + 1 \in 1..Len(q)
      BY <1>1, <1>4, <2>1
    <2>3. /\ IsSend(q[i + 1], c) => p[i + 1] = p[i] + Len(q[i + 1].bytes) /\ Carries(q[i + 1], p[i])
          /\ ~IsSend(q[i + 1], c) => p[i + 1] = p[i]
      BY <1>2, <2>1, <2>2 DEF Places
    <2> QED
      BY <2>2, <2>3
  <1>9. ASSUME NEW i \in 0..Len(s), NEW h \in 0..Len(s), i <= h PROVE n[i] <= n[h]
    <2>1. i + 1 \in 0..Len(q) /\ h + 1 \in 0..Len(q) /\ i + 1 <= h + 1
      BY <1>1, <1>9
    <2> QED
      BY <1>2, <1>4, <2>1 DEF Places
  <1>10. Places(s, c, n)
    BY <1>8, <1>9 DEF Places
  <1>11. Chain(s, c, p[1], hi)
    BY <1>4, <1>5, <1>10 DEF Chain
  <1> QED
    BY <1>7, <1>11

LEMMA ChainEmpty ==
    ASSUME NEW c, NEW lo \in Nat, NEW hi \in Nat
    PROVE  Chain(<<>>, c, lo, hi) <=> lo = hi
  <1>1. Len(<<>>) = 0
    OBVIOUS
  <1>2. ASSUME lo = hi PROVE Chain(<<>>, c, lo, hi)
    <2>1. PICK p : p = [i \in 0..0 |-> lo]
      OBVIOUS
    <2>2. p \in [0..Len(<<>>) -> Nat] /\ p[0] = lo /\ p[Len(<<>>)] = hi
      BY <1>1, <1>2, <2>1
    <2>3. Places(<<>>, c, p)
      BY <1>1, <2>2 DEF Places
    <2> QED
      BY <2>2, <2>3 DEF Chain
  <1>3. ASSUME Chain(<<>>, c, lo, hi) PROVE lo = hi
    BY <1>1, <1>3 DEF Chain
  <1> QED
    BY <1>2, <1>3

LEMMA ChainBounds ==
    ASSUME NEW q \in Seq(JobType), NEW c, NEW lo \in Nat, NEW hi \in Nat, Chain(q, c, lo, hi)
    PROVE  lo <= hi
  <1>1. Len(q) \in Nat /\ 0 \in 0..Len(q) /\ Len(q) \in 0..Len(q)
    OBVIOUS
  <1>2. PICK p \in [0..Len(q) -> Nat] : p[0] = lo /\ p[Len(q)] = hi /\ Places(q, c, p)
    BY DEF Chain
  <1> QED
    BY <1>1, <1>2 DEF Places

(* Two pairs of queues that hold the same for a session.                   *)
KeepsJobs(r, q, r2, q2, c) ==
    /\ \A kind : Waits(r2, q2, kind, c) <=> Waits(r, q, kind, c)
    /\ \A lo, hi \in Nat : Chains(r, q, c, lo, hi) => Chains(r2, q2, c, lo, hi)

LEMMA AddJob ==
    ASSUME NEW r \in Seq(JobType), NEW q \in Seq(JobType), NEW j \in JobType,
           NEW s, s = Append(q, j)
    PROVE  /\ s \in Seq(JobType)
           /\ \A c : c # j.c => KeepsJobs(r, q, r, s, c)
           /\ \A kind : Waits(r, s, kind, j.c) <=> Waits(r, q, kind, j.c) \/ kind = j.kind
           /\ \A lo, hi \in Nat : Chains(r, q, j.c, lo, hi) =>
                 /\ j.kind # "send" => Chains(r, s, j.c, lo, hi)
                 /\ j.kind = "send" /\ Carries(j, hi) => Chains(r, s, j.c, lo, hi + Len(j.bytes))
  <1>1. /\ s \in Seq(JobType)
        /\ \A kind, c : JobIn(s, kind, c) <=> JobIn(q, kind, c) \/ (j.kind = kind /\ j.c = c)
    <2>1. s \in Seq(JobType)
      BY JobAppended
    <2>2. \A kind, c : JobIn(s, kind, c) <=> JobIn(q, kind, c) \/ (j.kind = kind /\ j.c = c)
      BY JobInAppended
    <2> QED
      BY <2>1, <2>2
  <1>2. \A kind, c : Waits(r, s, kind, c) <=> Waits(r, q, kind, c) \/ (j.kind = kind /\ j.c = c)
    BY <1>1 DEF Waits
  <1>3. ASSUME NEW c, NEW lo \in Nat, NEW hi \in Nat, Chains(r, q, c, lo, hi)
        PROVE  /\ ~IsSend(j, c) => Chains(r, s, c, lo, hi)
               /\ IsSend(j, c) /\ Carries(j, hi) => Chains(r, s, c, lo, hi + Len(j.bytes))
    <2>1. PICK mid \in Nat : Chain(r, c, lo, mid) /\ Chain(q, c, mid, hi)
      BY <1>3 DEF Chains
    <2>2. /\ ~IsSend(j, c) => Chain(s, c, mid, hi)
          /\ IsSend(j, c) /\ Carries(j, hi) => Chain(s, c, mid, hi + Len(j.bytes))
      BY <2>1, ChainAppended
    <2> QED
      BY <2>1, <2>2 DEF Chains
  <1>4. ASSUME NEW c, c # j.c PROVE KeepsJobs(r, q, r, s, c)
    <2>1. ~IsSend(j, c)
      BY <1>4 DEF IsSend
    <2> QED
      BY <1>2, <1>3, <1>4, <2>1 DEF KeepsJobs
  <1>5. ASSUME NEW lo \in Nat, NEW hi \in Nat, Chains(r, q, j.c, lo, hi)
        PROVE  /\ j.kind # "send" => Chains(r, s, j.c, lo, hi)
               /\ j.kind = "send" /\ Carries(j, hi) => Chains(r, s, j.c, lo, hi + Len(j.bytes))
    <2>1. IsSend(j, j.c) <=> j.kind = "send"
      BY DEF IsSend
    <2> QED
      BY <1>3, <1>5, <2>1
  <1> QED
    BY <1>1, <1>2, <1>4, <1>5

LEMMA TakeJob ==
    ASSUME NEW r \in Seq(JobType), r # <<>>, NEW q \in Seq(JobType),
           NEW j, j = Head(r), NEW s, s = Tail(r)
    PROVE  /\ s \in Seq(JobType) /\ j \in JobType
           /\ \A c : c # j.c => KeepsJobs(r, q, s, q, c)
           /\ Waits(r, q, j.kind, j.c)
           /\ \A kind : Waits(s, q, kind, j.c) => Waits(r, q, kind, j.c)
           /\ \A kind : kind # j.kind => (Waits(s, q, kind, j.c) <=> Waits(r, q, kind, j.c))
           /\ \A lo, hi \in Nat : Chains(r, q, j.c, lo, hi) =>
                 /\ lo <= hi
                 /\ j.kind # "send" => Chains(s, q, j.c, lo, hi)
                 /\ j.kind = "send" =>
                       Carries(j, lo) /\ lo + Len(j.bytes) <= hi /\ Chains(s, q, j.c, lo + Len(j.bytes), hi)
  <1>1. /\ s \in Seq(JobType) /\ j \in JobType
        /\ \A kind, c : JobIn(r, kind, c) <=> JobIn(s, kind, c) \/ (j.kind = kind /\ j.c = c)
    <2>1. s \in Seq(JobType) /\ j \in JobType
      BY JobTaken
    <2>2. \A kind, c : JobIn(r, kind, c) <=> JobIn(s, kind, c) \/ (j.kind = kind /\ j.c = c)
      BY JobInTaken
    <2> QED
      BY <2>1, <2>2
  <1>2. \A kind, c : Waits(r, q, kind, c) <=> Waits(s, q, kind, c) \/ (j.kind = kind /\ j.c = c)
    BY <1>1 DEF Waits
  <1>3. Len(j.bytes) \in Nat
    BY <1>1 DEF JobType
  <1>4. ASSUME NEW c, NEW lo \in Nat, NEW hi \in Nat, Chains(r, q, c, lo, hi)
        PROVE  /\ lo <= hi
               /\ ~IsSend(j, c) => Chains(s, q, c, lo, hi)
               /\ IsSend(j, c) => /\ Carries(j, lo) /\ lo + Len(j.bytes) <= hi
                                  /\ Chains(s, q, c, lo + Len(j.bytes), hi)
    <2>1. PICK mid \in Nat : Chain(r, c, lo, mid) /\ Chain(q, c, mid, hi)
      BY <1>4 DEF Chains
    <2>2. /\ ~IsSend(j, c) => Chain(s, c, lo, mid)
          /\ IsSend(j, c) => Carries(j, lo) /\ Chain(s, c, lo + Len(j.bytes), mid)
      BY <2>1, ChainTaken
    <2>3. lo <= mid /\ mid <= hi
      BY <2>1, ChainBounds
    <2>4. IsSend(j, c) => lo + Len(j.bytes) <= mid
      <3>1. PICK m \in Nat : m = lo + Len(j.bytes)
        BY <1>3
      <3> QED
        BY <1>1, <2>2, <3>1, ChainBounds
    <2>5. lo <= hi /\ (IsSend(j, c) => lo + Len(j.bytes) <= hi)
      BY <1>3, <2>3, <2>4
    <2> QED
      BY <2>1, <2>2, <2>5 DEF Chains
  <1>5. ASSUME NEW c, c # j.c PROVE KeepsJobs(r, q, s, q, c)
    <2>1. ~IsSend(j, c)
      BY <1>5 DEF IsSend
    <2> QED
      BY <1>2, <1>4, <1>5, <2>1 DEF KeepsJobs
  <1>6. IsSend(j, j.c) <=> j.kind = "send"
    BY DEF IsSend
  <1>7. ASSUME NEW lo \in Nat, NEW hi \in Nat, Chains(r, q, j.c, lo, hi)
        PROVE  /\ lo <= hi
               /\ j.kind # "send" => Chains(s, q, j.c, lo, hi)
               /\ j.kind = "send" =>
                     Carries(j, lo) /\ lo + Len(j.bytes) <= hi /\ Chains(s, q, j.c, lo + Len(j.bytes), hi)
    BY <1>4, <1>6, <1>7
  <1> QED
    BY <1>1, <1>2, <1>5, <1>7

(* The jobs enqueued so far become those of the batch.                     *)
LEMMA ShiftJobs ==
    ASSUME NEW q \in Seq(JobType), NEW c
    PROVE  KeepsJobs(<<>>, q, q, <<>>, c)
  <1>1. \A kind : ~JobIn(<<>>, kind, c)
    BY DEF JobIn
  <1>2. ASSUME NEW lo \in Nat, NEW hi \in Nat, Chains(<<>>, q, c, lo, hi)
        PROVE  Chains(q, <<>>, c, lo, hi)
    <2>1. Chain(q, c, lo, hi)
      BY <1>2, ChainEmpty DEF Chains
    <2> QED
      BY <2>1, ChainEmpty DEF Chains
  <1> QED
    BY <1>1, <1>2 DEF KeepsJobs, Waits

(* What the handlers append: a job, or nothing.                            *)
LEMMA NoJobAdded ==
    ASSUME NEW q \in Seq(JobType)
    PROVE  q \o <<>> = q
  BY ConcatEmptySeq

LEMMA OneJobAdded ==
    ASSUME NEW q \in Seq(JobType), NEW j \in JobType
    PROVE  q \o <<j>> = Append(q, j)
  BY AppendIsConcat

LEMMA JobTyped ==
    ASSUME NEW kind \in {"flush", "send", "shut_client", "shut_upstream"}, NEW c \in Clients,
           NEW b \in Seq(Nat)
    PROVE  /\ Job(kind, c, b) \in JobType /\ Job(kind, c, b).kind = kind
           /\ Job(kind, c, b).c = c /\ Job(kind, c, b).bytes = b
  BY DEF Job, JobType

-----------------------------------------------------------------------------
(* Sockets are told apart.                                                 *)
LEMMA SocketsApart ==
    ASSUME NEW c, NEW d
    PROVE  /\ Client(c) # Upstream(d) /\ Client(c) # Listener /\ Upstream(c) # Listener
           /\ Client(c) = Client(d) => c = d
           /\ Upstream(c) = Upstream(d) => c = d
  BY DEF Client, Upstream, Listener

LEMMA NoEntryTyped ==
    /\ NoEntry \in EntryType /\ NoEntry.sock = Listener /\ ~NoEntry.readable /\ ~NoEntry.hup
  BY DEF NoEntry, EntryType, Sockets

(* The fields that stay when a connection moves on.                        *)
SameData(k, n) ==
    n.sent = k.sent /\ n.rx = k.rx /\ n.buf = k.buf /\ n.got = k.got /\ n.fin = k.fin /\ n.rst = k.rst

LEMMA ConnFields ==
    ASSUME NEW k \in ConnType
    PROVE  /\ k.conn \in ConnStates /\ k.sent \in Nat /\ k.rx \in Nat
           /\ k.buf \in Seq(Nat) /\ k.got \in Seq(Nat)
           /\ k.fin \in BOOLEAN /\ k.rst \in BOOLEAN /\ k.write_enabled \in BOOLEAN
           /\ k.edge \in BOOLEAN
  BY DEF ConnType

LEMMA RaiseFields ==
    ASSUME NEW k \in ConnType, NEW n, n = Raise(k)
    PROVE  /\ n \in ConnType /\ n.conn = k.conn /\ SameData(k, n)
           /\ n.write_enabled = k.write_enabled /\ n.edge = Registered(k)
  <1>0. Registered(k) \in BOOLEAN
    BY DEF Registered
  <1>1. PICK b \in BOOLEAN : b = Registered(k)
    BY <1>0, Zenon
  <1>2. n = [k EXCEPT !.edge = b]
    BY <1>1 DEF Raise
  <1>3. n \in ConnType /\ n.conn = k.conn /\ n.edge = b /\ n.write_enabled = k.write_enabled
    BY <1>2 DEF ConnType
  <1>4. SameData(k, n)
    BY <1>2 DEF ConnType, SameData
  <1> QED
    BY <1>1, <1>3, <1>4

LEMMA ClosedFields ==
    ASSUME NEW k \in ConnType, NEW n, n = Closed(k), KernelOK(k)
    PROVE  n \in ConnType /\ n.conn = "closed" /\ SameData(k, n) /\ ~n.write_enabled
  <1>1. CASE k.conn = "closed"
    BY <1>1 DEF Closed, NotClosed, SameData, KernelOK
  <1>2. CASE k.conn # "closed"
    BY <1>2 DEF Closed, NotClosed, ConnType, ConnStates, SameData
  <1> QED
    BY <1>1, <1>2

(* What a peer does to its connection.                                     *)
PeerMoved(k, n) ==
    /\ n \in ConnType /\ n.conn = k.conn /\ n.buf = k.buf /\ n.got = k.got
    /\ n.write_enabled = k.write_enabled /\ n.edge = Registered(k)
    /\ \/ Reaches(k) /\ n.sent = k.sent + 1 /\ n.rx = k.rx + 1 /\ n.fin = k.fin /\ n.rst = k.rst
       \/ Reaches(k) /\ n.sent = k.sent /\ n.rx = k.rx /\ n.fin /\ n.rst = k.rst
       \/ n.sent = k.sent /\ n.rx = 0 /\ n.fin = k.fin /\ n.rst
    /\ k.conn \in {"backlog", "connected", "open", "closed"}

LEMMA PeerMovesFields ==
    ASSUME NEW k \in ConnType, NEW max, NEW n \in PeerMoves(k, max)
    PROVE  PeerMoved(k, n)
  <1>1. CASE Reaches(k) /\ n = Raise([k EXCEPT !.sent = @ + 1, !.rx = @ + 1])
    <2>1. PICK m : m = [k EXCEPT !.sent = @ + 1, !.rx = @ + 1]
      OBVIOUS
    <2>2. /\ m \in ConnType /\ m.conn = k.conn /\ m.buf = k.buf /\ m.got = k.got
          /\ m.write_enabled = k.write_enabled /\ m.sent = k.sent + 1 /\ m.rx = k.rx + 1
          /\ m.fin = k.fin /\ m.rst = k.rst
      <3>1. PICK a \in Nat, b \in Nat : a = k.sent + 1 /\ b = k.rx + 1
        BY ConnFields
      <3>2. m = [k EXCEPT !.sent = a, !.rx = b]
        BY <2>1, <3>1
      <3>3. m \in ConnType /\ m.conn = k.conn /\ m.sent = a /\ m.rx = b
        BY <3>2 DEF ConnType
      <3>4. /\ m.buf = k.buf /\ m.got = k.got /\ m.write_enabled = k.write_enabled
            /\ m.fin = k.fin /\ m.rst = k.rst
        BY <3>2 DEF ConnType
      <3> QED
        BY <3>1, <3>3, <3>4
    <2>3. n = Raise(m)
      BY <1>1, <2>1
    <2>4. /\ n \in ConnType /\ n.conn = m.conn /\ SameData(m, n)
          /\ n.write_enabled = m.write_enabled /\ n.edge = Registered(m)
      BY <2>2, <2>3, RaiseFields
    <2> QED
      BY <1>1, <2>2, <2>4 DEF PeerMoved, SameData, Registered, Reaches
  <1>2. CASE Reaches(k) /\ n = Raise([k EXCEPT !.fin = TRUE])
    <2>1. PICK m : m = [k EXCEPT !.fin = TRUE]
      OBVIOUS
    <2>2. /\ m \in ConnType /\ m.conn = k.conn /\ m.buf = k.buf /\ m.got = k.got
          /\ m.write_enabled = k.write_enabled /\ m.sent = k.sent /\ m.rx = k.rx
          /\ m.fin = TRUE /\ m.rst = k.rst
      BY <2>1 DEF ConnType
    <2>3. n = Raise(m)
      BY <1>2, <2>1
    <2>4. /\ n \in ConnType /\ n.conn = m.conn /\ SameData(m, n)
          /\ n.write_enabled = m.write_enabled /\ n.edge = Registered(m)
      BY <2>2, <2>3, RaiseFields
    <2> QED
      BY <1>2, <2>2, <2>4 DEF PeerMoved, SameData, Registered, Reaches
  <1>3. CASE /\ k.conn \in {"backlog", "connected", "open", "closed"}
             /\ n = Raise([k EXCEPT !.rst = TRUE, !.rx = 0])
    <2>1. PICK m : m = [k EXCEPT !.rst = TRUE, !.rx = 0]
      OBVIOUS
    <2>2. /\ m \in ConnType /\ m.conn = k.conn /\ m.buf = k.buf /\ m.got = k.got
          /\ m.write_enabled = k.write_enabled /\ m.sent = k.sent /\ m.rx = 0
          /\ m.fin = k.fin /\ m.rst = TRUE
      BY <2>1 DEF ConnType
    <2>3. n = Raise(m)
      BY <1>3, <2>1
    <2>4. /\ n \in ConnType /\ n.conn = m.conn /\ SameData(m, n)
          /\ n.write_enabled = m.write_enabled /\ n.edge = Registered(m)
      BY <2>2, <2>3, RaiseFields
    <2> QED
      BY <1>3, <2>2, <2>4 DEF PeerMoved, SameData, Registered
  <1> QED
    BY <1>1, <1>2, <1>3 DEF PeerMoves

(* How a connection may change while an entry of the batch speaks of it.   *)
Onward(k, n) ==
    /\ k.conn \in {"open", "closed"} => n.conn \in {"open", "closed"}
    /\ k.conn \in {"backlog", "connected"} => n.conn = k.conn
    /\ (k.fin => n.fin) /\ (k.rst => n.rst)
    /\ (k.fin \/ k.rst) /\ k.rx = 0 => n.rx = 0

LEMMA EntryStays ==
    ASSUME NEW e, EntryOK(e),
           \A c \in Clients : e.sock = Client(c) => Onward(cli[c], cli'[c]),
           \A c \in Clients : e.sock = Upstream(c) => Onward(up[c], up'[c])
    PROVE  EntryOK(e)'
  <1>1. ASSUME NEW c \in Clients, e.sock = Client(c)
        PROVE  cli'[c].conn \in {"open", "closed"} /\ (e.hup => cli'[c].fin \/ cli'[c].rst)
    BY <1>1 DEF EntryOK, Onward
  <1>2. ASSUME NEW c \in Clients, e.sock = Upstream(c)
        PROVE  up'[c].conn \in {"connected", "open", "closed"} /\ (e.hup => up'[c].fin \/ up'[c].rst)
    BY <1>2 DEF EntryOK, Onward
  <1> QED
    BY <1>1, <1>2 DEF EntryOK

-----------------------------------------------------------------------------
(* A step of one session: what it may change, and where the loop goes.     *)
OnlySession(c) ==
    /\ cli' \in [Clients -> ConnType] /\ up' \in [Clients -> ConnType]
    /\ run' \in Seq(JobType) /\ jobs' \in Seq(JobType)
    /\ \A d \in Clients \ {c} : /\ cli'[d] = cli[d] /\ up'[d] = up[d]
                                /\ KeepsJobs(run, jobs, run', jobs', d)
    /\ short' \in BOOLEAN /\ (short => short')
    /\ UNCHANGED <<acceptorVars, todo>>
    /\ Onward(cli[c], cli'[c])

LoopStays == UNCHANGED <<loop, cur, run>>
LoopHangs == loop = "read" /\ loop' = "hangup" /\ cur.hup /\ UNCHANGED <<cur, run>>
LoopLeaves == loop # "accept" /\ loop' \in {"batch", "shutdown", "stuck"} /\ cur' \in {cur, NoEntry}

(* Nothing but the session itself has to be looked at then.                *)
SessionAlone(c) ==
    /\ OnlySession(c) /\ ~Ended
    /\ \/ Onward(up[c], up'[c]) /\ LoopStays
       \/ Onward(up[c], up'[c]) /\ LoopHangs /\ cur.sock \in {Client(c), Upstream(c)}
          /\ (cur.sock = Upstream(c) => up'[c].rx = 0)
       \/ Onward(up[c], up'[c]) /\ LoopLeaves
          /\ (loop = "batch" \/ cur.sock \in {Client(c), Upstream(c)})
       \/ At("connect", Upstream(c)) /\ LoopLeaves

LEMMA OthersStand ==
    ASSUME TunnelInv, NEW c \in Clients, SessionAlone(c)
    PROVE  \A d \in Clients \ {c} :
              SessionOK(run, jobs, cli[d], up[d], short, d)' /\ NoticedOK(d)'
  <1> SUFFICES ASSUME NEW d \in Clients \ {c}
               PROVE  SessionOK(run, jobs, cli[d], up[d], short, d)' /\ NoticedOK(d)'
    OBVIOUS
  <1>1. /\ cli'[d] = cli[d] /\ up'[d] = up[d] /\ KeepsJobs(run, jobs, run', jobs', d)
        /\ short' \in BOOLEAN /\ (short => short') /\ todo' = todo
    BY DEF SessionAlone, OnlySession
  <1>2. SessionOK(run, jobs, cli[d], up[d], short, d) /\ NoticedOK(d)
    BY DEF TunnelInv
  <1>3. PICK k, u, l, r, q, r2, q2, l2 :
           /\ k = cli[d] /\ u = up[d] /\ l = short /\ r = run /\ q = jobs
           /\ r2 = run' /\ q2 = jobs' /\ l2 = short'
    OBVIOUS
  <1>4. SessionOK(r, q, k, u, l, d) /\ KeepsJobs(r, q, r2, q2, d) /\ (l => l2)
    BY <1>1, <1>2, <1>3
  <1>5. PairOK(k, u) /\ JobsOK(r2, q2, k, u, d)
    BY <1>4 DEF SessionOK, JobsOK, KeepsJobs
  <1>6. ReplyOK(k, u, l2)
    BY <1>4 DEF SessionOK, ReplyOK
  <1>7. RequestOK(r2, q2, k, u, l2, d)
    <2>1. RequestOK(r, q, k, u, l, d)
      BY <1>4 DEF SessionOK
    <2>2. Rising(u.got) /\ (~l2 => Counts(u.got))
      BY <1>4, <2>1 DEF RequestOK
    <2>3. ASSUME u.write_enabled
          PROVE  \E lo, hi \in Nat : Chains(r2, q2, d, lo, hi) /\ Follows(k, u, l2, lo, hi)
      <3>1. PICK lo \in Nat, hi \in Nat : Chains(r, q, d, lo, hi) /\ Follows(k, u, l, lo, hi)
        BY <2>1, <2>3 DEF RequestOK
      <3>2. Chains(r2, q2, d, lo, hi)
        BY <1>4, <3>1 DEF KeepsJobs
      <3>3. Follows(k, u, l2, lo, hi)
        BY <1>4, <3>1 DEF Follows
      <3> QED
        BY <3>2, <3>3
    <2> QED
      BY <2>2, <2>3 DEF RequestOK
  <1>8. SessionOK(r2, q2, k, u, l2, d)
    BY <1>5, <1>6, <1>7 DEF SessionOK
  <1>9. SessionOK(run, jobs, cli[d], up[d], short, d)'
    BY <1>1, <1>3, <1>8
  <1>10. ASSUME NEW s \in {Client(d), Upstream(d)}, At("read", s)
         PROVE  At("read", s)'
    <2>1. cur.sock \notin {Client(c), Upstream(c)} /\ loop = "read"
      BY <1>10, SocketsApart DEF At
    <2>2. cur.sock = s
      BY <1>10 DEF At
    <2> QED
      BY <1>10, <2>1, <2>2 DEF SessionAlone, LoopStays, LoopLeaves, LoopHangs, At
  <1>11. ASSUME NEW s \in {Client(d), Upstream(d)}, NEW n, Noticed(s, n) PROVE Noticed(s, n)'
    <2>1. ~Ended
      BY DEF SessionAlone
    <2> QED
      BY <1>1, <1>10, <1>11, <2>1 DEF Noticed
  <1>12. NoticedOK(d)'
    <2>1. Due(k) => Noticed(Client(d), k)'
      BY <1>2, <1>3, <1>11 DEF NoticedOK
    <2>2. Due(u) => Noticed(Upstream(d), u)'
      BY <1>2, <1>3, <1>11 DEF NoticedOK
    <2>3. cli'[d] = k /\ up'[d] = u
      BY <1>1, <1>3
    <2> QED
      BY <2>1, <2>2, <2>3 DEF NoticedOK, Noticed
  <1> QED
    BY <1>9, <1>12

LEMMA BatchStands ==
    ASSUME TunnelInv, NEW c \in Clients, SessionAlone(c)
    PROVE  TunnelTypes' /\ BacklogOK' /\ BatchOK' /\ HandlingOK' /\ BacklogNoticed'
  <1>1. TunnelTypes /\ BacklogOK /\ BatchOK /\ HandlingOK /\ BacklogNoticed
    BY DEF TunnelInv
  <1>2. /\ cli' \in [Clients -> ConnType] /\ up' \in [Clients -> ConnType]
        /\ run' \in Seq(JobType) /\ jobs' \in Seq(JobType)
        /\ \A d \in Clients \ {c} : cli'[d] = cli[d] /\ up'[d] = up[d]
        /\ short' \in BOOLEAN /\ todo' = todo /\ backlog' = backlog
        /\ bound' = bound /\ accept_job' = accept_job /\ listener_edge' = listener_edge
        /\ accept_failed' = accept_failed
        /\ Onward(cli[c], cli'[c]) /\ ~Ended
    BY DEF SessionAlone, OnlySession, acceptorVars
  <1>3. \A d \in Clients : Onward(cli[d], cli'[d])
    BY <1>2 DEF Onward
  <1>4. \A d \in Clients : Onward(up[d], up'[d]) \/ (d = c /\ At("connect", Upstream(c)) /\ LoopLeaves)
    BY <1>2 DEF Onward, SessionAlone
  <1>5. loop' \in LoopPlaces /\ cur' \in EntryType
    BY <1>1, NoEntryTyped
    DEF SessionAlone, LoopStays, LoopHangs, LoopLeaves, LoopPlaces, TunnelTypes
  <1>6. TunnelTypes'
    BY <1>1, <1>2, <1>5 DEF TunnelTypes
  <1>7. BacklogOK'
    <2>1. \A i \in 1..Len(backlog) : backlog[i] \in Clients
      BY <1>1 DEF TunnelTypes
    <2>2. \A d \in Clients : cli[d].conn = "backlog" => cli'[d].conn = "backlog"
      BY <1>3 DEF Onward
    <2>3. \A i \in 1..Len(backlog) : cli'[backlog[i]].conn = "backlog"
      BY <1>1, <2>1, <2>2 DEF BacklogOK
    <2> QED
      BY <1>1, <1>2, <2>3 DEF BacklogOK
  <1>8. ASSUME NEW e, EntryOK(e), e.sock = cur.sock => ~LoopLeaves,
               \A f \in todo : f.sock # cur.sock
        PROVE  EntryOK(e)'
    <2>1. ASSUME NEW d \in Clients, e.sock = Upstream(d) PROVE Onward(up[d], up'[d])
      BY <1>4, <1>8, <2>1 DEF At
    <2> QED
      BY <1>3, <1>8, <2>1, EntryStays
  <1>9. BatchOK'
    <2>1. ASSUME NEW e \in todo PROVE EntryOK(e)'
      <3>1. EntryOK(e)
        BY <1>1 DEF BatchOK
      <3>2. ASSUME NEW d \in Clients, e.sock = Upstream(d) PROVE Onward(up[d], up'[d])
        <4>1. At("connect", Upstream(c)) => e.sock # Upstream(c)
          BY <1>1 DEF HandlingOK, At
        <4> QED
          BY <1>4, <3>2, <4>1
      <3> QED
        BY <1>3, <3>1, <3>2, EntryStays
    <2>2. loop' = "poll" => loop = "poll" /\ run' = run
      BY DEF SessionAlone, LoopStays, LoopHangs, LoopLeaves
    <2> QED
      BY <1>1, <1>2, <2>1, <2>2 DEF BatchOK
  <1>10. HandlingOK'
    <2>1. CASE LoopLeaves
      BY <2>1 DEF HandlingOK, LoopLeaves
    <2>2. CASE LoopStays /\ ~LoopLeaves
      <3>1. \A d \in Clients : Onward(up[d], up'[d])
        BY <1>4, <2>2
      <3>2. EntryOK(cur) => EntryOK(cur)'
        <4>1. PICK e : e = cur
          OBVIOUS
        <4>2. EntryOK(e) => EntryOK(e)'
          BY <1>3, <3>1, EntryStays
        <4>3. cur' = e
          BY <2>2, <4>1 DEF LoopStays
        <4> QED
          BY <4>1, <4>2, <4>3 DEF EntryOK
      <3>3. loop' = loop /\ cur' = cur
        BY <2>2 DEF LoopStays
      <3>4. ASSUME NEW d \in Clients, loop \in {"read", "hangup"}, cur.sock = Upstream(d)
            PROVE  up'[d].conn # "connected"
        <4>1. up[d].conn \in {"open", "closed"}
          BY <1>1, <3>4 DEF HandlingOK, EntryOK
        <4> QED
          BY <3>1, <4>1 DEF Onward
      <3>5. ASSUME NEW d \in Clients, loop = "hangup", cur.sock = Upstream(d) PROVE up'[d].rx = 0
        <4>1. cur.hup /\ up[d].rx = 0 /\ (up[d].fin \/ up[d].rst)
          BY <1>1, <3>5 DEF HandlingOK, EntryOK
        <4> QED
          BY <3>1, <4>1 DEF Onward
      <3>6. ASSUME NEW d \in Clients, loop = "connect", cur.sock = Upstream(d)
            PROVE  up'[d].conn = "connected"
        BY <1>1, <3>1, <3>6 DEF HandlingOK, Onward
      <3> QED
        BY <1>1, <1>2, <3>2, <3>3, <3>4, <3>5, <3>6 DEF HandlingOK
    <2>3. CASE LoopHangs /\ ~LoopLeaves /\ ~LoopStays
      <3>1. \A d \in Clients : Onward(up[d], up'[d])
        BY <1>4, <2>3
      <3>2. EntryOK(cur) /\ EntryOK(cur)' /\ cur' = cur
        <4>1. PICK e : e = cur
          OBVIOUS
        <4>2. EntryOK(e) => EntryOK(e)'
          BY <1>3, <3>1, EntryStays
        <4>3. cur' = e /\ EntryOK(cur)
          BY <1>1, <2>3, <4>1 DEF LoopHangs, HandlingOK
        <4> QED
          BY <4>1, <4>2, <4>3 DEF EntryOK
      <3>3. ASSUME NEW d \in Clients, cur.sock = Upstream(d)
            PROVE  up'[d].conn # "connected" /\ up'[d].rx = 0
        <4>1. up[d].conn \in {"open", "closed"}
          BY <1>1, <2>3, <3>2, <3>3 DEF HandlingOK, EntryOK, LoopHangs
        <4>2. d = c
          BY <2>3, <3>3, SocketsApart DEF SessionAlone
        <4>3. up'[c].rx = 0
          BY <2>3, <3>3, <4>2 DEF SessionAlone
        <4> QED
          BY <3>1, <4>1, <4>2, <4>3 DEF Onward
      <3> QED
        BY <1>1, <1>2, <2>3, <3>2, <3>3 DEF HandlingOK, LoopHangs
    <2> QED
      BY <2>1, <2>2, <2>3 DEF SessionAlone
  <1>11. BacklogNoticed'
    <2>1. loop = "accept" => loop' = "accept"
      BY DEF SessionAlone, LoopStays, LoopHangs, LoopLeaves
    <2> QED
      BY <1>1, <1>2, <2>1 DEF BacklogNoticed
  <1> QED
    BY <1>6, <1>7, <1>9, <1>10, <1>11

LEMMA SessionStep ==
    ASSUME TunnelInv, NEW c \in Clients, SessionAlone(c),
           SessionOK(run, jobs, cli[c], up[c], short, c)', NoticedOK(c)', LoopSurvives'
    PROVE  TunnelInv'
  <1>1. ASSUME NEW d \in Clients
        PROVE  SessionOK(run, jobs, cli[d], up[d], short, d)' /\ NoticedOK(d)'
    BY OthersStand
  <1>2. TunnelTypes' /\ BacklogOK' /\ BatchOK' /\ HandlingOK' /\ BacklogNoticed'
    BY BatchStands
  <1> QED
    BY <1>1, <1>2 DEF TunnelInv

-----------------------------------------------------------------------------
(* The same, with the session's two connections as they are afterwards.    *)
SessionMoves(c, k, u) ==
    /\ cli' = [cli EXCEPT ![c] = k] /\ up' = [up EXCEPT ![c] = u]
    /\ run' \in Seq(JobType) /\ jobs' \in Seq(JobType)
    /\ \A d \in Clients \ {c} : KeepsJobs(run, jobs, run', jobs', d)
    /\ short' \in BOOLEAN /\ (short => short')
    /\ UNCHANGED <<acceptorVars, todo>>
    /\ Onward(cli[c], k) /\ ~Ended

LoopMoves(c, u) ==
    \/ Onward(up[c], u) /\ LoopStays
    \/ Onward(up[c], u) /\ LoopHangs /\ cur.sock \in {Client(c), Upstream(c)}
       /\ (cur.sock = Upstream(c) => u.rx = 0)
    \/ Onward(up[c], u) /\ LoopLeaves
       /\ (loop = "batch" \/ cur.sock \in {Client(c), Upstream(c)})
    \/ At("connect", Upstream(c)) /\ LoopLeaves

LEMMA SessionMovesStep ==
    ASSUME TunnelInv, NEW c \in Clients, NEW k \in ConnType, NEW u \in ConnType,
           SessionMoves(c, k, u), LoopMoves(c, u),
           SessionOK(run', jobs', k, u, short', c),
           Due(k) => Noticed(Client(c), k)', Due(u) => Noticed(Upstream(c), u)',
           \/ ~Ended'
           \/ k.rst /\ loop' = "shutdown"
           \/ k.rst /\ loop' = "stuck" /\ cur'.sock = Upstream(c)
    PROVE  TunnelInv'
  <1>1. cli \in [Clients -> ConnType] /\ up \in [Clients -> ConnType]
    BY DEF TunnelInv, TunnelTypes
  <1>2. /\ cli' \in [Clients -> ConnType] /\ cli'[c] = k
        /\ \A d \in Clients \ {c} : cli'[d] = cli[d]
    BY <1>1 DEF SessionMoves
  <1>3. /\ up' \in [Clients -> ConnType] /\ up'[c] = u
        /\ \A d \in Clients \ {c} : up'[d] = up[d]
    BY <1>1 DEF SessionMoves
  <1>4. OnlySession(c) /\ ~Ended
    BY <1>2, <1>3 DEF SessionMoves, OnlySession
  <1>5. SessionAlone(c)
    BY <1>3, <1>4 DEF LoopMoves, SessionAlone
  <1>6. SessionOK(run, jobs, cli[c], up[c], short, c)'
    BY <1>2, <1>3
  <1>7. NoticedOK(c)'
    BY <1>2, <1>3 DEF NoticedOK, Noticed
  <1>8. LoopSurvives'
    BY <1>2 DEF LoopSurvives, Ended
  <1> QED
    BY <1>5, <1>6, <1>7, <1>8, SessionStep

(* What holds of a session and its two connections before a step.          *)
LEMMA SessionOf ==
    ASSUME TunnelInv, NEW c \in Clients
    PROVE  \E k, u \in ConnType :
              /\ k = cli[c] /\ u = up[c] /\ SessionOK(run, jobs, k, u, short, c)
              /\ Due(k) => Noticed(Client(c), k)
              /\ Due(u) => Noticed(Upstream(c), u)
  <1>1. PICK k \in ConnType, u \in ConnType : k = cli[c] /\ u = up[c]
    BY DEF TunnelInv, TunnelTypes
  <1>2. SessionOK(run, jobs, k, u, short, c) /\ NoticedOK(c)
    BY <1>1 DEF TunnelInv
  <1> QED
    BY <1>1, <1>2 DEF NoticedOK, Noticed

LEMMA NoticeStays ==
    ASSUME NEW s, NEW k, Noticed(s, k), ~Ended, todo' = todo,
           At("read", s) => At("read", s)'
    PROVE  Noticed(s, k)'
  BY DEF Noticed

LEMMA SameJobs ==
    ASSUME NEW r, NEW q, NEW c
    PROVE  KeepsJobs(r, q, r, q, c)
  BY DEF KeepsJobs

LEMMA SameConn ==
    ASSUME NEW f \in [Clients -> ConnType], NEW c \in Clients
    PROVE  f = [f EXCEPT ![c] = f[c]]
  OBVIOUS

-----------------------------------------------------------------------------
(* The peers.                                                              *)
LEMMA ClientMoveOK ==
    ASSUME NEW k \in ConnType, NEW u \in ConnType, NEW n, PeerMoved(k, n),
           NEW r, NEW q, NEW l, NEW c, SessionOK(r, q, k, u, l, c)
    PROVE  SessionOK(r, q, n, u, l, c) /\ Onward(k, n) /\ (Due(n) => n.edge)
  <1>1. /\ n \in ConnType /\ n.conn = k.conn /\ n.buf = k.buf /\ n.got = k.got
        /\ n.write_enabled = k.write_enabled /\ n.edge = Registered(k)
    BY DEF PeerMoved
  <1>2. \/ Reaches(k) /\ n.sent = k.sent + 1 /\ n.rx = k.rx + 1 /\ n.fin = k.fin /\ n.rst = k.rst
        \/ Reaches(k) /\ n.sent = k.sent /\ n.rx = k.rx /\ n.fin /\ n.rst = k.rst
        \/ n.sent = k.sent /\ n.rx = 0 /\ n.fin = k.fin /\ n.rst
    BY DEF PeerMoved
  <1>3. k.sent \in Nat /\ k.rx \in Nat /\ k.conn \in ConnStates
    BY ConnFields
  <1>4. KernelOK(k) /\ PairOK(k, u) /\ JobsOK(r, q, k, u, c) /\ ReplyOK(k, u, l)
        /\ RequestOK(r, q, k, u, l, c)
    BY DEF SessionOK, PairOK
  <1>5. KernelOK(n)
    BY <1>1, <1>2, <1>3, <1>4 DEF KernelOK, Reaches
  <1>6. PairOK(n, u)
    BY <1>1, <1>4, <1>5 DEF PairOK
  <1>7. JobsOK(r, q, n, u, c) /\ ReplyOK(n, u, l)
    BY <1>1, <1>4 DEF JobsOK, ReplyOK
  <1>8. ~n.rst => ~k.rst /\ n.sent - n.rx = k.sent - k.rx
    BY <1>2, <1>3 DEF Reaches
  <1>9. \A lo, hi \in Nat : Follows(k, u, l, lo, hi) => Follows(n, u, l, lo, hi)
    BY <1>1, <1>8 DEF Follows
  <1>10. RequestOK(r, q, n, u, l, c)
    BY <1>4, <1>9 DEF RequestOK
  <1>11. Onward(k, n)
    BY <1>1, <1>2, <1>3 DEF Onward, Reaches
  <1>12. Due(n) => n.edge
    BY <1>1 DEF Due, Registered
  <1> QED
    BY <1>6, <1>7, <1>10, <1>11, <1>12 DEF SessionOK

LEMMA UpstreamMoveOK ==
    ASSUME NEW k \in ConnType, NEW u \in ConnType, NEW n, PeerMoved(u, n),
           NEW r, NEW q, NEW l, NEW c, SessionOK(r, q, k, u, l, c)
    PROVE  SessionOK(r, q, k, n, l, c) /\ Onward(u, n) /\ (Due(n) => n.edge)
  <1>1. /\ n \in ConnType /\ n.conn = u.conn /\ n.buf = u.buf /\ n.got = u.got
        /\ n.write_enabled = u.write_enabled /\ n.edge = Registered(u)
        /\ u.conn \in {"backlog", "connected", "open", "closed"}
    BY DEF PeerMoved
  <1>2. \/ Reaches(u) /\ n.sent = u.sent + 1 /\ n.rx = u.rx + 1 /\ n.fin = u.fin /\ n.rst = u.rst
        \/ Reaches(u) /\ n.sent = u.sent /\ n.rx = u.rx /\ n.fin /\ n.rst = u.rst
        \/ n.sent = u.sent /\ n.rx = 0 /\ n.fin = u.fin /\ n.rst
    BY DEF PeerMoved
  <1>3. u.sent \in Nat /\ u.rx \in Nat /\ u.conn \in ConnStates /\ k.got \in Seq(Nat)
    BY ConnFields
  <1>4. KernelOK(u) /\ PairOK(k, u) /\ JobsOK(r, q, k, u, c) /\ ReplyOK(k, u, l)
        /\ RequestOK(r, q, k, u, l, c)
    BY DEF SessionOK, PairOK
  <1>5. KernelOK(n)
    BY <1>1, <1>2, <1>3, <1>4 DEF KernelOK, Reaches
  <1>6. PairOK(k, n)
    BY <1>1, <1>4, <1>5 DEF PairOK
  <1>7. JobsOK(r, q, k, n, c)
    BY <1>1, <1>2, <1>4 DEF JobsOK, Reaches
  <1>8. ReplyOK(k, n, l)
    <2>1. u.sent - u.rx <= n.sent - n.rx /\ (~n.rst => ~u.rst /\ n.sent - n.rx = u.sent - u.rx)
      BY <1>2, <1>3, <1>4 DEF KernelOK, Reaches
    <2>2. \A i \in 1..Len(k.got) : k.got[i] <= n.sent - n.rx
      <3>1. n.sent - n.rx \in Int /\ u.sent - u.rx \in Int /\ \A i \in 1..Len(k.got) : k.got[i] \in Int
        BY <1>1, <1>3, ConnFields
      <3>2. \A i \in 1..Len(k.got) : k.got[i] <= u.sent - u.rx
        BY <1>4 DEF ReplyOK
      <3> QED
        BY <2>1, <3>1, <3>2
    <2>3. u.rst \/ (u.fin /\ u.rx = 0) => n.rst \/ (n.fin /\ n.rx = 0)
      BY <1>2 DEF Reaches
    <2> QED
      BY <1>4, <2>1, <2>2, <2>3 DEF ReplyOK
  <1>9. RequestOK(r, q, k, n, l, c)
    BY <1>1, <1>4 DEF RequestOK, Follows
  <1>10. Onward(u, n)
    BY <1>1, <1>2, <1>3 DEF Onward, Reaches
  <1>11. Due(n) => n.edge
    BY <1>1 DEF Due, Registered
  <1> QED
    BY <1>6, <1>7, <1>8, <1>9, <1>10, <1>11 DEF SessionOK

LEMMA ClientActsKeeps ==
    ASSUME TunnelInv, NEW c \in Clients, ~Ended, ClientActs(c)
    PROVE  TunnelInv'
  <1>1. PICK k \in ConnType, u \in ConnType :
           /\ k = cli[c] /\ u = up[c] /\ SessionOK(run, jobs, k, u, short, c)
           /\ Due(k) => Noticed(Client(c), k)
           /\ Due(u) => Noticed(Upstream(c), u)
    BY SessionOf
  <1>2. PICK n \in PeerMoves(k, MaxSent) : cli' = [cli EXCEPT ![c] = n]
    BY <1>1 DEF ClientActs
  <1>3. PeerMoved(k, n)
    BY PeerMovesFields
  <1>4. n \in ConnType
    BY <1>3 DEF PeerMoved
  <1>5. SessionOK(run, jobs, n, u, short, c) /\ Onward(k, n) /\ (Due(n) => n.edge)
    BY <1>1, <1>3, ClientMoveOK
  <1>6. UNCHANGED <<acceptorVars, up, jobs, todo, run, loop, cur, short>>
    BY DEF ClientActs, batchVars
  <1>7. TunnelTypes
    BY DEF TunnelInv
  <1>8. up' = [up EXCEPT ![c] = u]
    BY <1>1, <1>6, <1>7, SameConn DEF TunnelTypes
  <1>9. SessionMoves(c, n, u)
    BY <1>1, <1>2, <1>5, <1>6, <1>7, <1>8, SameJobs DEF SessionMoves, TunnelTypes
  <1>10. LoopMoves(c, u)
    BY <1>1, <1>6 DEF LoopMoves, LoopStays, Onward
  <1>11. Due(n) => Noticed(Client(c), n)'
    BY <1>5 DEF Noticed
  <1>12. Due(u) => Noticed(Upstream(c), u)'
    BY <1>1, <1>6, NoticeStays DEF At
  <1>13. SessionOK(run', jobs', n, u, short', c) /\ ~Ended'
    BY <1>5, <1>6 DEF Ended
  <1> QED
    BY <1>4, <1>9, <1>10, <1>11, <1>12, <1>13, SessionMovesStep

LEMMA UpstreamActsKeeps ==
    ASSUME TunnelInv, NEW c \in Clients, ~Ended, UpstreamActs(c)
    PROVE  TunnelInv'
  <1>1. PICK k \in ConnType, u \in ConnType :
           /\ k = cli[c] /\ u = up[c] /\ SessionOK(run, jobs, k, u, short, c)
           /\ Due(k) => Noticed(Client(c), k)
           /\ Due(u) => Noticed(Upstream(c), u)
    BY SessionOf
  <1>2. PICK n \in PeerMoves(u, MaxReply) : up' = [up EXCEPT ![c] = n]
    BY <1>1 DEF UpstreamActs
  <1>3. PeerMoved(u, n)
    BY PeerMovesFields
  <1>4. n \in ConnType
    BY <1>3 DEF PeerMoved
  <1>5. SessionOK(run, jobs, k, n, short, c) /\ Onward(u, n) /\ (Due(n) => n.edge)
    BY <1>1, <1>3, UpstreamMoveOK
  <1>6. UNCHANGED <<acceptorVars, cli, jobs, todo, run, loop, cur, short>>
    BY DEF UpstreamActs, batchVars
  <1>7. TunnelTypes
    BY DEF TunnelInv
  <1>8. cli' = [cli EXCEPT ![c] = k] /\ Onward(cli[c], k)
    BY <1>1, <1>6, <1>7, SameConn DEF TunnelTypes, Onward
  <1>9. SessionMoves(c, k, n)
    BY <1>1, <1>2, <1>6, <1>7, <1>8, SameJobs DEF SessionMoves, TunnelTypes
  <1>10. LoopMoves(c, n)
    BY <1>1, <1>5, <1>6 DEF LoopMoves, LoopStays
  <1>11. Due(n) => Noticed(Upstream(c), n)'
    BY <1>5 DEF Noticed
  <1>12. Due(k) => Noticed(Client(c), k)'
    BY <1>1, <1>6, NoticeStays DEF At
  <1>13. SessionOK(run', jobs', k, n, short', c) /\ ~Ended'
    BY <1>5, <1>6 DEF Ended
  <1> QED
    BY <1>4, <1>9, <1>10, <1>11, <1>12, <1>13, SessionMovesStep

(* The handshake ends.                                                     *)
LEMMA AnswerOK ==
    ASSUME NEW k \in ConnType, NEW u \in ConnType, u.conn = "connecting",
           NEW n \in ConnType, n.conn = "connected", n.write_enabled = u.write_enabled,
           n.sent = u.sent, n.rx = u.rx, n.fin = u.fin, n.buf = u.buf, n.got = u.got,
           NEW r, NEW q, NEW l, NEW c, SessionOK(r, q, k, u, l, c)
    PROVE  SessionOK(r, q, k, n, l, c) /\ Onward(u, n)
  <1>1. PairOK(k, u) /\ JobsOK(r, q, k, u, c) /\ ReplyOK(k, u, l) /\ RequestOK(r, q, k, u, l, c)
    BY DEF SessionOK
  <1>2. u.sent = 0 /\ u.rx = 0 /\ ~u.rst /\ k.got = <<>> /\ u.got = <<>>
    BY <1>1, ConnFields DEF PairOK, KernelOK
  <1>3. PairOK(k, n)
    BY <1>1, <1>2 DEF PairOK, KernelOK
  <1>4. JobsOK(r, q, k, n, c)
    BY <1>1, <1>2 DEF JobsOK
  <1>5. ReplyOK(k, n, l)
    BY <1>1, <1>2 DEF ReplyOK
  <1>6. RequestOK(r, q, k, n, l, c)
    BY <1>1 DEF RequestOK, Follows
  <1>7. Onward(u, n)
    BY <1>2 DEF Onward
  <1> QED
    BY <1>3, <1>4, <1>5, <1>6, <1>7 DEF SessionOK

LEMMA UpstreamAnswersKeeps ==
    ASSUME TunnelInv, NEW c \in Clients, ~Ended, UpstreamAnswers(c)
    PROVE  TunnelInv'
  <1>1. PICK k \in ConnType, u \in ConnType :
           /\ k = cli[c] /\ u = up[c] /\ SessionOK(run, jobs, k, u, short, c)
           /\ Due(k) => Noticed(Client(c), k)
           /\ Due(u) => Noticed(Upstream(c), u)
    BY SessionOf
  <1>2. TunnelTypes
    BY DEF TunnelInv
  <1>3. PICK b \in BOOLEAN :
           up' = [up EXCEPT ![c] = [@ EXCEPT !.conn = "connected", !.edge = TRUE, !.rst = b]]
    BY DEF UpstreamAnswers
  <1>4. PICK n : n = [u EXCEPT !.conn = "connected", !.edge = TRUE, !.rst = b]
    OBVIOUS
  <1>5. n \in ConnType /\ n.conn = "connected" /\ n.write_enabled = u.write_enabled
    BY <1>4 DEF ConnType, ConnStates
  <1>6. n.sent = u.sent /\ n.rx = u.rx /\ n.fin = u.fin /\ n.buf = u.buf /\ n.got = u.got
    BY <1>4 DEF ConnType
  <1>7. up' = [up EXCEPT ![c] = n] /\ u.conn = "connecting"
    BY <1>1, <1>2, <1>3, <1>4 DEF UpstreamAnswers, TunnelTypes
  <1>8. SessionOK(run, jobs, k, n, short, c) /\ Onward(u, n)
    BY <1>1, <1>5, <1>6, <1>7, AnswerOK
  <1>9. UNCHANGED <<acceptorVars, cli, jobs, todo, run, loop, cur, short>>
    BY DEF UpstreamAnswers, batchVars
  <1>10. cli' = [cli EXCEPT ![c] = k] /\ Onward(cli[c], k)
    BY <1>1, <1>2, <1>9, SameConn DEF TunnelTypes, Onward
  <1>11. SessionMoves(c, k, n)
    BY <1>2, <1>7, <1>9, <1>10, SameJobs DEF SessionMoves, TunnelTypes
  <1>12. LoopMoves(c, n)
    BY <1>1, <1>8, <1>9 DEF LoopMoves, LoopStays
  <1>13. Due(n) => Noticed(Upstream(c), n)'
    BY <1>5 DEF Due
  <1>14. Due(k) => Noticed(Client(c), k)'
    BY <1>1, <1>9, NoticeStays DEF At
  <1>15. SessionOK(run', jobs', k, n, short', c) /\ ~Ended'
    BY <1>8, <1>9 DEF Ended
  <1> QED
    BY <1>5, <1>11, <1>12, <1>13, <1>14, <1>15, SessionMovesStep

-----------------------------------------------------------------------------
(* A queue in which a job of one kind, not a send, may have been added.    *)
Grows(r, q, s, kind, c) ==
    /\ \A l : l # kind => (Waits(r, s, l, c) <=> Waits(r, q, l, c))
    /\ \A l : Waits(r, q, l, c) => Waits(r, s, l, c)
    /\ \A lo, hi \in Nat : Chains(r, q, c, lo, hi) => Chains(r, s, c, lo, hi)

LEMMA ToldGrows ==
    ASSUME NEW r \in Seq(JobType), NEW q \in Seq(JobType), NEW c \in Clients,
           NEW kind \in {"flush", "shut_client", "shut_upstream"},
           NEW t \in {<<>>, <<Job(kind, c, <<>>)>>}, NEW s, s = q \o t
    PROVE  /\ s \in Seq(JobType) /\ Grows(r, q, s, kind, c)
           /\ \A d \in Clients \ {c} : KeepsJobs(r, q, r, s, d)
           /\ t # <<>> => Waits(r, s, kind, c)
  <1>1. CASE t = <<>>
    <2>1. s = q
      BY <1>1, NoJobAdded
    <2> QED
      BY <1>1, <2>1, SameJobs DEF Grows
  <1>2. CASE t = <<Job(kind, c, <<>>)>>
    <2>1. PICK j : j = Job(kind, c, <<>>)
      OBVIOUS
    <2>2. j \in JobType /\ j.kind = kind /\ j.c = c
      BY <2>1 DEF Job, JobType
    <2>3. s = Append(q, j)
      BY <1>2, <2>1, <2>2, OneJobAdded
    <2>4. /\ s \in Seq(JobType)
          /\ \A d \in Clients \ {c} : KeepsJobs(r, q, r, s, d)
          /\ \A l : Waits(r, s, l, c) <=> Waits(r, q, l, c) \/ l = kind
      BY <2>2, <2>3, AddJob
    <2>5. \A lo, hi \in Nat : Chains(r, q, c, lo, hi) => Chains(r, s, c, lo, hi)
      BY <2>2, <2>3, AddJob
    <2> QED
      BY <2>4, <2>5 DEF Grows
  <1> QED
    BY <1>1, <1>2

(* What a request waits for is kept when the queue grows and the           *)
(* connections keep what has been read and written.                        *)
LEMMA RequestGrows ==
    ASSUME NEW k, NEW u, NEW n, NEW m, NEW r, NEW q, NEW s, NEW l, NEW c, NEW kind,
           RequestOK(r, q, k, u, l, c), Grows(r, q, s, kind, c),
           SameData(k, n), m.got = u.got, m.write_enabled => u.write_enabled,
           m.conn \notin {"open", "closed"} => u.conn \notin {"open", "closed"}
    PROVE  RequestOK(r, s, n, m, l, c)
  <1>1. Rising(m.got) /\ (~l => Counts(m.got))
    BY DEF RequestOK
  <1>2. ASSUME m.write_enabled
        PROVE  \E lo, hi \in Nat : Chains(r, s, c, lo, hi) /\ Follows(n, m, l, lo, hi)
    <2>1. PICK lo \in Nat, hi \in Nat : Chains(r, q, c, lo, hi) /\ Follows(k, u, l, lo, hi)
      BY <1>2 DEF RequestOK
    <2>2. Chains(r, s, c, lo, hi)
      BY <2>1 DEF Grows
    <2>3. Follows(n, m, l, lo, hi)
      BY <2>1 DEF Follows, SameData
    <2> QED
      BY <2>2, <2>3
  <1> QED
    BY <1>1, <1>2 DEF RequestOK

(* The connector's event.                                                  *)
LEMMA ConnectedOK ==
    ASSUME NEW k \in ConnType, NEW u \in ConnType, u.conn = "connected",
           NEW n \in ConnType, SameData(u, n), n.write_enabled = u.write_enabled,
           NEW r, NEW q, NEW s, NEW l, NEW c, SessionOK(r, q, k, u, l, c),
           \/ n.conn = "dropped" /\ u.rst /\ Grows(r, q, s, "shut_client", c)
           \/ n.conn = "open" /\ Grows(r, q, s, "flush", c)
              /\ (k.conn = "open" => Waits(r, s, "flush", c))
    PROVE  SessionOK(r, s, k, n, l, c)
  <1>1. PairOK(k, u) /\ JobsOK(r, q, k, u, c) /\ ReplyOK(k, u, l) /\ RequestOK(r, q, k, u, l, c)
    BY DEF SessionOK
  <1>2. /\ n.sent = u.sent /\ n.rx = u.rx /\ n.buf = u.buf /\ n.got = u.got
        /\ n.fin = u.fin /\ n.rst = u.rst
    BY DEF SameData
  <1>3. PairOK(k, n)
    BY <1>1, <1>2 DEF PairOK, KernelOK
  <1>4. JobsOK(r, s, k, n, c)
    BY <1>1, <1>2 DEF JobsOK, Grows
  <1>5. ReplyOK(k, n, l)
    BY <1>1, <1>2 DEF ReplyOK
  <1>6. RequestOK(r, s, k, n, l, c)
    <2>1. SameData(k, k) /\ u.conn \notin {"open", "closed"}
      BY DEF SameData
    <2> QED
      BY <1>1, <1>2, <2>1, RequestGrows
  <1> QED
    BY <1>3, <1>4, <1>5, <1>6 DEF SessionOK

(* The same when a reset comes before on_connect asks for an error again.  *)
LEMMA ConnectedThenReset ==
    ASSUME NEW k \in ConnType, NEW u \in ConnType, u.conn = "connected",
           NEW n \in ConnType, n.conn = "open", n.rst, n.rx = 0, n.sent = u.sent,
           n.buf = u.buf, n.got = u.got, n.write_enabled = u.write_enabled,
           NEW r, NEW q, NEW l, NEW c, SessionOK(r, q, k, u, l, c)
    PROVE  SessionOK(r, q, k, n, l, c)
  <1>1. PairOK(k, u) /\ JobsOK(r, q, k, u, c) /\ ReplyOK(k, u, l) /\ RequestOK(r, q, k, u, l, c)
    BY DEF SessionOK
  <1>2. /\ n.conn = "open" /\ n.rst /\ n.rx = 0 /\ n.sent = u.sent /\ n.buf = u.buf
        /\ n.got = u.got /\ n.write_enabled = u.write_enabled
    OBVIOUS
  <1>3. u.sent \in Nat /\ u.rx \in Nat
    BY ConnFields
  <1>4. PairOK(k, n)
    BY <1>1, <1>2, <1>3 DEF PairOK, KernelOK
  <1>5. JobsOK(r, q, k, n, c)
    BY <1>1, <1>2 DEF JobsOK
  <1>6. ReplyOK(k, n, l)
    <2>1. Rising(k.got) /\ (~l => Counts(k.got))
      BY <1>1 DEF ReplyOK
    <2>2. \A i \in 1..Len(k.got) : k.got[i] <= n.sent - n.rx
      <3> SUFFICES ASSUME NEW i \in 1..Len(k.got) PROVE k.got[i] <= n.sent - n.rx
        OBVIOUS
      <3>1. k.got[i] <= u.sent - u.rx
        BY <1>1 DEF ReplyOK
      <3>2. k.got \in Seq(Nat)
        BY ConnFields
      <3>3. k.got[i] \in Nat
        BY <3>2
      <3> QED
        BY <1>2, <1>3, <3>1, <3>3
    <2> QED
      BY <1>2, <2>1, <2>2 DEF ReplyOK
  <1>7. RequestOK(r, q, k, n, l, c)
    <2>1. Rising(n.got) /\ (~l => Counts(n.got))
      BY <1>1, <1>2 DEF RequestOK
    <2>2. ASSUME n.write_enabled
          PROVE  \E lo, hi \in Nat : Chains(r, q, c, lo, hi) /\ Follows(k, n, l, lo, hi)
      <3>1. PICK lo \in Nat, hi \in Nat : Chains(r, q, c, lo, hi) /\ Follows(k, u, l, lo, hi)
        BY <1>1, <1>2, <2>2 DEF RequestOK
      <3>2. Follows(k, n, l, lo, hi)
        BY <1>2, <3>1 DEF Follows
      <3> QED
        BY <3>1, <3>2
    <2> QED
      BY <2>1, <2>2 DEF RequestOK
  <1> QED
    BY <1>4, <1>5, <1>6, <1>7 DEF SessionOK

LEMMA ConnectedKeeps ==
    ASSUME TunnelInv, NEW c \in Clients, Connected(c)
    PROVE  TunnelInv'
  <1>1. PICK k \in ConnType, u \in ConnType :
           /\ k = cli[c] /\ u = up[c] /\ SessionOK(run, jobs, k, u, short, c)
           /\ Due(k) => Noticed(Client(c), k)
           /\ Due(u) => Noticed(Upstream(c), u)
    BY SessionOf
  <1>2. TunnelTypes /\ HandlingOK
    BY DEF TunnelInv
  <1>3. At("connect", Upstream(c)) /\ u.conn = "connected"
    BY <1>1, <1>2 DEF Connected, HandlingOK, At
  <1>4. /\ UNCHANGED <<acceptorVars, cli, todo, run, short>>
        /\ loop' = "batch" /\ cur' = NoEntry
    BY DEF Connected, Goto
  <1>5. cli' = [cli EXCEPT ![c] = k] /\ Onward(cli[c], k)
    BY <1>1, <1>2, <1>4, SameConn DEF TunnelTypes, Onward
  <1>6. loop = "connect" /\ ~Ended /\ ~Ended' /\ LoopLeaves
    BY <1>3, <1>4 DEF At, Ended, LoopLeaves
  <1>7. Due(k) => Noticed(Client(c), k)'
    BY <1>1, <1>4, <1>6, NoticeStays DEF At
  <1>8. jobs \in Seq(JobType) /\ run \in Seq(JobType) /\ short \in BOOLEAN
    BY <1>2 DEF TunnelTypes
  <1>9. CASE u.rst
    <2>1. PICK n : n = [u EXCEPT !.conn = "dropped"]
      OBVIOUS
    <2>2. n \in ConnType /\ n.conn = "dropped" /\ n.write_enabled = u.write_enabled
      BY <2>1 DEF ConnType, ConnStates
    <2>3. SameData(u, n)
      BY <2>1 DEF ConnType, SameData
    <2>4. up' = [up EXCEPT ![c] = n] /\ jobs' = jobs \o SessionOnError(c)
      BY <1>1, <1>2, <1>9, <2>1 DEF Connected, TunnelTypes
    <2>5. PICK t : t = SessionOnError(c)
      OBVIOUS
    <2>6. t \in {<<>>, <<Job("shut_client", c, <<>>)>>}
      BY <2>5 DEF SessionOnError
    <2>7. jobs' = jobs \o t
      BY <2>4, <2>5
    <2>8. /\ jobs' \in Seq(JobType) /\ Grows(run, jobs, jobs', "shut_client", c)
          /\ \A d \in Clients \ {c} : KeepsJobs(run, jobs, run, jobs', d)
      BY <1>8, <2>6, <2>7, ToldGrows
    <2>9. SessionOK(run, jobs', k, n, short, c)
      BY <1>1, <1>3, <1>9, <2>2, <2>3, <2>8, ConnectedOK
    <2>10. SessionMoves(c, k, n)
      BY <1>4, <1>5, <1>6, <1>8, <2>4, <2>8 DEF SessionMoves
    <2>11. LoopMoves(c, n)
      BY <1>3, <1>6 DEF LoopMoves
    <2>12. ~Due(n)
      BY <2>2 DEF Due
    <2>13. SessionOK(run', jobs', k, n, short', c)
      BY <1>4, <2>9
    <2> QED
      BY <1>6, <1>7, <2>2, <2>10, <2>11, <2>12, <2>13, SessionMovesStep
  <1>10. ASSUME ~u.rst, up' = [up EXCEPT ![c] = Opened(@)], jobs' = jobs \o SessionOnConnect(c)
         PROVE  TunnelInv'
    <2>1. PICK n : n = Opened(u)
      OBVIOUS
    <2>2. n \in ConnType /\ n.conn = "open" /\ n.write_enabled = u.write_enabled /\ n.edge = TRUE
      BY <2>1 DEF ConnType, ConnStates, Opened
    <2>3. SameData(u, n)
      BY <2>1 DEF ConnType, SameData, Opened
    <2>4. up' = [up EXCEPT ![c] = n] /\ jobs' = jobs \o SessionOnConnect(c)
      BY <1>1, <1>2, <1>10, <2>1 DEF TunnelTypes
    <2>5. PICK t : t = SessionOnConnect(c)
      OBVIOUS
    <2>6. t \in {<<>>, <<Job("flush", c, <<>>)>>} /\ (k.conn = "open" => t # <<>>)
      BY <1>1, <2>5 DEF SessionOnConnect, ClientConn
    <2>7. jobs' = jobs \o t
      BY <2>4, <2>5
    <2>8. /\ jobs' \in Seq(JobType) /\ Grows(run, jobs, jobs', "flush", c)
          /\ \A d \in Clients \ {c} : KeepsJobs(run, jobs, run, jobs', d)
          /\ k.conn = "open" => Waits(run, jobs', "flush", c)
      BY <1>8, <2>6, <2>7, ToldGrows
    <2>9. SessionOK(run, jobs', k, n, short, c)
      BY <1>1, <1>3, <2>2, <2>3, <2>8, ConnectedOK
    <2>10. SessionMoves(c, k, n)
      BY <1>4, <1>5, <1>6, <1>8, <2>4, <2>8 DEF SessionMoves
    <2>11. LoopMoves(c, n)
      BY <1>3, <1>6 DEF LoopMoves
    <2>12. Noticed(Upstream(c), n)'
      BY <2>2 DEF Noticed
    <2>13. SessionOK(run', jobs', k, n, short', c)
      BY <1>4, <2>9
    <2> QED
      BY <1>6, <1>7, <2>2, <2>10, <2>11, <2>12, <2>13, SessionMovesStep
  <1>11. ASSUME up' = [up EXCEPT ![c] = [Opened(@) EXCEPT !.rst = TRUE, !.rx = 0]], jobs' = jobs
         PROVE  TunnelInv'
    <2>1. PICK n : n = [Opened(u) EXCEPT !.rst = TRUE, !.rx = 0]
      OBVIOUS
    <2>2. /\ n \in ConnType /\ n.conn = "open" /\ n.rst /\ n.rx = 0 /\ n.edge = TRUE
          /\ n.sent = u.sent /\ n.buf = u.buf /\ n.got = u.got
          /\ n.write_enabled = u.write_enabled
      BY <2>1 DEF ConnType, ConnStates, Opened
    <2>3. up' = [up EXCEPT ![c] = n]
      <3>1. u = up[c] /\ up \in [Clients -> ConnType]
        BY <1>1, <1>2 DEF TunnelTypes
      <3>2. up' = [up EXCEPT ![c] = [Opened(up[c]) EXCEPT !.rst = TRUE, !.rx = 0]]
        BY <1>11, <3>1, Zenon
      <3> QED
        BY <2>1, <3>1, <3>2, Zenon
    <2>4. SessionOK(run, jobs, k, n, short, c)
      BY <1>1, <1>3, <2>2, ConnectedThenReset
    <2>5. \A d \in Clients \ {c} : KeepsJobs(run, jobs, run, jobs', d)
      BY <1>11, SameJobs
    <2>6. SessionMoves(c, k, n)
      BY <1>4, <1>5, <1>6, <1>8, <1>11, <2>3, <2>5 DEF SessionMoves
    <2>7. LoopMoves(c, n)
      BY <1>3, <1>6 DEF LoopMoves
    <2>8. Noticed(Upstream(c), n)'
      BY <2>2 DEF Noticed
    <2>9. SessionOK(run', jobs', k, n, short', c)
      BY <1>4, <1>11, <2>4
    <2> QED
      BY <1>6, <1>7, <2>2, <2>6, <2>7, <2>8, <2>9, SessionMovesStep
  <1> QED
    BY <1>1, <1>9, <1>10, <1>11 DEF Connected

-----------------------------------------------------------------------------
(* What a read leaves in the buffer or sends: the buffer and what came.    *)
ReadBytes(k, b) ==
    /\ b \in Seq(Nat) /\ Len(b) = Len(k.buf) + k.rx
    /\ \A i \in 1..Len(k.buf) : b[i] = k.buf[i]
    /\ \A i \in 1..k.rx : b[Len(k.buf) + i] = k.sent - k.rx + i

LEMMA BytesOfRead ==
    ASSUME NEW k \in ConnType, KernelOK(k), NEW b, b = k.buf \o Unread(k)
    PROVE  ReadBytes(k, b)
  <1>1. k.buf \in Seq(Nat) /\ k.rx \in Nat /\ k.sent \in Nat /\ k.rx <= k.sent
    BY ConnFields DEF KernelOK
  <1>2. PICK f : f = Unread(k)
    OBVIOUS
  <1>3. f = [i \in 1..k.rx |-> k.sent - k.rx + i]
    BY <1>2 DEF Unread
  <1>4. \A i \in 1..k.rx : k.sent - k.rx + i \in Nat
    BY <1>1
  <1>5. f \in Seq(Nat) /\ Len(f) = k.rx
    <2>1. PICK m \in Nat : m = k.rx
      BY <1>1
    <2>2. f \in [1..m -> Nat]
      BY <1>3, <1>4, <2>1
    <2>3. f \in Seq(Nat)
      BY <2>2, SeqDef
    <2>4. Len(f) \in Nat /\ DOMAIN f = 1..Len(f) /\ DOMAIN f = 1..m
      BY <2>2, <2>3, LenProperties
    <2>5. Len(f) = m
      <3>1. PICK x \in Nat : x = Len(f)
        BY <2>4
      <3>2. \A i \in Int : i \in 1..x <=> i \in 1..m
        BY <2>4, <3>1
      <3>3. x <= m
        BY <3>2
      <3>4. m <= x
        BY <3>2
      <3> QED
        BY <3>1, <3>3, <3>4
    <2> QED
      BY <2>1, <2>3, <2>5
  <1>6. b = k.buf \o f /\ Len(k.buf) \in Nat
    BY <1>1, <1>2
  <1>7. b \in Seq(Nat) /\ Len(b) = Len(k.buf) + k.rx
    <2>1. PICK g \in Seq(Nat) : g = k.buf
      BY <1>1
    <2>2. g \o f \in Seq(Nat) /\ Len(g \o f) = Len(g) + Len(f)
      BY <1>5, ConcatProperties
    <2>3. b = g \o f
      BY <1>6, <2>1
    <2> QED
      BY <1>5, <2>1, <2>2, <2>3
  <1>8. \A i \in 1..Len(k.buf) : b[i] = k.buf[i]
    BY <1>1, <1>5, <1>6
  <1>9. ASSUME NEW i \in 1..k.rx PROVE b[Len(k.buf) + i] = k.sent - k.rx + i
    <2>1. b[Len(k.buf) + i] = f[i]
      BY <1>1, <1>5, <1>6
    <2> QED
      BY <1>3, <2>1
  <1> QED
    BY <1>7, <1>8, <1>9 DEF ReadBytes

LEMMA BytesLeft ==
    ASSUME NEW k \in ConnType, k.rx = 0
    PROVE  ReadBytes(k, k.buf)
  BY ConnFields DEF ReadBytes

LEMMA BytesFollow ==
    ASSUME NEW k \in ConnType, NEW b, ReadBytes(k, b), NEW hi \in Nat,
           \A i \in 1..Len(k.buf) : k.buf[i] = hi + i, hi + Len(k.buf) = k.sent - k.rx
    PROVE  (\A i \in 1..Len(b) : b[i] = hi + i) /\ hi + Len(b) = k.sent
  <1>1. k.buf \in Seq(Nat) /\ k.rx \in Nat /\ k.sent \in Nat /\ Len(k.buf) \in Nat
    BY ConnFields
  <1>2. PICK m \in Nat : m = Len(k.buf)
    BY <1>1
  <1>3. Len(b) = m + k.rx
    BY <1>2 DEF ReadBytes
  <1>4. ASSUME NEW i \in 1..Len(b) PROVE b[i] = hi + i
    <2>1. CASE i \in 1..m
      BY <1>2, <2>1 DEF ReadBytes
    <2>2. CASE i \notin 1..m
      <3>1. PICK h \in 1..k.rx : i = m + h
        <4>1. i - m \in 1..k.rx /\ i = m + (i - m)
          BY <1>1, <1>2, <1>3, <2>2
        <4> QED
          BY <4>1
      <3>2. b[i] = k.sent - k.rx + h
        BY <1>2, <3>1 DEF ReadBytes
      <3> QED
        BY <1>1, <1>2, <3>1, <3>2
    <2> QED
      BY <2>1, <2>2
  <1>5. hi + Len(b) = k.sent
    <2>1. PICK x \in Nat, y \in Nat : x = k.rx /\ y = k.sent
      BY <1>1
    <2>2. hi + m = y - x /\ Len(b) = m + x
      BY <1>2, <1>3, <2>1
    <2>3. hi + (m + x) = y
      BY <2>2
    <2> QED
      BY <2>1, <2>2, <2>3
  <1> QED
    BY <1>4, <1>5

(* A read of the client's connection.                                      *)
ClientRead(k, n, u, q, s, c, b) ==
    /\ n.conn = k.conn /\ n.sent = k.sent /\ n.rx = 0 /\ n.got = k.got
    /\ n.fin = k.fin /\ n.rst = k.rst /\ n.write_enabled = k.write_enabled
    /\ \/ n.buf = b /\ s = q /\ u.conn # "open"
       \/ /\ n.buf = <<>> /\ u.conn \in {"open", "closed"}
          /\ s = Append(q, Job("send", c, b)) \/ (b = <<>> /\ s = q)

LEMMA ClientReadOK ==
    ASSUME NEW k \in ConnType, NEW u \in ConnType, NEW n \in ConnType,
           NEW r \in Seq(JobType), NEW q \in Seq(JobType), NEW s, NEW l, NEW c \in Clients, NEW b,
           SessionOK(r, q, k, u, l, c), ReadBytes(k, b), ~k.rst, ClientRead(k, n, u, q, s, c, b)
    PROVE  SessionOK(r, s, n, u, l, c)
  <1>1. PairOK(k, u) /\ JobsOK(r, q, k, u, c) /\ ReplyOK(k, u, l) /\ RequestOK(r, q, k, u, l, c)
    BY DEF SessionOK
  <1>2. /\ n.conn = k.conn /\ n.sent = k.sent /\ n.rx = 0 /\ n.got = k.got
        /\ n.rst = k.rst /\ n.write_enabled = k.write_enabled
    BY DEF ClientRead
  <1>3. k.sent \in Nat /\ k.buf \in Seq(Nat) /\ b \in Seq(Nat)
    BY ConnFields DEF ReadBytes
  <1>4. PairOK(n, u)
    <2>1. KernelOK(n)
      BY <1>1, <1>2, <1>3 DEF PairOK, KernelOK
    <2> QED
      BY <1>1, <1>2, <2>1 DEF PairOK
  <1>5. ReplyOK(n, u, l)
    BY <1>1, <1>2 DEF ReplyOK
  <1>6. PICK j : j = Job("send", c, b)
    OBVIOUS
  <1>7. j \in JobType /\ j.kind = "send" /\ j.c = c /\ j.bytes = b
    BY <1>3, <1>6 DEF Job, JobType
  <1>8. s = q \/ (s = Append(q, j) /\ u.conn \in {"open", "closed"})
    BY <1>6 DEF ClientRead
  <1>9. \A kind : kind # "send" => (Waits(r, s, kind, c) <=> Waits(r, q, kind, c))
    <2>1. CASE s = q
      BY <2>1
    <2>2. CASE s = Append(q, j)
      BY <1>7, <2>2, AddJob
    <2> QED
      BY <1>8, <2>1, <2>2
  <1>10. u.conn \in {"open", "closed"} \/ s = q
    BY <1>8
  <1>11. n.conn = "open" /\ u.conn = "open" /\ n.buf # <<>> => FALSE
    BY DEF ClientRead
  <1>12. JobsOK(r, s, n, u, c)
    BY <1>1, <1>9, <1>10, <1>11 DEF JobsOK
  <1>13. ASSUME u.write_enabled
         PROVE  \E lo, hi \in Nat : Chains(r, s, c, lo, hi) /\ Follows(n, u, l, lo, hi)
    <2>1. PICK lo \in Nat, hi \in Nat : Chains(r, q, c, lo, hi) /\ Follows(k, u, l, lo, hi)
      BY <1>1, <1>13 DEF RequestOK
    <2>2. /\ \A i \in 1..Len(k.buf) : k.buf[i] = hi + i
          /\ hi + Len(k.buf) = k.sent - k.rx
      BY <2>1 DEF Follows
    <2>3. (\A i \in 1..Len(b) : b[i] = hi + i) /\ hi + Len(b) = k.sent
      BY <2>2, BytesFollow
    <2>4. u.conn # "closed"
      BY <1>1, <1>13 DEF PairOK, KernelOK
    <2>5. CASE n.buf = b /\ s = q /\ u.conn # "open"
      <3>1. lo = hi
        BY <2>1, <2>4, <2>5 DEF Follows
      <3>2. Follows(n, u, l, lo, hi)
        BY <1>2, <1>3, <2>1, <2>3, <2>5, <3>1 DEF Follows
      <3> QED
        BY <2>1, <2>5, <3>2
    <2>6. CASE n.buf = <<>> /\ b = <<>> /\ s = q
      <3>1. Follows(n, u, l, lo, hi)
        BY <1>2, <1>3, <2>1, <2>3, <2>6 DEF Follows
      <3> QED
        BY <2>1, <2>6, <3>1
    <2>7. CASE n.buf = <<>> /\ s = Append(q, j) /\ u.conn = "open"
      <3>1. Carries(j, hi)
        BY <1>7, <2>3 DEF Carries
      <3>2. PICK m \in Nat : m = hi + Len(b)
        BY <1>3
      <3>3. Chains(r, s, c, lo, m)
        BY <1>7, <2>1, <2>7, <3>1, <3>2, AddJob
      <3>4. /\ \A i \in 1..Len(u.got) : u.got[i] <= lo
            /\ ~l => Len(u.got) = lo
        BY <2>1 DEF Follows
      <3>5. Len(n.buf) = 0 /\ m + 0 = n.sent - n.rx
        BY <1>2, <1>3, <2>3, <2>7, <3>2
      <3>6. Follows(n, u, l, lo, m)
        BY <2>7, <3>2, <3>4, <3>5 DEF Follows
      <3> QED
        BY <3>2, <3>3, <3>6
    <2> QED
      BY <1>6, <2>4, <2>5, <2>6, <2>7 DEF ClientRead
  <1>14. RequestOK(r, s, n, u, l, c)
    BY <1>1, <1>13 DEF RequestOK
  <1> QED
    BY <1>4, <1>5, <1>12, <1>14 DEF SessionOK

(* The client's connection is closed.                                      *)
LEMMA ClientClosesOK ==
    ASSUME NEW k \in ConnType, NEW u \in ConnType, k.conn \in {"open", "closed"},
           NEW n \in ConnType, n.conn = "closed", SameData(k, n), ~n.write_enabled,
           NEW r, NEW q, NEW s, NEW l, NEW c, SessionOK(r, q, k, u, l, c),
           Grows(r, q, s, "shut_upstream", c)
    PROVE  SessionOK(r, s, n, u, l, c)
  <1>1. PairOK(k, u) /\ JobsOK(r, q, k, u, c) /\ ReplyOK(k, u, l) /\ RequestOK(r, q, k, u, l, c)
    BY DEF SessionOK
  <1>2. /\ n.sent = k.sent /\ n.rx = k.rx /\ n.buf = k.buf /\ n.got = k.got /\ n.rst = k.rst
    BY DEF SameData
  <1>3. PairOK(n, u)
    BY <1>1, <1>2 DEF PairOK, KernelOK
  <1>4. JobsOK(r, s, n, u, c)
    BY <1>1 DEF JobsOK, Grows
  <1>5. ReplyOK(n, u, l)
    BY <1>1, <1>2 DEF ReplyOK
  <1>6. RequestOK(r, s, n, u, l, c)
    BY <1>1, RequestGrows
  <1> QED
    BY <1>3, <1>4, <1>5, <1>6 DEF SessionOK

(* What on_recv leaves and enqueues.                                       *)
LEMMA LeftTyped ==
    ASSUME NEW c, NEW b \in Seq(Nat)
    PROVE  LeftInBuffer(c, b) \in Seq(Nat)
  <1>1. <<>> \in Seq(Nat)
    BY EmptySeq
  <1> QED
    BY <1>1 DEF LeftInBuffer

LEMMA RecvIs ==
    ASSUME NEW q \in Seq(JobType), NEW j \in JobType, NEW t, t = <<>> \/ t = <<j>>
    PROVE  q \o t = IF t = <<>> THEN q ELSE Append(q, j)
  <1>1. CASE t = <<>>
    BY <1>1, NoJobAdded
  <1>2. CASE t = <<j>>
    BY <1>2, OneJobAdded
  <1> QED
    BY <1>1, <1>2

LEMMA RecvAdds ==
    ASSUME NEW r \in Seq(JobType), NEW q \in Seq(JobType), NEW c \in Clients, NEW b \in Seq(Nat),
           NEW s, s = q \/ s = Append(q, Job("send", c, b))
    PROVE  s \in Seq(JobType) /\ \A d \in Clients \ {c} : KeepsJobs(r, q, r, s, d)
  <1>1. CASE s = q
    BY <1>1, SameJobs
  <1>2. CASE s = Append(q, Job("send", c, b))
    <2>1. PICK j : j = Job("send", c, b)
      OBVIOUS
    <2>2. j \in JobType /\ j.c = c
      BY <2>1 DEF Job, JobType
    <2>3. s = Append(q, j)
      BY <1>2, <2>1
    <2> QED
      BY <2>2, <2>3, AddJob
  <1> QED
    BY <1>1, <1>2

(* Weak::upgrade, for a session that is known.                             *)
LEMMA Upgrades ==
    ASSUME NEW c
    PROVE  /\ ServerConn(c) => up[c].conn \in {"open", "closed"}
           /\ up[c].conn = "open" => ServerConn(c)
           /\ cli[c].conn = "open" => ClientConn(c)
  BY DEF ServerConn, ClientConn

(* What the handler of an entry knows of the connection.                   *)
LEMMA AtClient ==
    ASSUME TunnelInv, NEW c \in Clients, NEW l \in {"read", "hangup"}, At(l, Client(c))
    PROVE  /\ cli[c].conn \in {"open", "closed"} /\ ~Ended /\ loop = l /\ cur.sock = Client(c)
           /\ ~At("read", Upstream(c))
  <1>1. HandlingOK /\ loop = l /\ cur.sock = Client(c)
    BY DEF TunnelInv, At
  <1>2. cli[c].conn \in {"open", "closed"}
    BY <1>1 DEF HandlingOK, EntryOK
  <1> QED
    BY <1>1, <1>2, SocketsApart DEF Ended, At

LEMMA AtUpstream ==
    ASSUME TunnelInv, NEW c \in Clients, NEW l \in {"read", "hangup"}, At(l, Upstream(c))
    PROVE  /\ up[c].conn \in {"open", "closed"} /\ ~Ended /\ loop = l /\ cur.sock = Upstream(c)
           /\ l = "hangup" => up[c].rx = 0 /\ (up[c].fin \/ up[c].rst)
           /\ ~At("read", Client(c))
  <1>1. HandlingOK /\ loop = l /\ cur.sock = Upstream(c)
    BY DEF TunnelInv, At
  <1>2. /\ up[c].conn \in {"open", "closed"}
        /\ l = "hangup" => up[c].rx = 0 /\ (up[c].fin \/ up[c].rst)
    BY <1>1 DEF HandlingOK, EntryOK
  <1> QED
    BY <1>1, <1>2, SocketsApart DEF Ended, At

LEMMA ReadClientKeeps ==
    ASSUME TunnelInv, NEW c \in Clients, ReadClient(c)
    PROVE  TunnelInv'
  <1>1. PICK k \in ConnType, u \in ConnType :
           /\ k = cli[c] /\ u = up[c] /\ SessionOK(run, jobs, k, u, short, c)
           /\ Due(k) => Noticed(Client(c), k)
           /\ Due(u) => Noticed(Upstream(c), u)
    BY SessionOf
  <1>2. TunnelTypes
    BY DEF TunnelInv
  <1>3. /\ k.conn \in {"open", "closed"} /\ ~Ended
        /\ At("read", Client(c)) /\ k.rx > 0
    BY <1>1, AtClient DEF ReadClient
  <1>4. KernelOK(k)
    BY <1>1 DEF SessionOK, PairOK
  <1>5. ~k.rst
    BY <1>3, <1>4, ConnFields DEF KernelOK
  <1>6. PICK b : b = k.buf \o Unread(k)
    OBVIOUS
  <1>7. ReadBytes(k, b) /\ b \in Seq(Nat)
    BY <1>4, <1>6, BytesOfRead DEF ReadBytes
  <1>8. PICK left \in Seq(Nat) : left = LeftInBuffer(c, b)
    BY <1>7, LeftTyped
  <1>9. PICK n : n = [k EXCEPT !.rx = 0, !.buf = left]
    OBVIOUS
  <1>10. n \in ConnType /\ n.conn = k.conn /\ n.rx = 0 /\ n.buf = left
    BY <1>9 DEF ConnType
  <1>11. /\ n.sent = k.sent /\ n.got = k.got /\ n.fin = k.fin /\ n.rst = k.rst
         /\ n.write_enabled = k.write_enabled
    BY <1>9 DEF ConnType
  <1>12. PICK t : t = TunnelOnRecv(c, b)
    OBVIOUS
  <1>13. t \in {<<>>, <<Job("send", c, b)>>}
    BY <1>12 DEF TunnelOnRecv
  <1>14. cli' = [cli EXCEPT ![c] = n] /\ jobs' = jobs \o t
    BY <1>1, <1>2, <1>6, <1>8, <1>9, <1>12 DEF ReadClient, TunnelTypes
  <1>15. UNCHANGED <<acceptorVars, up, todo, run, loop, cur, short>>
    BY DEF ReadClient, batchVars
  <1>16. jobs \in Seq(JobType) /\ run \in Seq(JobType) /\ short \in BOOLEAN
    BY <1>2 DEF TunnelTypes
  <1>17. PICK s : s = jobs'
    OBVIOUS
  <1>18a. \/ t = <<>> /\ s = jobs
          \/ t # <<>> /\ s = Append(jobs, Job("send", c, b))
    <2>1. PICK j \in JobType : j = Job("send", c, b)
      BY <1>7, JobTyped
    <2>2. t = <<>> \/ t = <<j>>
      BY <1>13, <2>1
    <2>3. s = IF t = <<>> THEN jobs ELSE Append(jobs, j)
      BY <1>14, <1>16, <1>17, <2>2, RecvIs
    <2> QED
      BY <2>1, <2>3
  <1>18. s \in Seq(JobType) /\ \A d \in Clients \ {c} : KeepsJobs(run, jobs, run, s, d)
    BY <1>7, <1>16, <1>18a, RecvAdds
  <1>19. ClientRead(k, n, u, jobs, s, c, b)
    <2>1. \/ left = b /\ t = <<>> /\ u.conn # "open"
          \/ /\ left = <<>> /\ u.conn \in {"open", "closed"}
             /\ t # <<>> \/ (b = <<>> /\ t = <<>>)
      BY <1>1, <1>8, <1>12, Upgrades DEF LeftInBuffer, TunnelOnRecv
    <2> QED
      BY <1>10, <1>11, <1>18a, <2>1 DEF ClientRead
  <1>20. SessionOK(run, s, n, u, short, c)
    BY <1>1, <1>5, <1>7, <1>10, <1>16, <1>19, ClientReadOK
  <1>21. Onward(k, n)
    BY <1>3, <1>10, <1>11 DEF Onward
  <1>22. up' = [up EXCEPT ![c] = u]
    BY <1>1, <1>2, <1>15, SameConn DEF TunnelTypes
  <1>23. SessionMoves(c, n, u)
    BY <1>1, <1>3, <1>14, <1>15, <1>16, <1>17, <1>18, <1>21, <1>22 DEF SessionMoves
  <1>24. LoopMoves(c, u)
    BY <1>1, <1>15 DEF LoopMoves, LoopStays, Onward
  <1>25. Noticed(Client(c), n)'
    BY <1>3, <1>15 DEF Noticed, At
  <1>26. Due(u) => Noticed(Upstream(c), u)'
    BY <1>1, <1>3, <1>15, NoticeStays DEF At
  <1>27. SessionOK(run', jobs', n, u, short', c) /\ ~Ended'
    BY <1>3, <1>15, <1>17, <1>20 DEF Ended
  <1> QED
    BY <1>10, <1>23, <1>24, <1>25, <1>26, <1>27, SessionMovesStep

(* After the last read the loop looks at the hang-up bit.                  *)
LEMMA ReadingEnds ==
    ASSUME TunnelInv, loop = "read", Goto(AfterReading)
    PROVE  /\ LoopHangs \/ LoopLeaves
           /\ ~Ended' /\ UNCHANGED <<todo, run>> /\ loop' # "read"
  BY DEF Goto, AfterReading, LoopHangs, LoopLeaves, Ended

LEMMA ClosesAlive ==
    ASSUME NEW k, k.conn \in {"open", "closed"}, NEW l
    PROVE  AfterClose(k, l) = l
  BY DEF AfterClose, NotClosed

LEMMA ReadClientEndsKeeps ==
    ASSUME TunnelInv, NEW c \in Clients, ReadClientEnds(c)
    PROVE  TunnelInv'
  <1>1. PICK k \in ConnType, u \in ConnType :
           /\ k = cli[c] /\ u = up[c] /\ SessionOK(run, jobs, k, u, short, c)
           /\ Due(k) => Noticed(Client(c), k)
           /\ Due(u) => Noticed(Upstream(c), u)
    BY SessionOf
  <1>2. TunnelTypes
    BY DEF TunnelInv
  <1>3. jobs \in Seq(JobType) /\ run \in Seq(JobType) /\ short \in BOOLEAN
    BY <1>2 DEF TunnelTypes
  <1>4. At("read", Client(c)) /\ k.rx = 0
    BY <1>1 DEF ReadClientEnds
  <1>5. /\ k.conn \in {"open", "closed"} /\ ~Ended /\ loop = "read" /\ cur.sock = Client(c)
        /\ ~At("read", Upstream(c))
    BY <1>1, <1>4, AtClient
  <1>6. UNCHANGED <<acceptorVars, up, short>>
    BY DEF ReadClientEnds
  <1>7. Goto(AfterReading)
    <2>1. AfterClose(k, AfterReading) = AfterReading
      BY <1>5, ClosesAlive
    <2> QED
      BY <1>1, <2>1 DEF ReadClientEnds, Goto
  <1>8. /\ LoopHangs \/ LoopLeaves
        /\ ~Ended' /\ UNCHANGED <<todo, run>>
    BY <1>5, <1>7, ReadingEnds
  <1>9. up' = [up EXCEPT ![c] = u]
    BY <1>1, <1>2, <1>6, SameConn DEF TunnelTypes
  <1>10. LoopMoves(c, u)
    <2>1. Onward(up[c], u) /\ cur.sock # Upstream(c)
      BY <1>1, <1>5, SocketsApart DEF Onward
    <2> QED
      BY <1>5, <1>8, <2>1 DEF LoopMoves
  <1>11. Due(u) => Noticed(Upstream(c), u)'
    BY <1>1, <1>5, <1>8, NoticeStays
  <1>12. CASE ~k.fin /\ ~k.rst
    <2>1. cli' = cli /\ jobs' = jobs
      BY <1>1, <1>12 DEF ReadClientEnds
    <2>2. cli' = [cli EXCEPT ![c] = k] /\ Onward(cli[c], k)
      BY <1>1, <1>2, <2>1, SameConn DEF TunnelTypes, Onward
    <2>3. SessionMoves(c, k, u)
      BY <1>3, <1>5, <1>6, <1>8, <1>9, <2>1, <2>2, SameJobs DEF SessionMoves
    <2>4. ~Due(k)
      BY <1>4, <1>12 DEF Due
    <2>5. SessionOK(run', jobs', k, u, short', c)
      BY <1>1, <1>6, <1>8, <2>1
    <2> QED
      BY <1>8, <1>10, <1>11, <2>3, <2>4, <2>5, SessionMovesStep
  <1>13. CASE k.fin \/ k.rst
    <2>1. k.buf \in Seq(Nat) /\ ReadBytes(k, k.buf)
      BY <1>4, ConnFields, BytesLeft
    <2>2. PICK left \in Seq(Nat) : left = IF k.rst THEN k.buf ELSE LeftInBuffer(c, k.buf)
      BY <2>1, LeftTyped
    <2>3. PICK t : t = IF k.rst THEN <<>> ELSE TunnelOnRecv(c, k.buf)
      OBVIOUS
    <2>4. PICK e : e = OnClose(k, TunnelOnError(c))
      OBVIOUS
    <2>5. t \in {<<>>, <<Job("send", c, k.buf)>>}
      BY <2>3 DEF TunnelOnRecv
    <2>6. e \in {<<>>, <<Job("shut_upstream", c, <<>>)>>}
      BY <2>4 DEF OnClose, TunnelOnError
    <2>7. /\ cli' = [cli EXCEPT ![c] = [Closed(k) EXCEPT !.buf = left]]
          /\ jobs' = jobs \o t \o e
      BY <1>1, <1>13, <2>2, <2>3, <2>4 DEF ReadClientEnds
    <2>8. PICK s : s = jobs \o t
      OBVIOUS
    <2>9a. \/ t = <<>> /\ s = jobs
           \/ t # <<>> /\ s = Append(jobs, Job("send", c, k.buf))
      <3>1. PICK j \in JobType : j = Job("send", c, k.buf)
        BY <2>1, JobTyped
      <3>2. t = <<>> \/ t = <<j>>
        BY <2>5, <3>1
      <3>3. s = IF t = <<>> THEN jobs ELSE Append(jobs, j)
        BY <1>3, <2>8, <3>2, RecvIs
      <3> QED
        BY <3>1, <3>3
    <2>9. s \in Seq(JobType) /\ \A d \in Clients \ {c} : KeepsJobs(run, jobs, run, s, d)
      BY <1>3, <2>1, <2>9a, RecvAdds
    <2>10. PICK s2 : s2 = s \o e
      OBVIOUS
    <2>11. /\ s2 \in Seq(JobType) /\ Grows(run, s, s2, "shut_upstream", c)
           /\ \A d \in Clients \ {c} : KeepsJobs(run, s, run, s2, d)
      BY <1>3, <2>6, <2>9, <2>10, ToldGrows
    <2>12. \A d \in Clients \ {c} : KeepsJobs(run, jobs, run, s2, d)
      BY <2>9, <2>11 DEF KeepsJobs
    <2>13. PICK m : m = [k EXCEPT !.buf = left]
      OBVIOUS
    <2>14. m \in ConnType /\ m.conn = k.conn /\ m.rx = k.rx /\ m.buf = left /\ m.sent = k.sent
      BY <2>13 DEF ConnType
    <2>15. m.got = k.got /\ m.fin = k.fin /\ m.rst = k.rst /\ m.write_enabled = k.write_enabled
      BY <2>13 DEF ConnType
    <2>16. SessionOK(run, s, m, u, short, c)
      <3>1. CASE k.rst
        <4>1. left = k.buf /\ t = <<>>
          BY <2>2, <2>3, <3>1
        <4>2. m = k
          BY <2>13, <4>1 DEF ConnType
        <4> QED
          BY <1>1, <2>9a, <4>1, <4>2
      <3>2. CASE ~k.rst
        <4>1. left = LeftInBuffer(c, k.buf) /\ t = TunnelOnRecv(c, k.buf)
          BY <2>2, <2>3, <3>2
        <4>2. \/ left = k.buf /\ t = <<>> /\ u.conn # "open"
              \/ /\ left = <<>> /\ u.conn \in {"open", "closed"}
                 /\ t # <<>> \/ (k.buf = <<>> /\ t = <<>>)
          BY <1>1, <4>1, Upgrades DEF LeftInBuffer, TunnelOnRecv
        <4>3. ClientRead(k, m, u, jobs, s, c, k.buf)
          BY <1>4, <2>9a, <2>14, <2>15, <4>2 DEF ClientRead
        <4> QED
          BY <1>1, <1>3, <2>1, <2>14, <3>2, <4>3, ClientReadOK
      <3> QED
        BY <3>1, <3>2
    <2>17. KernelOK(k) /\ KernelOK(m)
      BY <1>1, <2>16 DEF SessionOK, PairOK
    <2>18. PICK n : n = [Closed(k) EXCEPT !.buf = left]
      OBVIOUS
    <2>19. n \in ConnType /\ n.conn = "closed" /\ SameData(m, n) /\ ~n.write_enabled
      <3>1. PICK z : z = Closed(k)
        OBVIOUS
      <3>2. z \in ConnType /\ z.conn = "closed" /\ SameData(k, z) /\ ~z.write_enabled
        BY <2>17, <3>1, ClosedFields
      <3>3. n = [z EXCEPT !.buf = left]
        BY <2>18, <3>1
      <3>4. /\ n \in ConnType /\ n.conn = z.conn /\ n.write_enabled = z.write_enabled
            /\ n.buf = left
        BY <3>2, <3>3 DEF ConnType
      <3>5. n.sent = z.sent /\ n.rx = z.rx /\ n.got = z.got /\ n.fin = z.fin /\ n.rst = z.rst
        BY <3>2, <3>3 DEF ConnType
      <3> QED
        BY <2>14, <2>15, <3>2, <3>4, <3>5 DEF SameData
    <2>20. SessionOK(run, s2, n, u, short, c)
      BY <1>5, <2>11, <2>14, <2>16, <2>19, ClientClosesOK
    <2>21. cli' = [cli EXCEPT ![c] = n] /\ jobs' = s2
      BY <2>7, <2>8, <2>10, <2>18
    <2>22. Onward(k, n)
      BY <1>4, <1>5, <2>14, <2>15, <2>19 DEF Onward, SameData
    <2>23. SessionMoves(c, n, u)
      BY <1>1, <1>3, <1>5, <1>6, <1>8, <1>9, <2>11, <2>12, <2>21, <2>22 DEF SessionMoves
    <2>24. ~Due(n)
      BY <2>19 DEF Due
    <2>25. SessionOK(run', jobs', n, u, short', c)
      BY <1>6, <1>8, <2>20, <2>21
    <2> QED
      BY <1>8, <1>10, <1>11, <2>19, <2>23, <2>24, <2>25, SessionMovesStep
  <1> QED
    BY <1>12, <1>13

LEMMA HangupClientKeeps ==
    ASSUME TunnelInv, NEW c \in Clients, HangupClient(c)
    PROVE  TunnelInv'
  <1>1. PICK k \in ConnType, u \in ConnType :
           /\ k = cli[c] /\ u = up[c] /\ SessionOK(run, jobs, k, u, short, c)
           /\ Due(k) => Noticed(Client(c), k)
           /\ Due(u) => Noticed(Upstream(c), u)
    BY SessionOf
  <1>2. TunnelTypes
    BY DEF TunnelInv
  <1>3. jobs \in Seq(JobType) /\ run \in Seq(JobType) /\ short \in BOOLEAN
    BY <1>2 DEF TunnelTypes
  <1>4. /\ k.conn \in {"open", "closed"} /\ ~Ended /\ loop = "hangup" /\ cur.sock = Client(c)
        /\ ~At("read", Upstream(c))
    BY <1>1, AtClient DEF HangupClient
  <1>5. Goto("batch")
    BY <1>1, <1>4, ClosesAlive DEF HangupClient
  <1>6. /\ UNCHANGED <<acceptorVars, up, todo, run, short>>
        /\ loop' = "batch" /\ cur' = NoEntry
    BY <1>5 DEF HangupClient, Goto
  <1>7. KernelOK(k)
    BY <1>1 DEF SessionOK, PairOK
  <1>8. PICK n : n = Closed(k)
    OBVIOUS
  <1>9. n \in ConnType /\ n.conn = "closed" /\ SameData(k, n) /\ ~n.write_enabled
    BY <1>7, <1>8, ClosedFields
  <1>10. PICK e : e = OnClose(k, TunnelOnError(c))
    OBVIOUS
  <1>11. e \in {<<>>, <<Job("shut_upstream", c, <<>>)>>}
    BY <1>10 DEF OnClose, TunnelOnError
  <1>12. cli' = [cli EXCEPT ![c] = n] /\ jobs' = jobs \o e
    BY <1>1, <1>2, <1>8, <1>10 DEF HangupClient, TunnelTypes
  <1>13. PICK s : s = jobs'
    OBVIOUS
  <1>14. /\ s \in Seq(JobType) /\ Grows(run, jobs, s, "shut_upstream", c)
         /\ \A d \in Clients \ {c} : KeepsJobs(run, jobs, run, s, d)
    BY <1>3, <1>11, <1>12, <1>13, ToldGrows
  <1>15. SessionOK(run, s, n, u, short, c)
    BY <1>1, <1>4, <1>9, <1>14, ClientClosesOK
  <1>16. Onward(k, n)
    BY <1>4, <1>9 DEF Onward, SameData
  <1>17. up' = [up EXCEPT ![c] = u]
    BY <1>1, <1>2, <1>6, SameConn DEF TunnelTypes
  <1>18. SessionMoves(c, n, u)
    BY <1>1, <1>3, <1>4, <1>6, <1>12, <1>13, <1>14, <1>16, <1>17 DEF SessionMoves
  <1>19. LoopMoves(c, u)
    BY <1>1, <1>4, <1>6 DEF LoopMoves, LoopLeaves, Onward
  <1>20. Due(u) => Noticed(Upstream(c), u)'
    BY <1>1, <1>4, <1>6, NoticeStays
  <1>21. ~Due(n)
    BY <1>9 DEF Due
  <1>22. SessionOK(run', jobs', n, u, short', c) /\ ~Ended'
    BY <1>6, <1>13, <1>15 DEF Ended
  <1> QED
    BY <1>9, <1>18, <1>19, <1>20, <1>21, <1>22, SessionMovesStep

-----------------------------------------------------------------------------
(* A write passes on the first h of the bytes b.                           *)
Written(g, b, h, g2) ==
    /\ g2 \in Seq(Nat) /\ Len(g2) = Len(g) + h
    /\ \A i \in 1..Len(g) : g2[i] = g[i]
    /\ \A i \in 1..h : g2[Len(g) + i] = b[i]

UpTo(g, lo) == \A i \in 1..Len(g) : g[i] <= lo
CountsFrom(b, lo) == \A i \in 1..Len(b) : b[i] = lo + i

LEMMA WriteAppends ==
    ASSUME NEW g \in Seq(Nat), NEW b \in Seq(Nat), NEW h \in 0..Len(b),
           NEW g2, g2 = g \o SubSeq(b, 1, h)
    PROVE  Written(g, b, h, g2)
  <1>1. Len(b) \in Nat /\ h \in Nat /\ Len(g) \in Nat
    BY LenProperties
  <1>2. PICK f : f = SubSeq(b, 1, h)
    OBVIOUS
  <1>3. f \in Seq(Nat) /\ Len(f) = h
    BY <1>1, <1>2
  <1>4. \A i \in 1..h : f[i] = b[i]
    BY <1>1, <1>2
  <1>5. g2 = g \o f
    BY <1>2
  <1>6. g2 \in Seq(Nat) /\ Len(g2) = Len(g) + h
    BY <1>3, <1>5, ConcatProperties
  <1>7. \A i \in 1..Len(g) : g2[i] = g[i]
    BY <1>1, <1>3, <1>5
  <1>8. \A i \in 1..h : g2[Len(g) + i] = b[i]
    BY <1>1, <1>3, <1>4, <1>5
  <1> QED
    BY <1>6, <1>7, <1>8 DEF Written

(* The order is kept if the bytes follow what was written before.          *)
LEMMA WriteKeepsOrder ==
    ASSUME NEW g \in Seq(Nat), NEW b \in Seq(Nat), NEW h \in 0..Len(b), NEW g2,
           Written(g, b, h, g2), NEW lo \in Nat,
           Rising(g), UpTo(g, lo), CountsFrom(b, lo), NEW hi, hi = lo + h
    PROVE  Rising(g2) /\ UpTo(g2, hi) /\ (Counts(g) /\ Len(g) = lo => Counts(g2) /\ Len(g2) = hi)
  <1>1. Len(b) \in Nat /\ h \in Nat
    BY LenProperties
  <1>2. PICK m \in Nat : m = Len(g)
    BY LenProperties
  <1>3. Len(g2) = m + h /\ \A i \in 1..m : g2[i] = g[i] /\ g[i] \in Nat
    BY <1>2, ElementOfSeq DEF Written
  <1>4. \A i \in 1..h : g2[m + i] = lo + i
    <2> SUFFICES ASSUME NEW i \in 1..h PROVE g2[m + i] = lo + i
      OBVIOUS
    <2>1. i \in 1..Len(b)
      BY <1>1
    <2>2. g2[m + i] = b[i]
      BY <1>2 DEF Written
    <2> QED
      BY <2>1, <2>2 DEF CountsFrom
  <1>5. \A i \in 1..(m + h) : i \in 1..m \/ \E x \in 1..h : i = m + x
    <2> SUFFICES ASSUME NEW i \in 1..(m + h), i \notin 1..m
                 PROVE  \E x \in 1..h : i = m + x
      OBVIOUS
    <2>1. i - m \in 1..h /\ i = m + (i - m)
      BY <1>1
    <2> QED
      BY <2>1
  <1>6. ASSUME NEW i \in 1..Len(g2), NEW j \in 1..Len(g2), i < j PROVE g2[i] < g2[j]
    <2>1. i \in 1..(m + h) /\ j \in 1..(m + h)
      BY <1>3
    <2>2. CASE j \in 1..m
      <3>1. i \in 1..m
        BY <1>6, <2>1, <2>2
      <3> QED
        BY <1>2, <1>3, <1>6, <2>2, <3>1 DEF Rising
    <2>3. CASE j \notin 1..m /\ i \in 1..m
      <3>1. PICK y \in 1..h : j = m + y
        BY <1>5, <2>1, <2>3
      <3>2. g2[j] = lo + y /\ g2[i] = g[i] /\ g[i] <= lo /\ g[i] \in Nat
        BY <1>2, <1>3, <1>4, <2>3, <3>1 DEF UpTo
      <3> QED
        BY <1>1, <3>2
    <2>4. CASE j \notin 1..m /\ i \notin 1..m
      <3>1. PICK x \in 1..h, y \in 1..h : i = m + x /\ j = m + y
        BY <1>5, <2>1, <2>4
      <3>2. x < y
        BY <1>1, <1>6, <3>1
      <3>3. g2[j] = lo + y /\ g2[i] = lo + x
        BY <1>4, <3>1
      <3> QED
        BY <1>1, <3>2, <3>3
    <2> QED
      BY <2>2, <2>3, <2>4
  <1>7. ASSUME NEW i \in 1..Len(g2) PROVE g2[i] <= lo + h
    <2>1. i \in 1..(m + h)
      BY <1>3
    <2>2. CASE i \in 1..m
      <3>1. g2[i] \in Nat /\ g2[i] <= lo
        BY <1>2, <1>3, <2>2 DEF UpTo
      <3> QED
        BY <1>1, <3>1
    <2>3. CASE i \notin 1..m
      <3>1. PICK x \in 1..h : i = m + x
        BY <1>5, <2>1, <2>3
      <3>2. g2[i] = lo + x
        BY <1>4, <3>1
      <3> QED
        BY <1>1, <3>2
    <2> QED
      BY <2>2, <2>3
  <1>8. ASSUME Counts(g), Len(g) = lo PROVE Counts(g2) /\ Len(g2) = lo + h
    <2>1. m = lo
      BY <1>2, <1>8
    <2>2. ASSUME NEW i \in 1..Len(g2) PROVE g2[i] = i
      <3>1. i \in 1..(m + h)
        BY <1>3
      <3>2. CASE i \in 1..m
        BY <1>2, <1>3, <1>8, <3>2 DEF Counts
      <3>3. CASE i \notin 1..m
        BY <1>4, <1>5, <2>1, <3>1, <3>3
      <3> QED
        BY <3>2, <3>3
    <2> QED
      BY <1>3, <2>1, <2>2 DEF Counts
  <1> QED
    BY <1>6, <1>7, <1>8 DEF Rising, UpTo

(* What concerns only the request is kept.                                 *)
LEMMA RequestStays ==
    ASSUME NEW k, NEW u, NEW n, NEW m, NEW r, NEW q, NEW l, NEW l2, NEW c,
           RequestOK(r, q, k, u, l, c), l => l2,
           n.buf = k.buf, n.sent = k.sent, n.rx = k.rx, n.rst = k.rst,
           m.got = u.got, m.write_enabled = u.write_enabled, m.conn = u.conn
    PROVE  RequestOK(r, q, n, m, l2, c)
  <1>1. \A lo, hi \in Nat : Follows(k, u, l, lo, hi) => Follows(n, m, l2, lo, hi)
    BY DEF Follows
  <1> QED
    BY <1>1 DEF RequestOK

(* A read of the upstream's connection, and what becomes of the client's.  *)
UpstreamRead(k, u, n) ==
    /\ n.conn = u.conn /\ n.sent = u.sent /\ n.rx = 0 /\ n.got = u.got
    /\ n.fin = u.fin /\ n.rst = u.rst /\ n.write_enabled = u.write_enabled
    /\ k.conn = "open" => n.buf = <<>>

ReplySent(k, m, b, h, l, l2) ==
    /\ k.conn = "open" /\ k.write_enabled /\ m.conn = k.conn /\ m.sent = k.sent /\ m.rx = k.rx
    /\ m.buf = k.buf /\ m.fin = k.fin /\ m.rst = k.rst /\ m.write_enabled = k.write_enabled
    /\ Written(k.got, b, h, m.got) /\ (l2 <=> l \/ h < Len(b))

LEMMA UpstreamReadOK ==
    ASSUME NEW k \in ConnType, NEW u \in ConnType, u.conn \in {"open", "closed"}, u.rx > 0,
           NEW n \in ConnType, NEW m \in ConnType, UpstreamRead(k, u, n),
           NEW r, NEW q, NEW l, NEW l2, NEW c, SessionOK(r, q, k, u, l, c),
           NEW b, ReadBytes(u, b), NEW h \in 0..Len(b),
           \/ k.conn # "open" /\ m = k /\ l2 = l
           \/ m.conn = "closed" /\ SameData(k, m) /\ ~m.write_enabled /\ l2 = l
           \/ ReplySent(k, m, b, h, l, l2)
    PROVE  SessionOK(r, q, m, n, l2, c)
  <1>1. PairOK(k, u) /\ JobsOK(r, q, k, u, c) /\ ReplyOK(k, u, l) /\ RequestOK(r, q, k, u, l, c)
    BY DEF SessionOK
  <1>2. /\ n.conn = u.conn /\ n.sent = u.sent /\ n.rx = 0 /\ n.got = u.got
        /\ n.fin = u.fin /\ n.rst = u.rst /\ n.write_enabled = u.write_enabled
        /\ k.conn = "open" => n.buf = <<>>
    BY DEF UpstreamRead
  <1>3. /\ m.buf = k.buf /\ m.sent = k.sent /\ m.rx = k.rx /\ m.rst = k.rst
        /\ m.conn = k.conn \/ m.conn = "closed"
        /\ m.conn = "open" => k.conn = "open" /\ ReplySent(k, m, b, h, l, l2)
    BY DEF SameData, ReplySent
  <1>4. u.sent \in Nat /\ u.rx \in Nat /\ k.got \in Seq(Nat) /\ ~u.rst /\ u.rx <= u.sent
    BY <1>1, ConnFields DEF PairOK, KernelOK
  <1>5. k.conn \in {"open", "closed"} /\ (k.conn = "closed" => ~k.write_enabled)
    BY <1>1 DEF PairOK, KernelOK
  <1>6. PairOK(m, n)
    <2>1. KernelOK(n)
      BY <1>1, <1>2, <1>4 DEF PairOK, KernelOK
    <2>2. KernelOK(m)
      <3>1. m.conn = "closed" => ~m.write_enabled
        BY <1>5 DEF ReplySent
      <3> QED
        BY <1>1, <1>3, <3>1 DEF PairOK, KernelOK
    <2> QED
      BY <1>1, <1>2, <1>3, <1>5, <2>1, <2>2 DEF PairOK
  <1>7. JobsOK(r, q, m, n, c)
    BY <1>1, <1>2, <1>3, <1>4 DEF JobsOK
  <1>8. RequestOK(r, q, m, n, l2, c)
    <2>1. l => l2
      BY DEF ReplySent
    <2> QED
      BY <1>1, <1>2, <1>3, <2>1, RequestStays
  <1>9. ReplyOK(m, n, l2)
    <2>1. CASE m.conn # "open" /\ m.got = k.got /\ l2 = l
      <3>1. \A i \in 1..Len(k.got) : k.got[i] <= n.sent - n.rx
        <4>1. \A i \in 1..Len(k.got) : k.got[i] \in Nat /\ k.got[i] <= u.sent - u.rx
          BY <1>1, <1>4, ElementOfSeq DEF ReplyOK
        <4> QED
          BY <1>2, <1>4, <4>1
      <3> QED
        BY <1>1, <2>1, <3>1 DEF ReplyOK
    <2>2. CASE ReplySent(k, m, b, h, l, l2)
      <3>1. k.conn = "open" /\ k.write_enabled /\ m.write_enabled
        BY <2>2 DEF ReplySent
      <3>2. u.buf = <<>> /\ Len(u.buf) = 0
        BY <1>1, <3>1 DEF PairOK
      <3>3. PICK lo \in Nat : lo = u.sent - u.rx
        BY <1>4
      <3>4. b \in Seq(Nat) /\ Len(b) = u.rx /\ CountsFrom(b, lo)
        BY <1>4, <3>2, <3>3 DEF ReadBytes, CountsFrom
      <3>5. Rising(k.got) /\ UpTo(k.got, lo) /\ Written(k.got, b, h, m.got)
        BY <1>1, <2>2, <3>3 DEF ReplyOK, ReplySent, UpTo
      <3>6. /\ Rising(m.got) /\ UpTo(m.got, lo + h)
            /\ Counts(k.got) /\ Len(k.got) = lo => Counts(m.got) /\ Len(m.got) = lo + h
        <4>1. PICK g \in Seq(Nat) : g = k.got
          BY <1>4
        <4>2. PICK g2, hi : g2 = m.got /\ hi = lo + h
          OBVIOUS
        <4>3. Rising(g) /\ UpTo(g, lo) /\ Written(g, b, h, g2)
          BY <3>5, <4>1, <4>2
        <4>4. Rising(g2) /\ UpTo(g2, hi) /\ (Counts(g) /\ Len(g) = lo => Counts(g2) /\ Len(g2) = hi)
          BY <3>4, <4>2, <4>3, WriteKeepsOrder
        <4> QED
          BY <4>1, <4>2, <4>4
      <3>7. h \in Nat /\ h <= u.rx /\ lo + u.rx = n.sent - n.rx
        BY <1>2, <1>4, <3>3, <3>4
      <3>8. \A i \in 1..Len(m.got) : m.got[i] <= n.sent - n.rx
        <4> SUFFICES ASSUME NEW i \in 1..Len(m.got) PROVE m.got[i] <= n.sent - n.rx
          OBVIOUS
        <4>1. PICK x \in Nat : x = m.got[i]
          BY ConnFields, ElementOfSeq
        <4>2. x <= lo + h
          BY <3>6, <4>1 DEF UpTo
        <4>3. x <= lo + u.rx
          BY <1>4, <3>7, <4>2
        <4> QED
          BY <3>7, <4>1, <4>3
      <3>9. ASSUME ~l2 PROVE Counts(m.got) /\ Len(m.got) = n.sent - n.rx
        <4>1. ~l /\ ~(h < Len(b))
          BY <2>2, <3>9 DEF ReplySent
        <4>2. h = u.rx
          BY <1>4, <3>4, <3>7, <4>1
        <4>3. Counts(k.got) /\ Len(k.got) = lo
          BY <1>1, <1>4, <3>1, <3>3, <4>1 DEF ReplyOK
        <4> QED
          BY <3>6, <3>7, <4>2, <4>3
      <3> QED
        BY <3>1, <3>6, <3>8, <3>9 DEF ReplyOK
    <2> QED
      BY <1>3, <2>1, <2>2 DEF SameData
  <1> QED
    BY <1>6, <1>7, <1>8, <1>9 DEF SessionOK

(* The upstream's connection is closed.                                    *)
LEMMA UpstreamClosesOK ==
    ASSUME NEW k \in ConnType, NEW u \in ConnType, u.conn \in {"open", "closed"},
           u.rst \/ (u.fin /\ u.rx = 0),
           NEW n \in ConnType, n.conn = "closed", SameData(u, n), ~n.write_enabled,
           NEW r, NEW q, NEW s, NEW l, NEW c, SessionOK(r, q, k, u, l, c),
           Grows(r, q, s, "shut_client", c)
    PROVE  SessionOK(r, s, k, n, l, c) /\ Onward(u, n)
  <1>1. PairOK(k, u) /\ JobsOK(r, q, k, u, c) /\ ReplyOK(k, u, l) /\ RequestOK(r, q, k, u, l, c)
    BY DEF SessionOK
  <1>2. /\ n.sent = u.sent /\ n.rx = u.rx /\ n.buf = u.buf /\ n.got = u.got
        /\ n.fin = u.fin /\ n.rst = u.rst
    BY DEF SameData
  <1>3. PairOK(k, n)
    BY <1>1, <1>2 DEF PairOK, KernelOK
  <1>4. JobsOK(r, s, k, n, c)
    BY <1>1, <1>2 DEF JobsOK, Grows
  <1>5. ReplyOK(k, n, l)
    BY <1>1, <1>2 DEF ReplyOK
  <1>6. RequestOK(r, s, k, n, l, c)
    BY <1>1, <1>2 DEF RequestOK
  <1>7. Onward(u, n)
    BY <1>2 DEF Onward
  <1> QED
    BY <1>3, <1>4, <1>5, <1>6, <1>7 DEF SessionOK

(* handle_close of the upstream's connection, in whichever handler.        *)
LEMMA UpstreamCloses ==
    ASSUME TunnelInv, NEW c \in Clients, NEW k \in ConnType, NEW u \in ConnType,
           k = cli[c], u = up[c], SessionOK(run, jobs, k, u, short, c),
           u.conn \in {"open", "closed"}, u.rst \/ (u.fin /\ u.rx = 0),
           jobs' = jobs \o OnClose(u, SessionOnError(c))
    PROVE  \E n \in ConnType :
              /\ n = Closed(u) /\ n.conn = "closed" /\ jobs' \in Seq(JobType)
              /\ SessionOK(run, jobs', k, n, short, c) /\ Onward(u, n) /\ n.rx = u.rx
              /\ \A d \in Clients \ {c} : KeepsJobs(run, jobs, run, jobs', d)
              /\ Grows(run, jobs, jobs', "shut_client", c)
  <1>1. jobs \in Seq(JobType) /\ run \in Seq(JobType)
    BY DEF TunnelInv, TunnelTypes
  <1>2. KernelOK(u)
    BY DEF SessionOK, PairOK
  <1>3. PICK n : n = Closed(u)
    OBVIOUS
  <1>4. n \in ConnType /\ n.conn = "closed" /\ SameData(u, n) /\ ~n.write_enabled
    BY <1>2, <1>3, ClosedFields
  <1>5. PICK e : e = OnClose(u, SessionOnError(c))
    OBVIOUS
  <1>6. e \in {<<>>, <<Job("shut_client", c, <<>>)>>}
    BY <1>5 DEF OnClose, SessionOnError
  <1>7. PICK s : s = jobs'
    OBVIOUS
  <1>8. s = jobs \o e
    BY <1>5, <1>7
  <1>9. /\ s \in Seq(JobType) /\ Grows(run, jobs, s, "shut_client", c)
        /\ \A d \in Clients \ {c} : KeepsJobs(run, jobs, run, s, d)
    BY <1>1, <1>6, <1>8, ToldGrows
  <1>10. SessionOK(run, s, k, n, short, c) /\ Onward(u, n)
    BY <1>4, <1>9, UpstreamClosesOK
  <1>11. n.rx = u.rx
    BY <1>4 DEF SameData
  <1> QED
    BY <1>3, <1>4, <1>7, <1>9, <1>10, <1>11

LEMMA HangupUpstreamKeeps ==
    ASSUME TunnelInv, NEW c \in Clients, HangupUpstream(c)
    PROVE  TunnelInv'
  <1>1. PICK k \in ConnType, u \in ConnType :
           /\ k = cli[c] /\ u = up[c] /\ SessionOK(run, jobs, k, u, short, c)
           /\ Due(k) => Noticed(Client(c), k)
           /\ Due(u) => Noticed(Upstream(c), u)
    BY SessionOf
  <1>2. TunnelTypes
    BY DEF TunnelInv
  <1>3. jobs \in Seq(JobType) /\ run \in Seq(JobType) /\ short \in BOOLEAN
    BY <1>2 DEF TunnelTypes
  <1>4. /\ u.conn \in {"open", "closed"} /\ ~Ended /\ loop = "hangup" /\ cur.sock = Upstream(c)
        /\ u.rx = 0 /\ (u.fin \/ u.rst) /\ ~At("read", Client(c))
    BY <1>1, AtUpstream DEF HangupUpstream
  <1>5. AfterClose(u, "batch") = "batch"
    BY <1>4, ClosesAlive
  <1>6. /\ UNCHANGED <<acceptorVars, cli, todo, run, short>>
        /\ loop' = "batch" /\ cur' = NoEntry
    BY <1>1, <1>5 DEF HangupUpstream, Goto
  <1>7. jobs' = jobs \o OnClose(u, SessionOnError(c))
    BY <1>1 DEF HangupUpstream
  <1>8. PICK n \in ConnType :
           /\ n = Closed(u) /\ n.conn = "closed" /\ jobs' \in Seq(JobType)
           /\ SessionOK(run, jobs', k, n, short, c) /\ Onward(u, n) /\ n.rx = u.rx
           /\ \A d \in Clients \ {c} : KeepsJobs(run, jobs, run, jobs', d)
    BY <1>1, <1>4, <1>7, UpstreamCloses
  <1>9. up' = [up EXCEPT ![c] = n]
    BY <1>1, <1>2, <1>8 DEF HangupUpstream, TunnelTypes
  <1>10. cli' = [cli EXCEPT ![c] = k] /\ Onward(cli[c], k)
    BY <1>1, <1>2, <1>6, SameConn DEF TunnelTypes, Onward
  <1>11. SessionMoves(c, k, n)
    BY <1>3, <1>4, <1>6, <1>8, <1>9, <1>10 DEF SessionMoves
  <1>12. LoopMoves(c, n)
    BY <1>1, <1>4, <1>6, <1>8 DEF LoopMoves, LoopLeaves
  <1>13. Due(k) => Noticed(Client(c), k)'
    BY <1>1, <1>4, <1>6, NoticeStays
  <1>14. ~Due(n)
    BY <1>8 DEF Due
  <1>15. SessionOK(run', jobs', k, n, short', c) /\ ~Ended'
    BY <1>6, <1>8 DEF Ended
  <1> QED
    BY <1>11, <1>12, <1>13, <1>14, <1>15, SessionMovesStep

LEMMA ReadUpstreamEndsKeeps ==
    ASSUME TunnelInv, NEW c \in Clients, ReadUpstreamEnds(c)
    PROVE  TunnelInv'
  <1>1. PICK k \in ConnType, u \in ConnType :
           /\ k = cli[c] /\ u = up[c] /\ SessionOK(run, jobs, k, u, short, c)
           /\ Due(k) => Noticed(Client(c), k)
           /\ Due(u) => Noticed(Upstream(c), u)
    BY SessionOf
  <1>2. TunnelTypes
    BY DEF TunnelInv
  <1>3. jobs \in Seq(JobType) /\ run \in Seq(JobType) /\ short \in BOOLEAN
    BY <1>2 DEF TunnelTypes
  <1>4. At("read", Upstream(c)) /\ u.rx = 0
    BY <1>1 DEF ReadUpstreamEnds
  <1>5. /\ u.conn \in {"open", "closed"} /\ ~Ended /\ loop = "read" /\ cur.sock = Upstream(c)
        /\ ~At("read", Client(c))
    BY <1>1, <1>4, AtUpstream
  <1>6. UNCHANGED <<acceptorVars, cli, short>>
    BY DEF ReadUpstreamEnds
  <1>7. Goto(AfterReading)
    <2>1. AfterClose(u, AfterReading) = AfterReading
      BY <1>5, ClosesAlive
    <2> QED
      BY <1>1, <2>1 DEF ReadUpstreamEnds, Goto
  <1>8. /\ LoopHangs \/ LoopLeaves
        /\ ~Ended' /\ UNCHANGED <<todo, run>>
    BY <1>5, <1>7, ReadingEnds
  <1>9. cli' = [cli EXCEPT ![c] = k] /\ Onward(cli[c], k)
    BY <1>1, <1>2, <1>6, SameConn DEF TunnelTypes, Onward
  <1>10. Due(k) => Noticed(Client(c), k)'
    BY <1>1, <1>5, <1>8, NoticeStays
  <1>11. CASE ~u.fin /\ ~u.rst
    <2>1. up' = up /\ jobs' = jobs
      BY <1>1, <1>11 DEF ReadUpstreamEnds
    <2>2. up' = [up EXCEPT ![c] = u]
      BY <1>1, <1>2, <2>1, SameConn DEF TunnelTypes
    <2>3. SessionMoves(c, k, u)
      BY <1>3, <1>5, <1>6, <1>8, <1>9, <2>1, <2>2, SameJobs DEF SessionMoves
    <2>4. LoopMoves(c, u)
      BY <1>1, <1>4, <1>5, <1>8 DEF LoopMoves, Onward
    <2>5. ~Due(u)
      BY <1>4, <1>11 DEF Due
    <2>6. SessionOK(run', jobs', k, u, short', c)
      BY <1>1, <1>6, <1>8, <2>1
    <2> QED
      BY <1>8, <1>10, <2>3, <2>4, <2>5, <2>6, SessionMovesStep
  <1>12. CASE u.fin \/ u.rst
    <2>1. jobs' = jobs \o OnClose(u, SessionOnError(c))
      BY <1>1, <1>12 DEF ReadUpstreamEnds
    <2>2. PICK n \in ConnType :
             /\ n = Closed(u) /\ n.conn = "closed" /\ jobs' \in Seq(JobType)
             /\ SessionOK(run, jobs', k, n, short, c) /\ Onward(u, n) /\ n.rx = u.rx
             /\ \A d \in Clients \ {c} : KeepsJobs(run, jobs, run, jobs', d)
      BY <1>1, <1>4, <1>5, <1>12, <2>1, UpstreamCloses
    <2>3. up' = [up EXCEPT ![c] = n]
      BY <1>1, <1>12, <2>2 DEF ReadUpstreamEnds
    <2>4. SessionMoves(c, k, n)
      BY <1>3, <1>5, <1>6, <1>8, <1>9, <2>2, <2>3 DEF SessionMoves
    <2>5. LoopMoves(c, n)
      BY <1>1, <1>4, <1>5, <1>8, <2>2 DEF LoopMoves
    <2>6. ~Due(n)
      BY <2>2 DEF Due
    <2>7. SessionOK(run', jobs', k, n, short', c)
      BY <1>6, <1>8, <2>2
    <2> QED
      BY <1>8, <1>10, <2>2, <2>4, <2>5, <2>6, <2>7, SessionMovesStep
  <1> QED
    BY <1>11, <1>12

LEMMA ReadUpstreamKeeps ==
    ASSUME TunnelInv, NEW c \in Clients, ReadUpstream(c)
    PROVE  TunnelInv'
  <1>1. PICK k \in ConnType, u \in ConnType :
           /\ k = cli[c] /\ u = up[c] /\ SessionOK(run, jobs, k, u, short, c)
           /\ Due(k) => Noticed(Client(c), k)
           /\ Due(u) => Noticed(Upstream(c), u)
    BY SessionOf
  <1>2. TunnelTypes
    BY DEF TunnelInv
  <1>3. jobs \in Seq(JobType) /\ run \in Seq(JobType) /\ short \in BOOLEAN
    BY <1>2 DEF TunnelTypes
  <1>4. At("read", Upstream(c)) /\ u.rx > 0
    BY <1>1 DEF ReadUpstream
  <1>5. /\ u.conn \in {"open", "closed"} /\ ~Ended /\ loop = "read" /\ cur.sock = Upstream(c)
        /\ ~At("read", Client(c))
    BY <1>1, <1>4, AtUpstream
  <1>6. KernelOK(u) /\ KernelOK(k) /\ k.conn \in {"open", "closed"}
    BY <1>1, <1>5 DEF SessionOK, PairOK
  <1>7. ~u.rst
    BY <1>4, <1>6, ConnFields DEF KernelOK
  <1>8. PICK b : b = u.buf \o Unread(u)
    OBVIOUS
  <1>9. ReadBytes(u, b) /\ b \in Seq(Nat)
    BY <1>6, <1>8, BytesOfRead DEF ReadBytes
  <1>10. PICK left \in Seq(Nat) : left = IF ClientConn(c) THEN <<>> ELSE b
    BY <1>9, EmptySeq
  <1>11. PICK n : n = [u EXCEPT !.rx = 0, !.buf = left]
    OBVIOUS
  <1>12. n \in ConnType /\ n.conn = u.conn /\ n.rx = 0 /\ n.buf = left
    BY <1>11 DEF ConnType
  <1>13. /\ n.sent = u.sent /\ n.got = u.got /\ n.fin = u.fin /\ n.rst = u.rst
         /\ n.write_enabled = u.write_enabled
    BY <1>11 DEF ConnType
  <1>14. k.conn = "open" => ClientConn(c) /\ left = <<>>
    BY <1>1, <1>10, Upgrades
  <1>15. UpstreamRead(k, u, n)
    BY <1>12, <1>13, <1>14 DEF UpstreamRead
  <1>16. Onward(u, n)
    BY <1>5, <1>12, <1>13 DEF Onward
  <1>17. up' = [up EXCEPT ![c] = n]
    BY <1>1, <1>2, <1>8, <1>10, <1>11 DEF ReadUpstream, TunnelTypes
  <1>18. UNCHANGED <<acceptorVars, jobs, todo, run, held, cur>>
    BY DEF ReadUpstream
  <1>19. Len(b) \in Nat /\ 0 \in 0..Len(b)
    BY <1>9, LenProperties
  <1>20. \A d \in Clients \ {c} : KeepsJobs(run, jobs, run', jobs', d)
    BY <1>18, SameJobs
  <1>21. CASE /\ ~ClientConn(c) \/ ~cli[c].write_enabled
              /\ UNCHANGED <<cli, loop, short>>
    <2>1. k.conn # "open"
      <3>1. ReplyOK(k, u, short)
        BY <1>1 DEF SessionOK
      <3>2. u.rx \in Nat
        BY ConnFields
      <3> QED
        BY <1>1, <1>4, <1>7, <1>14, <1>21, <3>1, <3>2 DEF ReplyOK
    <2>2. SessionOK(run, jobs, k, n, short, c)
      BY <1>1, <1>4, <1>5, <1>9, <1>12, <1>15, <1>19, <2>1, UpstreamReadOK
    <2>3. cli' = [cli EXCEPT ![c] = k] /\ Onward(cli[c], k)
      BY <1>1, <1>2, <1>21, SameConn DEF TunnelTypes, Onward
    <2>4. SessionMoves(c, k, n)
      BY <1>3, <1>5, <1>17, <1>18, <1>20, <1>21, <2>3 DEF SessionMoves
    <2>5. LoopMoves(c, n)
      BY <1>1, <1>16, <1>18, <1>21 DEF LoopMoves, LoopStays
    <2>6. ~Due(k)
      BY <2>1 DEF Due
    <2>7. Noticed(Upstream(c), n)'
      BY <1>4, <1>18, <1>21 DEF Noticed, At
    <2>8. SessionOK(run', jobs', k, n, short', c) /\ ~Ended'
      BY <1>5, <1>18, <1>21, <2>2 DEF Ended
    <2> QED
      BY <1>12, <2>4, <2>5, <2>6, <2>7, <2>8, SessionMovesStep
  <1>22. CASE /\ ClientConn(c) /\ cli[c].write_enabled /\ cli[c].rst
              /\ cli' = [cli EXCEPT ![c] = Closed(@)]
              /\ loop' = "stuck" /\ UNCHANGED short
    <2>1. PICK m : m = Closed(k)
      OBVIOUS
    <2>2. m \in ConnType /\ m.conn = "closed" /\ SameData(k, m) /\ ~m.write_enabled
      BY <1>6, <2>1, ClosedFields
    <2>3. SessionOK(run, jobs, m, n, short, c)
      BY <1>1, <1>4, <1>5, <1>9, <1>12, <1>15, <1>19, <2>2, UpstreamReadOK
    <2>4. cli' = [cli EXCEPT ![c] = m]
      BY <1>1, <1>2, <1>22, <2>1 DEF TunnelTypes
    <2>5. Onward(cli[c], m) /\ m.rst
      BY <1>1, <1>6, <1>22, <2>2 DEF Onward, SameData
    <2>6. SessionMoves(c, m, n)
      BY <1>3, <1>5, <1>17, <1>18, <1>20, <1>22, <2>4, <2>5 DEF SessionMoves
    <2>7. /\ LoopMoves(c, n)
          /\ loop' = "stuck" /\ cur'.sock = Upstream(c)
      BY <1>1, <1>5, <1>16, <1>18, <1>22 DEF LoopMoves, LoopLeaves
    <2>8. ~Due(m)
      BY <2>2 DEF Due
    <2>9. Noticed(Upstream(c), n)'
      BY <1>22 DEF Noticed, Ended
    <2>10. SessionOK(run', jobs', m, n, short', c)
      BY <1>18, <1>22, <2>3
    <2> QED
      BY <1>12, <2>2, <2>5, <2>6, <2>7, <2>8, <2>9, <2>10, SessionMovesStep
  <1>23. CASE /\ ClientConn(c) /\ cli[c].write_enabled /\ ~cli[c].rst
              /\ \E h \in 0..Len(b) :
                    /\ Write(b, h)
                    /\ cli' = [cli EXCEPT ![c].got = @ \o SubSeq(b, 1, h)]
              /\ UNCHANGED loop
    <2>1. PICK h \in 0..Len(b) :
             Write(b, h) /\ cli' = [cli EXCEPT ![c].got = @ \o SubSeq(b, 1, h)]
      BY <1>23
    <2>2. PICK g2 : g2 = k.got \o SubSeq(b, 1, h)
      OBVIOUS
    <2>3. k.got \in Seq(Nat)
      BY ConnFields
    <2>4. Written(k.got, b, h, g2)
      BY <1>9, <2>2, <2>3, WriteAppends
    <2>5. PICK m : m = [k EXCEPT !.got = g2]
      OBVIOUS
    <2>6. /\ m \in ConnType /\ m.got = g2 /\ m.conn = k.conn /\ m.sent = k.sent /\ m.rx = k.rx
      BY <2>4, <2>5 DEF ConnType, Written
    <2>7. m.buf = k.buf /\ m.fin = k.fin /\ m.rst = k.rst /\ m.write_enabled = k.write_enabled
          /\ m.edge = k.edge
      BY <2>5 DEF ConnType
    <2>8. short' \in BOOLEAN /\ (short' <=> short \/ h < Len(b))
      BY <1>3, <2>1 DEF Write
    <2>9. k.conn = "open" /\ k.write_enabled
      BY <1>1, <1>6, <1>23 DEF KernelOK
    <2>10. ReplySent(k, m, b, h, short, short')
      BY <2>4, <2>6, <2>7, <2>8, <2>9 DEF ReplySent
    <2>11. SessionOK(run, jobs, m, n, short', c)
      BY <1>1, <1>4, <1>5, <1>9, <1>12, <1>15, <2>6, <2>10, UpstreamReadOK
    <2>12. cli' = [cli EXCEPT ![c] = m]
      BY <1>1, <1>2, <2>1, <2>2, <2>5 DEF TunnelTypes
    <2>13. Onward(cli[c], m)
      BY <1>1, <2>6, <2>7, <2>9 DEF Onward
    <2>14. SessionMoves(c, m, n)
      BY <1>3, <1>5, <1>17, <1>18, <1>20, <2>8, <2>12, <2>13 DEF SessionMoves
    <2>15. LoopMoves(c, n)
      BY <1>1, <1>16, <1>18, <1>23 DEF LoopMoves, LoopStays
    <2>16. Noticed(Upstream(c), n)'
      BY <1>4, <1>18, <1>23 DEF Noticed, At
    <2>17. Due(m) => Noticed(Client(c), m)'
      <3>1. Due(k) => Noticed(Client(c), k)'
        BY <1>1, <1>5, <1>18, NoticeStays
      <3> QED
        BY <2>6, <2>7, <3>1 DEF Due, Noticed
    <2>18. SessionOK(run', jobs', m, n, short', c) /\ ~Ended'
      BY <1>5, <1>18, <1>23, <2>11 DEF Ended
    <2> QED
      BY <1>12, <2>6, <2>14, <2>15, <2>16, <2>17, <2>18, SessionMovesStep
  <1> QED
    BY <1>1, <1>8, <1>21, <1>22, <1>23 DEF ReadUpstream

-----------------------------------------------------------------------------
(* The jobs of the batch.  Where the upstream takes nothing any more a job *)
(* is just gone; so is one that sends nothing.                             *)
LEMMA ChainShift ==
    ASSUME NEW q \in Seq(JobType), NEW c, NEW lo \in Nat, NEW m \in Nat, Chain(q, c, lo, lo)
    PROVE  Chain(q, c, m, m)
  <1>1. Len(q) \in Nat /\ 0 \in 0..Len(q) /\ Len(q) \in 0..Len(q)
    OBVIOUS
  <1>2. PICK p \in [0..Len(q) -> Nat] : p[0] = lo /\ p[Len(q)] = lo /\ Places(q, c, p)
    BY DEF Chain
  <1>3. \A i \in 0..Len(q) : p[i] = lo
    <2> SUFFICES ASSUME NEW i \in 0..Len(q) PROVE p[i] = lo
      OBVIOUS
    <2>1. p[0] <= p[i] /\ p[i] <= p[Len(q)] /\ p[i] \in Nat
      BY <1>1, <1>2 DEF Places
    <2> QED
      BY <1>2, <2>1
  <1>4. PICK n : n = [i \in 0..Len(q) |-> m]
    OBVIOUS
  <1>5. n \in [0..Len(q) -> Nat] /\ n[0] = m /\ n[Len(q)] = m
    BY <1>1, <1>4
  <1>6. ASSUME NEW i \in 1..Len(q)
        PROVE  /\ IsSend(q[i], c) => n[i] = n[i - 1] + Len(q[i].bytes) /\ Carries(q[i], n[i - 1])
               /\ ~IsSend(q[i], c) => n[i] = n[i - 1]
    <2>1. i \in 0..Len(q) /\ i - 1 \in 0..Len(q)
      BY <1>1
    <2>2. n[i] = m /\ n[i - 1] = m /\ p[i] = lo /\ p[i - 1] = lo
      BY <1>3, <1>4, <2>1
    <2>3. q[i] \in JobType
      BY ElementOfSeq
    <2>4. Len(q[i].bytes) \in Nat
      BY <2>3 DEF JobType
    <2>5. IsSend(q[i], c) => Len(q[i].bytes) = 0
      BY <1>2, <2>2, <2>4 DEF Places
    <2>6. IsSend(q[i], c) => Carries(q[i], m)
      BY <2>5 DEF Carries
    <2> QED
      BY <2>2, <2>5, <2>6
  <1>7. \A i, j \in 0..Len(q) : i <= j => n[i] <= n[j]
    BY <1>4
  <1>8. Places(q, c, n)
    BY <1>6, <1>7 DEF Places
  <1> QED
    BY <1>5, <1>8 DEF Chain

LEMMA ChainsShift ==
    ASSUME NEW r \in Seq(JobType), NEW q \in Seq(JobType), NEW c, NEW lo \in Nat, NEW m \in Nat,
           Chains(r, q, c, lo, lo)
    PROVE  Chains(r, q, c, m, m)
  <1>1. PICK mid \in Nat : Chain(r, c, lo, mid) /\ Chain(q, c, mid, lo)
    BY DEF Chains
  <1>2. lo <= mid /\ mid <= lo
    BY <1>1, ChainBounds
  <1>3. mid = lo
    BY <1>2
  <1>4. Chain(r, c, m, m) /\ Chain(q, c, m, m)
    BY <1>1, <1>3, ChainShift
  <1> QED
    BY <1>4 DEF Chains

(* The first job of the batch belongs to the session.                      *)
Takes(r, s, j, c) == r \in Seq(JobType) /\ r # <<>> /\ j = Head(r) /\ s = Tail(r) /\ j.c = c

LEMMA TakesWaits ==
    ASSUME NEW r, NEW s, NEW j, NEW c, NEW q \in Seq(JobType), Takes(r, s, j, c)
    PROVE  /\ Waits(r, q, j.kind, c)
           /\ \A kind : Waits(s, q, kind, c) => Waits(r, q, kind, c)
           /\ \A kind : kind # j.kind => (Waits(s, q, kind, c) <=> Waits(r, q, kind, c))
  BY TakeJob DEF Takes

LEMMA TakesChains ==
    ASSUME NEW r, NEW s, NEW j, NEW c, NEW q \in Seq(JobType), Takes(r, s, j, c),
           NEW lo \in Nat, NEW hi \in Nat, Chains(r, q, c, lo, hi)
    PROVE  /\ lo <= hi
           /\ j.kind # "send" => Chains(s, q, c, lo, hi)
           /\ j.kind = "send" =>
                 Carries(j, lo) /\ lo + Len(j.bytes) <= hi /\ Chains(s, q, c, lo + Len(j.bytes), hi)
  BY TakeJob DEF Takes

LEMMA TakesOthers ==
    ASSUME NEW r, NEW s, NEW j, NEW c, NEW q \in Seq(JobType), Takes(r, s, j, c)
    PROVE  /\ s \in Seq(JobType) /\ j \in JobType
           /\ \A d : d # c => KeepsJobs(r, q, s, q, d)
  BY TakeJob DEF Takes

LEMMA TakesJobsOK ==
    ASSUME NEW r, NEW s, NEW j, NEW c, NEW q \in Seq(JobType), Takes(r, s, j, c),
           NEW k, NEW n, NEW u, NEW m, JobsOK(r, q, k, u, c),
           m.conn = u.conn, m.rst = u.rst, m.fin = u.fin, m.rx = u.rx, n.conn = k.conn,
           n.buf = k.buf \/ n.buf = <<>>, j.kind = "flush" => n.buf = <<>>
    PROVE  JobsOK(s, q, n, m, c)
  <1>1. \A kind : Waits(s, q, kind, c) => Waits(r, q, kind, c)
    BY TakesWaits
  <1>2. j.kind # "flush" => (Waits(s, q, "flush", c) <=> Waits(r, q, "flush", c))
    BY TakesWaits
  <1> QED
    BY <1>1, <1>2 DEF JobsOK

LEMMA TakeUnsent ==
    ASSUME NEW r, NEW s, NEW j, NEW c, NEW q \in Seq(JobType), Takes(r, s, j, c),
           NEW k \in ConnType, NEW u \in ConnType, NEW l, SessionOK(r, q, k, u, l, c),
           ~u.write_enabled, NEW n, n.conn = k.conn, n.sent = k.sent, n.rx = k.rx,
           n.got = k.got, n.rst = k.rst, n.write_enabled = k.write_enabled,
           n.buf = k.buf \/ n.buf = <<>>, j.kind = "flush" => n.buf = <<>>
    PROVE  SessionOK(s, q, n, u, l, c)
  <1>1. PairOK(k, u) /\ JobsOK(r, q, k, u, c) /\ ReplyOK(k, u, l) /\ RequestOK(r, q, k, u, l, c)
    BY DEF SessionOK
  <1>2. PairOK(n, u)
    BY <1>1 DEF PairOK, KernelOK
  <1>3. JobsOK(s, q, n, u, c)
    BY <1>1, TakesJobsOK
  <1>4. ReplyOK(n, u, l)
    BY <1>1 DEF ReplyOK
  <1>5. RequestOK(s, q, n, u, l, c)
    BY <1>1 DEF RequestOK
  <1> QED
    BY <1>2, <1>3, <1>4, <1>5 DEF SessionOK

LEMMA TakeSilent ==
    ASSUME NEW r, NEW s, NEW j, NEW c, NEW q \in Seq(JobType), Takes(r, s, j, c),
           NEW k \in ConnType, NEW u \in ConnType, NEW l, SessionOK(r, q, k, u, l, c),
           j.kind # "send", j.kind = "flush" => k.buf = <<>>
    PROVE  SessionOK(s, q, k, u, l, c)
  <1>1. PairOK(k, u) /\ JobsOK(r, q, k, u, c) /\ ReplyOK(k, u, l) /\ RequestOK(r, q, k, u, l, c)
    BY DEF SessionOK
  <1>2. JobsOK(s, q, k, u, c)
    BY <1>1, TakesJobsOK
  <1>3. \A lo, hi \in Nat : Chains(r, q, c, lo, hi) => Chains(s, q, c, lo, hi)
    BY TakesChains
  <1>4. RequestOK(s, q, k, u, l, c)
    BY <1>1, <1>3 DEF RequestOK
  <1> QED
    BY <1>1, <1>2, <1>4 DEF SessionOK

(* A write to the upstream.                                                *)
UpstreamSent(u, n, b, h, l, l2) ==
    /\ n.conn = u.conn /\ n.sent = u.sent /\ n.rx = u.rx /\ n.buf = u.buf /\ n.fin = u.fin
    /\ n.rst = u.rst /\ n.write_enabled = u.write_enabled
    /\ Written(u.got, b, h, n.got) /\ (l2 <=> l \/ h < Len(b))

(* How far the upstream has got.                                           *)
GotTo(u, l, lo) == Rising(u.got) /\ UpTo(u.got, lo) /\ (~l => Counts(u.got) /\ Len(u.got) = lo)

(* What follows from the place lo that the upstream has come to.           *)
LEMMA UpstreamGets ==
    ASSUME NEW u \in ConnType, NEW n, NEW b \in Seq(Nat), NEW h \in 0..Len(b), NEW l, NEW l2,
           UpstreamSent(u, n, b, h, l, l2), NEW lo \in Nat, NEW m, m = lo + Len(b),
           GotTo(u, l, lo), CountsFrom(b, lo)
    PROVE  m \in Nat /\ GotTo(n, l2, m)
  <1>1. Len(b) \in Nat /\ h \in Nat /\ h <= Len(b)
    BY LenProperties
  <1>2. PICK g \in Seq(Nat) : g = u.got
    BY ConnFields
  <1>3. PICK g2, hi : g2 = n.got /\ hi = lo + h
    OBVIOUS
  <1>4. Rising(g) /\ UpTo(g, lo) /\ Written(g, b, h, g2)
    BY <1>2, <1>3 DEF UpstreamSent, GotTo
  <1>5. Rising(g2) /\ UpTo(g2, hi) /\ (Counts(g) /\ Len(g) = lo => Counts(g2) /\ Len(g2) = hi)
    BY <1>3, <1>4, WriteKeepsOrder
  <1>6. m \in Nat /\ hi \in Nat /\ hi <= m
    BY <1>1, <1>3
  <1>7. UpTo(g2, m)
    <2> SUFFICES ASSUME NEW i \in 1..Len(g2) PROVE g2[i] <= m
      BY DEF UpTo
    <2>1. g2[i] <= hi /\ g2[i] \in Nat
      BY <1>4, <1>5, ElementOfSeq DEF UpTo, Written
    <2> QED
      BY <1>6, <2>1
  <1>8. ASSUME ~l2 PROVE Counts(g2) /\ Len(g2) = m
    <2>1. ~l /\ ~(h < Len(b))
      BY <1>8 DEF UpstreamSent
    <2>2. h = Len(b)
      BY <1>1, <2>1
    <2>3. hi = m
      BY <1>3, <2>2
    <2> QED
      BY <1>2, <1>5, <2>1, <2>3 DEF GotTo
  <1> QED
    BY <1>3, <1>5, <1>6, <1>7, <1>8 DEF GotTo

LEMMA UpstreamSentPair ==
    ASSUME NEW k \in ConnType, NEW u \in ConnType, NEW n, NEW b, NEW h, NEW l, NEW l2, NEW m,
           UpstreamSent(u, n, b, h, l, l2), u.conn \in {"open", "closed"},
           PairOK(k, u), ReplyOK(k, u, l),
           m.conn = k.conn, m.sent = k.sent, m.rx = k.rx, m.got = k.got, m.rst = k.rst,
           m.write_enabled = k.write_enabled
    PROVE  PairOK(m, n) /\ ReplyOK(m, n, l2)
  <1>1. /\ n.conn = u.conn /\ n.sent = u.sent /\ n.rx = u.rx /\ n.buf = u.buf /\ n.fin = u.fin
        /\ n.rst = u.rst /\ n.write_enabled = u.write_enabled /\ (l => l2)
    BY DEF UpstreamSent
  <1>2. PairOK(m, n)
    BY <1>1 DEF PairOK, KernelOK
  <1>3. ReplyOK(m, n, l2)
    BY <1>1 DEF ReplyOK
  <1> QED
    BY <1>2, <1>3

LEMMA SendOK ==
    ASSUME NEW r, NEW s, NEW j, NEW c, NEW q \in Seq(JobType), Takes(r, s, j, c), j.kind = "send",
           NEW k \in ConnType, NEW u \in ConnType, NEW n, NEW l, NEW l2, NEW h \in 0..Len(j.bytes),
           SessionOK(r, q, k, u, l, c), u.write_enabled, UpstreamSent(u, n, j.bytes, h, l, l2)
    PROVE  SessionOK(s, q, k, n, l2, c)
  <1>1. PairOK(k, u) /\ JobsOK(r, q, k, u, c) /\ ReplyOK(k, u, l) /\ RequestOK(r, q, k, u, l, c)
    BY DEF SessionOK
  <1>2. j \in JobType /\ s \in Seq(JobType)
    BY TakesOthers
  <1>3. PICK b \in Seq(Nat) : b = j.bytes
    BY <1>2 DEF JobType
  <1>4. u.conn \in {"open", "closed"}
    <2>1. Waits(r, q, "send", c)
      BY TakesWaits
    <2> QED
      BY <1>1, <2>1 DEF JobsOK
  <1>5. PairOK(k, n) /\ ReplyOK(k, n, l2)
    BY <1>1, <1>4, UpstreamSentPair
  <1>6. JobsOK(s, q, k, n, c)
    <2>1. n.conn = u.conn /\ n.rst = u.rst /\ n.fin = u.fin /\ n.rx = u.rx
      BY DEF UpstreamSent
    <2> QED
      BY <1>1, <2>1, TakesJobsOK
  <1>7. PICK lo \in Nat, hi \in Nat : Chains(r, q, c, lo, hi) /\ Follows(k, u, l, lo, hi)
    BY <1>1 DEF RequestOK
  <1>8. PICK m : m = lo + Len(b)
    OBVIOUS
  <1>9. Carries(j, lo) /\ m <= hi /\ Chains(s, q, c, m, hi)
    BY <1>3, <1>7, <1>8, TakesChains
  <1>10. CountsFrom(b, lo)
    BY <1>3, <1>9 DEF Carries, CountsFrom
  <1>11. GotTo(u, l, lo)
    BY <1>1, <1>7 DEF RequestOK, Follows, UpTo, GotTo
  <1>12. UpstreamSent(u, n, b, h, l, l2) /\ h \in 0..Len(b)
    BY <1>3
  <1>13. m \in Nat /\ GotTo(n, l2, m)
    BY <1>8, <1>10, <1>11, <1>12, UpstreamGets
  <1>14. k.buf # <<>> => m = hi
    <2>1. Len(b) \in Nat
      BY LenProperties
    <2>2. k.buf # <<>> => lo = hi
      BY <1>7 DEF Follows
    <2> QED
      BY <1>8, <1>9, <2>1, <2>2
  <1>15. Follows(k, n, l2, m, hi)
    <2>1. n.conn = u.conn
      BY DEF UpstreamSent
    <2> QED
      BY <1>4, <1>7, <1>13, <1>14, <2>1 DEF Follows, UpTo, GotTo
  <1>16. RequestOK(s, q, k, n, l2, c)
    BY <1>9, <1>13, <1>15 DEF RequestOK, GotTo
  <1> QED
    BY <1>5, <1>6, <1>16 DEF SessionOK

LEMMA FlushOK ==
    ASSUME NEW r, NEW s, NEW j, NEW c, NEW q \in Seq(JobType), Takes(r, s, j, c), j.kind = "flush",
           NEW k \in ConnType, NEW u \in ConnType, NEW n, NEW l, NEW l2, NEW h \in 0..Len(k.buf),
           SessionOK(r, q, k, u, l, c), u.write_enabled, k.buf # <<>>,
           UpstreamSent(u, n, k.buf, h, l, l2),
           NEW z, z.conn = k.conn, z.sent = k.sent, z.rx = k.rx, z.got = k.got, z.rst = k.rst,
           z.write_enabled = k.write_enabled, z.buf = <<>>
    PROVE  SessionOK(s, q, z, n, l2, c)
  <1>1. PairOK(k, u) /\ JobsOK(r, q, k, u, c) /\ ReplyOK(k, u, l) /\ RequestOK(r, q, k, u, l, c)
    BY DEF SessionOK
  <1>2. j \in JobType /\ s \in Seq(JobType)
    BY TakesOthers
  <1>3. PICK b \in Seq(Nat) : b = k.buf
    BY ConnFields
  <1>4. u.conn \in {"open", "closed"}
    <2>1. Waits(r, q, "flush", c)
      BY TakesWaits
    <2> QED
      BY <1>1, <2>1 DEF JobsOK
  <1>5. PairOK(z, n) /\ ReplyOK(z, n, l2)
    BY <1>1, <1>4, UpstreamSentPair
  <1>6. JobsOK(s, q, z, n, c)
    <2>1. n.conn = u.conn /\ n.rst = u.rst /\ n.fin = u.fin /\ n.rx = u.rx
      BY DEF UpstreamSent
    <2> QED
      BY <1>1, <2>1, TakesJobsOK
  <1>7. PICK lo \in Nat, hi \in Nat : Chains(r, q, c, lo, hi) /\ Follows(k, u, l, lo, hi)
    BY <1>1 DEF RequestOK
  <1>8. lo = hi
    BY <1>7 DEF Follows
  <1>9. PICK m : m = lo + Len(b)
    OBVIOUS
  <1>10. CountsFrom(b, lo)
    BY <1>3, <1>7, <1>8 DEF Follows, CountsFrom
  <1>11. GotTo(u, l, lo)
    BY <1>1, <1>7 DEF RequestOK, Follows, UpTo, GotTo
  <1>12. UpstreamSent(u, n, b, h, l, l2) /\ h \in 0..Len(b)
    BY <1>3
  <1>13. m \in Nat /\ GotTo(n, l2, m)
    BY <1>9, <1>10, <1>11, <1>12, UpstreamGets
  <1>14. Chains(s, q, c, m, m)
    <2>1. Chains(s, q, c, lo, lo)
      BY <1>7, <1>8, TakesChains
    <2> QED
      BY <1>2, <1>13, <2>1, ChainsShift
  <1>15. Follows(z, n, l2, m, m)
    <2>1. ~z.rst => m + Len(z.buf) = z.sent - z.rx
      <3>1. ~k.rst => hi + Len(k.buf) = k.sent - k.rx
        BY <1>7 DEF Follows
      <3>2. Len(z.buf) = 0
        OBVIOUS
      <3> QED
        BY <1>3, <1>8, <1>9, <1>13, <3>1, <3>2
    <2> QED
      BY <1>13, <2>1 DEF Follows, UpTo, GotTo
  <1>16. RequestOK(s, q, z, n, l2, c)
    BY <1>13, <1>14, <1>15 DEF RequestOK, GotTo
  <1> QED
    BY <1>5, <1>6, <1>16 DEF SessionOK

(* shutdown of either side.                                                *)
LEMMA ShutClientOK ==
    ASSUME NEW k \in ConnType, NEW u \in ConnType, NEW n \in ConnType, n.conn = k.conn,
           SameData(k, n), ~n.write_enabled, u.rst \/ (u.fin /\ u.rx = 0),
           NEW r, NEW q, NEW l, NEW c, SessionOK(r, q, k, u, l, c)
    PROVE  SessionOK(r, q, n, u, l, c)
  <1>1. PairOK(k, u) /\ JobsOK(r, q, k, u, c) /\ ReplyOK(k, u, l) /\ RequestOK(r, q, k, u, l, c)
    BY DEF SessionOK
  <1>2. /\ n.sent = k.sent /\ n.rx = k.rx /\ n.buf = k.buf /\ n.got = k.got /\ n.rst = k.rst
    BY DEF SameData
  <1>3. PairOK(n, u)
    BY <1>1, <1>2 DEF PairOK, KernelOK
  <1>4. JobsOK(r, q, n, u, c) /\ ReplyOK(n, u, l)
    BY <1>1, <1>2 DEF JobsOK, ReplyOK
  <1>5. RequestOK(r, q, n, u, l, c)
    BY <1>1, <1>2 DEF RequestOK, Follows
  <1> QED
    BY <1>3, <1>4, <1>5 DEF SessionOK

LEMMA ShutUpstreamOK ==
    ASSUME NEW k \in ConnType, NEW u \in ConnType, NEW n \in ConnType, n.conn = u.conn,
           SameData(u, n), ~n.write_enabled,
           NEW r, NEW q, NEW l, NEW c, SessionOK(r, q, k, u, l, c)
    PROVE  SessionOK(r, q, k, n, l, c)
  <1>1. PairOK(k, u) /\ JobsOK(r, q, k, u, c) /\ ReplyOK(k, u, l) /\ RequestOK(r, q, k, u, l, c)
    BY DEF SessionOK
  <1>2. /\ n.sent = u.sent /\ n.rx = u.rx /\ n.buf = u.buf /\ n.got = u.got
        /\ n.fin = u.fin /\ n.rst = u.rst
    BY DEF SameData
  <1>3. PairOK(k, n)
    BY <1>1, <1>2 DEF PairOK, KernelOK
  <1>4. JobsOK(r, q, k, n, c) /\ ReplyOK(k, n, l)
    BY <1>1, <1>2 DEF JobsOK, ReplyOK
  <1>5. RequestOK(r, q, k, n, l, c)
    BY <1>1, <1>2 DEF RequestOK
  <1> QED
    BY <1>3, <1>4, <1>5 DEF SessionOK

LEMMA RunTakes ==
    ASSUME TunnelInv, NEW c, NEW kind, NEW l, JobAt(kind, c), JobDone(l)
    PROVE  /\ Takes(run, run', Head(run), c) /\ Head(run).kind = kind
           /\ loop = "batch" /\ ~Ended /\ loop' = l /\ cur' = cur /\ todo' = todo
           /\ \A s : ~At("read", s)
  BY DEF TunnelInv, TunnelTypes, JobAt, JobDone, Takes, Ended, At

LEMMA BatchLeaves ==
    ASSUME loop = "batch", loop' \in {"batch", "shutdown"}, cur' = cur, NEW c, NEW u, Onward(up[c], u)
    PROVE  LoopMoves(c, u)
  BY DEF LoopMoves, LoopLeaves

(* The job's send to the upstream; z is the client's connection after it.  *)
Sends(j, k, z, b) ==
    /\ z.conn = k.conn /\ z.sent = k.sent /\ z.rx = k.rx /\ z.got = k.got /\ z.fin = k.fin
    /\ z.rst = k.rst /\ z.write_enabled = k.write_enabled /\ z.edge = k.edge
    /\ \/ j.kind = "send" /\ z.buf = k.buf /\ z = k /\ b = j.bytes
       \/ j.kind = "flush" /\ z.buf = <<>> /\ b = k.buf /\ k.buf # <<>>

LEMMA SendKeeps ==
    ASSUME TunnelInv, NEW c \in Clients, NEW j, NEW b \in Seq(Nat), NEW z \in ConnType,
           Takes(run, run', j, c), Sends(j, cli[c], z, b),
           cli' = [cli EXCEPT ![c] = z], SendUpstream(c, b),
           loop = "batch", loop' = "batch", cur' = cur, todo' = todo,
           UNCHANGED <<acceptorVars>>
    PROVE  TunnelInv'
  <1>1. PICK k \in ConnType, u \in ConnType :
           /\ k = cli[c] /\ u = up[c] /\ SessionOK(run, jobs, k, u, short, c)
           /\ Due(k) => Noticed(Client(c), k)
           /\ Due(u) => Noticed(Upstream(c), u)
    BY SessionOf
  <1>2. TunnelTypes /\ ~Ended /\ ~Ended'
    BY DEF TunnelInv, Ended
  <1>3. jobs \in Seq(JobType) /\ run \in Seq(JobType) /\ short \in BOOLEAN
    BY <1>2 DEF TunnelTypes
  <1>4. /\ z.conn = k.conn /\ z.sent = k.sent /\ z.rx = k.rx /\ z.got = k.got /\ z.fin = k.fin
        /\ z.rst = k.rst /\ z.write_enabled = k.write_enabled /\ z.edge = k.edge
        /\ z.buf = k.buf \/ z.buf = <<>>
        /\ j.kind = "flush" => z.buf = <<>>
        /\ j.kind \in {"send", "flush"}
    BY <1>1 DEF Sends
  <1>5. Onward(cli[c], z)
    BY <1>1, <1>4 DEF Onward
  <1>6. ~At("read", Client(c)) /\ ~At("read", Upstream(c))
    BY DEF At
  <1>7. Due(z) => Noticed(Client(c), z)'
    <2>1. Due(k) => Noticed(Client(c), k)'
      BY <1>1, <1>2, <1>6, NoticeStays
    <2> QED
      BY <1>4, <2>1 DEF Due, Noticed
  <1>8. Due(u) => Noticed(Upstream(c), u)'
    BY <1>1, <1>2, <1>6, NoticeStays
  <1>9. u.conn \in {"open", "closed"}
    <2>1. Waits(run, jobs, j.kind, c)
      BY <1>3, TakesWaits
    <2> QED
      BY <1>1, <1>4, <2>1 DEF SessionOK, JobsOK
  <1>10. CASE ~up[c].write_enabled /\ UNCHANGED <<up, jobs, short>>
    <2>0. ~u.write_enabled
      BY <1>1, <1>10
    <2>1. SessionOK(run', jobs, z, u, short, c)
      <3>1. PICK r, s, q, l : r = run /\ s = run' /\ q = jobs /\ l = short
        OBVIOUS
      <3>2. SessionOK(r, q, k, u, l, c) /\ Takes(r, s, j, c) /\ q \in Seq(JobType)
        BY <1>1, <1>3, <3>1
      <3>3. SessionOK(s, q, z, u, l, c)
        BY <1>4, <2>0, <3>2, TakeUnsent
      <3> QED
        BY <3>1, <3>3
    <2>2. /\ run' \in Seq(JobType)
          /\ \A d \in Clients \ {c} : KeepsJobs(run, jobs, run', jobs, d)
      BY <1>3, TakesOthers
    <2>3. up' = [up EXCEPT ![c] = u]
      BY <1>1, <1>2, <1>10, SameConn DEF TunnelTypes
    <2>4. SessionMoves(c, z, u)
      BY <1>2, <1>3, <1>5, <1>10, <2>2, <2>3 DEF SessionMoves
    <2>5. LoopMoves(c, u)
      <3>1. Onward(up[c], u)
        BY <1>1 DEF Onward
      <3> QED
        BY <3>1, BatchLeaves
    <2>6. SessionOK(run', jobs', z, u, short', c)
      BY <1>10, <2>1
    <2> QED
      BY <1>2, <1>7, <1>8, <2>4, <2>5, <2>6, SessionMovesStep
  <1>11. CASE /\ up[c].write_enabled /\ up[c].rst
              /\ up' = [up EXCEPT ![c] = Closed(@)]
              /\ jobs' = jobs \o OnClose(up[c], SessionOnError(c))
              /\ UNCHANGED short
    <2>1. jobs' = jobs \o OnClose(u, SessionOnError(c)) /\ u.rst
      BY <1>1, <1>11
    <2>2. PICK n \in ConnType :
             /\ n = Closed(u) /\ n.conn = "closed" /\ jobs' \in Seq(JobType)
             /\ SessionOK(run, jobs', k, n, short, c) /\ Onward(u, n) /\ n.rx = u.rx
             /\ \A d \in Clients \ {c} : KeepsJobs(run, jobs, run, jobs', d)
      BY <1>1, <1>9, <2>1, UpstreamCloses
    <2>3. ~n.write_enabled
      BY <2>2 DEF SessionOK, PairOK, KernelOK
    <2>4. SessionOK(run', jobs', z, n, short, c)
      BY <1>4, <2>2, <2>3, TakeUnsent
    <2>5. /\ run' \in Seq(JobType)
          /\ \A d \in Clients \ {c} : KeepsJobs(run, jobs', run', jobs', d)
      BY <2>2, TakesOthers
    <2>6. \A d \in Clients \ {c} : KeepsJobs(run, jobs, run', jobs', d)
      BY <2>2, <2>5 DEF KeepsJobs
    <2>7. up' = [up EXCEPT ![c] = n]
      BY <1>1, <1>2, <1>11, <2>2 DEF TunnelTypes
    <2>8. SessionMoves(c, z, n)
      BY <1>2, <1>3, <1>5, <1>11, <2>2, <2>5, <2>6, <2>7 DEF SessionMoves
    <2>9. LoopMoves(c, n)
      BY <1>1, <2>2, BatchLeaves
    <2>10. ~Due(n)
      BY <2>2 DEF Due
    <2>11. SessionOK(run', jobs', z, n, short', c)
      BY <1>11, <2>4
    <2> QED
      BY <1>2, <1>7, <2>2, <2>8, <2>9, <2>10, <2>11, SessionMovesStep
  <1>12. CASE /\ up[c].write_enabled /\ ~up[c].rst
              /\ \E h \in 0..Len(b) :
                    Write(b, h) /\ up' = [up EXCEPT ![c].got = @ \o SubSeq(b, 1, h)]
              /\ UNCHANGED jobs
    <2>1. PICK h \in 0..Len(b) :
             Write(b, h) /\ up' = [up EXCEPT ![c].got = @ \o SubSeq(b, 1, h)]
      BY <1>12
    <2>2. PICK g2 : g2 = u.got \o SubSeq(b, 1, h)
      OBVIOUS
    <2>3. u.got \in Seq(Nat)
      BY ConnFields
    <2>4. Written(u.got, b, h, g2)
      BY <2>2, <2>3, WriteAppends
    <2>5. PICK n : n = [u EXCEPT !.got = g2]
      OBVIOUS
    <2>6. /\ n \in ConnType /\ n.got = g2 /\ n.conn = u.conn /\ n.sent = u.sent /\ n.rx = u.rx
      BY <2>4, <2>5 DEF ConnType, Written
    <2>7. n.buf = u.buf /\ n.fin = u.fin /\ n.rst = u.rst /\ n.write_enabled = u.write_enabled
          /\ n.edge = u.edge
      BY <2>5 DEF ConnType
    <2>8. short' \in BOOLEAN /\ (short' <=> short \/ h < Len(b))
      BY <1>3, <2>1 DEF Write
    <2>9. UpstreamSent(u, n, b, h, short, short')
      BY <2>4, <2>6, <2>7, <2>8 DEF UpstreamSent
    <2>10. SessionOK(run', jobs, z, n, short', c)
      <3>1. CASE j.kind = "send" /\ z = k /\ b = j.bytes
        <4>1. u.write_enabled /\ UpstreamSent(u, n, j.bytes, h, short, short') /\ h \in 0..Len(j.bytes)
          BY <1>1, <1>12, <2>9, <3>1
        <4> QED
          BY <1>1, <1>3, <3>1, <4>1, SendOK
      <3>2. CASE j.kind = "flush" /\ z.buf = <<>> /\ b = k.buf /\ k.buf # <<>>
        <4>1. u.write_enabled /\ UpstreamSent(u, n, k.buf, h, short, short') /\ h \in 0..Len(k.buf)
          BY <1>1, <1>12, <2>9, <3>2
        <4> QED
          BY <1>1, <1>3, <1>4, <3>2, <4>1, FlushOK
      <3> QED
        BY <1>1, <3>1, <3>2 DEF Sends
    <2>11. /\ run' \in Seq(JobType)
           /\ \A d \in Clients \ {c} : KeepsJobs(run, jobs, run', jobs, d)
      BY <1>3, TakesOthers
    <2>12. up' = [up EXCEPT ![c] = n]
      BY <1>1, <1>2, <2>1, <2>2, <2>5 DEF TunnelTypes
    <2>13. SessionMoves(c, z, n)
      BY <1>2, <1>3, <1>5, <1>12, <2>8, <2>11, <2>12 DEF SessionMoves
    <2>14. LoopMoves(c, n)
      <3>1. Onward(up[c], n)
        BY <1>1, <2>6, <2>7 DEF Onward
      <3> QED
        BY <3>1, BatchLeaves
    <2>15. Due(n) => Noticed(Upstream(c), n)'
      BY <1>8, <2>6, <2>7 DEF Due, Noticed
    <2>16. SessionOK(run', jobs', z, n, short', c)
      BY <1>12, <2>10
    <2> QED
      BY <1>2, <1>7, <2>6, <2>13, <2>14, <2>15, <2>16, SessionMovesStep
  <1> QED
    BY <1>10, <1>11, <1>12 DEF SendUpstream

LEMMA RunSendKeeps ==
    ASSUME TunnelInv, NEW c \in Clients, RunSend(c)
    PROVE  TunnelInv'
  <1>1. JobAt("send", c) /\ JobDone("batch")
    BY DEF RunSend
  <1>2. PICK j : j = Head(run)
    OBVIOUS
  <1>3. /\ Takes(run, run', j, c) /\ j.kind = "send"
        /\ loop = "batch" /\ loop' = "batch" /\ cur' = cur /\ todo' = todo
    BY <1>1, <1>2, RunTakes
  <1>4. TunnelTypes
    BY DEF TunnelInv
  <1>5. j \in JobType
    BY <1>3, <1>4, TakesOthers DEF TunnelTypes
  <1>6. PICK b \in Seq(Nat) : b = j.bytes
    BY <1>5 DEF JobType
  <1>7. PICK z \in ConnType : z = cli[c]
    BY <1>4 DEF TunnelTypes
  <1>8. Sends(j, cli[c], z, b)
    BY <1>3, <1>6, <1>7 DEF Sends
  <1>9. cli' = [cli EXCEPT ![c] = z]
    BY <1>4, <1>7, SameConn DEF RunSend, TunnelTypes
  <1>10. SendUpstream(c, b) /\ UNCHANGED <<acceptorVars>>
    BY <1>2, <1>6 DEF RunSend
  <1> QED
    BY <1>3, <1>8, <1>9, <1>10, SendKeeps

LEMMA RunFlushKeeps ==
    ASSUME TunnelInv, NEW c \in Clients, RunFlush(c)
    PROVE  TunnelInv'
  <1>1. PICK k \in ConnType, u \in ConnType :
           /\ k = cli[c] /\ u = up[c] /\ SessionOK(run, jobs, k, u, short, c)
           /\ Due(k) => Noticed(Client(c), k)
           /\ Due(u) => Noticed(Upstream(c), u)
    BY SessionOf
  <1>2. JobAt("flush", c) /\ JobDone("batch")
    BY DEF RunFlush
  <1>3. PICK j : j = Head(run)
    OBVIOUS
  <1>4. /\ Takes(run, run', j, c) /\ j.kind = "flush" /\ ~Ended
        /\ loop = "batch" /\ loop' = "batch" /\ cur' = cur /\ todo' = todo
        /\ ~At("read", Client(c)) /\ ~At("read", Upstream(c))
    BY <1>2, <1>3, RunTakes
  <1>5. TunnelTypes
    BY DEF TunnelInv
  <1>6. jobs \in Seq(JobType) /\ short \in BOOLEAN
    BY <1>5 DEF TunnelTypes
  <1>7. PICK z : z = [k EXCEPT !.buf = <<>>]
    OBVIOUS
  <1>8. /\ z \in ConnType /\ z.conn = k.conn /\ z.sent = k.sent /\ z.rx = k.rx /\ z.got = k.got
        /\ z.buf = <<>>
    <2>1. PICK b \in Seq(Nat) : b = <<>>
      BY EmptySeq
    <2>2. z = [k EXCEPT !.buf = b]
      BY <1>7, <2>1
    <2> QED
      BY <2>1, <2>2 DEF ConnType
  <1>9. z.fin = k.fin /\ z.rst = k.rst /\ z.write_enabled = k.write_enabled /\ z.edge = k.edge
    BY <1>7 DEF ConnType
  <1>10. cli' = [cli EXCEPT ![c] = z]
    BY <1>1, <1>5, <1>7 DEF RunFlush, TunnelTypes
  <1>11. UNCHANGED <<acceptorVars>>
    BY DEF RunFlush
  <1>12. CASE k.buf = <<>>
    <2>1. z = k
      BY <1>7, <1>12 DEF ConnType
    <2>2. UNCHANGED <<up, jobs, short>>
      BY <1>1, <1>12 DEF RunFlush
    <2>3. SessionOK(run', jobs, k, u, short, c)
      BY <1>1, <1>4, <1>6, <1>12, TakeSilent
    <2>4. /\ run' \in Seq(JobType)
          /\ \A d \in Clients \ {c} : KeepsJobs(run, jobs, run', jobs, d)
      BY <1>4, <1>6, TakesOthers
    <2>5. up' = [up EXCEPT ![c] = u]
      BY <1>1, <1>5, <2>2, SameConn DEF TunnelTypes
    <2>6. Onward(cli[c], k) /\ Onward(up[c], u)
      BY <1>1 DEF Onward
    <2>7. SessionMoves(c, k, u)
      BY <1>4, <1>6, <1>10, <1>11, <2>1, <2>2, <2>4, <2>5, <2>6 DEF SessionMoves
    <2>8. LoopMoves(c, u)
      BY <1>4, <2>6, BatchLeaves
    <2>9. (Due(k) => Noticed(Client(c), k)') /\ (Due(u) => Noticed(Upstream(c), u)')
      BY <1>1, <1>4, NoticeStays
    <2>10. SessionOK(run', jobs', k, u, short', c) /\ ~Ended'
      BY <1>4, <2>2, <2>3 DEF Ended
    <2> QED
      BY <2>7, <2>8, <2>9, <2>10, SessionMovesStep
  <1>13. CASE k.buf # <<>>
    <2>1. PICK b \in Seq(Nat) : b = k.buf
      BY ConnFields
    <2>2. SendUpstream(c, b)
      BY <1>1, <1>13, <2>1 DEF RunFlush
    <2>3. Sends(j, cli[c], z, b)
      BY <1>1, <1>4, <1>8, <1>9, <1>13, <2>1 DEF Sends
    <2> QED
      BY <1>4, <1>8, <1>10, <1>11, <2>2, <2>3, SendKeeps
  <1> QED
    BY <1>12, <1>13

LEMMA RunShutClientKeeps ==
    ASSUME TunnelInv, NEW c \in Clients, RunShutClient(c)
    PROVE  TunnelInv'
  <1>1. PICK k \in ConnType, u \in ConnType :
           /\ k = cli[c] /\ u = up[c] /\ SessionOK(run, jobs, k, u, short, c)
           /\ Due(k) => Noticed(Client(c), k)
           /\ Due(u) => Noticed(Upstream(c), u)
    BY SessionOf
  <1>2. PICK l : l = IF cli[c].rst THEN "shutdown" ELSE "batch"
    OBVIOUS
  <1>3. JobAt("shut_client", c) /\ JobDone(l)
    BY <1>2 DEF RunShutClient, JobDone
  <1>4. PICK j : j = Head(run)
    OBVIOUS
  <1>5. /\ Takes(run, run', j, c) /\ j.kind = "shut_client" /\ ~Ended
        /\ loop = "batch" /\ loop' = l /\ cur' = cur /\ todo' = todo
        /\ ~At("read", Client(c)) /\ ~At("read", Upstream(c))
    BY <1>3, <1>4, RunTakes
  <1>6. TunnelTypes
    BY DEF TunnelInv
  <1>7. jobs \in Seq(JobType) /\ short \in BOOLEAN
    BY <1>6 DEF TunnelTypes
  <1>8. PICK m : m = [k EXCEPT !.write_enabled = FALSE]
    OBVIOUS
  <1>9. m \in ConnType /\ m.conn = k.conn /\ ~m.write_enabled
    BY <1>8 DEF ConnType
  <1>10. SameData(k, m)
    BY <1>8 DEF ConnType, SameData
  <1>11. PICK n : n = Raise(m)
    OBVIOUS
  <1>12. /\ n \in ConnType /\ n.conn = m.conn /\ SameData(m, n)
         /\ n.write_enabled = m.write_enabled /\ n.edge = Registered(m)
    BY <1>9, <1>11, RaiseFields
  <1>13. SameData(k, n) /\ n.conn = k.conn /\ ~n.write_enabled
    BY <1>9, <1>10, <1>12 DEF SameData
  <1>14. cli' = [cli EXCEPT ![c] = n]
    BY <1>1, <1>6, <1>8, <1>11 DEF RunShutClient, TunnelTypes
  <1>15. UNCHANGED <<acceptorVars, up, jobs, short>>
    BY DEF RunShutClient
  <1>16. u.rst \/ (u.fin /\ u.rx = 0)
    <2>1. Waits(run, jobs, "shut_client", c)
      BY <1>5, <1>7, TakesWaits
    <2> QED
      BY <1>1, <2>1 DEF SessionOK, JobsOK
  <1>17. SessionOK(run', jobs, k, u, short, c)
    BY <1>1, <1>5, <1>7, TakeSilent
  <1>18. SessionOK(run', jobs, n, u, short, c)
    BY <1>12, <1>13, <1>16, <1>17, ShutClientOK
  <1>19. /\ run' \in Seq(JobType)
         /\ \A d \in Clients \ {c} : KeepsJobs(run, jobs, run', jobs, d)
    BY <1>5, <1>7, TakesOthers
  <1>20. up' = [up EXCEPT ![c] = u]
    BY <1>1, <1>6, <1>15, SameConn DEF TunnelTypes
  <1>21. Onward(cli[c], n) /\ Onward(up[c], u)
    BY <1>1, <1>13 DEF Onward, SameData
  <1>22. SessionMoves(c, n, u)
    BY <1>5, <1>7, <1>14, <1>15, <1>19, <1>20, <1>21 DEF SessionMoves
  <1>23. LoopMoves(c, u)
    BY <1>2, <1>5, <1>21, BatchLeaves
  <1>24. Due(u) => Noticed(Upstream(c), u)'
    BY <1>1, <1>5, NoticeStays
  <1>25. Due(n) => Noticed(Client(c), n)'
    BY <1>12 DEF Due, Noticed, Registered
  <1>26. SessionOK(run', jobs', n, u, short', c)
    BY <1>15, <1>18
  <1>27. ~Ended' \/ (n.rst /\ loop' = "shutdown")
    BY <1>1, <1>2, <1>5, <1>13 DEF Ended, SameData
  <1> QED
    BY <1>12, <1>22, <1>23, <1>24, <1>25, <1>26, <1>27, SessionMovesStep

LEMMA RunShutUpstreamKeeps ==
    ASSUME TunnelInv, NEW c \in Clients, RunShutUpstream(c)
    PROVE  TunnelInv'
  <1>1. PICK k \in ConnType, u \in ConnType :
           /\ k = cli[c] /\ u = up[c] /\ SessionOK(run, jobs, k, u, short, c)
           /\ Due(k) => Noticed(Client(c), k)
           /\ Due(u) => Noticed(Upstream(c), u)
    BY SessionOf
  <1>2. JobAt("shut_upstream", c) /\ JobDone("batch")
    BY DEF RunShutUpstream
  <1>3. PICK j : j = Head(run)
    OBVIOUS
  <1>4. /\ Takes(run, run', j, c) /\ j.kind = "shut_upstream" /\ ~Ended
        /\ loop = "batch" /\ loop' = "batch" /\ cur' = cur /\ todo' = todo
        /\ ~At("read", Client(c)) /\ ~At("read", Upstream(c))
    BY <1>2, <1>3, RunTakes
  <1>5. TunnelTypes
    BY DEF TunnelInv
  <1>6. jobs \in Seq(JobType) /\ short \in BOOLEAN
    BY <1>5 DEF TunnelTypes
  <1>7. PICK m : m = [u EXCEPT !.write_enabled = FALSE]
    OBVIOUS
  <1>8. m \in ConnType /\ m.conn = u.conn /\ ~m.write_enabled
    BY <1>7 DEF ConnType
  <1>9. SameData(u, m)
    BY <1>7 DEF ConnType, SameData
  <1>10. PICK n : n = Raise(m)
    OBVIOUS
  <1>11. /\ n \in ConnType /\ n.conn = m.conn /\ SameData(m, n)
         /\ n.write_enabled = m.write_enabled /\ n.edge = Registered(m)
    BY <1>8, <1>10, RaiseFields
  <1>12. SameData(u, n) /\ n.conn = u.conn /\ ~n.write_enabled
    BY <1>8, <1>9, <1>11 DEF SameData
  <1>13. up' = [up EXCEPT ![c] = n]
    BY <1>1, <1>5, <1>7, <1>10 DEF RunShutUpstream, TunnelTypes
  <1>14. UNCHANGED <<acceptorVars, cli, jobs, short>>
    BY DEF RunShutUpstream
  <1>15. SessionOK(run', jobs, k, u, short, c)
    BY <1>1, <1>4, <1>6, TakeSilent
  <1>16. SessionOK(run', jobs, k, n, short, c)
    BY <1>11, <1>12, <1>15, ShutUpstreamOK
  <1>17. /\ run' \in Seq(JobType)
         /\ \A d \in Clients \ {c} : KeepsJobs(run, jobs, run', jobs, d)
    BY <1>4, <1>6, TakesOthers
  <1>18. cli' = [cli EXCEPT ![c] = k]
    BY <1>1, <1>5, <1>14, SameConn DEF TunnelTypes
  <1>19. Onward(cli[c], k) /\ Onward(up[c], n)
    BY <1>1, <1>12 DEF Onward, SameData
  <1>20. SessionMoves(c, k, n)
    BY <1>4, <1>6, <1>13, <1>14, <1>17, <1>18, <1>19 DEF SessionMoves
  <1>21. LoopMoves(c, n)
    BY <1>4, <1>19, BatchLeaves
  <1>22. Due(k) => Noticed(Client(c), k)'
    BY <1>1, <1>4, NoticeStays
  <1>23. Due(n) => Noticed(Upstream(c), n)'
    BY <1>11 DEF Due, Noticed, Registered
  <1>24. SessionOK(run', jobs', k, n, short', c) /\ ~Ended'
    BY <1>4, <1>14, <1>16 DEF Ended
  <1> QED
    BY <1>11, <1>20, <1>21, <1>22, <1>23, <1>24, SessionMovesStep

-----------------------------------------------------------------------------
(* The acceptor.                                                           *)
LEMMA EntryUnchanged ==
    ASSUME NEW e, EntryOK(e), UNCHANGED <<cli, up>>
    PROVE  EntryOK(e)'
  BY DEF EntryOK

(* A step in which no session and no batch changes.                        *)
LEMMA SessionsStand ==
    ASSUME TunnelInv, UNCHANGED <<cli, up, jobs, todo, run, short, backlog>>,
           \/ UNCHANGED <<loop, cur>>
           \/ loop \notin {"poll", "read"} /\ loop' = "batch" /\ ~Ended
    PROVE  /\ BacklogOK' /\ BatchOK' /\ HandlingOK' /\ LoopSurvives'
           /\ \A c \in Clients :
                 SessionOK(run, jobs, cli[c], up[c], short, c)' /\ NoticedOK(c)'
  <1>1. BacklogOK /\ BatchOK /\ HandlingOK /\ LoopSurvives
    BY DEF TunnelInv
  <1>2. BacklogOK'
    BY <1>1 DEF BacklogOK
  <1>3. \A e : EntryOK(e) => EntryOK(e)'
    BY EntryUnchanged
  <1>4. BatchOK'
    <2>1. loop' = "poll" => loop = "poll"
      OBVIOUS
    <2> QED
      BY <1>1, <1>3, <2>1 DEF BatchOK
  <1>5. HandlingOK'
    <2>1. CASE loop' = "batch"
      BY <2>1 DEF HandlingOK
    <2>2. CASE UNCHANGED <<loop, cur>>
      <3>1. EntryOK(cur) => EntryOK(cur)'
        BY <2>2 DEF EntryOK
      <3> QED
        BY <1>1, <2>2, <3>1 DEF HandlingOK
    <2> QED
      BY <2>1, <2>2
  <1>6. LoopSurvives'
    BY <1>1 DEF LoopSurvives, Ended
  <1>7. ASSUME NEW c \in Clients
        PROVE  SessionOK(run, jobs, cli[c], up[c], short, c)' /\ NoticedOK(c)'
    <2>1. SessionOK(run, jobs, cli[c], up[c], short, c) /\ NoticedOK(c)
      BY DEF TunnelInv
    <2>2. SessionOK(run, jobs, cli[c], up[c], short, c)'
      BY <2>1
    <2>3. ASSUME NEW s, NEW k, Noticed(s, k) PROVE Noticed(s, k)'
      BY <2>3 DEF Noticed, Ended, At
    <2>4. PICK k, u : k = cli[c] /\ u = up[c]
      OBVIOUS
    <2>5. (Due(k) => Noticed(Client(c), k)') /\ (Due(u) => Noticed(Upstream(c), u)')
      BY <2>1, <2>3, <2>4 DEF NoticedOK
    <2>6. NoticedOK(c)'
      BY <2>4, <2>5 DEF NoticedOK, Noticed
    <2> QED
      BY <2>2, <2>6
  <1> QED
    BY <1>2, <1>4, <1>5, <1>6, <1>7

LEMMA StartServerKeeps ==
    ASSUME TunnelInv, StartServer
    PROVE  TunnelInv'
  <1>1. TunnelTypes /\ BacklogNoticed
    BY DEF TunnelInv
  <1>2. UNCHANGED <<cli, up, jobs, todo, run, loop, cur, short, backlog, accept_failed>>
    BY DEF StartServer, Bind, SetAcceptJob, batchVars
  <1>3. /\ bound' \in BOOLEAN /\ accept_job' \in BOOLEAN /\ listener_edge' \in BOOLEAN
        /\ bound' /\ backlog # <<>> => listener_edge' \/ (bound /\ listener_edge' = listener_edge)
    BY <1>1 DEF StartServer, Bind, SetAcceptJob, TunnelTypes
  <1>4. TunnelTypes'
    BY <1>1, <1>2, <1>3 DEF TunnelTypes
  <1>5. BacklogNoticed'
    BY <1>1, <1>2, <1>3 DEF BacklogNoticed, Ended
  <1>6. /\ BacklogOK' /\ BatchOK' /\ HandlingOK' /\ LoopSurvives'
        /\ \A c \in Clients :
              SessionOK(run, jobs, cli[c], up[c], short, c)' /\ NoticedOK(c)'
    BY <1>2, SessionsStand
  <1> QED
    BY <1>4, <1>5, <1>6 DEF TunnelInv

LEMMA AcceptReturnsKeeps ==
    ASSUME TunnelInv, AcceptReturns
    PROVE  TunnelInv'
  <1>1. TunnelTypes
    BY DEF TunnelInv
  <1>2. /\ loop = "accept" /\ loop' = "batch" /\ cur' = NoEntry /\ ~Ended
        /\ UNCHANGED <<cli, up, jobs, todo, run, short>>
    BY DEF AcceptReturns, At, Goto, Ended
  <1>3. /\ UNCHANGED <<bound, accept_job, backlog, listener_edge>>
        /\ accept_failed' \in BOOLEAN /\ (backlog = <<>> \/ accept_failed')
    BY <1>1 DEF AcceptReturns, AcceptEnds, AcceptFails, acceptorVars, TunnelTypes
  <1>4. TunnelTypes'
    BY <1>1, <1>2, <1>3, NoEntryTyped DEF TunnelTypes, LoopPlaces
  <1>5. BacklogNoticed'
    BY <1>3 DEF BacklogNoticed
  <1>6. /\ BacklogOK' /\ BatchOK' /\ HandlingOK' /\ LoopSurvives'
        /\ \A c \in Clients :
              SessionOK(run, jobs, cli[c], up[c], short, c)' /\ NoticedOK(c)'
    BY <1>2, <1>3, SessionsStand
  <1> QED
    BY <1>4, <1>5, <1>6 DEF TunnelInv

LEMMA EndBatchKeeps ==
    ASSUME TunnelInv, EndBatch
    PROVE  TunnelInv'
  <1>1. TunnelTypes /\ BacklogOK /\ BatchOK /\ BacklogNoticed
    BY DEF TunnelInv
  <1>2. /\ loop = "batch" /\ loop' = "poll" /\ todo = {} /\ run = <<>> /\ ~Ended /\ ~Ended'
        /\ UNCHANGED <<cli, up, jobs, todo, run, cur, short>>
        /\ UNCHANGED <<bound, accept_job, backlog, listener_edge, accept_failed>>
    BY DEF EndBatch, acceptorVars, Ended
  <1>3. TunnelTypes' /\ BacklogOK'
    BY <1>1, <1>2 DEF TunnelTypes, LoopPlaces, BacklogOK
  <1>4. BatchOK' /\ HandlingOK'
    BY <1>2 DEF BatchOK, HandlingOK
  <1>5. BacklogNoticed' /\ LoopSurvives'
    BY <1>1, <1>2 DEF BacklogNoticed, LoopSurvives
  <1>6. ASSUME NEW c \in Clients
        PROVE  SessionOK(run, jobs, cli[c], up[c], short, c)' /\ NoticedOK(c)'
    <2>1. SessionOK(run, jobs, cli[c], up[c], short, c) /\ NoticedOK(c)
      BY DEF TunnelInv
    <2>2. SessionOK(run, jobs, cli[c], up[c], short, c)'
      BY <1>2, <2>1
    <2>3. NoticedOK(c)'
      BY <1>2, <2>1 DEF NoticedOK, Noticed, At
    <2> QED
      BY <2>2, <2>3
  <1> QED
    BY <1>3, <1>4, <1>5, <1>6 DEF TunnelInv

(* The batch.                                                              *)
LEMMA HandleEntryKeeps ==
    ASSUME TunnelInv, NEW e \in todo, Handle(e)
    PROVE  TunnelInv'
  <1>1. TunnelTypes /\ BacklogOK /\ BatchOK /\ BacklogNoticed
    BY DEF TunnelInv
  <1>2. /\ loop = "batch" /\ todo' = todo \ {e} /\ ~Ended
        /\ UNCHANGED <<cli, up, jobs, run, short>>
        /\ UNCHANGED <<bound, accept_job, backlog, listener_edge, accept_failed>>
    BY DEF Handle, acceptorVars, Ended
  <1>3. /\ loop' = IF e.sock = Listener THEN "accept"
                   ELSE IF \E c \in Clients : e.sock = Upstream(c) /\ up[c].conn = "connected"
                   THEN "connect"
                   ELSE IF e.readable THEN "read" ELSE "batch"
        /\ cur' = IF loop' = "batch" THEN NoEntry ELSE e
    BY DEF Handle
  <1>4. loop' \in {"accept", "connect", "read", "batch"} /\ ~Ended'
    BY <1>3 DEF Ended
  <1>5. TunnelTypes'
    <2>1. e \in EntryType
      BY <1>1 DEF TunnelTypes
    <2>2. cur' \in EntryType
      BY <1>3, <2>1, NoEntryTyped
    <2> QED
      BY <1>1, <1>2, <1>4, <2>2 DEF TunnelTypes, LoopPlaces
  <1>6. BacklogOK' /\ LoopSurvives'
    BY <1>1, <1>2, <1>4 DEF BacklogOK, LoopSurvives
  <1>7. \A f \in todo : EntryOK(f)'
    BY <1>1, <1>2, EntryUnchanged DEF BatchOK
  <1>8. BatchOK'
    BY <1>1, <1>2, <1>4, <1>7 DEF BatchOK
  <1>9. HandlingOK'
    <2>1. CASE loop' = "batch"
      BY <2>1 DEF HandlingOK
    <2>2. CASE loop' # "batch"
      <3>1. cur' = e
        BY <1>3, <2>2
      <3>2. EntryOK(cur)' /\ \A f \in todo' : f.sock # cur'.sock
        <4>1. EntryOK(e)'
          BY <1>7
        <4>2. EntryOK(cur)'
          BY <3>1, <4>1 DEF EntryOK
        <4> QED
          BY <1>1, <1>2, <3>1, <4>2 DEF BatchOK
      <3>3. loop' = "accept" => e.sock = Listener
        BY <1>3
      <3>4. ASSUME NEW c \in Clients, loop' = "connect", e.sock = Upstream(c)
            PROVE  up[c].conn = "connected"
        BY <1>3, <3>4, SocketsApart
      <3>5. ASSUME NEW c \in Clients, loop' = "read", e.sock = Upstream(c)
            PROVE  up[c].conn # "connected"
        BY <1>3, <3>5
      <3> QED
        BY <1>2, <1>4, <3>1, <3>2, <3>3, <3>4, <3>5 DEF HandlingOK
    <2> QED
      BY <2>1, <2>2
  <1>10. BacklogNoticed'
    <2>1. ASSUME NEW f \in todo, f.sock = Listener PROVE loop' = "accept" \/ f \in todo'
      <3>1. CASE f = e
        BY <1>3, <2>1, <3>1
      <3>2. CASE f # e
        BY <1>2, <3>2
      <3> QED
        BY <3>1, <3>2
    <2> QED
      BY <1>1, <1>2, <2>1 DEF BacklogNoticed
  <1>11. ASSUME NEW c \in Clients
         PROVE  SessionOK(run, jobs, cli[c], up[c], short, c)' /\ NoticedOK(c)'
    <2>1. SessionOK(run, jobs, cli[c], up[c], short, c) /\ NoticedOK(c)
      BY DEF TunnelInv
    <2>2. SessionOK(run, jobs, cli[c], up[c], short, c)'
      BY <1>2, <2>1
    <2>3. PICK k, u : k = cli[c] /\ u = up[c]
      OBVIOUS
    <2>4. ASSUME NEW s, NEW n, Noticed(s, n),
                 e.sock = s /\ e.readable => loop' = "read" /\ cur' = e
          PROVE  Noticed(s, n)'
      <3>1. CASE n.edge
        BY <3>1 DEF Noticed
      <3>2. CASE \E f \in todo : f.sock = s /\ f.readable
        <4>1. PICK f \in todo : f.sock = s /\ f.readable
          BY <3>2
        <4>2. CASE f = e
          BY <2>4, <4>1, <4>2 DEF Noticed, At
        <4>3. CASE f # e
          BY <1>2, <4>1, <4>3 DEF Noticed
        <4> QED
          BY <4>2, <4>3
      <3> QED
        BY <1>2, <2>4, <3>1, <3>2 DEF Noticed, At
    <2>5. Due(k) => Noticed(Client(c), k)'
      <3>1. e.sock = Client(c) /\ e.readable => loop' = "read" /\ cur' = e
        BY <1>3, SocketsApart
      <3> QED
        BY <2>1, <2>3, <2>4, <3>1 DEF NoticedOK
    <2>6. Due(u) => Noticed(Upstream(c), u)'
      <3>1. ASSUME Due(u), e.sock = Upstream(c), e.readable PROVE loop' = "read" /\ cur' = e
        <4>1. up[c].conn # "connected" /\ e.sock # Listener
          BY <2>3, <3>1, SocketsApart DEF Due
        <4>2. ~\E d \in Clients : e.sock = Upstream(d) /\ up[d].conn = "connected"
          BY <3>1, <4>1, SocketsApart
        <4> QED
          BY <1>3, <3>1, <4>1, <4>2
      <3> QED
        BY <2>1, <2>3, <2>4, <3>1 DEF NoticedOK
    <2>7. NoticedOK(c)'
      BY <1>2, <2>3, <2>5, <2>6 DEF NoticedOK, Noticed
    <2> QED
      BY <2>2, <2>7
  <1> QED
    BY <1>5, <1>6, <1>8, <1>9, <1>10, <1>11 DEF TunnelInv

(* Polling: a socket with an event gets the batch's only entry for it.     *)
LEMMA DeliveredFields ==
    ASSUME NEW k \in ConnType, NEW n, n = Delivered(k)
    PROVE  /\ n \in ConnType /\ n.conn = k.conn /\ SameData(k, n)
           /\ n.write_enabled = k.write_enabled
           /\ n.edge => k.edge
  <1>1. CASE HasEvent(k)
    <2>1. n = [k EXCEPT !.edge = FALSE]
      BY <1>1 DEF Delivered
    <2>2. n \in ConnType /\ n.conn = k.conn /\ n.write_enabled = k.write_enabled /\ n.edge = FALSE
      BY <2>1 DEF ConnType
    <2>3. SameData(k, n)
      BY <2>1 DEF ConnType, SameData
    <2> QED
      BY <2>2, <2>3
  <1>2. CASE ~HasEvent(k)
    BY <1>2 DEF Delivered, SameData
  <1> QED
    BY <1>1, <1>2

(* Nothing that SessionOK looks at tells the two pairs apart.              *)
LEMMA SameSession ==
    ASSUME NEW k, NEW u, NEW n, NEW m, NEW r, NEW q, NEW r2, NEW q2, NEW l, NEW c,
           SessionOK(r, q, k, u, l, c), KeepsJobs(r, q, r2, q2, c),
           n.conn = k.conn, SameData(k, n), n.write_enabled = k.write_enabled,
           m.conn = u.conn, SameData(u, m), m.write_enabled = u.write_enabled
    PROVE  SessionOK(r2, q2, n, m, l, c)
  <1>1. PairOK(k, u) /\ JobsOK(r, q, k, u, c) /\ ReplyOK(k, u, l) /\ RequestOK(r, q, k, u, l, c)
    BY DEF SessionOK
  <1>2. /\ n.sent = k.sent /\ n.rx = k.rx /\ n.buf = k.buf /\ n.got = k.got
        /\ n.fin = k.fin /\ n.rst = k.rst
    BY DEF SameData
  <1>3. /\ m.sent = u.sent /\ m.rx = u.rx /\ m.buf = u.buf /\ m.got = u.got
        /\ m.fin = u.fin /\ m.rst = u.rst
    BY DEF SameData
  <1>4. PairOK(n, m)
    BY <1>1, <1>2, <1>3 DEF PairOK, KernelOK
  <1>5. JobsOK(r2, q2, n, m, c)
    BY <1>1, <1>2, <1>3 DEF JobsOK, KeepsJobs
  <1>6. ReplyOK(n, m, l)
    BY <1>1, <1>2, <1>3 DEF ReplyOK
  <1>7. RequestOK(r2, q2, n, m, l, c)
    <2>1. \A lo, hi \in Nat : Follows(k, u, l, lo, hi) => Follows(n, m, l, lo, hi)
      BY <1>2, <1>3 DEF Follows
    <2>2. \A lo, hi \in Nat : Chains(r, q, c, lo, hi) => Chains(r2, q2, c, lo, hi)
      BY DEF KeepsJobs
    <2> QED
      BY <1>1, <1>3, <2>1, <2>2 DEF RequestOK
  <1> QED
    BY <1>4, <1>5, <1>6, <1>7 DEF SessionOK

LEMMA EntryTyped ==
    ASSUME NEW k \in ConnType, NEW s \in Sockets, NEW e, e = Entry(s, k)
    PROVE  /\ e \in EntryType /\ e.sock = s /\ (e.hup => k.rst \/ k.fin)
           /\ e.readable <=> k.rx > 0 \/ k.fin \/ k.rst
  <1>1. (k.rx > 0 \/ k.fin \/ k.rst) \in BOOLEAN /\ (k.rst \/ (k.fin /\ ~k.write_enabled)) \in BOOLEAN
    OBVIOUS
  <1>2. PICK a \in BOOLEAN, b \in BOOLEAN :
           a = (k.rx > 0 \/ k.fin \/ k.rst) /\ b = (k.rst \/ (k.fin /\ ~k.write_enabled))
    BY <1>1, Zenon
  <1>3. e = [sock |-> s, readable |-> a, hup |-> b]
    BY <1>2 DEF Entry
  <1>4. e \in EntryType /\ e.sock = s /\ e.readable = a /\ e.hup = b
    BY <1>3 DEF EntryType
  <1> QED
    BY <1>2, <1>4

LEMMA SocketsTyped ==
    ASSUME NEW c \in Clients
    PROVE  Client(c) \in Sockets /\ Upstream(c) \in Sockets /\ Listener \in Sockets
  BY DEF Sockets

(* The entries of a poll.                                                  *)
LEMMA EventsAre ==
    ASSUME TunnelTypes, NEW e \in Events
    PROVE  /\ e \in EntryType
           /\ \/ e = NoEntry /\ listener_edge
              \/ \E c \in Clients : /\ e = Entry(Client(c), cli[c]) /\ HasEvent(cli[c])
                                    /\ e.sock = Client(c) /\ (e.hup => cli[c].rst \/ cli[c].fin)
              \/ \E c \in Clients : /\ e = Entry(Upstream(c), up[c]) /\ HasEvent(up[c])
                                    /\ e.sock = Upstream(c) /\ (e.hup => up[c].rst \/ up[c].fin)
  <1>1. CASE listener_edge /\ e = NoEntry
    BY <1>1, NoEntryTyped
  <1>2. ASSUME NEW c \in Clients, HasEvent(cli[c]), e = Entry(Client(c), cli[c])
        PROVE  e \in EntryType /\ e.sock = Client(c) /\ (e.hup => cli[c].rst \/ cli[c].fin)
    <2>1. PICK k \in ConnType : k = cli[c]
      BY DEF TunnelTypes
    <2>2. e = Entry(Client(c), k) /\ Client(c) \in Sockets
      BY <1>2, <2>1, SocketsTyped
    <2> QED
      BY <2>1, <2>2, EntryTyped
  <1>3. ASSUME NEW c \in Clients, HasEvent(up[c]), e = Entry(Upstream(c), up[c])
        PROVE  e \in EntryType /\ e.sock = Upstream(c) /\ (e.hup => up[c].rst \/ up[c].fin)
    <2>1. PICK k \in ConnType : k = up[c]
      BY DEF TunnelTypes
    <2>2. e = Entry(Upstream(c), k) /\ Upstream(c) \in Sockets
      BY <1>3, <2>1, SocketsTyped
    <2> QED
      BY <2>1, <2>2, EntryTyped
  <1>4. \/ listener_edge /\ e = NoEntry
        \/ \E c \in Clients : HasEvent(cli[c]) /\ e = Entry(Client(c), cli[c])
        \/ \E c \in Clients : HasEvent(up[c]) /\ e = Entry(Upstream(c), up[c])
    BY DEF Events
  <1> QED
    BY <1>1, <1>2, <1>3, <1>4

LEMMA PollKeeps ==
    ASSUME TunnelInv, Poll
    PROVE  TunnelInv'
  <1>1. TunnelTypes /\ BacklogOK /\ BatchOK /\ BacklogNoticed
    BY DEF TunnelInv
  <1>2. /\ loop = "poll" /\ loop' = "batch" /\ todo' = Events /\ run' = jobs /\ jobs' = <<>>
        /\ cli' = [c \in Clients |-> Delivered(cli[c])]
        /\ up' = [c \in Clients |-> Delivered(up[c])]
        /\ listener_edge' = FALSE
        /\ UNCHANGED <<bound, accept_job, backlog, accept_failed, cur, short>>
    BY DEF Poll
  <1>3. todo = {} /\ run = <<>> /\ ~Ended /\ ~Ended'
    BY <1>1, <1>2 DEF BatchOK, Ended
  <1>4. ASSUME NEW c \in Clients
        PROVE  /\ cli'[c] \in ConnType /\ cli'[c].conn = cli[c].conn /\ SameData(cli[c], cli'[c])
               /\ cli'[c].write_enabled = cli[c].write_enabled
    <2>1. cli[c] \in ConnType /\ cli'[c] = Delivered(cli[c])
      BY <1>1, <1>2 DEF TunnelTypes
    <2> QED
      BY <2>1, DeliveredFields
  <1>5. ASSUME NEW c \in Clients
        PROVE  /\ up'[c] \in ConnType /\ up'[c].conn = up[c].conn /\ SameData(up[c], up'[c])
               /\ up'[c].write_enabled = up[c].write_enabled
    <2>1. up[c] \in ConnType /\ up'[c] = Delivered(up[c])
      BY <1>1, <1>2 DEF TunnelTypes
    <2> QED
      BY <2>1, DeliveredFields
  <1>6. cli' \in [Clients -> ConnType] /\ up' \in [Clients -> ConnType]
    BY <1>2, <1>4, <1>5
  <1>7. TunnelTypes'
    <2>1. todo' \in SUBSET EntryType
      BY <1>1, <1>2, EventsAre
    <2>2. jobs' \in Seq(JobType) /\ run' \in Seq(JobType)
      BY <1>1, <1>2, EmptySeq DEF TunnelTypes
    <2> QED
      BY <1>1, <1>2, <1>6, <2>1, <2>2 DEF TunnelTypes, LoopPlaces
  <1>8. BacklogOK'
    <2>1. \A i \in 1..Len(backlog) : backlog[i] \in Clients
      BY <1>1 DEF TunnelTypes
    <2> QED
      BY <1>1, <1>2, <1>4, <2>1 DEF BacklogOK
  <1>9. ASSUME NEW c \in Clients
        PROVE  SessionOK(run, jobs, cli[c], up[c], short, c)'
    <2>1. SessionOK(run, jobs, cli[c], up[c], short, c)
      BY DEF TunnelInv
    <2>2. KeepsJobs(run, jobs, run', jobs', c)
      BY <1>1, <1>2, <1>3, ShiftJobs DEF TunnelTypes
    <2>3. SessionOK(run', jobs', cli'[c], up'[c], short, c)
      BY <1>4, <1>5, <2>1, <2>2, SameSession
    <2> QED
      BY <1>2, <2>3
  <1>10. ASSUME NEW e \in Events PROVE EntryOK(e)'
    <2>1. ASSUME NEW c \in Clients, e.sock = Client(c)
          PROVE  /\ cli'[c].conn \in {"open", "closed"}
                 /\ e.hup => cli'[c].fin \/ cli'[c].rst
      <3>1. HasEvent(cli[c]) /\ (e.hup => cli[c].rst \/ cli[c].fin)
        BY <1>1, <2>1, EventsAre, NoEntryTyped, SocketsApart
      <3>2. SessionOK(run, jobs, cli[c], up[c], short, c)
        BY DEF TunnelInv
      <3>3. cli[c].conn = "open"
        BY <3>1, <3>2 DEF SessionOK, PairOK, HasEvent, Registered
      <3> QED
        BY <1>4, <3>1, <3>3 DEF SameData
    <2>2. ASSUME NEW c \in Clients, e.sock = Upstream(c)
          PROVE  /\ up'[c].conn \in {"connected", "open", "closed"}
                 /\ e.hup => up'[c].fin \/ up'[c].rst
      <3>1. HasEvent(up[c]) /\ (e.hup => up[c].rst \/ up[c].fin)
        BY <1>1, <2>2, EventsAre, NoEntryTyped, SocketsApart
      <3> QED
        BY <1>5, <3>1 DEF SameData, HasEvent, Registered
    <2> QED
      BY <2>1, <2>2 DEF EntryOK
  <1>11. ASSUME NEW e \in Events, NEW f \in Events, e.sock = f.sock PROVE e = f
    <2>1. CASE e = NoEntry
      BY <1>1, <1>11, <2>1, EventsAre, NoEntryTyped, SocketsApart
    <2>2. ASSUME NEW c \in Clients, e = Entry(Client(c), cli[c]), e.sock = Client(c) PROVE e = f
      BY <1>1, <1>11, <2>2, EventsAre, NoEntryTyped, SocketsApart
    <2>3. ASSUME NEW c \in Clients, e = Entry(Upstream(c), up[c]), e.sock = Upstream(c) PROVE e = f
      BY <1>1, <1>11, <2>3, EventsAre, NoEntryTyped, SocketsApart
    <2> QED
      BY <1>1, <2>1, <2>2, <2>3, EventsAre
  <1>12. BatchOK' /\ HandlingOK'
    BY <1>2, <1>10, <1>11 DEF BatchOK, HandlingOK
  <1>13. BacklogNoticed'
    <2>1. listener_edge => NoEntry \in Events
      BY DEF Events
    <2> QED
      BY <1>1, <1>2, <1>3, <2>1, NoEntryTyped DEF BacklogNoticed
  <1>14. ASSUME NEW c \in Clients PROVE NoticedOK(c)'
    <2>1. NoticedOK(c)
      BY DEF TunnelInv
    <2>2. ASSUME Due(cli'[c]) PROVE \E e \in Events : e.sock = Client(c) /\ e.readable
      <3>1. PICK k \in ConnType : k = cli[c]
        BY <1>1 DEF TunnelTypes
      <3>2. Due(k) /\ k.conn = "open" /\ (k.rx > 0 \/ k.fin \/ k.rst)
        BY <1>4, <2>2, <3>1 DEF Due, SameData
      <3>3. k.edge
        BY <1>2, <1>3, <2>1, <3>1, <3>2 DEF NoticedOK, Noticed, At
      <3>4. PICK e : e = Entry(Client(c), k)
        OBVIOUS
      <3>5. e.sock = Client(c) /\ e.readable
        BY <3>2, <3>4, EntryTyped, SocketsTyped
      <3>6. HasEvent(cli[c]) /\ e = Entry(Client(c), cli[c])
        BY <3>1, <3>2, <3>3, <3>4 DEF HasEvent, Registered
      <3>7. e \in Events
        BY <3>6 DEF Events
      <3> QED
        BY <3>5, <3>7
    <2>3. ASSUME Due(up'[c]) PROVE \E e \in Events : e.sock = Upstream(c) /\ e.readable
      <3>1. PICK k \in ConnType : k = up[c]
        BY <1>1 DEF TunnelTypes
      <3>2. Due(k) /\ k.conn = "open" /\ (k.rx > 0 \/ k.fin \/ k.rst)
        BY <1>5, <2>3, <3>1 DEF Due, SameData
      <3>3. k.edge
        BY <1>2, <1>3, <2>1, <3>1, <3>2 DEF NoticedOK, Noticed, At
      <3>4. PICK e : e = Entry(Upstream(c), k)
        OBVIOUS
      <3>5. e.sock = Upstream(c) /\ e.readable
        BY <3>2, <3>4, EntryTyped, SocketsTyped
      <3>6. HasEvent(up[c]) /\ e = Entry(Upstream(c), up[c])
        BY <3>1, <3>2, <3>3, <3>4 DEF HasEvent, Registered
      <3>7. e \in Events
        BY <3>6 DEF Events
      <3> QED
        BY <3>5, <3>7
    <2> QED
      BY <1>2, <2>2, <2>3 DEF NoticedOK, Noticed
  <1>15. LoopSurvives'
    BY <1>3 DEF LoopSurvives, Ended
  <1> QED
    BY <1>7, <1>8, <1>9, <1>12, <1>13, <1>14, <1>15 DEF TunnelInv

-----------------------------------------------------------------------------
(* A connection that no entry of a batch can speak of: it arrives, or is   *)
(* accepted.                                                               *)
LEMMA BacklogGrows ==
    ASSUME TunnelTypes, BacklogOK, NEW c \in Clients, cli[c].conn = "none",
           cli'[c].conn = "backlog", \A d \in Clients \ {c} : cli'[d] = cli[d],
           backlog' = Append(backlog, c)
    PROVE  BacklogOK' /\ backlog' \in Seq(Clients)
  <1>1. PICK b, b2 : b = backlog /\ b2 = backlog'
    OBVIOUS
  <1>2. b \in Seq(Clients) /\ b2 = Append(b, c)
    BY <1>1 DEF TunnelTypes
  <1>3. /\ b2 \in Seq(Clients) /\ Len(b2) = Len(b) + 1 /\ b2[Len(b) + 1] = c /\ Len(b) \in Nat
        /\ \A i \in 1..Len(b) : b2[i] = b[i] /\ b[i] \in Clients
    BY <1>2, AppendProperties, ElementOfSeq
  <1>4. \A i \in 1..Len(b) : cli[b[i]].conn = "backlog"
    BY <1>1 DEF BacklogOK
  <1>5. \A i \in 1..Len(b) : b[i] # c
    BY <1>4
  <1>6. \A i, j \in 1..Len(b) : b[i] = b[j] => i = j
    BY <1>1 DEF BacklogOK
  <1>7. \A i \in 1..Len(b2) : i \in 1..Len(b) \/ i = Len(b) + 1
    BY <1>3
  <1>8. ASSUME NEW i \in 1..Len(b2) PROVE cli'[b2[i]].conn = "backlog"
    <2>1. CASE i \in 1..Len(b)
      BY <1>3, <1>4, <1>5, <2>1
    <2>2. CASE i = Len(b) + 1
      BY <1>3, <2>2
    <2> QED
      BY <1>7, <2>1, <2>2
  <1>9. ASSUME NEW i \in 1..Len(b2), NEW j \in 1..Len(b2), b2[i] = b2[j] PROVE i = j
    <2>1. CASE i \in 1..Len(b) /\ j \in 1..Len(b)
      BY <1>3, <1>6, <1>9, <2>1
    <2>2. CASE i \in 1..Len(b) /\ j = Len(b) + 1
      BY <1>3, <1>5, <1>9, <2>2
    <2>3. CASE i = Len(b) + 1 /\ j \in 1..Len(b)
      BY <1>3, <1>5, <1>9, <2>3
    <2>4. CASE i = Len(b) + 1 /\ j = Len(b) + 1
      BY <2>4
    <2> QED
      BY <1>7, <2>1, <2>2, <2>3, <2>4
  <1> QED
    BY <1>1, <1>3, <1>8, <1>9 DEF BacklogOK

LEMMA BacklogShrinks ==
    ASSUME TunnelTypes, BacklogOK, NEW c \in Clients, backlog # <<>>, c = Head(backlog),
           \A d \in Clients \ {c} : cli'[d] = cli[d], backlog' = Tail(backlog)
    PROVE  BacklogOK' /\ backlog' \in Seq(Clients) /\ cli[c].conn = "backlog"
  <1>1. PICK b, b2 : b = backlog /\ b2 = backlog'
    OBVIOUS
  <1>2. b \in Seq(Clients) /\ b # <<>> /\ b2 = Tail(b) /\ c = Head(b)
    BY <1>1 DEF TunnelTypes
  <1>3. /\ b2 \in Seq(Clients) /\ Len(b2) = Len(b) - 1 /\ b[1] = c /\ Len(b) \in Nat /\ Len(b) > 0
        /\ \A i \in 1..Len(b2) : b2[i] = b[i + 1]
    BY <1>2, HeadTailProperties
  <1>4. \A i \in 1..Len(b) : cli[b[i]].conn = "backlog"
    BY <1>1 DEF BacklogOK
  <1>5. \A i, j \in 1..Len(b) : b[i] = b[j] => i = j
    BY <1>1 DEF BacklogOK
  <1>6. 1 \in 1..Len(b) /\ \A i \in 1..Len(b2) : i + 1 \in 1..Len(b) /\ i + 1 # 1
    BY <1>3
  <1>7. \A i \in 1..Len(b2) : b2[i] \in Clients \ {c}
    <2>1. \A i \in 1..Len(b2) : b2[i] \in Clients
      BY <1>3, ElementOfSeq
    <2>2. \A i \in 1..Len(b2) : b2[i] # c
      BY <1>3, <1>5, <1>6
    <2> QED
      BY <2>1, <2>2
  <1>8. \A i \in 1..Len(b2) : cli'[b2[i]].conn = "backlog"
    BY <1>3, <1>4, <1>6, <1>7
  <1>9. ASSUME NEW i \in 1..Len(b2), NEW j \in 1..Len(b2), b2[i] = b2[j] PROVE i = j
    <2>1. b[i + 1] = b[j + 1]
      BY <1>3, <1>9
    <2>2. i + 1 = j + 1
      BY <1>5, <1>6, <2>1
    <2> QED
      BY <1>3, <2>2
  <1>10. cli[c].conn = "backlog"
    BY <1>3, <1>4, <1>6
  <1> QED
    BY <1>1, <1>3, <1>8, <1>9, <1>10 DEF BacklogOK

(* The acceptor's variables after such a step.                             *)
AcceptorTypes ==
    /\ bound \in BOOLEAN /\ accept_job \in BOOLEAN /\ listener_edge \in BOOLEAN
    /\ accept_failed \in BOOLEAN /\ backlog \in Seq(Clients)

Enters(c, n, m) ==
    /\ cli' = [cli EXCEPT ![c] = n] /\ up' = [up EXCEPT ![c] = m]
    /\ n.conn \in {"backlog", "open", "dropped"} /\ m.conn # "open"
    /\ UNCHANGED <<jobs, todo, run, cur, short>>
    /\ ~Ended /\ loop' \in {loop, "refused"}

LEMMA SessionEnters ==
    ASSUME TunnelInv, NEW c \in Clients, NEW n \in ConnType, NEW m \in ConnType,
           cli[c].conn \in {"none", "backlog"}, Enters(c, n, m),
           SessionOK(run, jobs, n, m, short, c), Due(n) => n.edge,
           AcceptorTypes', BacklogOK', BacklogNoticed'
    PROVE  TunnelInv'
  <1>1. TunnelTypes /\ BatchOK /\ HandlingOK
    BY DEF TunnelInv
  <1>2. /\ cli' \in [Clients -> ConnType] /\ cli'[c] = n
        /\ \A d \in Clients \ {c} : cli'[d] = cli[d]
    BY <1>1 DEF Enters, TunnelTypes
  <1>3. /\ up' \in [Clients -> ConnType] /\ up'[c] = m
        /\ \A d \in Clients \ {c} : up'[d] = up[d]
    BY <1>1 DEF Enters, TunnelTypes
  <1>4. /\ UNCHANGED <<jobs, todo, run, cur, short>> /\ ~Ended
        /\ loop' = loop \/ (loop' = "refused" /\ Ended')
    BY DEF Enters, Ended
  <1>5. up[c].conn = "none"
    <2>1. SessionOK(run, jobs, cli[c], up[c], short, c)
      BY DEF TunnelInv
    <2> QED
      BY <2>1 DEF SessionOK, PairOK
  <1>6. TunnelTypes'
    BY <1>1, <1>2, <1>3, <1>4 DEF TunnelTypes, LoopPlaces, AcceptorTypes
  <1>7. ASSUME NEW e, EntryOK(e)
        PROVE  EntryOK(e)' /\ e.sock # Client(c) /\ e.sock # Upstream(c)
    <2>1. e.sock # Client(c) /\ e.sock # Upstream(c)
      BY <1>5, <1>7 DEF EntryOK
    <2>2. EntryOK(e)'
      BY <1>2, <1>3, <1>7, <2>1 DEF EntryOK
    <2> QED
      BY <2>1, <2>2
  <1>8. BatchOK'
    BY <1>1, <1>4, <1>7 DEF BatchOK
  <1>9. HandlingOK'
    <2>1. CASE loop' = "refused"
      BY <2>1 DEF HandlingOK
    <2>2. CASE loop' = loop /\ loop \in {"accept", "connect", "read", "hangup"}
      <3>1. EntryOK(cur)
        BY <1>1, <2>2 DEF HandlingOK
      <3>2. PICK e : e = cur
        OBVIOUS
      <3>3. EntryOK(e)' /\ e.sock # Upstream(c)
        BY <1>7, <3>1, <3>2
      <3>4. EntryOK(cur)' /\ cur.sock # Upstream(c)
        BY <1>4, <3>2, <3>3 DEF EntryOK
      <3> QED
        BY <1>1, <1>3, <1>4, <2>2, <3>4 DEF HandlingOK
    <2>3. CASE loop' = loop /\ loop \notin {"accept", "connect", "read", "hangup"}
      BY <2>3 DEF HandlingOK
    <2> QED
      BY <1>4, <2>1, <2>2, <2>3
  <1>10. LoopSurvives'
    BY <1>4 DEF LoopSurvives, Ended
  <1>11. ASSUME NEW s, NEW k, Noticed(s, k) PROVE Noticed(s, k)'
    BY <1>4, <1>11 DEF Noticed, At
  <1>12. ASSUME NEW d \in Clients \ {c}
         PROVE  SessionOK(run, jobs, cli[d], up[d], short, d)' /\ NoticedOK(d)'
    <2>1. SessionOK(run, jobs, cli[d], up[d], short, d) /\ NoticedOK(d)
      BY DEF TunnelInv
    <2>2. SessionOK(run, jobs, cli[d], up[d], short, d)'
      BY <1>2, <1>3, <1>4, <2>1
    <2>3. PICK k, u : k = cli[d] /\ u = up[d]
      OBVIOUS
    <2>4. (Due(k) => Noticed(Client(d), k)') /\ (Due(u) => Noticed(Upstream(d), u)')
      BY <1>11, <2>1, <2>3 DEF NoticedOK
    <2>5. NoticedOK(d)'
      BY <1>2, <1>3, <2>3, <2>4 DEF NoticedOK, Noticed
    <2> QED
      BY <2>2, <2>5
  <1>13. SessionOK(run, jobs, cli[c], up[c], short, c)'
    BY <1>2, <1>3, <1>4
  <1>14. NoticedOK(c)'
    <2>1. ~Due(m)
      BY DEF Due, Enters
    <2> QED
      BY <1>2, <1>3, <2>1 DEF NoticedOK, Noticed
  <1> QED
    BY <1>6, <1>8, <1>9, <1>10, <1>12, <1>13, <1>14 DEF TunnelInv

LEMMA EnteringOK ==
    ASSUME NEW k \in ConnType, NEW u \in ConnType, k.conn \in {"none", "backlog"},
           NEW n \in ConnType, SameData(k, n), n.write_enabled = k.write_enabled,
           NEW m \in ConnType, SameData(u, m), m.write_enabled = u.write_enabled,
           \/ n.conn \in {"backlog", "dropped"} /\ m = u
           \/ n.conn = "open" /\ m.conn = "connecting",
           NEW r, NEW q, NEW l, NEW c, SessionOK(r, q, k, u, l, c)
    PROVE  SessionOK(r, q, n, m, l, c)
  <1>1. PairOK(k, u) /\ JobsOK(r, q, k, u, c) /\ ReplyOK(k, u, l) /\ RequestOK(r, q, k, u, l, c)
    BY DEF SessionOK
  <1>2. /\ n.sent = k.sent /\ n.rx = k.rx /\ n.buf = k.buf /\ n.got = k.got
        /\ n.fin = k.fin /\ n.rst = k.rst
    BY DEF SameData
  <1>3. /\ m.sent = u.sent /\ m.rx = u.rx /\ m.buf = u.buf /\ m.got = u.got
        /\ m.fin = u.fin /\ m.rst = u.rst
    BY DEF SameData
  <1>4. /\ u.conn = "none" /\ u.sent = 0 /\ u.rx = 0 /\ ~u.rst /\ u.buf = <<>> /\ k.got = <<>>
        /\ u.got = <<>> /\ k.write_enabled
    BY <1>1, ConnFields DEF PairOK, KernelOK
  <1>5. PairOK(n, m)
    BY <1>1, <1>2, <1>3, <1>4 DEF PairOK, KernelOK
  <1>6. JobsOK(r, q, n, m, c)
    BY <1>1, <1>2, <1>3, <1>4 DEF JobsOK
  <1>7. ReplyOK(n, m, l)
    BY <1>1, <1>2, <1>3, <1>4 DEF ReplyOK
  <1>8. RequestOK(r, q, n, m, l, c)
    <2>1. \A lo, hi \in Nat : Follows(k, u, l, lo, hi) => Follows(n, m, l, lo, hi)
      BY <1>2, <1>3, <1>4 DEF Follows
    <2> QED
      BY <1>1, <1>3, <2>1 DEF RequestOK
  <1> QED
    BY <1>5, <1>6, <1>7, <1>8 DEF SessionOK

LEMMA ClientConnectsKeeps ==
    ASSUME TunnelInv, NEW c \in Clients, ~Ended, ClientConnects(c)
    PROVE  TunnelInv'
  <1>1. PICK k \in ConnType, u \in ConnType :
           k = cli[c] /\ u = up[c] /\ SessionOK(run, jobs, k, u, short, c)
    BY SessionOf
  <1>2. TunnelTypes /\ BacklogOK
    BY DEF TunnelInv
  <1>3. PICK n : n = [k EXCEPT !.conn = "backlog"]
    OBVIOUS
  <1>4. n \in ConnType /\ n.conn = "backlog" /\ n.write_enabled = k.write_enabled
    BY <1>3 DEF ConnType, ConnStates
  <1>5. SameData(k, n)
    BY <1>3 DEF ConnType, SameData
  <1>6. k.conn = "none" /\ cli' = [cli EXCEPT ![c] = n]
    BY <1>1, <1>2, <1>3 DEF ClientConnects, TunnelTypes
  <1>7. /\ UNCHANGED <<up, jobs, todo, run, loop, cur, short, bound, accept_job>>
        /\ backlog' = Append(backlog, c) /\ listener_edge' = bound /\ accept_failed' = FALSE
    BY DEF ClientConnects, Arrive, batchVars
  <1>8. up' = [up EXCEPT ![c] = u]
    BY <1>1, <1>2, <1>7, SameConn DEF TunnelTypes
  <1>9. cli'[c].conn = "backlog" /\ \A d \in Clients \ {c} : cli'[d] = cli[d]
    BY <1>2, <1>4, <1>6 DEF TunnelTypes
  <1>10. BacklogOK' /\ backlog' \in Seq(Clients)
    BY <1>1, <1>2, <1>6, <1>7, <1>9, BacklogGrows
  <1>11. SessionOK(run, jobs, n, u, short, c)
    <2>1. SameData(u, u)
      BY DEF SameData
    <2> QED
      BY <1>1, <1>4, <1>5, <1>6, <2>1, EnteringOK
  <1>12. u.conn # "open"
    BY <1>1, <1>6 DEF SessionOK, PairOK
  <1>13. Enters(c, n, u)
    BY <1>4, <1>6, <1>7, <1>8, <1>12 DEF Enters
  <1>14. AcceptorTypes' /\ BacklogNoticed'
    BY <1>2, <1>7, <1>10 DEF AcceptorTypes, TunnelTypes, BacklogNoticed
  <1>15. ~Due(n)
    BY <1>4 DEF Due
  <1> QED
    BY <1>1, <1>4, <1>6, <1>10, <1>11, <1>13, <1>14, <1>15, SessionEnters

LEMMA AcceptKeeps ==
    ASSUME TunnelInv, NEW c \in Clients, Accept(c)
    PROVE  TunnelInv'
  <1>1. PICK k \in ConnType, u \in ConnType :
           k = cli[c] /\ u = up[c] /\ SessionOK(run, jobs, k, u, short, c)
    BY SessionOf
  <1>2. TunnelTypes /\ BacklogOK
    BY DEF TunnelInv
  <1>3. /\ loop = "accept" /\ loop' = "accept" /\ ~Ended
        /\ UNCHANGED <<cur, todo, run, jobs, short>>
        /\ UNCHANGED <<bound, accept_job, listener_edge, accept_failed>>
        /\ backlog # <<>> /\ c = Head(backlog) /\ backlog' = Tail(backlog)
    BY DEF Accept, At, AcceptNext, AcceptsOn, Goto, Ended
  <1>4. \A d \in Clients \ {c} : cli'[d] = cli[d]
    BY <1>2 DEF Accept, TunnelTypes
  <1>5. BacklogOK' /\ backlog' \in Seq(Clients) /\ k.conn = "backlog"
    BY <1>1, <1>2, <1>3, <1>4, BacklogShrinks
  <1>6. AcceptorTypes' /\ BacklogNoticed'
    BY <1>2, <1>3, <1>5 DEF AcceptorTypes, TunnelTypes, BacklogNoticed
  <1>7. u.conn = "none"
    BY <1>1, <1>5 DEF SessionOK, PairOK
  <1>8. CASE accept_job
    <2>1. PICK n, m : /\ n = [k EXCEPT !.conn = "open", !.edge = TRUE]
                      /\ m = [u EXCEPT !.conn = "connecting"]
      OBVIOUS
    <2>2. n \in ConnType /\ n.conn = "open" /\ n.write_enabled = k.write_enabled /\ n.edge
      BY <2>1 DEF ConnType, ConnStates
    <2>3. m \in ConnType /\ m.conn = "connecting" /\ m.write_enabled = u.write_enabled
      BY <2>1 DEF ConnType, ConnStates
    <2>4. SameData(k, n) /\ SameData(u, m)
      BY <2>1 DEF ConnType, SameData
    <2>5. cli' = [cli EXCEPT ![c] = n] /\ up' = [up EXCEPT ![c] = m]
      BY <1>1, <1>2, <1>8, <2>1 DEF Accept, TunnelTypes
    <2>6. SessionOK(run, jobs, n, m, short, c)
      BY <1>1, <1>5, <2>2, <2>3, <2>4, EnteringOK
    <2>7. Enters(c, n, m)
      BY <1>3, <2>2, <2>3, <2>5 DEF Enters
    <2> QED
      BY <1>1, <1>5, <1>6, <2>2, <2>3, <2>6, <2>7, SessionEnters
  <1>9. CASE ~accept_job
    <2>1. PICK n : n = [k EXCEPT !.conn = "dropped"]
      OBVIOUS
    <2>2. n \in ConnType /\ n.conn = "dropped" /\ n.write_enabled = k.write_enabled
      BY <2>1 DEF ConnType, ConnStates
    <2>3. SameData(k, n) /\ SameData(u, u)
      BY <2>1 DEF ConnType, SameData
    <2>4. cli' = [cli EXCEPT ![c] = n] /\ up' = up
      BY <1>1, <1>2, <1>9, <2>1 DEF Accept, TunnelTypes
    <2>5. up' = [up EXCEPT ![c] = u]
      BY <1>1, <1>2, <2>4, SameConn DEF TunnelTypes
    <2>6. SessionOK(run, jobs, n, u, short, c)
      BY <1>1, <1>5, <2>2, <2>3, EnteringOK
    <2>7. Enters(c, n, u)
      BY <1>3, <1>7, <2>2, <2>4, <2>5 DEF Enters
    <2>8. ~Due(n)
      BY <2>2 DEF Due
    <2> QED
      BY <1>1, <1>5, <1>6, <2>2, <2>6, <2>7, <2>8, SessionEnters
  <1> QED
    BY <1>8, <1>9

LEMMA ConnectPanicsKeeps ==
    ASSUME TunnelInv, NEW c \in Clients, ConnectPanics(c)
    PROVE  TunnelInv'
  <1>1. PICK k \in ConnType, u \in ConnType :
           k = cli[c] /\ u = up[c] /\ SessionOK(run, jobs, k, u, short, c)
    BY SessionOf
  <1>2. TunnelTypes /\ BacklogOK
    BY DEF TunnelInv
  <1>3. /\ loop = "accept" /\ loop' = "refused" /\ ~Ended /\ Ended'
        /\ UNCHANGED <<up, cur, todo, run, jobs, short>>
        /\ UNCHANGED <<bound, accept_job, listener_edge, accept_failed>>
        /\ backlog # <<>> /\ c = Head(backlog) /\ backlog' = Tail(backlog)
    BY DEF ConnectPanics, At, AcceptNext, Goto, Ended
  <1>4. PICK n : n = [k EXCEPT !.conn = "dropped"]
    OBVIOUS
  <1>5. n \in ConnType /\ n.conn = "dropped" /\ n.write_enabled = k.write_enabled
    BY <1>4 DEF ConnType, ConnStates
  <1>6. SameData(k, n) /\ SameData(u, u)
    BY <1>4 DEF ConnType, SameData
  <1>7. cli' = [cli EXCEPT ![c] = n]
    BY <1>1, <1>2, <1>4 DEF ConnectPanics, TunnelTypes
  <1>8. \A d \in Clients \ {c} : cli'[d] = cli[d]
    BY <1>2, <1>7 DEF TunnelTypes
  <1>9. BacklogOK' /\ backlog' \in Seq(Clients) /\ k.conn = "backlog"
    BY <1>1, <1>2, <1>3, <1>8, BacklogShrinks
  <1>10. up' = [up EXCEPT ![c] = u] /\ u.conn # "open"
    <2>1. u.conn = "none"
      BY <1>1, <1>9 DEF SessionOK, PairOK
    <2> QED
      BY <1>1, <1>2, <1>3, <2>1, SameConn DEF TunnelTypes
  <1>11. AcceptorTypes' /\ BacklogNoticed'
    BY <1>2, <1>3, <1>9 DEF AcceptorTypes, TunnelTypes, BacklogNoticed
  <1>12. SessionOK(run, jobs, n, u, short, c)
    BY <1>1, <1>5, <1>6, <1>9, EnteringOK
  <1>13. Enters(c, n, u)
    BY <1>3, <1>5, <1>7, <1>10 DEF Enters
  <1>14. ~Due(n)
    BY <1>5 DEF Due
  <1> QED
    BY <1>1, <1>5, <1>9, <1>11, <1>12, <1>13, <1>14, SessionEnters

-----------------------------------------------------------------------------
(* The inductive argument.                                                 *)
LEMMA NoConnFields ==
    ASSUME NEW k, k = NoConn
    PROVE  /\ k \in ConnType /\ k.conn = "none" /\ k.sent = 0 /\ k.rx = 0
           /\ k.buf = <<>> /\ k.got = <<>> /\ k.fin = FALSE /\ k.rst = FALSE
           /\ k.write_enabled = TRUE /\ k.edge = FALSE
  <1>1. <<>> \in Seq(Nat) /\ 0 \in Nat
    BY EmptySeq
  <1>2. k \in ConnType
    BY <1>1 DEF NoConn, ConnType, ConnStates
  <1> QED
    BY <1>2 DEF NoConn

LEMMA FirstSession ==
    ASSUME NEW k, k = NoConn, NEW c
    PROVE  SessionOK(<<>>, <<>>, k, k, FALSE, c)
  <1>1. /\ k \in ConnType /\ k.conn = "none" /\ k.sent = 0 /\ k.rx = 0
        /\ k.buf = <<>> /\ k.got = <<>> /\ k.fin = FALSE /\ k.rst = FALSE
        /\ k.write_enabled = TRUE /\ k.edge = FALSE
    BY NoConnFields
  <1>2. Len(<<>>) = 0
    OBVIOUS
  <1>3. PairOK(k, k)
    BY <1>1 DEF PairOK, KernelOK
  <1>4. JobsOK(<<>>, <<>>, k, k, c)
    BY <1>1, <1>2 DEF JobsOK, Waits, JobIn
  <1>5. Rising(k.got) /\ Counts(k.got)
    BY <1>1, <1>2 DEF Rising, Counts
  <1>6. ReplyOK(k, k, FALSE)
    BY <1>1, <1>2, <1>5 DEF ReplyOK
  <1>7. Chains(<<>>, <<>>, c, 0, 0)
    BY ChainEmpty DEF Chains
  <1>8. Follows(k, k, FALSE, 0, 0)
    BY <1>1, <1>2 DEF Follows
  <1>9. RequestOK(<<>>, <<>>, k, k, FALSE, c)
    BY <1>5, <1>7, <1>8 DEF RequestOK
  <1> QED
    BY <1>3, <1>4, <1>6, <1>9 DEF SessionOK

LEMMA InitTunnelInv ==
    TunnelInit => TunnelInv
  <1>1. SUFFICES ASSUME TunnelInit PROVE TunnelInv
    OBVIOUS
  <1>2. /\ bound = FALSE /\ accept_job = FALSE /\ backlog = <<>> /\ listener_edge = FALSE
        /\ accept_failed = FALSE /\ jobs = <<>> /\ todo = {} /\ run = <<>>
        /\ loop = "poll" /\ cur = NoEntry /\ short = FALSE
    BY <1>1 DEF TunnelInit, AcceptorInit
  <1>3. PICK k : k = NoConn
    OBVIOUS
  <1>4. cli = [c \in Clients |-> k] /\ up = [c \in Clients |-> k]
    BY <1>1, <1>3 DEF TunnelInit
  <1>5. k \in ConnType /\ k.conn = "none"
    BY <1>3, NoConnFields
  <1>6. TunnelTypes
    <2>1. <<>> \in Seq(Clients) /\ <<>> \in Seq(JobType)
      BY EmptySeq
    <2> QED
      BY <1>2, <1>4, <1>5, <2>1, NoEntryTyped DEF TunnelTypes, LoopPlaces
  <1>7. BacklogOK
    BY <1>2 DEF BacklogOK
  <1>8. BatchOK /\ HandlingOK /\ BacklogNoticed /\ LoopSurvives
    BY <1>2 DEF BatchOK, HandlingOK, BacklogNoticed, LoopSurvives, Ended
  <1>9. ASSUME NEW c \in Clients
        PROVE  SessionOK(run, jobs, cli[c], up[c], short, c) /\ NoticedOK(c)
    <2>1. cli[c] = k /\ up[c] = k
      BY <1>4
    <2>2. SessionOK(<<>>, <<>>, k, k, FALSE, c)
      BY <1>3, FirstSession
    <2>3. ~Due(k)
      BY <1>5 DEF Due
    <2> QED
      BY <1>2, <2>1, <2>2, <2>3 DEF NoticedOK
  <1> QED
    BY <1>6, <1>7, <1>8, <1>9 DEF TunnelInv

LEMMA TunnelStutters ==
    ASSUME TunnelInv, UNCHANGED tunnelVars
    PROVE  TunnelInv'
  <1>1. TunnelTypes /\ BacklogNoticed
    BY DEF TunnelInv
  <1>2. /\ UNCHANGED <<cli, up, jobs, todo, run, loop, cur, short, backlog>>
        /\ UNCHANGED <<bound, accept_job, listener_edge, accept_failed>>
    BY DEF tunnelVars, acceptorVars, batchVars
  <1>3. TunnelTypes' /\ BacklogNoticed'
    BY <1>1, <1>2 DEF TunnelTypes, BacklogNoticed, Ended
  <1>4. /\ BacklogOK' /\ BatchOK' /\ HandlingOK' /\ LoopSurvives'
        /\ \A c \in Clients :
              SessionOK(run, jobs, cli[c], up[c], short, c)' /\ NoticedOK(c)'
    BY <1>2, SessionsStand
  <1> QED
    BY <1>3, <1>4 DEF TunnelInv

LEMMA TunnelStepKeeps ==
    ASSUME TunnelInv, TunnelStep
    PROVE  TunnelInv'
  <1>1. CASE Poll \/ EndBatch \/ AcceptReturns
    BY <1>1, PollKeeps, EndBatchKeeps, AcceptReturnsKeeps
  <1>2. ASSUME NEW e \in todo, Handle(e) PROVE TunnelInv'
    BY <1>2, HandleEntryKeeps
  <1>3. ASSUME NEW c \in Clients, Accept(c) \/ ConnectPanics(c) \/ Connected(c) PROVE TunnelInv'
    BY <1>3, AcceptKeeps, ConnectPanicsKeeps, ConnectedKeeps
  <1>4. ASSUME NEW c \in Clients, ReadClient(c) \/ ReadClientEnds(c) \/ HangupClient(c)
        PROVE  TunnelInv'
    BY <1>4, ReadClientKeeps, ReadClientEndsKeeps, HangupClientKeeps
  <1>5. ASSUME NEW c \in Clients, ReadUpstream(c) \/ ReadUpstreamEnds(c) \/ HangupUpstream(c)
        PROVE  TunnelInv'
    BY <1>5, ReadUpstreamKeeps, ReadUpstreamEndsKeeps, HangupUpstreamKeeps
  <1>6. ASSUME NEW c \in Clients, RunFlush(c) \/ RunSend(c) \/ RunShutClient(c) \/ RunShutUpstream(c)
        PROVE  TunnelInv'
    BY <1>6, RunFlushKeeps, RunSendKeeps, RunShutClientKeeps, RunShutUpstreamKeeps
  <1> QED
    BY <1>1, <1>2, <1>3, <1>4, <1>5, <1>6 DEF TunnelStep

LEMMA TunnelNextKeeps ==
    TunnelInv /\ [TunnelNext]_tunnelVars => TunnelInv'
  <1>1. SUFFICES ASSUME TunnelInv, [TunnelNext]_tunnelVars PROVE TunnelInv'
    OBVIOUS
  <1>2. CASE UNCHANGED tunnelVars
    BY <1>1, <1>2, TunnelStutters
  <1>3. CASE TunnelStep
    BY <1>1, <1>3, TunnelStepKeeps
  <1>4. CASE StartServer
    BY <1>1, <1>4, StartServerKeeps
  <1>5. ASSUME NEW c \in Clients, ~Ended, ClientConnects(c) PROVE TunnelInv'
    BY <1>1, <1>5, ClientConnectsKeeps
  <1>6. ASSUME NEW c \in Clients, ~Ended, ClientActs(c) \/ UpstreamActs(c) \/ UpstreamAnswers(c)
        PROVE  TunnelInv'
    BY <1>1, <1>6, ClientActsKeeps, UpstreamActsKeeps, UpstreamAnswersKeeps
  <1> QED
    BY <1>1, <1>2, <1>3, <1>4, <1>5, <1>6 DEF TunnelNext

LEMMA SpecImpliesTunnelInv ==
    TunnelSpec => []TunnelInv
  BY InitTunnelInv, TunnelNextKeeps, PTL DEF TunnelSpec

(* The loop's thread ends only for a client that reset its connection or   *)
(* for connect(2) failing at once: whatever clients and upstreams reset,   *)
(* the unwraps of deregister in close_stream (net/connection.rs) and in    *)
(* the connector's handle_event (net/connector.rs) never fail because a    *)
(* connection is closed twice or was not registered, and on_recv's mutex   *)
(* is taken twice only for the client that has reset.                      *)
THEOREM LoopSurvivesHolds == TunnelSpec => []LoopSurvives
  <1>1. TunnelInv => LoopSurvives
    BY DEF TunnelInv
  <1> QED
    BY <1>1, SpecImpliesTunnelInv, PTL

LEMMA CountsNumbers ==
    ASSUME NEW s \in Seq(Nat), Counts(s)
    PROVE  s = Numbers(Len(s))
  <1>1. DOMAIN s = 1..Len(s) /\ s = [i \in 1..Len(s) |-> s[i]]
    OBVIOUS
  <1>2. \A i \in 1..Len(s) : s[i] = i
    BY DEF Counts
  <1> QED
    BY <1>1, <1>2 DEF Numbers

LEMMA InOrder ==
    ASSUME NEW s \in Seq(Nat), NEW l, Rising(s), l \/ Counts(s)
    PROVE  (\A i, j \in DOMAIN s : i < j => s[i] < s[j]) /\ (~l => s = Numbers(Len(s)))
  <1>1. \A i, j \in DOMAIN s : i < j => s[i] < s[j]
    BY DEF Rising
  <1> QED
    BY <1>1, CountsNumbers

LEMMA SessionForwards ==
    ASSUME NEW r, NEW q, NEW k \in ConnType, NEW u \in ConnType, NEW l \in BOOLEAN, NEW c,
           SessionOK(r, q, k, u, l, c)
    PROVE  /\ Rising(k.got) /\ (l \/ Counts(k.got))
           /\ Rising(u.got) /\ (l \/ Counts(u.got))
           /\ k.conn = "open" /\ ~k.write_enabled /\ ~l /\ ~u.rst => Len(k.got) = u.sent
  <1>1. ReplyOK(k, u, l) /\ RequestOK(r, q, k, u, l, c)
    BY DEF SessionOK
  <1>2. Rising(k.got) /\ (l \/ Counts(k.got)) /\ Rising(u.got) /\ (l \/ Counts(u.got))
    BY <1>1 DEF ReplyOK, RequestOK
  <1>3. ASSUME k.conn = "open", ~k.write_enabled, ~l, ~u.rst PROVE Len(k.got) = u.sent
    <2>1. Len(k.got) = u.sent - u.rx /\ u.rx = 0
      BY <1>1, <1>3 DEF ReplyOK
    <2> QED
      BY <2>1 DEF ConnType
  <1> QED
    BY <1>2, <1>3

(* Whatever was read before the upstream was connected, queued as a send   *)
(* job or sent directly (examples/tunnel.rs: on_recv, on_connect and       *)
(* on_error of both sessions), both peers get a beginning of what the      *)
(* other one sent, in order and nothing twice, unless a write was short;   *)
(* and a client that is shut down after its upstream has got everything.   *)
THEOREM ForwardedInOrderHolds == TunnelSpec => []ForwardedInOrder
  <1>1. ASSUME TunnelInv PROVE ForwardedInOrder
    <2>1. ASSUME NEW c \in Clients
          PROVE  /\ \A s \in {cli[c].got, up[c].got} :
                       /\ \A i, j \in DOMAIN s : i < j => s[i] < s[j]
                       /\ ~short => s = Numbers(Len(s))
                 /\ cli[c].conn = "open" /\ ~cli[c].write_enabled /\ ~short /\ ~up[c].rst =>
                       Len(cli[c].got) = up[c].sent
      <3>1. PICK k \in ConnType, u \in ConnType :
               k = cli[c] /\ u = up[c] /\ SessionOK(run, jobs, k, u, short, c)
        BY <1>1, SessionOf
      <3>2. short \in BOOLEAN
        BY <1>1 DEF TunnelInv, TunnelTypes
      <3>3. /\ Rising(k.got) /\ (short \/ Counts(k.got))
            /\ Rising(u.got) /\ (short \/ Counts(u.got))
            /\ k.conn = "open" /\ ~k.write_enabled /\ ~short /\ ~u.rst => Len(k.got) = u.sent
        BY <3>1, <3>2, SessionForwards
      <3>4. k.got \in Seq(Nat) /\ u.got \in Seq(Nat)
        BY DEF ConnType
      <3>5. ASSUME NEW s \in {k.got, u.got}
            PROVE  /\ \A i, j \in DOMAIN s : i < j => s[i] < s[j]
                   /\ ~short => s = Numbers(Len(s))
        <4>1. s \in Seq(Nat) /\ Rising(s) /\ (short \/ Counts(s))
          BY <3>3, <3>4
        <4> QED
          BY <4>1, InOrder
      <3> QED
        BY <3>1, <3>3, <3>5
    <2> QED
      BY <2>1 DEF ForwardedInOrder
  <1> QED
    BY <1>1, SpecImpliesTunnelInv, PTL

(* In a sleeping loop a connection of a session has nothing unread.        *)
LEMMA NothingUnread ==
    ASSUME TunnelInv, Idle, NEW c \in Clients
    PROVE  ~Due(cli[c]) /\ ~Due(up[c])
  <1>1. TunnelTypes /\ NoticedOK(c) /\ todo = {}
    BY DEF TunnelInv, BatchOK, Idle
  <1>2. loop = "poll" /\ Events = {} /\ ~Ended
    BY DEF Idle, Ended
  <1>3. ~HasEvent(cli[c]) /\ ~HasEvent(up[c])
    BY <1>2 DEF Events
  <1>4. ASSUME NEW k, NEW s, Due(k), Noticed(s, k) PROVE HasEvent(k)
    BY <1>1, <1>2, <1>4 DEF Due, Noticed, At, HasEvent, Registered
  <1> QED
    BY <1>1, <1>3, <1>4 DEF NoticedOK

(* When the loop sleeps in epoll_wait, edge-triggered events and all, no   *)
(* connection waits in the backlog (unless accept(2) failed on it), no     *)
(* byte, end or reset waits on an open connection, and no client's buffer  *)
(* keeps what on_connect's job or on_recv could have passed on.            *)
THEOREM NothingStrandedHolds == TunnelSpec => []NothingStranded
  <1>1. ASSUME TunnelInv, Idle
        PROVE  /\ bound /\ ~accept_failed => backlog = <<>>
               /\ \A c \in Clients :
                     /\ \A k \in {cli[c], up[c]} :
                           k.conn = "open" => k.rx = 0 /\ ~k.fin /\ ~k.rst
                     /\ cli[c].conn = "open" /\ up[c].conn = "open" => cli[c].buf = <<>>
    <2>1. todo = {} /\ run = <<>> /\ jobs = <<>> /\ loop = "poll" /\ Events = {}
      BY <1>1 DEF TunnelInv, BatchOK, Idle
    <2>2. ~listener_edge
      BY <2>1 DEF Events
    <2>3. bound /\ ~accept_failed => backlog = <<>>
      BY <1>1, <2>1, <2>2 DEF TunnelInv, BacklogNoticed, Ended
    <2>4. ASSUME NEW c \in Clients
          PROVE  /\ \A k \in {cli[c], up[c]} :
                       k.conn = "open" => k.rx = 0 /\ ~k.fin /\ ~k.rst
                 /\ cli[c].conn = "open" /\ up[c].conn = "open" => cli[c].buf = <<>>
      <3>1. PICK k \in ConnType, u \in ConnType :
               k = cli[c] /\ u = up[c] /\ SessionOK(run, jobs, k, u, short, c)
        BY <1>1, SessionOf
      <3>2. ~Due(k) /\ ~Due(u)
        BY <1>1, <3>1, NothingUnread
      <3>3. ASSUME NEW n \in ConnType, ~Due(n), n.conn = "open"
            PROVE  n.rx = 0 /\ ~n.fin /\ ~n.rst
        <4>1. n.rx \in Nat /\ ~(n.rx > 0)
          BY <3>3 DEF Due, ConnType
        <4> QED
          BY <3>3, <4>1 DEF Due
      <3>4. JobsOK(<<>>, <<>>, k, u, c)
        BY <2>1, <3>1 DEF SessionOK
      <3>5. k.conn = "open" /\ u.conn = "open" => k.buf = <<>>
        BY <3>3, <3>2, <3>4 DEF JobsOK, Waits, JobIn
      <3> QED
        BY <3>1, <3>2, <3>3, <3>5
    <2> QED
      BY <2>3, <2>4
  <1>2. TunnelInv => NothingStranded
    BY <1>1 DEF NothingStranded
  <1> QED
    BY <1>2, SpecImpliesTunnelInv, PTL

-----------------------------------------------------------------------------
(* What has been shut or closed stays so, and nothing is written to it.    *)
StaysShut(k, n) ==
    /\ ~k.write_enabled => ~n.write_enabled /\ n.got = k.got
    /\ k.conn = "closed" => n.conn = "closed"

AllStayShut(f, g) == \A c \in Clients : StaysShut(f[c], g[c])

ShutIsFinal == [][AllStayShut(cli, cli') /\ AllStayShut(up, up')]_tunnelVars

LEMMA OneStaysShut ==
    ASSUME NEW f \in [Clients -> ConnType], NEW c \in Clients, NEW n,
           NEW g, g = [f EXCEPT ![c] = n], StaysShut(f[c], n)
    PROVE  AllStayShut(f, g)
  <1>1. g[c] = n /\ \A d \in Clients \ {c} : g[d] = f[d]
    OBVIOUS
  <1> QED
    BY <1>1 DEF AllStayShut, StaysShut

LEMMA SameStaysShut ==
    ASSUME NEW f, NEW g, g = f
    PROVE  AllStayShut(f, g)
  BY DEF AllStayShut, StaysShut

LEMMA CloseStaysShut ==
    ASSUME NEW k \in ConnType, KernelOK(k), NEW n, n = Closed(k)
    PROVE  StaysShut(k, n)
  BY ClosedFields DEF StaysShut, SameData

LEMMA ShutdownStaysShut ==
    ASSUME NEW k \in ConnType, NEW n, n = Raise([k EXCEPT !.write_enabled = FALSE])
    PROVE  StaysShut(k, n)
  <1>1. PICK m : m = [k EXCEPT !.write_enabled = FALSE]
    OBVIOUS
  <1>2. m \in ConnType /\ m.write_enabled = FALSE /\ m.got = k.got /\ m.conn = k.conn
    BY <1>1 DEF ConnType
  <1>3. n = Raise(m)
    BY <1>1
  <1> QED
    BY <1>2, <1>3, RaiseFields DEF StaysShut, SameData

LEMMA PeerStaysShut ==
    ASSUME NEW k \in ConnType, NEW max, NEW n \in PeerMoves(k, max)
    PROVE  StaysShut(k, n)
  BY PeerMovesFields DEF PeerMoved, StaysShut

LEMMA PollStaysShut ==
    ASSUME NEW f \in [Clients -> ConnType], NEW g, g = [c \in Clients |-> Delivered(f[c])]
    PROVE  AllStayShut(f, g)
  <1>1. ASSUME NEW c \in Clients PROVE StaysShut(f[c], g[c])
    <2>1. f[c] \in ConnType /\ g[c] = Delivered(f[c])
      OBVIOUS
    <2> QED
      BY <2>1, DeliveredFields DEF StaysShut, SameData
  <1> QED
    BY <1>1 DEF AllStayShut

(* A step that only changes what a connection has of its life.             *)
LEMMA OpenStaysShut ==
    ASSUME NEW k, NEW n, n.write_enabled = k.write_enabled, n.got = k.got,
           k.conn = "closed" => n.conn = "closed"
    PROVE  StaysShut(k, n)
  BY DEF StaysShut

(* The clients' connections.                                               *)
LEMMA ClientsStayShut ==
    ASSUME TunnelInv, TunnelNext
    PROVE  AllStayShut(cli, cli')
  <1>1. cli \in [Clients -> ConnType] /\ backlog \in Seq(Clients) /\ BacklogOK
    BY DEF TunnelInv, TunnelTypes
  <1>2. ASSUME NEW c \in Clients, NEW n, cli' = [cli EXCEPT ![c] = n], StaysShut(cli[c], n)
        PROVE  AllStayShut(cli, cli')
    BY <1>1, <1>2, OneStaysShut
  <1>3. ASSUME cli' = cli PROVE AllStayShut(cli, cli')
    BY <1>3, SameStaysShut
  <1>4. ASSUME NEW c \in Clients PROVE cli[c] \in ConnType /\ KernelOK(cli[c])
    BY <1>1, SessionOf DEF SessionOK, PairOK
  <1>5. ASSUME NEW c \in Clients, ClientConnects(c) PROVE AllStayShut(cli, cli')
    <2>0. PICK k \in ConnType : k = cli[c]
      BY <1>1
    <2>1. PICK n : k = cli[c] /\ n = [k EXCEPT !.conn = "backlog"]
      BY <2>0
    <2>2. k.conn = "none" /\ cli' = [cli EXCEPT ![c] = n]
      BY <1>1, <1>5, <2>1 DEF ClientConnects
    <2>3. n.write_enabled = k.write_enabled /\ n.got = k.got
      BY <2>1 DEF ConnType
    <2>4. StaysShut(k, n)
      BY <2>1, <2>2, <2>3, OpenStaysShut
    <2> QED
      BY <1>2, <2>1, <2>2, <2>3, <2>4
  <1>6. ASSUME NEW c \in Clients, ClientActs(c) PROVE AllStayShut(cli, cli')
    <2>1. PICK n \in PeerMoves(cli[c], MaxSent) : cli' = [cli EXCEPT ![c] = n]
      BY <1>6 DEF ClientActs
    <2> QED
      BY <1>2, <1>4, <2>1, PeerStaysShut
  <1>7. CASE Poll
    BY <1>1, <1>7, PollStaysShut DEF Poll
  <1>8. ASSUME NEW c \in Clients, Accept(c) \/ ConnectPanics(c) PROVE AllStayShut(cli, cli')
    <2>1. PICK k \in ConnType : k = cli[c]
      BY <1>1
    <2>2. k.conn # "closed"
      <3>1. backlog # <<>> /\ c = Head(backlog)
        BY <1>8 DEF Accept, ConnectPanics, AcceptNext
      <3>2. 1 \in 1..Len(backlog) /\ c = backlog[1]
        BY <1>1, <3>1
      <3> QED
        BY <1>1, <2>1, <3>2 DEF BacklogOK
    <2>3. \/ cli' = [cli EXCEPT ![c] = [k EXCEPT !.conn = "open", !.edge = TRUE]]
          \/ cli' = [cli EXCEPT ![c] = [k EXCEPT !.conn = "dropped"]]
      BY <1>1, <1>8, <2>1 DEF Accept, ConnectPanics
    <2>4. CASE cli' = [cli EXCEPT ![c] = [k EXCEPT !.conn = "open", !.edge = TRUE]]
      <3>1. PICK n : n = [k EXCEPT !.conn = "open", !.edge = TRUE]
        OBVIOUS
      <3>2. n.write_enabled = k.write_enabled /\ n.got = k.got
        BY <3>1 DEF ConnType
      <3>3. StaysShut(k, n)
        BY <2>1, <2>2, <2>4, <3>1, <3>2, OpenStaysShut
      <3> QED
        BY <1>2, <2>1, <2>2, <2>4, <3>1, <3>2, <3>3
    <2>5. CASE cli' = [cli EXCEPT ![c] = [k EXCEPT !.conn = "dropped"]]
      <3>1. PICK n : n = [k EXCEPT !.conn = "dropped"]
        OBVIOUS
      <3>2. n.write_enabled = k.write_enabled /\ n.got = k.got
        BY <3>1 DEF ConnType
      <3>3. StaysShut(k, n)
        BY <2>1, <2>2, <2>5, <3>1, <3>2, OpenStaysShut
      <3> QED
        BY <1>2, <2>1, <2>2, <2>5, <3>1, <3>2, <3>3
    <2> QED
      BY <2>3, <2>4, <2>5
  <1>9. ASSUME NEW c \in Clients, ReadClient(c) PROVE AllStayShut(cli, cli')
    <2>1. PICK k \in ConnType : k = cli[c]
      BY <1>1
    <2>2. PICK b : cli' = [cli EXCEPT ![c] = [k EXCEPT !.rx = 0, !.buf = b]]
      BY <1>1, <1>9, <2>1 DEF ReadClient
    <2>3. PICK n : n = [k EXCEPT !.rx = 0, !.buf = b]
      OBVIOUS
    <2>4. n.write_enabled = k.write_enabled /\ n.got = k.got /\ n.conn = k.conn
      BY <2>3 DEF ConnType
    <2>5. StaysShut(k, n)
      BY <2>1, <2>2, <2>3, <2>4, OpenStaysShut
    <2> QED
      BY <1>2, <2>1, <2>2, <2>3, <2>4, <2>5
  <1>10. ASSUME NEW c \in Clients, ReadClientEnds(c) PROVE AllStayShut(cli, cli')
    <2>0. PICK k \in ConnType : k = cli[c]
      BY <1>4
    <2>1. PICK m : k = cli[c] /\ m = Closed(k) /\ KernelOK(k)
      BY <1>4, <2>0
    <2>2. m \in ConnType /\ m.conn = "closed" /\ StaysShut(k, m)
      BY <2>1, ClosedFields, CloseStaysShut
    <2>3. cli' = cli \/ \E b : cli' = [cli EXCEPT ![c] = [m EXCEPT !.buf = b]]
      BY <1>10, <2>1 DEF ReadClientEnds
    <2>4. ASSUME NEW b, cli' = [cli EXCEPT ![c] = [m EXCEPT !.buf = b]]
          PROVE  AllStayShut(cli, cli')
      <3>1. PICK n : n = [m EXCEPT !.buf = b]
        OBVIOUS
      <3>2. n.write_enabled = m.write_enabled /\ n.got = m.got /\ n.conn = m.conn
        BY <2>2, <3>1 DEF ConnType
      <3>3. StaysShut(k, n)
        BY <2>2, <3>2 DEF StaysShut
      <3> QED
        BY <1>2, <2>1, <2>4, <3>1, <3>3
    <2> QED
      BY <1>3, <2>3, <2>4
  <1>11. ASSUME NEW c \in Clients, HangupClient(c) PROVE AllStayShut(cli, cli')
    <2>1. cli' = [cli EXCEPT ![c] = Closed(cli[c])]
      BY <1>11 DEF HangupClient
    <2>2. StaysShut(cli[c], Closed(cli[c]))
      BY <1>4, CloseStaysShut
    <2> QED
      BY <1>2, <2>1, <2>2
  <1>12. ASSUME NEW c \in Clients, ReadUpstream(c) PROVE AllStayShut(cli, cli')
    <2>1. PICK k \in ConnType : k = cli[c] /\ KernelOK(k)
      BY <1>4
    <2>2. \/ cli' = cli
          \/ cli' = [cli EXCEPT ![c] = Closed(k)]
          \/ k.write_enabled /\ \E g : cli' = [cli EXCEPT ![c] = [k EXCEPT !.got = g]]
      BY <1>1, <1>12, <2>1 DEF ReadUpstream
    <2>3. StaysShut(k, Closed(k))
      BY <2>1, CloseStaysShut
    <2>4. ASSUME NEW g, k.write_enabled, cli' = [cli EXCEPT ![c] = [k EXCEPT !.got = g]]
          PROVE  AllStayShut(cli, cli')
      <3>1. PICK n : n = [k EXCEPT !.got = g]
        OBVIOUS
      <3>2. n.conn = k.conn
        BY <3>1 DEF ConnType
      <3>3. StaysShut(k, n)
        BY <2>4, <3>2 DEF StaysShut
      <3> QED
        BY <1>2, <2>1, <2>4, <3>1, <3>3
    <2> QED
      BY <1>2, <1>3, <2>1, <2>2, <2>3, <2>4
  <1>13. ASSUME NEW c \in Clients, RunFlush(c) PROVE AllStayShut(cli, cli')
    <2>0. PICK k \in ConnType : k = cli[c]
      BY <1>1
    <2>1. PICK n : k = cli[c] /\ n = [k EXCEPT !.buf = <<>>]
      BY <2>0
    <2>2. cli' = [cli EXCEPT ![c] = n]
      BY <1>1, <1>13, <2>1 DEF RunFlush
    <2>3. n.write_enabled = k.write_enabled /\ n.got = k.got /\ n.conn = k.conn
      BY <2>1 DEF ConnType
    <2>4. StaysShut(k, n)
      BY <2>1, <2>2, <2>3, OpenStaysShut
    <2> QED
      BY <1>2, <2>1, <2>2, <2>3, <2>4
  <1>14. ASSUME NEW c \in Clients, RunShutClient(c) PROVE AllStayShut(cli, cli')
    <2>0. PICK k \in ConnType : k = cli[c]
      BY <1>1
    <2>1. PICK n : k = cli[c] /\ n = Raise([k EXCEPT !.write_enabled = FALSE])
      BY <2>0
    <2>2. cli' = [cli EXCEPT ![c] = n]
      BY <1>1, <1>14, <2>1 DEF RunShutClient
    <2> QED
      BY <1>2, <2>1, <2>2, ShutdownStaysShut
  <1>15. ASSUME \/ EndBatch \/ AcceptReturns \/ StartServer \/ \E e \in todo : Handle(e)
                \/ \E c \in Clients : \/ Connected(c) \/ ReadUpstreamEnds(c) \/ HangupUpstream(c)
                                      \/ RunSend(c) \/ RunShutUpstream(c)
                                      \/ UpstreamActs(c) \/ UpstreamAnswers(c)
         PROVE  cli' = cli
    BY <1>15 DEF EndBatch, AcceptReturns, StartServer, Handle, Connected, ReadUpstreamEnds,
                 HangupUpstream, RunSend, RunShutUpstream, UpstreamActs, UpstreamAnswers
  <1> QED
    BY <1>3, <1>5, <1>6, <1>7, <1>8, <1>9, <1>10, <1>11, <1>12, <1>13, <1>14, <1>15
    DEF TunnelNext, TunnelStep

(* The connections to the upstream server.                                 *)
LEMMA UpstreamsStayShut ==
    ASSUME TunnelInv, TunnelNext
    PROVE  AllStayShut(up, up')
  <1>1. up \in [Clients -> ConnType] /\ backlog \in Seq(Clients) /\ BacklogOK /\ HandlingOK
    BY DEF TunnelInv, TunnelTypes
  <1>2. ASSUME NEW c \in Clients, NEW n, up' = [up EXCEPT ![c] = n], StaysShut(up[c], n)
        PROVE  AllStayShut(up, up')
    BY <1>1, <1>2, OneStaysShut
  <1>3. ASSUME up' = up PROVE AllStayShut(up, up')
    BY <1>3, SameStaysShut
  <1>4. ASSUME NEW c \in Clients PROVE up[c] \in ConnType /\ KernelOK(up[c])
    BY <1>1, SessionOf DEF SessionOK, PairOK
  <1>5. ASSUME NEW c \in Clients, UpstreamActs(c) PROVE AllStayShut(up, up')
    <2>1. PICK n \in PeerMoves(up[c], MaxReply) : up' = [up EXCEPT ![c] = n]
      BY <1>5 DEF UpstreamActs
    <2> QED
      BY <1>2, <1>4, <2>1, PeerStaysShut
  <1>6. ASSUME NEW c \in Clients, UpstreamAnswers(c) PROVE AllStayShut(up, up')
    <2>1. PICK k \in ConnType : k = up[c]
      BY <1>1
    <2>2. PICK r \in BOOLEAN :
             up' = [up EXCEPT ![c] = [k EXCEPT !.conn = "connected", !.edge = TRUE, !.rst = r]]
      BY <1>1, <1>6, <2>1 DEF UpstreamAnswers
    <2>3. PICK n : n = [k EXCEPT !.conn = "connected", !.edge = TRUE, !.rst = r]
      OBVIOUS
    <2>4. n.write_enabled = k.write_enabled /\ n.got = k.got /\ k.conn # "closed"
      BY <1>6, <2>1, <2>3 DEF ConnType, UpstreamAnswers
    <2>5. StaysShut(k, n)
      BY <2>1, <2>2, <2>3, <2>4, OpenStaysShut
    <2> QED
      BY <1>2, <2>1, <2>2, <2>3, <2>4, <2>5
  <1>7. CASE Poll
    BY <1>1, <1>7, PollStaysShut DEF Poll
  <1>8. ASSUME NEW c \in Clients, Accept(c) PROVE AllStayShut(up, up')
    <2>0. PICK k \in ConnType : k = up[c]
      BY <1>1
    <2>1. PICK n : k = up[c] /\ n = [k EXCEPT !.conn = "connecting"]
      BY <2>0
    <2>2. cli[c].conn = "backlog"
      <3>1. backlog # <<>> /\ c = Head(backlog)
        BY <1>8 DEF Accept, AcceptNext
      <3>2. 1 \in 1..Len(backlog) /\ c = backlog[1]
        BY <1>1, <3>1
      <3> QED
        BY <1>1, <3>2 DEF BacklogOK
    <2>3. k.conn = "none"
      BY <2>1, <2>2, SessionOf DEF SessionOK, PairOK
    <2>4. up' = up \/ up' = [up EXCEPT ![c] = n]
      BY <1>1, <1>8, <2>1 DEF Accept
    <2>5. n.write_enabled = k.write_enabled /\ n.got = k.got
      BY <2>1 DEF ConnType
    <2>6. StaysShut(k, n)
      BY <2>1, <2>3, <2>4, <2>5, OpenStaysShut
    <2> QED
      BY <1>2, <1>3, <2>1, <2>3, <2>4, <2>5, <2>6
  <1>9. ASSUME NEW c \in Clients, Connected(c) PROVE AllStayShut(up, up')
    <2>1. PICK k \in ConnType : k = up[c]
      BY <1>1
    <2>2. k.conn = "connected"
      BY <1>1, <1>9, <2>1 DEF Connected, At, HandlingOK
    <2>3. PICK n : /\ n \in {[k EXCEPT !.conn = "dropped"], Opened(k),
                             [Opened(k) EXCEPT !.rst = TRUE, !.rx = 0]}
                   /\ up' = [up EXCEPT ![c] = n]
      BY <1>1, <1>9, <2>1 DEF Connected
    <2>4. n.write_enabled = k.write_enabled /\ n.got = k.got
      BY <2>3 DEF ConnType, Opened
    <2>5. StaysShut(k, n)
      BY <2>2, <2>4, OpenStaysShut
    <2> QED
      BY <1>2, <2>1, <2>3, <2>5
  <1>10. ASSUME NEW c \in Clients, ReadUpstream(c) PROVE AllStayShut(up, up')
    <2>1. PICK k \in ConnType : k = up[c]
      BY <1>1
    <2>2. PICK b : up' = [up EXCEPT ![c] = [k EXCEPT !.rx = 0, !.buf = b]]
      BY <1>1, <1>10, <2>1 DEF ReadUpstream
    <2>3. PICK n : n = [k EXCEPT !.rx = 0, !.buf = b]
      OBVIOUS
    <2>4. n.write_enabled = k.write_enabled /\ n.got = k.got /\ n.conn = k.conn
      BY <2>3 DEF ConnType
    <2>5. StaysShut(k, n)
      BY <2>1, <2>2, <2>3, <2>4, OpenStaysShut
    <2> QED
      BY <1>2, <2>1, <2>2, <2>3, <2>4, <2>5
  <1>11. ASSUME NEW c \in Clients, up' = [up EXCEPT ![c] = Closed(up[c])]
         PROVE  AllStayShut(up, up')
    <2>1. StaysShut(up[c], Closed(up[c]))
      BY <1>4, CloseStaysShut
    <2> QED
      BY <1>2, <1>11, <2>1
  <1>12. ASSUME NEW c \in Clients, ReadUpstreamEnds(c) \/ HangupUpstream(c)
         PROVE  AllStayShut(up, up')
    <2>1. up' = up \/ up' = [up EXCEPT ![c] = Closed(up[c])]
      BY <1>12 DEF ReadUpstreamEnds, HangupUpstream
    <2> QED
      BY <1>3, <1>11, <2>1
  <1>13. ASSUME NEW c \in Clients, NEW b, SendUpstream(c, b) PROVE AllStayShut(up, up')
    <2>1. PICK k \in ConnType : k = up[c]
      BY <1>1
    <2>2. \/ up' = up
          \/ up' = [up EXCEPT ![c] = Closed(up[c])]
          \/ k.write_enabled /\ \E g : up' = [up EXCEPT ![c] = [k EXCEPT !.got = g]]
      BY <1>1, <1>13, <2>1 DEF SendUpstream
    <2>3. ASSUME NEW g, k.write_enabled, up' = [up EXCEPT ![c] = [k EXCEPT !.got = g]]
          PROVE  AllStayShut(up, up')
      <3>1. PICK n : n = [k EXCEPT !.got = g]
        OBVIOUS
      <3>2. n.conn = k.conn
        BY <3>1 DEF ConnType
      <3>3. StaysShut(k, n)
        BY <2>3, <3>2 DEF StaysShut
      <3> QED
        BY <1>2, <2>1, <2>3, <3>1, <3>3
    <2> QED
      BY <1>3, <1>11, <2>2, <2>3
  <1>14. ASSUME NEW c \in Clients, RunFlush(c) \/ RunSend(c) PROVE AllStayShut(up, up')
    BY <1>3, <1>13, <1>14 DEF RunFlush, RunSend
  <1>15. ASSUME NEW c \in Clients, RunShutUpstream(c) PROVE AllStayShut(up, up')
    <2>0. PICK k \in ConnType : k = up[c]
      BY <1>1
    <2>1. PICK n : k = up[c] /\ n = Raise([k EXCEPT !.write_enabled = FALSE])
      BY <2>0
    <2>2. up' = [up EXCEPT ![c] = n]
      BY <1>1, <1>15, <2>1 DEF RunShutUpstream
    <2> QED
      BY <1>2, <2>1, <2>2, ShutdownStaysShut
  <1>16. ASSUME \/ EndBatch \/ AcceptReturns \/ StartServer \/ \E e \in todo : Handle(e)
                \/ \E c \in Clients : \/ ConnectPanics(c) \/ ReadClient(c) \/ ReadClientEnds(c)
                                      \/ HangupClient(c) \/ RunShutClient(c)
                                      \/ ClientConnects(c) \/ ClientActs(c)
         PROVE  up' = up
    BY <1>16 DEF EndBatch, AcceptReturns, StartServer, Handle, ConnectPanics, ReadClient,
                 ReadClientEnds, HangupClient, RunShutClient, ClientConnects, ClientActs
  <1> QED
    BY <1>3, <1>5, <1>6, <1>7, <1>8, <1>9, <1>10, <1>12, <1>14, <1>15, <1>16
    DEF TunnelNext, TunnelStep

(* Once a direction is shut, by a shutdown job or by handle_close, no job  *)
(* that was enqueued before and no entry of the same batch writes to it    *)
(* any more, and a closed connection is never opened again, although jobs  *)
(* and batch still own it (TcpConnection::send looks at write_enabled,     *)
(* handle_close at closed).                                                *)
THEOREM ShutIsFinalHolds == TunnelSpec => ShutIsFinal
  <1> DEFINE Stays == AllStayShut(cli, cli') /\ AllStayShut(up, up')
  <1>1. TunnelInv /\ [TunnelNext]_tunnelVars => [Stays]_tunnelVars
    BY ClientsStayShut, UpstreamsStayShut
  <1> QED
    BY <1>1, SpecImpliesTunnelInv, PTL DEF TunnelSpec, ShutIsFinal
=============================================================================
