------------------------- MODULE TimerWakeupProofs -------------------------
(***************************************************************************)
(* Proofs about TimerWakeup for any range of ticks: the earliest pending   *)
(* timeout is always asked of the wakeup thread or answered by it, and the *)
(* thread never parks past a request it was not told of.                   *)
(*                                                                         *)
(* RequestStands speaks of the moments at which the event loop waits.  Its *)
(* inductive form follows schedule_readiness from the load to the unpark:  *)
(* until the exchange, what is pending is covered by the old request and   *)
(* the new one together, and the value the loop has loaded is current      *)
(* unless the thread has answered since, which makes the loop poll again.  *)
(***************************************************************************)
EXTENDS TimerWakeup, WellFoundedInduction, TLAPS

(* No timeout is earlier than x.                                           *)
Covers(x) == \A t \in pending : x <= t

WaitingCovered ==
    lpc = "idle" \/ (lpc = "unpark" /\ ret = "idle") => WillPoll \/ Covers(wakeup_state)

SchedulingCovers ==
    lpc \in {"load", "compare"} /\ ret = "idle" =>
        WillPoll \/ \A t \in pending : wakeup_state <= t \/ arg <= t

LoadedIsCurrent == lpc = "compare" => wakeup_state = curr \/ WillPoll

(* The thread, from the moment it has read wakeup_state.                   *)
ThreadIsTold ==
    /\ tpc \in {"check", "park"} /\ wakeup_state < sleep_until => token \/ lpc = "unpark"
    /\ tpc = "set" /\ wakeup_state < MAX => token \/ lpc = "unpark"

IInv == /\ TypeOK
        /\ WaitingCovered
        /\ SchedulingCovers
        /\ LoadedIsCurrent
        /\ ThreadIsTold

(* A set of natural numbers has a least element: the natural numbers are   *)
(* well-founded under <.                                                   *)
LEMMA LeastElement ==
    ASSUME NEW S \in SUBSET Nat, S # {}
    PROVE  \E n \in S : \A m \in S : n <= m
  <1> DEFINE R == {ss \in Nat \X Nat : ss[1] < ss[2]}
  <1>1. IsWellFoundedOn(R, Nat)
    BY NatLessThanWellFounded, Zenon DEF OpToRel
  <1> HIDE DEF R
  <1>2. PICK n \in S : \A m \in S : ~(<<m, n>> \in R)
    BY <1>1, WFMin
  <1>3. \A m \in S : ~(m < n)
    BY <1>2 DEF R
  <1> QED
    BY <1>3

(* next_tick() is a tick or MAX, and nothing pending is earlier.           *)
LEMMA NextTickCovers ==
    ASSUME TypeOK
    PROVE  NextTick \in 0..MAX /\ Covers(NextTick)
  <1>1. CASE pending = {}
    BY <1>1, MaxTickAssumption DEF NextTick, Covers, MAX
  <1>2. CASE pending # {}
    <2>1. pending \subseteq Nat
      BY MaxTickAssumption DEF TypeOK, Ticks
    <2>2. \E n \in pending : \A m \in pending : n <= m
      BY <1>2, <2>1, LeastElement
    <2>3. Min(pending) \in pending /\ \A m \in pending : Min(pending) <= m
      BY <2>2 DEF Min
    <2>4. \A t \in pending : t \in 0..MAX
      BY MaxTickAssumption DEF TypeOK, Ticks, MAX
    <2> QED
      BY <1>2, <2>3, <2>4 DEF NextTick, Covers
  <1> QED
    BY <1>1, <1>2
LEMMA InitEstablishesIInv == Init => IInv
  <1> SUFFICES ASSUME Init PROVE IInv
    OBVIOUS
  <1>1. TypeOK
    <2>1. MAX \in 0..MAX /\ 0 \in Ticks
      BY MaxTickAssumption DEF Ticks, MAX
    <2>2. {token, ready, queued} \subseteq BOOLEAN
      BY Zenon DEF Init
    <2> QED
      BY <2>1, <2>2 DEF Init, TypeOK
  <1>2. WaitingCovered /\ SchedulingCovers /\ LoadedIsCurrent /\ ThreadIsTold
    BY DEF Init, WaitingCovered, SchedulingCovers, LoadedIsCurrent, ThreadIsTold
  <1> QED
    BY <1>1, <1>2 DEF IInv

(* Everything compared is a number.                                        *)
LEMMA Numbers ==
    ASSUME TypeOK
    PROVE  /\ wakeup_state \in 0..MAX /\ arg \in 0..MAX /\ curr \in 0..MAX
           /\ sleep_until \in 0..MAX /\ MAX \in Nat
           /\ pending \subseteq Nat /\ now \in Nat
  BY MaxTickAssumption DEF TypeOK, Ticks, MAX

(* Time passes, and the user sets and cancels timeouts.                    *)
LEMMA TimePassesKeeps ==
    ASSUME IInv, TimePasses
    PROVE  IInv'
  <1>1. UNCHANGED <<pending, wakeup_state, token, ready, queued, lpc, arg, curr, ret,
                    tpc, sleep_until>>
    BY DEF TimePasses, readiness, loopVars, threadVars
  <1>2. TypeOK'
    BY <1>1, MaxTickAssumption DEF IInv, TypeOK, TimePasses, Ticks
  <1> QED
    BY <1>1, <1>2 DEF IInv, WaitingCovered, SchedulingCovers, LoadedIsCurrent,
       ThreadIsTold, WillPoll, Covers

LEMMA SetTimeoutKeeps ==
    ASSUME IInv, NEW t \in Ticks, SetTimeout(t)
    PROVE  IInv'
  <1>1. /\ UNCHANGED <<now, wakeup_state, token, ready, queued, curr, tpc, sleep_until>>
        /\ pending' = pending \cup {t} /\ lpc \in {"unregistered", "idle", "closure"}
        /\ \/ lpc = "unregistered" /\ UNCHANGED <<lpc, arg, ret>>
           \/ lpc = "idle" /\ lpc' = "load" /\ arg' = t /\ ret' = "idle"
           \/ lpc = "closure" /\ lpc' = "load" /\ arg' = t /\ ret' = "poll"
    BY DEF SetTimeout, Schedule, readiness, loopVars, threadVars
  <1>2. TypeOK'
    BY <1>1, MaxTickAssumption DEF IInv, TypeOK, Ticks, MAX
  <1>3. t <= t
    BY DEF Ticks
  <1>4. WaitingCovered' /\ LoadedIsCurrent' /\ ThreadIsTold'
    BY <1>1 DEF IInv, WaitingCovered, LoadedIsCurrent, ThreadIsTold, WillPoll
  <1>5. SchedulingCovers'
    BY <1>1, <1>3 DEF IInv, WaitingCovered, SchedulingCovers, WillPoll, Covers
  <1> QED
    BY <1>2, <1>4, <1>5 DEF IInv

LEMMA CancelTimeoutKeeps ==
    ASSUME IInv, NEW t \in Ticks, CancelTimeout(t)
    PROVE  IInv'
  <1>1. /\ UNCHANGED <<now, wakeup_state, token, ready, queued, lpc, arg, curr, ret, tpc,
                       sleep_until>>
        /\ pending' \subseteq pending
    BY DEF CancelTimeout, readiness, loopVars, threadVars
  <1>2. TypeOK'
    BY <1>1 DEF IInv, TypeOK
  <1> QED
    BY <1>1, <1>2 DEF IInv, WaitingCovered, SchedulingCovers, LoadedIsCurrent,
       ThreadIsTold, WillPoll, Covers

(* schedule_readiness with the earliest timeout: register and poll_to.     *)
LEMMA RescheduleKeeps ==
    ASSUME IInv, Register \/ Clear
    PROVE  IInv'
  <1>1. /\ UNCHANGED <<now, pending, wakeup_state, token, queued, curr, sleep_until>>
        /\ lpc' = "load" /\ arg' = NextTick /\ ret' = "idle"
        /\ lpc \in {"unregistered", "clear"}
        /\ tpc' \in {"load", tpc} /\ ready' \in BOOLEAN
    BY DEF Register, Clear, Schedule, readiness, threadVars, IInv, TypeOK
  <1>2. NextTick \in 0..MAX /\ Covers(NextTick)
    BY NextTickCovers DEF IInv
  <1>3. TypeOK'
    BY <1>1, <1>2 DEF IInv, TypeOK, Register, Clear, readiness, threadVars
  <1>4. SchedulingCovers'
    BY <1>1, <1>2 DEF SchedulingCovers, Covers
  <1>5. WaitingCovered' /\ LoadedIsCurrent' /\ ThreadIsTold'
    BY <1>1 DEF IInv, WaitingCovered, LoadedIsCurrent, ThreadIsTold
  <1> QED
    BY <1>3, <1>4, <1>5 DEF IInv

(* The load, the comparison and the exchange.                              *)
LEMMA LoadKeeps ==
    ASSUME IInv, Load
    PROVE  IInv'
  <1>1. /\ UNCHANGED <<now, pending, wakeup_state, token, ready, queued, arg, ret, tpc,
                       sleep_until>>
        /\ lpc = "load" /\ lpc' = "compare" /\ curr' = wakeup_state
    BY DEF Load, readiness, threadVars
  <1>2. TypeOK'
    BY <1>1 DEF IInv, TypeOK
  <1> QED
    BY <1>1, <1>2 DEF IInv, WaitingCovered, SchedulingCovers, LoadedIsCurrent,
       ThreadIsTold, WillPoll, Covers

LEMMA StandsKeeps ==
    ASSUME IInv, Stands
    PROVE  IInv'
  <1>1. /\ UNCHANGED <<now, pending, wakeup_state, token, ready, queued, arg, curr, ret,
                       tpc, sleep_until>>
        /\ lpc = "compare" /\ lpc' = ret /\ curr <= arg
    BY DEF Stands, readiness, threadVars
  <1>2. TypeOK' /\ ret \in {"idle", "poll", "dropped"}
    BY <1>1 DEF IInv, TypeOK
  <1>3. WaitingCovered'
    <2> SUFFICES ASSUME ret = "idle", ~WillPoll
                 PROVE  Covers(wakeup_state)
      BY <1>1, <1>2 DEF WaitingCovered, WillPoll, Covers
    <2>1. wakeup_state <= arg
      BY <1>1 DEF IInv, LoadedIsCurrent
    <2> QED
      BY <1>1, <2>1, Numbers DEF IInv, SchedulingCovers, Covers
  <1>4. SchedulingCovers' /\ LoadedIsCurrent' /\ ThreadIsTold'
    BY <1>1, <1>2 DEF IInv, SchedulingCovers, LoadedIsCurrent, ThreadIsTold
  <1> QED
    BY <1>2, <1>3, <1>4 DEF IInv

LEMMA ExchangeKeeps ==
    ASSUME IInv, Exchange
    PROVE  IInv'
  <1>1. /\ UNCHANGED <<now, pending, token, ready, queued, arg, ret, tpc, sleep_until>>
        /\ lpc = "compare" /\ curr > arg
    BY DEF Exchange, readiness, threadVars
  <1>2. CASE wakeup_state = curr
    <2>1. wakeup_state' = arg /\ lpc' = "unpark" /\ curr' = curr
      BY <1>2 DEF Exchange
    <2>2. TypeOK'
      BY <1>1, <2>1 DEF IInv, TypeOK
    <2>3. WaitingCovered'
      <3> SUFFICES ASSUME ret = "idle", ~WillPoll
                   PROVE  Covers(arg)
        BY <1>1, <2>1 DEF WaitingCovered, WillPoll, Covers
      <3> QED
        BY <1>1, <1>2, Numbers DEF IInv, SchedulingCovers, Covers
    <2>4. SchedulingCovers' /\ LoadedIsCurrent' /\ ThreadIsTold'
      BY <2>1 DEF SchedulingCovers, LoadedIsCurrent, ThreadIsTold
    <2> QED
      BY <2>2, <2>3, <2>4 DEF IInv
  <1>3. CASE wakeup_state # curr
    <2>1. wakeup_state' = wakeup_state /\ lpc' = "compare" /\ curr' = wakeup_state
      BY <1>1, <1>3 DEF Exchange
    <2>2. TypeOK'
      BY <1>1, <2>1 DEF IInv, TypeOK
    <2> QED
      BY <1>1, <2>1, <2>2 DEF IInv, WaitingCovered, SchedulingCovers, LoadedIsCurrent,
         ThreadIsTold, WillPoll, Covers
  <1> QED
    BY <1>2, <1>3

LEMMA UnparkKeeps ==
    ASSUME IInv, Unpark
    PROVE  IInv'
  <1>1. /\ UNCHANGED <<now, pending, wakeup_state, ready, queued, arg, curr, ret, tpc,
                       sleep_until>>
        /\ lpc = "unpark" /\ lpc' = ret /\ token' = TRUE
    BY DEF Unpark, TokenLeft, readiness, threadVars
  <1>2. TypeOK' /\ ret \in {"idle", "poll", "dropped"}
    BY <1>1 DEF IInv, TypeOK
  <1> QED
    BY <1>1, <1>2 DEF IInv, WaitingCovered, SchedulingCovers, LoadedIsCurrent,
       ThreadIsTold, WillPoll, Covers
(* The event loop's other steps: at none of them, or only while the answer *)
(* stands, is it about to wait.                                            *)
LEMMA TakeEventKeeps ==
    ASSUME IInv, TakeEvent
    PROVE  IInv'
  <1>1. /\ UNCHANGED <<now, pending, wakeup_state, token, ready, arg, curr, ret, tpc,
                       sleep_until>>
        /\ lpc = "idle" /\ queued' = FALSE
        /\ \/ ready /\ lpc' = "poll"
           \/ ~ready /\ lpc' = "idle"
    BY DEF TakeEvent, threadVars
  <1>2. TypeOK'
    BY <1>1 DEF IInv, TypeOK
  <1> QED
    BY <1>1, <1>2 DEF IInv, WaitingCovered, SchedulingCovers, LoadedIsCurrent,
       ThreadIsTold, WillPoll, Covers

LEMMA PollingKeeps ==
    ASSUME IInv, PollFire \/ ClosureDone \/ PollNone
    PROVE  IInv'
  <1>1. /\ UNCHANGED <<now, wakeup_state, token, ready, queued, arg, curr, ret, tpc,
                       sleep_until>>
        /\ pending' \subseteq pending
        /\ lpc \in {"poll", "closure"} /\ lpc' \in {"poll", "closure", "clear"}
    BY DEF PollFire, ClosureDone, PollNone, readiness, threadVars
  <1>2. TypeOK'
    BY <1>1 DEF IInv, TypeOK
  <1> QED
    BY <1>1, <1>2 DEF IInv, WaitingCovered, SchedulingCovers, LoadedIsCurrent, ThreadIsTold

LEMMA DropKeeps ==
    ASSUME IInv, Drop
    PROVE  IInv'
  <1>1. /\ UNCHANGED <<now, pending, token, ready, queued, arg, curr, tpc, sleep_until>>
        /\ wakeup_state' = 0 /\ lpc' = "unpark" /\ ret' = "dropped"
    BY DEF Drop, readiness, threadVars, TERMINATE_THREAD
  <1>2. 0 \in 0..MAX
    BY MaxTickAssumption DEF MAX
  <1>3. TypeOK'
    BY <1>1, <1>2 DEF IInv, TypeOK
  <1> QED
    BY <1>1, <1>3 DEF IInv, WaitingCovered, SchedulingCovers, LoadedIsCurrent, ThreadIsTold

-----------------------------------------------------------------------------
(* The thread.  It alone raises wakeup_state, and then it answers.         *)
LEMMA ThreadLoadKeeps ==
    ASSUME IInv, ThreadLoad
    PROVE  IInv'
  <1>1. /\ UNCHANGED <<now, pending, wakeup_state, token, ready, queued, lpc, arg, curr, ret>>
        /\ tpc = "load" /\ tpc' = "check" /\ sleep_until' = wakeup_state
    BY DEF ThreadLoad, readiness, loopVars
  <1>2. TypeOK'
    BY <1>1 DEF IInv, TypeOK
  <1>3. ~(wakeup_state < wakeup_state)
    BY Numbers DEF IInv
  <1> QED
    BY <1>1, <1>2, <1>3 DEF IInv, WaitingCovered, SchedulingCovers, LoadedIsCurrent,
       ThreadIsTold, WillPoll, Covers

LEMMA ThreadCheckKeeps ==
    ASSUME IInv, ThreadCheck
    PROVE  IInv'
  <1>1. /\ UNCHANGED <<now, pending, wakeup_state, token, ready, queued, lpc, arg, curr, ret,
                       sleep_until>>
        /\ tpc = "check" /\ tpc' \in {"done", "exchange", "park"}
    BY DEF ThreadCheck, readiness, loopVars
  <1>2. TypeOK'
    BY <1>1 DEF IInv, TypeOK
  <1> QED
    BY <1>1, <1>2 DEF IInv, WaitingCovered, SchedulingCovers, LoadedIsCurrent,
       ThreadIsTold, WillPoll, Covers

LEMMA ThreadWakesKeeps ==
    ASSUME IInv, ThreadWoken \/ ThreadSpurious
    PROVE  IInv'
  <1>1. /\ UNCHANGED <<now, pending, wakeup_state, ready, queued, lpc, arg, curr, ret,
                       sleep_until>>
        /\ tpc = "park" /\ tpc' = "load" /\ (token' = FALSE \/ token' = token)
    BY DEF ThreadWoken, ThreadSpurious, readiness, loopVars
  <1>2. TypeOK'
    BY <1>1 DEF IInv, TypeOK
  <1> QED
    BY <1>1, <1>2 DEF IInv, WaitingCovered, SchedulingCovers, LoadedIsCurrent,
       ThreadIsTold, WillPoll, Covers

LEMMA ThreadExchangeKeeps ==
    ASSUME IInv, ThreadExchange
    PROVE  IInv'
  <1>1. /\ UNCHANGED <<now, pending, token, ready, queued, lpc, arg, curr, ret>>
        /\ tpc = "exchange"
    BY DEF ThreadExchange, readiness, loopVars
  <1>2. CASE wakeup_state = sleep_until
    <2>1. wakeup_state' = MAX /\ tpc' = "set" /\ sleep_until' = sleep_until
      BY <1>2 DEF ThreadExchange, Taken
    <2>2. MAX \in 0..MAX /\ ~(MAX < MAX)
      BY MaxTickAssumption DEF MAX
    <2>3. TypeOK'
      BY <1>1, <2>1, <2>2 DEF IInv, TypeOK
    <2> QED
      BY <1>1, <2>1, <2>2, <2>3 DEF IInv, WaitingCovered, SchedulingCovers,
         LoadedIsCurrent, ThreadIsTold, WillPoll
  <1>3. CASE wakeup_state # sleep_until
    <2>1. wakeup_state' = wakeup_state /\ tpc' = "check" /\ sleep_until' = wakeup_state
      BY <1>3 DEF ThreadExchange, Taken
    <2>2. TypeOK'
      BY <1>1, <2>1 DEF IInv, TypeOK
    <2>3. ~(wakeup_state < wakeup_state)
      BY Numbers DEF IInv
    <2> QED
      BY <1>1, <2>1, <2>2, <2>3 DEF IInv, WaitingCovered, SchedulingCovers,
         LoadedIsCurrent, ThreadIsTold, WillPoll, Covers
  <1> QED
    BY <1>2, <1>3

LEMMA ThreadSetReadinessKeeps ==
    ASSUME IInv, ThreadSetReadiness
    PROVE  IInv'
  <1>1. /\ UNCHANGED <<now, pending, wakeup_state, token, lpc, arg, curr, ret>>
        /\ tpc = "set" /\ tpc' = "check" /\ sleep_until' = MAX
        /\ ready' = TRUE /\ queued' = TRUE
    BY DEF ThreadSetReadiness, loopVars
  <1>2. MAX \in 0..MAX
    BY MaxTickAssumption DEF MAX
  <1>3. TypeOK'
    BY <1>1, <1>2 DEF IInv, TypeOK
  <1> QED
    BY <1>1, <1>3 DEF IInv, WaitingCovered, SchedulingCovers, LoadedIsCurrent,
       ThreadIsTold, WillPoll

LEMMA NextKeepsIInv == IInv /\ [Next]_vars => IInv'
  <1> SUFFICES ASSUME IInv, [Next]_vars PROVE IInv'
    OBVIOUS
  <1>1. CASE UNCHANGED vars
    BY <1>1 DEF vars, readiness, loopVars, threadVars, IInv, TypeOK, WaitingCovered,
       SchedulingCovers, LoadedIsCurrent, ThreadIsTold, WillPoll, Covers
  <1>2. ASSUME NEW t \in Ticks, SetTimeout(t) \/ CancelTimeout(t) PROVE IInv'
    BY <1>2, SetTimeoutKeeps, CancelTimeoutKeeps
  <1>3. CASE TimePasses \/ Register \/ LoopStep \/ ClosureDone \/ Drop
    BY <1>3, TimePassesKeeps, RescheduleKeeps, LoadKeeps, StandsKeeps, ExchangeKeeps,
       UnparkKeeps, TakeEventKeeps, PollingKeeps, DropKeeps DEF LoopStep
  <1>4. CASE ThreadStep \/ ThreadSpurious
    BY <1>4, ThreadLoadKeeps, ThreadCheckKeeps, ThreadWakesKeeps, ThreadExchangeKeeps,
       ThreadSetReadinessKeeps DEF ThreadStep
  <1> QED
    BY <1>1, <1>2, <1>3, <1>4 DEF Next

LEMMA SpecImpliesIInv == Spec => []IInv
  BY InitEstablishesIInv, NextKeepsIInv, PTL DEF Spec

-----------------------------------------------------------------------------
(* wakeup_state and the threads' locals stay within the ticks.             *)
THEOREM TypeCorrect == Spec => []TypeOK
  BY SpecImpliesIInv, PTL DEF IInv

(* Whenever the event loop waits, the thread has been asked for the        *)
(* earliest pending timeout, or has answered, or is about to: no order of  *)
(* set_timeout, poll_to and the thread's answers loses a request.          *)
THEOREM RequestStandsHolds == Spec => []RequestStands
  <1>1. IInv => RequestStands
    BY DEF IInv, WaitingCovered, RequestStands, Covers
  <1> QED
    BY <1>1, SpecImpliesIInv, PTL

(* The thread is never parked past a request without a token that wakes it *)
(* or the event loop on its way to unpark it.                              *)
THEOREM SleeperIsToldHolds == Spec => []SleeperIsTold
  <1>1. IInv => SleeperIsTold
    BY DEF IInv, ThreadIsTold, SleeperIsTold
  <1> QED
    BY <1>1, SpecImpliesIInv, PTL
=============================================================================
