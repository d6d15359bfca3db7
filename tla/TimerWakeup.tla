---------------------------- MODULE TimerWakeup ----------------------------
(***************************************************************************)
(* The wakeup thread of src/timer.rs and the protocol by which the event   *)
(* loop's thread keeps it informed: schedule_readiness lowers the shared   *)
(* word wakeup_state and unparks, the thread sleeps until that tick and    *)
(* makes the timer's registration readable, poll_to makes it unreadable    *)
(* and schedules again.                                                    *)
(*                                                                         *)
(* Every access to wakeup_state, to the park token and to the readiness is *)
(* an action.  The wheel is abstracted to the set of pending ticks, of     *)
(* which a poll takes those that are due (TimerWheel has the lists); the   *)
(* registration to its readiness and to whether its node is queued.        *)
(***************************************************************************)
EXTENDS Naturals, FiniteSets, FiniteSetsExt

CONSTANT MaxTick        \* bound on the time, in ticks

ASSUME MaxTickAssumption == MaxTick \in Nat

Ticks == 0..MaxTick
MAX == MaxTick + 1      \* usize::MAX, which the clock never reaches
TERMINATE_THREAD == 0

VARIABLES
    now,            \* current_tick()
    pending,        \* ticks of the timeouts in the wheel
    wakeup_state,   \* the shared word
    token,          \* the wakeup thread's park token
    ready, queued,  \* readiness of the registration; its node is queued
    lpc,            \* control of the event loop's thread
    arg, curr, ret, \* its locals in schedule_readiness, and where to return
    tpc,            \* control of the wakeup thread
    sleep_until     \* its local sleep_until_tick

loopVars == <<lpc, arg, curr, ret>>
threadVars == <<tpc, sleep_until>>
readiness == <<ready, queued>>
vars == <<now, pending, wakeup_state, token, readiness, loopVars, threadVars>>

Init ==
    /\ now = 0 /\ pending = {}
    /\ wakeup_state = MAX /\ token = FALSE
    /\ ready = FALSE /\ queued = FALSE
    /\ lpc = "unregistered" /\ arg = MAX /\ curr = MAX /\ ret = "idle"
    /\ tpc = "unborn" /\ sleep_until = MAX

TimePasses ==
    /\ now < MaxTick
    /\ now' = now + 1
    /\ UNCHANGED <<pending, wakeup_state, token, readiness, loopVars, threadVars>>

(* Operators whose names start with Bad are mistakes that mutation runs    *)
(* substitute for the operator defined after them.                         *)

-----------------------------------------------------------------------------
(* schedule_readiness(t), called by the event loop's thread, which goes on *)
(* at r when it returns.                                                   *)
Schedule(t, r) == lpc' = "load" /\ arg' = t /\ ret' = r /\ UNCHANGED curr

(* next_tick(): there is always one, u64::MAX if nothing is pending.       *)
BadNextTick == IF pending = {} THEN MAX ELSE Max(pending)
NextTick == IF pending = {} THEN MAX ELSE Min(pending)

Load ==
    /\ lpc = "load"
    /\ curr' = wakeup_state
    /\ lpc' = "compare"
    /\ UNCHANGED <<now, pending, wakeup_state, token, readiness, arg, ret, threadVars>>

(* An earlier request stands.                                              *)
Stands ==
    /\ lpc = "compare" /\ curr <= arg
    /\ lpc' = ret
    /\ UNCHANGED <<now, pending, wakeup_state, token, readiness, arg, curr, ret, threadVars>>

(* The exchange fails if the thread has answered in between; then the      *)
(* value found is looked at again.                                         *)
Exchange ==
    /\ lpc = "compare" /\ curr > arg
    /\ \/ /\ wakeup_state = curr
          /\ wakeup_state' = arg
          /\ lpc' = "unpark"
          /\ UNCHANGED curr
       \/ /\ wakeup_state # curr
          /\ curr' = wakeup_state
          /\ lpc' = lpc
          /\ UNCHANGED wakeup_state
    /\ UNCHANGED <<now, pending, token, readiness, arg, ret, threadVars>>

(* unpark leaves a token, also for a thread that is not parked yet.        *)
TokenLeft == TRUE

Unpark ==
    /\ lpc = "unpark"
    /\ token' = (token \/ TokenLeft)
    /\ lpc' = ret
    /\ UNCHANGED <<now, pending, wakeup_state, readiness, arg, curr, ret, threadVars>>

-----------------------------------------------------------------------------
(* set_timeout and cancel_timeout, between two polls or from the closure   *)
(* of an expired timeout (which sets at most one: closures are finite).    *)
SetTimeout(t) ==
    /\ lpc \in {"unregistered", "idle", "closure"}
    /\ t >= now /\ t \notin pending
    /\ pending' = pending \cup {t}
    /\ IF lpc = "unregistered" THEN UNCHANGED loopVars 
       ELSE Schedule(t, IF lpc = "closure" THEN "poll" ELSE lpc)
    /\ UNCHANGED <<now, wakeup_state, token, readiness, threadVars>>

CancelTimeout(t) ==
    /\ lpc \in {"unregistered", "idle", "closure"}
    /\ t \in pending
    /\ pending' = pending \ {t}
    /\ UNCHANGED <<now, wakeup_state, token, readiness, loopVars, threadVars>>

(* Evented::register spawns the thread and schedules what is pending.      *)
Register ==
    /\ lpc = "unregistered"
    /\ tpc' = "load"
    /\ Schedule(NextTick, "idle")
    /\ UNCHANGED <<now, pending, wakeup_state, token, readiness, sleep_until>>

(* The event loop takes the node off the queue.  It polls the timer if the *)
(* registration is (still) readable.                                       *)
TakeEvent ==
    /\ lpc = "idle" /\ queued
    /\ queued' = FALSE
    /\ lpc' = IF ready THEN "poll" ELSE "idle"
    /\ UNCHANGED <<now, pending, wakeup_state, token, ready, arg, curr, ret, threadVars>>

(* poll returns the first timeout that is due, and its closure runs.       *)
PollFire ==
    /\ lpc = "poll"
    /\ NextTick <= now
    /\ pending' = pending \ {NextTick}
    /\ lpc' = "closure"
    /\ UNCHANGED <<now, wakeup_state, token, readiness, arg, curr, ret, threadVars>>

ClosureDone ==
    /\ lpc = "closure"
    /\ lpc' = "poll"
    /\ UNCHANGED <<now, pending, wakeup_state, token, readiness, arg, curr, ret, threadVars>>

PollNone ==
    /\ lpc = "poll"
    /\ NextTick > now
    /\ lpc' = "clear"
    /\ UNCHANGED <<now, pending, wakeup_state, token, readiness, arg, curr, ret, threadVars>>

(* poll_to: set_readiness(empty), then the next wakeup.  A node that is    *)
(* queued already stays queued.                                            *)
Clear ==
    /\ lpc = "clear"
    /\ ready' = FALSE
    /\ Schedule(NextTick, "idle")
    /\ UNCHANGED <<now, pending, wakeup_state, token, queued, threadVars>>

(* Drop for Inner: store, then unpark.                                     *)
Drop ==
    /\ lpc = "idle"
    /\ wakeup_state' = TERMINATE_THREAD
    /\ lpc' = "unpark" /\ ret' = "dropped"
    /\ UNCHANGED <<now, pending, token, readiness, arg, curr, threadVars>>

-----------------------------------------------------------------------------
(* The wakeup thread.                                                      *)
ThreadLoad ==
    /\ tpc = "load"
    /\ sleep_until' = wakeup_state
    /\ tpc' = "check"
    /\ UNCHANGED <<now, pending, wakeup_state, token, readiness, loopVars>>

BadThreadDue == now > sleep_until
ThreadDue == now >= sleep_until

ThreadCheck ==
    /\ tpc = "check"
    /\ tpc' = IF sleep_until = TERMINATE_THREAD THEN "done"
              ELSE IF ThreadDue THEN "exchange" ELSE "park"
    /\ UNCHANGED <<now, pending, wakeup_state, token, readiness, sleep_until, loopVars>>

(* park and park_timeout return for a token, which they consume, when the  *)
(* time is over, or for no reason.                                         *)
ThreadWoken ==
    /\ tpc = "park"
    /\ token \/ ThreadDue
    /\ token' = FALSE
    /\ tpc' = "load"
    /\ UNCHANGED <<now, pending, wakeup_state, readiness, sleep_until, loopVars>>

ThreadSpurious ==
    /\ tpc = "park"
    /\ ~token
    /\ tpc' = "load"
    /\ UNCHANGED <<now, pending, wakeup_state, token, readiness, sleep_until, loopVars>>

(* A due request is taken, unless a sooner one has replaced it.            *)
BadTaken == TRUE
Taken == wakeup_state = sleep_until

ThreadExchange ==
    /\ tpc = "exchange"
    /\ IF Taken
       THEN wakeup_state' = MAX /\ tpc' = "set" /\ UNCHANGED sleep_until
       ELSE sleep_until' = wakeup_state /\ tpc' = "check" /\ UNCHANGED wakeup_state
    /\ UNCHANGED <<now, pending, token, readiness, loopVars>>

(* set_readiness(readable): the node is queued if it was not.              *)
ThreadSetReadiness ==
    /\ tpc = "set"
    /\ ready' = TRUE /\ queued' = TRUE
    /\ sleep_until' = MAX
    /\ tpc' = "check"
    /\ UNCHANGED <<now, pending, wakeup_state, token, loopVars>>

-----------------------------------------------------------------------------
LoopStep == Load \/ Stands \/ Exchange \/ Unpark \/ TakeEvent \/ PollFire \/ PollNone \/ Clear
ThreadStep == ThreadLoad \/ ThreadCheck \/ ThreadWoken \/ ThreadExchange \/ ThreadSetReadiness

Next ==
    \/ TimePasses
    \/ \E t \in Ticks : SetTimeout(t) \/ CancelTimeout(t)
    \/ Register \/ LoopStep \/ ClosureDone \/ Drop
    \/ ThreadStep \/ ThreadSpurious

Spec == Init /\ [][Next]_vars

(* Both threads run, the loop's closures return, and time passes.  The     *)
(* event loop comes back to the queue after each event, so it is strongly  *)
(* fair to take the node whatever the other events' jobs set and cancel.   *)
(* Nobody has to set, cancel or drop anything, nor does park wake for no   *)
(* reason.                                                                 *)
FairSpec ==
    /\ Spec
    /\ WF_vars(LoopStep) /\ WF_vars(ClosureDone) /\ SF_vars(TakeEvent)
    /\ WF_vars(ThreadStep) /\ WF_vars(TimePasses)

-----------------------------------------------------------------------------
(* wakeup_state holds a tick, TERMINATE_THREAD or none, and both threads   *)
(* are at known places.                                                    *)
TypeOK ==
    /\ now \in Ticks /\ pending \subseteq Ticks
    /\ {wakeup_state, arg, curr, sleep_until} \subseteq 0..MAX
    /\ {token, ready, queued} \subseteq BOOLEAN
    /\ lpc \in {"unregistered", "idle", "load", "compare", "unpark", "poll", "closure",
                "clear", "dropped"}
    /\ ret \in {"idle", "poll", "dropped"}
    /\ tpc \in {"unborn", "load", "check", "park", "exchange", "set", "done"}

Terminated == wakeup_state = TERMINATE_THREAD
WillPoll == (ready /\ queued) \/ tpc = "set"

(* While the event loop waits, the earliest pending timeout has been asked *)
(* of the thread, or the thread has answered or is about to: the answer    *)
(* that poll_to wipes out with set_readiness(empty), and the one that      *)
(* arrives between the load and the exchange of schedule_readiness, are    *)
(* both made good.                                                         *)
RequestStands ==
    lpc = "idle" => WillPoll \/ \A t \in pending : wakeup_state <= t

(* A parked thread never oversleeps a request: when wakeup_state is sooner *)
(* than the tick it sleeps for, its token is there or about to be.  In     *)
(* particular Drop's request to terminate is seen.                         *)
SleeperIsTold ==
    tpc = "park" /\ wakeup_state < sleep_until => token \/ lpc = "unpark"

(* A timeout that is due is taken by a poll (or cancelled), unless the     *)
(* thread was terminated.  Dropping the timer terminates it, and so does a *)
(* timeout filed under tick 0, which schedule_readiness cannot tell from   *)
(* TERMINATE_THREAD.                                                       *)
DueIsPolled ==
    \A t \in Ticks :
        t \in pending /\ t <= now /\ lpc # "unregistered"
            ~> t \notin pending \/ Terminated

(* Once asked to, the thread ends: after Drop it does not stay behind.     *)
TerminatedEnds == Terminated /\ lpc # "unpark" ~> tpc = "done"
=============================================================================
