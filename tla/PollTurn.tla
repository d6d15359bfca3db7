------------------------------ MODULE PollTurn ------------------------------
(***************************************************************************)
(* Poll::poll1 (src/poll.rs): how the threads that share one Poll take     *)
(* turns.  Only the thread that owns bit 0 of lock_state runs poll2; the   *)
(* others park on the condition variable, each counted by 2 in lock_state. *)
(*                                                                         *)
(* Every access to lock_state, the mutex or the condition variable is one  *)
(* step; the interleaving is sequentially consistent.  What poll2 does is  *)
(* modelled in ReadinessQueue; here it is the time spent at pc "poll2".    *)
(***************************************************************************)
EXTENDS Naturals, FiniteSets

CONSTANTS Threads,      \* the threads that call poll
          NoThread      \* the owner of a free mutex

ASSUME ThreadsAssumption == IsFiniteSet(Threads) /\ NoThread \notin Threads

VARIABLES
    lock_state,     \* AtomicUsize: bit 0 = turn taken, rest = 2 * waiters
    lock,           \* owner of Mutex<()>, or NoThread
    pc,             \* where each thread is in poll1
    curr,           \* the local `curr`: last value seen of lock_state
    inc,            \* the local `inc`: this thread is counted as a waiter
    timeout         \* the local `timeout`: zero, some time left, or none

vars == <<lock_state, lock, pc, curr, inc, timeout>>

Timeouts == {"zero", "some", "none"}

(* "lock": blocked in lock.lock(); "loop": at the head of the loop;        *)
(* "wait": parked on the condvar; "relock": woken, mutex not yet regained; *)
(* "load": after the wait, before the load; "unlock": turn taken, guard    *)
(* not yet dropped; "leave": about to drop the guard and return.           *)
Locations == {"out", "lock", "loop", "wait", "relock", "load", "unlock",
              "poll2", "notify_lock", "notify", "leave"}

Free == lock_state % 2 = 0
HasTurn(t) == pc[t] \in {"unlock", "poll2"}
Waiters == {t \in Threads : inc[t]}
Parked == {t \in Threads : pc[t] = "wait"}

Init ==
    /\ lock_state = 0
    /\ lock = NoThread
    /\ pc = [t \in Threads |-> "out"]
    /\ curr = [t \in Threads |-> 0]
    /\ inc = [t \in Threads |-> FALSE]
    /\ timeout = [t \in Threads |-> "none"]

Goto(t, l) == pc' = [pc EXCEPT ![t] = l]

-----------------------------------------------------------------------------
(* What the accesses to lock_state compute.  The operators whose names     *)
(* start with Bad are mistakes that mutation runs substitute.              *)

(* compare_exchange(curr, ...) succeeds iff nothing moved since curr was   *)
(* read.                                                                   *)
BadUnchecked(t) == TRUE
ExchangeSucceeds(t) == lock_state = curr[t]

(* next: the turn bit is set, and a counted waiter takes back its 2.       *)
BadCountKept(c, counted) == c + 1
StateTaken(c, counted) == IF counted THEN (c + 1) - 2 ELSE c + 1

(* fetch_sub(2) of a waiter that gives up, if it was counted.              *)
StateGivenUp(s, counted) == IF counted THEN s - 2 ELSE s

(* The value a woken waiter goes on with.                                  *)
BadStale(t) == curr[t]
Reloaded(t) == lock_state

(* `1 != fetch_and(!1)`: somebody is counted.                              *)
BadNotificationDue(old) == old > 3
NotificationDue(old) == old # 1

-----------------------------------------------------------------------------

(* poll(events, to): the fast path is one compare_exchange(0, 1).          *)
Poll(t, to) ==
    /\ pc[t] = "out"
    /\ timeout' = [timeout EXCEPT ![t] = to]
    /\ curr' = [curr EXCEPT ![t] = lock_state]
    /\ \/ lock_state = 0 /\ lock_state' = 1 /\ Goto(t, "poll2")
       \/ lock_state # 0 /\ UNCHANGED lock_state /\ Goto(t, "lock")
    /\ UNCHANGED <<lock, inc>>

Acquire(t, from, to) ==
    /\ pc[t] = from
    /\ lock = NoThread
    /\ lock' = t
    /\ Goto(t, to)

LockMutex(t) ==
    /\ Acquire(t, "lock", "loop")
    /\ UNCHANGED <<lock_state, curr, inc, timeout>>

(* curr is even: compare_exchange(curr, curr | 1 [- 2]); on failure the    *)
(* loop restarts with the value found.                                     *)
TryTake(t) ==
    /\ pc[t] = "loop"
    /\ curr[t] % 2 = 0
    /\ \/ /\ ExchangeSucceeds(t)
          /\ lock_state' = StateTaken(curr[t], inc[t])
          /\ inc' = [inc EXCEPT ![t] = FALSE]
          /\ Goto(t, "unlock")
          /\ UNCHANGED curr
       \/ /\ ~ExchangeSucceeds(t)
          /\ curr' = [curr EXCEPT ![t] = lock_state]
          /\ UNCHANGED <<lock_state, inc, pc>>
    /\ UNCHANGED <<lock, timeout>>

(* The turn is taken and no time is left: fetch_sub(2) if counted, Ok(0).  *)
GiveUp(t) ==
    /\ pc[t] = "loop"
    /\ curr[t] % 2 = 1
    /\ timeout[t] = "zero"
    /\ lock_state' = StateGivenUp(lock_state, inc[t])
    /\ inc' = [inc EXCEPT ![t] = FALSE]
    /\ Goto(t, "leave")
    /\ UNCHANGED <<lock, curr, timeout>>

(* compare_exchange(curr, curr + 2), once per call of poll1.               *)
CountMe(t) ==
    /\ pc[t] = "loop"
    /\ curr[t] % 2 = 1
    /\ timeout[t] # "zero"
    /\ ~inc[t]
    /\ \/ /\ ExchangeSucceeds(t)
          /\ lock_state' = curr[t] + 2
          /\ inc' = [inc EXCEPT ![t] = TRUE]
          /\ UNCHANGED curr
       \/ /\ ~ExchangeSucceeds(t)
          /\ curr' = [curr EXCEPT ![t] = lock_state]
          /\ UNCHANGED <<lock_state, inc>>
    /\ UNCHANGED <<lock, pc, timeout>>

(* condvar.wait / wait_timeout: releases the mutex and parks, atomically.  *)
Wait(t) ==
    /\ pc[t] = "loop"
    /\ curr[t] % 2 = 1
    /\ timeout[t] # "zero"
    /\ inc[t]
    /\ lock' = NoThread
    /\ Goto(t, "wait")
    /\ UNCHANGED <<lock_state, curr, inc, timeout>>

(* A wait may end without a notification: time out, or spuriously.         *)
Wake(t) ==
    /\ pc[t] = "wait"
    /\ Goto(t, "relock")
    /\ UNCHANGED <<lock_state, lock, curr, inc, timeout>>

(* The wait returns holding the mutex; `elapsed >= to` sets timeout = zero,*)
(* whether the thread was notified or not.                                 *)
Relock(t) ==
    /\ Acquire(t, "relock", "load")
    /\ \/ UNCHANGED timeout
       \/ timeout[t] = "some" /\ timeout' = [timeout EXCEPT ![t] = "zero"]
    /\ UNCHANGED <<lock_state, curr, inc>>

Load(t) ==
    /\ pc[t] = "load"
    /\ curr' = [curr EXCEPT ![t] = Reloaded(t)]
    /\ Goto(t, "loop")
    /\ UNCHANGED <<lock_state, lock, inc, timeout>>

(* The guard is dropped: at the end of `if 0 != curr`, or on return.       *)
Unlock(t) ==
    /\ \/ pc[t] = "unlock" /\ Goto(t, "poll2")
       \/ pc[t] = "leave" /\ Goto(t, "out")
    /\ lock' = NoThread
    /\ UNCHANGED <<lock_state, curr, inc, timeout>>

(* poll2 has returned, Ok or Err: fetch_and(!1), and a notification is due *)
(* unless the old value was exactly 1.                                     *)
Release(t) ==
    /\ pc[t] = "poll2"
    /\ lock_state' = lock_state - (lock_state % 2)
    /\ Goto(t, IF NotificationDue(lock_state) THEN "notify_lock" ELSE "out")
    /\ UNCHANGED <<lock, curr, inc, timeout>>

NotifyLock(t) ==
    /\ Acquire(t, "notify_lock", "notify")
    /\ UNCHANGED <<lock_state, curr, inc, timeout>>

(* condvar.notify_one(): some parked thread, if there is one, is woken.    *)
NotifyOne(t) ==
    /\ pc[t] = "notify"
    /\ \/ /\ Parked = {}
          /\ Goto(t, "leave")
       \/ \E w \in Parked :
             pc' = [pc EXCEPT ![t] = "leave", ![w] = "relock"]
    /\ UNCHANGED <<lock_state, lock, curr, inc, timeout>>

(* The steps a running thread takes by itself.                             *)
Run(t) ==
    \/ LockMutex(t) \/ TryTake(t) \/ GiveUp(t) \/ CountMe(t) \/ Wait(t)
    \/ Relock(t) \/ Load(t) \/ Unlock(t) \/ NotifyLock(t) \/ NotifyOne(t)

Next ==
    \E t \in Threads :
        \/ \E to \in Timeouts : Poll(t, to)
        \/ Run(t)
        \/ Wake(t)
        \/ Release(t)

(* The scheduler runs every runnable thread, and lock() and the return     *)
(* from a wait succeed eventually while the mutex stays free.  Nothing is  *)
(* assumed of callers (Poll), of the length of poll2 (Release) or of time  *)
(* outs (Wake).                                                            *)
Fairness == \A t \in Threads : WF_vars(Run(t))

Spec == Init /\ [][Next]_vars
FairSpec == Spec /\ Fairness

-----------------------------------------------------------------------------
(* lock_state stays a natural number (it never wraps below zero) and the   *)
(* locals of poll1 keep their types.                                       *)
TypeOK ==
    /\ lock_state \in Nat
    /\ lock \in Threads \cup {NoThread}
    /\ pc \in [Threads -> Locations]
    /\ curr \in [Threads -> Nat]
    /\ inc \in [Threads -> BOOLEAN]
    /\ timeout \in [Threads -> Timeouts]

(* At most one thread is inside poll2, so the readiness queue has a single *)
(* consumer and the selector's event buffer a single writer (src/poll.rs,  *)
(* poll1).                                                                 *)
MutualExclusion ==
    \A t, u \in Threads : HasTurn(t) /\ HasTurn(u) => t = u

(* lock_state says exactly who is where: bit 0 is set iff a thread has the *)
(* turn and the other bits count the threads whose `inc` is set, whatever  *)
(* mix of failed exchanges, time outs and barging led there.  In           *)
(* particular fetch_sub(2) never wraps.                                    *)
CountExact ==
    lock_state = 2 * Cardinality(Waiters)
                    + (IF \E t \in Threads : HasTurn(t) THEN 1 ELSE 0)

(* A thread that will look at lock_state again, or will wake one that does,*)
(* before it parks.                                                        *)
WillRetry(t) ==
    \/ pc[t] \in {"notify_lock", "notify", "relock", "load"}
    \/ pc[t] = "loop" /\ curr[t] % 2 = 0

(* No lost notification: when the turn is free and threads are counted as  *)
(* waiting, some thread is on its way to take it or to notify.  A waiter   *)
(* that times out, or is notified when its time has just run out, must not *)
(* swallow the only notification.                                          *)
NoLostNotification ==
    Free /\ Waiters # {} => \E t \in Threads : WillRetry(t)

(* A free turn does not stay free while threads wait for it: someone takes *)
(* it or every waiter has given up.                                        *)
TurnIsTaken == (Free /\ Waiters # {}) ~> (~Free \/ Waiters = {})

=============================================================================
