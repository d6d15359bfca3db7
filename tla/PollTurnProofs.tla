--------------------------- MODULE PollTurnProofs ---------------------------
(***************************************************************************)
(* Proofs about PollTurn for any finite set of threads.                    *)
(*                                                                         *)
(* The inductive invariant adds to the properties what a thread's location *)
(* says of the mutex and of its `inc`: the mutex is owned exactly by the   *)
(* thread between lock() and the drop of its guard, and only threads       *)
(* inside the loop of poll1 are counted.                                   *)
(***************************************************************************)
EXTENDS PollTurn, FiniteSetTheorems, TLAPS

(* The locations at which a thread owns the mutex, and those at which it   *)
(* may be counted.                                                         *)
Guarded == {"loop", "load", "unlock", "notify", "leave"}
Countable == {"loop", "wait", "relock", "load"}

MutexOwner == \A t \in Threads : lock = t <=> pc[t] \in Guarded

CountedInside ==
    \A t \in Threads : /\ inc[t] => pc[t] \in Countable
                       /\ pc[t] \in {"wait", "relock", "load"} => inc[t]

(* Bit 0 of lock_state, separately from the count.                         *)
TurnBit == lock_state % 2 = 1 <=> \E t \in Threads : HasTurn(t)

IInv == /\ TypeOK
        /\ MutexOwner
        /\ CountedInside
        /\ MutualExclusion
        /\ CountExact
        /\ NoLostNotification

(* The number of counted threads.                                          *)
LEMMA WaitersFinite ==
    TypeOK => IsFiniteSet(Waiters) /\ Cardinality(Waiters) \in Nat
  <1>1. Waiters \subseteq Threads
    BY DEF Waiters
  <1>2. IsFiniteSet(Waiters)
    BY <1>1, ThreadsAssumption, FS_Subset
  <1> QED
    BY <1>2, FS_CardinalityType

(* Bit 0 of lock_state is the turn, because the rest of it is even.        *)
LEMMA TurnBitExact == TypeOK /\ CountExact => TurnBit
  <1> SUFFICES ASSUME TypeOK, CountExact PROVE TurnBit
    OBVIOUS
  <1> DEFINE n == Cardinality(Waiters)
  <1>1. n \in Nat
    BY WaitersFinite
  <1>2. CASE \E t \in Threads : HasTurn(t)
    <2>1. lock_state = 2 * n + 1
      BY <1>2 DEF CountExact
    <2> HIDE DEF n
    <2>2. lock_state % 2 = 1
      BY <1>1, <2>1
    <2> QED
      BY <1>2, <2>2 DEF TurnBit
  <1>3. CASE ~\E t \in Threads : HasTurn(t)
    <2>1. lock_state = 2 * n + 0
      BY <1>3 DEF CountExact
    <2> HIDE DEF n
    <2>2. lock_state % 2 = 0
      BY <1>1, <2>1
    <2> QED
      BY <1>3, <2>2 DEF TurnBit
  <1> QED
    BY <1>2, <1>3

(* Raising one thread's inc adds one waiter, clearing it removes one.      *)
LEMMA WaiterAdded ==
    ASSUME TypeOK, NEW t \in Threads, ~inc[t],
           inc' = [inc EXCEPT ![t] = TRUE]
    PROVE  Cardinality(Waiters') = Cardinality(Waiters) + 1
  <1>1. Waiters' = Waiters \cup {t}
    BY DEF Waiters, TypeOK
  <1>2. t \notin Waiters
    BY DEF Waiters
  <1> QED
    BY <1>1, <1>2, WaitersFinite, FS_AddElement

LEMMA WaiterRemoved ==
    ASSUME TypeOK, NEW t \in Threads, inc[t],
           inc' = [inc EXCEPT ![t] = FALSE]
    PROVE  Cardinality(Waiters') = Cardinality(Waiters) - 1
  <1>1. Waiters' = Waiters \ {t}
    BY DEF Waiters, TypeOK
  <1>2. t \in Waiters
    BY DEF Waiters
  <1> QED
    BY <1>1, <1>2, WaitersFinite, FS_RemoveElement

-----------------------------------------------------------------------------
LEMMA InitEstablishesIInv == Init => IInv
  <1> SUFFICES ASSUME Init PROVE IInv
    OBVIOUS
  <1>1. TypeOK
    BY DEF Init, TypeOK, Locations, Timeouts
  <1>2. MutexOwner /\ CountedInside /\ MutualExclusion
    BY ThreadsAssumption
    DEF Init, MutexOwner, CountedInside, MutualExclusion, HasTurn, Guarded
  <1>3. Waiters = {} /\ ~\E t \in Threads : HasTurn(t)
    BY DEF Init, Waiters, HasTurn
  <1>4. Cardinality(Waiters) = 0
    BY <1>3, FS_EmptySet
  <1>5. CountExact
    BY <1>3, <1>4 DEF Init, CountExact
  <1> QED
    BY <1>1, <1>2, <1>3, <1>5 DEF IInv, NoLostNotification

(* The steps that change neither lock_state, nor any inc, nor who has the  *)
(* turn leave the count exact.                                             *)
LEMMA CountKept ==
    ASSUME CountExact, UNCHANGED <<lock_state, inc>>,
           \A u \in Threads : HasTurn(u)' <=> HasTurn(u)
    PROVE  CountExact'
  <1>1. Waiters' = Waiters
    BY DEF Waiters
  <1>2. (\E u \in Threads : HasTurn(u))' <=> \E u \in Threads : HasTurn(u)
    OBVIOUS
  <1> QED
    BY <1>1, <1>2 DEF CountExact

LEMMA LockMutexKeeps ==
    ASSUME IInv, NEW t \in Threads, LockMutex(t)
    PROVE  IInv'
  <1> USE DEF IInv
  <1>1. TypeOK'
    BY DEF LockMutex, Acquire, TypeOK, Goto, Locations, Timeouts
  <1>2. MutexOwner' /\ CountedInside'
    BY ThreadsAssumption
    DEF LockMutex, Acquire, TypeOK, MutexOwner, CountedInside, Goto, Guarded, Countable
  <1>3. \A u \in Threads : HasTurn(u)' <=> HasTurn(u)
    BY DEF LockMutex, Acquire, TypeOK, Goto, HasTurn
  <1>4. MutualExclusion' /\ CountExact'
    BY <1>3, CountKept DEF LockMutex, Acquire, MutualExclusion
  <1>5. NoLostNotification'
    BY DEF LockMutex, Acquire, TypeOK, Goto, NoLostNotification, WillRetry,
           Waiters, Free
  <1> QED
    BY <1>1, <1>2, <1>4, <1>5

LEMMA RelockKeeps ==
    ASSUME IInv, NEW t \in Threads, Relock(t)
    PROVE  IInv'
  <1> USE DEF IInv
  <1>1. TypeOK'
    BY DEF Relock, Acquire, TypeOK, Goto, Locations, Timeouts
  <1>2. MutexOwner' /\ CountedInside'
    BY ThreadsAssumption
    DEF Relock, Acquire, TypeOK, MutexOwner, CountedInside, Goto, Guarded, Countable
  <1>3. \A u \in Threads : HasTurn(u)' <=> HasTurn(u)
    BY DEF Relock, Acquire, TypeOK, Goto, HasTurn
  <1>4. MutualExclusion' /\ CountExact'
    BY <1>3, CountKept DEF Relock, Acquire, MutualExclusion
  <1>5. NoLostNotification'
    BY DEF Relock, Acquire, TypeOK, Goto, NoLostNotification, WillRetry,
           Waiters, Free
  <1> QED
    BY <1>1, <1>2, <1>4, <1>5

LEMMA NotifyLockKeeps ==
    ASSUME IInv, NEW t \in Threads, NotifyLock(t)
    PROVE  IInv'
  <1> USE DEF IInv
  <1>1. TypeOK'
    BY DEF NotifyLock, Acquire, TypeOK, Goto, Locations, Timeouts
  <1>2. MutexOwner' /\ CountedInside'
    BY ThreadsAssumption
    DEF NotifyLock, Acquire, TypeOK, MutexOwner, CountedInside, Goto, Guarded, Countable
  <1>3. \A u \in Threads : HasTurn(u)' <=> HasTurn(u)
    BY DEF NotifyLock, Acquire, TypeOK, Goto, HasTurn
  <1>4. MutualExclusion' /\ CountExact'
    BY <1>3, CountKept DEF NotifyLock, Acquire, MutualExclusion
  <1>5. NoLostNotification'
    BY DEF NotifyLock, Acquire, TypeOK, Goto, NoLostNotification, WillRetry,
           Waiters, Free
  <1> QED
    BY <1>1, <1>2, <1>4, <1>5

LEMMA UnlockKeeps ==
    ASSUME IInv, NEW t \in Threads, Unlock(t)
    PROVE  IInv'
  <1> USE DEF IInv
  <1>1. TypeOK'
    BY DEF Unlock, TypeOK, Goto, Locations, Timeouts
  <1>2. MutexOwner' /\ CountedInside'
    BY ThreadsAssumption
    DEF Unlock, TypeOK, MutexOwner, CountedInside, Goto, Guarded, Countable
  <1>3. \A u \in Threads : HasTurn(u)' <=> HasTurn(u)
    BY DEF Unlock, TypeOK, Goto, HasTurn
  <1>4. MutualExclusion' /\ CountExact'
    BY <1>3, CountKept DEF Unlock, MutualExclusion
  <1>5. NoLostNotification'
    BY DEF Unlock, TypeOK, Goto, NoLostNotification, WillRetry,
           Waiters, Free
  <1> QED
    BY <1>1, <1>2, <1>4, <1>5

LEMMA WakeKeeps ==
    ASSUME IInv, NEW t \in Threads, Wake(t)
    PROVE  IInv'
  <1> USE DEF IInv
  <1>1. TypeOK'
    BY DEF Wake, TypeOK, Goto, Locations, Timeouts
  <1>2. MutexOwner' /\ CountedInside'
    BY ThreadsAssumption
    DEF Wake, TypeOK, MutexOwner, CountedInside, Goto, Guarded, Countable
  <1>3. \A u \in Threads : HasTurn(u)' <=> HasTurn(u)
    BY DEF Wake, TypeOK, Goto, HasTurn
  <1>4. MutualExclusion' /\ CountExact'
    BY <1>3, CountKept DEF Wake, MutualExclusion
  <1>5. NoLostNotification'
    BY DEF Wake, TypeOK, Goto, NoLostNotification, WillRetry,
           Waiters, Free
  <1> QED
    BY <1>1, <1>2, <1>4, <1>5

LEMMA LoadKeeps ==
    ASSUME IInv, NEW t \in Threads, Load(t)
    PROVE  IInv'
  <1> USE DEF IInv
  <1>1. TypeOK'
    BY DEF Load, Reloaded, TypeOK, Goto, Locations, Timeouts
  <1>2. MutexOwner' /\ CountedInside'
    BY ThreadsAssumption
    DEF Load, Reloaded, TypeOK, MutexOwner, CountedInside, Goto, Guarded, Countable
  <1>3. \A u \in Threads : HasTurn(u)' <=> HasTurn(u)
    BY DEF Load, Reloaded, TypeOK, Goto, HasTurn
  <1>4. MutualExclusion' /\ CountExact'
    BY <1>3, CountKept DEF Load, Reloaded, MutualExclusion
  <1>5. NoLostNotification'
    BY DEF Load, Reloaded, TypeOK, Goto, NoLostNotification, WillRetry,
           Waiters, Free
  <1> QED
    BY <1>1, <1>2, <1>4, <1>5

LEMMA WaitKeeps ==
    ASSUME IInv, NEW t \in Threads, Wait(t)
    PROVE  IInv'
  <1> USE DEF IInv
  <1>1. TypeOK'
    BY DEF Wait, TypeOK, Goto, Locations, Timeouts
  <1>2. MutexOwner' /\ CountedInside'
    BY ThreadsAssumption
    DEF Wait, TypeOK, MutexOwner, CountedInside, Goto, Guarded, Countable
  <1>3. \A u \in Threads : HasTurn(u)' <=> HasTurn(u)
    BY DEF Wait, TypeOK, Goto, HasTurn
  <1>4. MutualExclusion' /\ CountExact'
    BY <1>3, CountKept DEF Wait, MutualExclusion
  <1>5. NoLostNotification'
    BY DEF Wait, TypeOK, Goto, NoLostNotification, WillRetry,
           Waiters, Free
  <1> QED
    BY <1>1, <1>2, <1>4, <1>5

LEMMA NotifyOneKeeps ==
    ASSUME IInv, NEW t \in Threads, NotifyOne(t)
    PROVE  IInv'
  <1> USE DEF IInv
  <1>1. TypeOK'
    BY DEF NotifyOne, Parked, TypeOK, Goto, Locations, Timeouts
  <1>2. MutexOwner' /\ CountedInside'
    BY ThreadsAssumption
    DEF NotifyOne, Parked, TypeOK, MutexOwner, CountedInside, Goto, Guarded, Countable
  <1>3. \A u \in Threads : HasTurn(u)' <=> HasTurn(u)
    BY DEF NotifyOne, Parked, TypeOK, Goto, HasTurn
  <1>4. MutualExclusion' /\ CountExact'
    BY <1>3, CountKept DEF NotifyOne, Parked, MutualExclusion
  <1>5. NoLostNotification'
    BY DEF NotifyOne, Parked, TypeOK, Goto, NoLostNotification, WillRetry,
           Waiters, Free,
           MutexOwner, CountedInside, Guarded, Countable
  <1> QED
    BY <1>1, <1>2, <1>4, <1>5

(* The steps that move lock_state: the count and bit 0 follow.             *)
LEMMA PollKeeps ==
    ASSUME IInv, NEW t \in Threads, NEW to \in Timeouts, Poll(t, to)
    PROVE  IInv'
  <1> USE DEF IInv
  <1>1. TypeOK'
    BY DEF Poll, TypeOK, Goto, Locations
  <1>2. MutexOwner' /\ CountedInside'
    BY DEF Poll, TypeOK, MutexOwner, CountedInside, Goto, Guarded, Countable
  <1>3. TurnBit
    BY TurnBitExact
  <1>4. CASE lock_state = 0
    <2>1. \A u \in Threads : ~HasTurn(u)
      BY <1>3, <1>4 DEF TurnBit
    <2>2. \A u \in Threads : HasTurn(u)' <=> u = t
      BY <1>4, <2>1 DEF Poll, TypeOK, Goto, HasTurn
    <2>3. Waiters' = Waiters /\ lock_state' = 1
      BY <1>4 DEF Poll, Waiters
    <2>4. Cardinality(Waiters) = 0
      BY <1>4, <2>1, WaitersFinite DEF CountExact
    <2>5. MutualExclusion' /\ CountExact'
      BY <2>2, <2>3, <2>4 DEF MutualExclusion, CountExact
    <2>6. NoLostNotification'
      BY <2>3 DEF NoLostNotification, Free
    <2> QED
      BY <1>1, <1>2, <2>5, <2>6
  <1>5. CASE lock_state # 0
    <2>1. \A u \in Threads : HasTurn(u)' <=> HasTurn(u)
      BY <1>5 DEF Poll, TypeOK, Goto, HasTurn
    <2>2. MutualExclusion' /\ CountExact'
      BY <1>5, <2>1, CountKept DEF Poll, MutualExclusion
    <2>3. NoLostNotification'
      BY <1>5 DEF Poll, TypeOK, Goto, NoLostNotification, WillRetry, Waiters,
                  Free
    <2> QED
      BY <1>1, <1>2, <2>2, <2>3
  <1> QED
    BY <1>4, <1>5

LEMMA TryTakeKeeps ==
    ASSUME IInv, NEW t \in Threads, TryTake(t)
    PROVE  IInv'
  <1> USE DEF IInv
  <1>1. TurnBit
    BY TurnBitExact
  <1>2. CASE ExchangeSucceeds(t)
    <2> DEFINE n == Cardinality(Waiters)
    <2>1. lock_state % 2 = 0 /\ \A u \in Threads : ~HasTurn(u)
      BY <1>1, <1>2 DEF TryTake, ExchangeSucceeds, TurnBit
    <2>2. lock_state = 2 * n /\ n \in Nat
      BY <2>1, WaitersFinite DEF CountExact
    <2>3. /\ lock_state' = IF inc[t] THEN lock_state - 1 ELSE lock_state + 1
          /\ inc' = [inc EXCEPT ![t] = FALSE]
          /\ pc' = [pc EXCEPT ![t] = "unlock"]
          /\ UNCHANGED <<lock, curr, timeout>>
      BY <1>2, <2>2 DEF TryTake, ExchangeSucceeds, StateTaken, Goto, TypeOK
    <2>4. Cardinality(Waiters') = IF inc[t] THEN n - 1 ELSE n
      <3>1. CASE inc[t]
        BY <2>3, <3>1, WaiterRemoved
      <3>2. CASE ~inc[t]
        <4>1. Waiters' = Waiters
          BY <2>3, <3>2 DEF Waiters, TypeOK
        <4> QED
          BY <3>2, <4>1
      <3> QED
        BY <3>1, <3>2
    <2>5. inc[t] => n >= 1
      <3> SUFFICES ASSUME inc[t] PROVE n # 0
        BY <2>2
      <3>1. t \in Waiters
        BY DEF Waiters
      <3> QED
        BY <3>1, WaitersFinite, FS_EmptySet
    <2>6. \A u \in Threads : HasTurn(u)' <=> u = t
      BY <2>1, <2>3 DEF TypeOK, HasTurn
    <2>7. TypeOK'
      <3>1. lock_state' \in Nat
        <4> HIDE DEF n
        <4> QED
          BY <2>2, <2>3, <2>5
      <3> QED
        BY <2>3, <3>1 DEF TypeOK, Locations
    <2>8. MutexOwner' /\ CountedInside'
      BY <2>3 DEF TypeOK, MutexOwner, CountedInside, Guarded, Countable, TryTake
    <2>9. lock_state' = 2 * Cardinality(Waiters') + 1
      <3> HIDE DEF n
      <3> QED
        BY <2>2, <2>3, <2>4
    <2>10. MutualExclusion' /\ CountExact'
      BY <2>6, <2>9 DEF MutualExclusion, CountExact
    <2>11. lock_state' % 2 = 1
      <3>1. TurnBit'
        BY <2>7, <2>10, TurnBitExact, PTL
      <3> QED
        BY <2>6, <3>1 DEF TurnBit
    <2>12. NoLostNotification'
      BY <2>11 DEF NoLostNotification, Free
    <2> QED
      BY <2>7, <2>8, <2>10, <2>12
  <1>3. CASE ~ExchangeSucceeds(t)
    <2>1. /\ curr' = [curr EXCEPT ![t] = lock_state]
          /\ UNCHANGED <<lock_state, lock, pc, inc, timeout>>
      BY <1>3 DEF TryTake
    <2>2. TypeOK'
      BY <2>1 DEF TypeOK
    <2>3. MutexOwner' /\ CountedInside' /\ MutualExclusion'
      BY <2>1 DEF MutexOwner, CountedInside, MutualExclusion, HasTurn
    <2>4. CountExact'
      BY <2>1, CountKept DEF HasTurn
    <2>5. NoLostNotification'
      BY <2>1 DEF TypeOK, NoLostNotification, WillRetry, Waiters, Free
    <2> QED
      BY <2>2, <2>3, <2>4, <2>5
  <1> QED
    BY <1>2, <1>3

LEMMA GiveUpKeeps ==
    ASSUME IInv, NEW t \in Threads, GiveUp(t)
    PROVE  IInv'
  <1> USE DEF IInv
  <1> DEFINE n == Cardinality(Waiters)
             b == IF \E u \in Threads : HasTurn(u) THEN 1 ELSE 0
  <1>1. n \in Nat /\ b \in {0, 1} /\ lock_state = 2 * n + b
    BY WaitersFinite DEF CountExact
  <1>2. \A u \in Threads : HasTurn(u)' <=> HasTurn(u)
    BY DEF GiveUp, Goto, TypeOK, HasTurn
  <1>3. b' = b
    BY <1>2
  <1>4. /\ lock_state' = IF inc[t] THEN lock_state - 2 ELSE lock_state
        /\ Cardinality(Waiters') = IF inc[t] THEN n - 1 ELSE n
        /\ inc[t] => n >= 1
    <2>1. CASE inc[t]
      <3>1. t \in Waiters
        BY <2>1 DEF Waiters
      <3>2. n # 0
        BY <3>1, WaitersFinite, FS_EmptySet
      <3>3. Cardinality(Waiters') = n - 1
        BY <2>1, WaiterRemoved DEF GiveUp
      <3> QED
        BY <1>1, <2>1, <3>2, <3>3 DEF GiveUp, StateGivenUp
    <2>2. CASE ~inc[t]
      <3>1. Waiters' = Waiters
        BY <2>2 DEF Waiters, GiveUp, TypeOK
      <3> QED
        BY <2>2, <3>1 DEF GiveUp, StateGivenUp
    <2> QED
      BY <2>1, <2>2
  <1>5. lock_state' \in Nat /\ lock_state' = 2 * Cardinality(Waiters') + b
    <2> HIDE DEF n, b
    <2> QED
      BY <1>1, <1>4
  <1>6. TypeOK'
    BY <1>5 DEF GiveUp, TypeOK, Goto, Locations
  <1>7. MutexOwner' /\ CountedInside'
    BY DEF GiveUp, TypeOK, MutexOwner, CountedInside, Goto, Guarded, Countable
  <1>8. MutualExclusion' /\ CountExact'
    BY <1>2, <1>3, <1>5 DEF MutualExclusion, CountExact
  <1>9. NoLostNotification'
    <2> SUFFICES ASSUME Free', Waiters' # {}
                 PROVE  \E u \in Threads : WillRetry(u)'
      BY DEF NoLostNotification
    <2>1. Free
      <3> HIDE DEF n, b
      <3> QED
        BY <1>1, <1>4 DEF Free
    <2>2. Waiters # {}
      BY DEF Waiters, GiveUp, TypeOK
    <2>3. PICK u \in Threads : WillRetry(u)
      BY <2>1, <2>2 DEF NoLostNotification
    <2>4. u # t
      BY <2>3 DEF WillRetry, GiveUp, TypeOK
    <2>5. WillRetry(u)'
      BY <2>3, <2>4 DEF WillRetry, GiveUp, Goto, TypeOK
    <2> QED
      BY <2>5
  <1> QED
    BY <1>6, <1>7, <1>8, <1>9

LEMMA CountMeKeeps ==
    ASSUME IInv, NEW t \in Threads, CountMe(t)
    PROVE  IInv'
  <1> USE DEF IInv
  <1>1. TypeOK'
    <2>1. CASE ExchangeSucceeds(t)
      <3>1. /\ lock_state' = curr[t] + 2
            /\ inc' = [inc EXCEPT ![t] = TRUE]
            /\ UNCHANGED <<lock, pc, curr, timeout>>
        BY <2>1 DEF CountMe
      <3>2. lock_state' \in Nat /\ inc' \in [Threads -> BOOLEAN]
        BY <3>1 DEF TypeOK
      <3> QED
        BY <3>1, <3>2 DEF TypeOK
    <2>2. CASE ~ExchangeSucceeds(t)
      <3>1. /\ curr' = [curr EXCEPT ![t] = lock_state]
            /\ UNCHANGED <<lock_state, lock, pc, inc, timeout>>
        BY <2>2 DEF CountMe
      <3> QED
        BY <3>1 DEF TypeOK
    <2> QED
      BY <2>1, <2>2
  <1>2. MutexOwner' /\ CountedInside' /\ MutualExclusion'
    BY DEF CountMe, TypeOK, MutexOwner, CountedInside, MutualExclusion, HasTurn,
           Guarded, Countable
  <1>3. (\E u \in Threads : HasTurn(u))' <=> \E u \in Threads : HasTurn(u)
    BY DEF CountMe, HasTurn
  <1>4. CASE ExchangeSucceeds(t)
    <2>1. Cardinality(Waiters') = Cardinality(Waiters) + 1
      BY <1>4, WaiterAdded DEF CountMe
    <2>2. lock_state' = lock_state + 2 /\ ~Free /\ ~Free'
      BY <1>4 DEF CountMe, ExchangeSucceeds, Free, TypeOK
    <2>3. CountExact'
      BY <1>3, <2>1, <2>2, WaitersFinite DEF CountExact, TypeOK
    <2> QED
      BY <1>1, <1>2, <2>2, <2>3 DEF NoLostNotification
  <1>5. CASE ~ExchangeSucceeds(t)
    <2>1. CountExact'
      BY <1>5, CountKept DEF CountMe, HasTurn
    <2>2. NoLostNotification'
      BY <1>5 DEF CountMe, TypeOK, NoLostNotification, WillRetry, Waiters, Free
    <2> QED
      BY <1>1, <1>2, <2>1, <2>2
  <1> QED
    BY <1>4, <1>5

LEMMA ReleaseKeeps ==
    ASSUME IInv, NEW t \in Threads, Release(t)
    PROVE  IInv'
  <1> USE DEF IInv
  <1> DEFINE n == Cardinality(Waiters)
  <1>1. HasTurn(t)
    BY DEF Release, HasTurn
  <1>2. lock_state = 2 * n + 1 /\ n \in Nat
    BY <1>1, WaitersFinite DEF CountExact
  <1>3. lock_state % 2 = 1
    BY <1>1, TurnBitExact DEF TurnBit
  <1>4. lock_state' = 2 * n /\ lock_state' \in Nat
    <2>1. lock_state' = lock_state - 1
      BY <1>3 DEF Release
    <2> HIDE DEF n
    <2> QED
      BY <1>2, <2>1
  <1>5. \A u \in Threads : ~HasTurn(u)'
    BY <1>1 DEF Release, Goto, TypeOK, MutualExclusion, HasTurn
  <1>6. Waiters' = Waiters
    BY DEF Release, Waiters
  <1>7. TypeOK'
    BY <1>4 DEF Release, TypeOK, Goto, Locations
  <1>8. MutexOwner' /\ CountedInside'
    BY DEF Release, TypeOK, MutexOwner, CountedInside, Goto, Guarded, Countable
  <1>9. MutualExclusion' /\ CountExact'
    BY <1>2, <1>4, <1>5, <1>6 DEF MutualExclusion, CountExact
  <1>10. NoLostNotification'
    <2> SUFFICES ASSUME Waiters # {}
                 PROVE  WillRetry(t)'
      BY <1>6 DEF NoLostNotification
    <2>1. n # 0
      BY WaitersFinite, FS_EmptySet
    <2>2. NotificationDue(lock_state)
      <3> HIDE DEF n
      <3> QED
        BY <1>2, <2>1 DEF NotificationDue
    <2> QED
      BY <2>2 DEF Release, Goto, TypeOK, WillRetry
  <1> QED
    BY <1>7, <1>8, <1>9, <1>10

LEMMA NextKeepsIInv == IInv /\ [Next]_vars => IInv'
  <1> SUFFICES ASSUME IInv, [Next]_vars PROVE IInv'
    OBVIOUS
  <1>1. CASE UNCHANGED vars
    BY <1>1 DEF vars, IInv, TypeOK, MutexOwner, CountedInside,
                MutualExclusion, CountExact, NoLostNotification, HasTurn, Waiters, Free,
                WillRetry
  <1>2. ASSUME NEW t \in Threads, NEW to \in Timeouts, Poll(t, to)
        PROVE  IInv'
    BY <1>2, PollKeeps
  <1>3. ASSUME NEW t \in Threads, Run(t)
        PROVE  IInv'
    BY <1>3, LockMutexKeeps, TryTakeKeeps, GiveUpKeeps, CountMeKeeps,
       WaitKeeps, RelockKeeps, LoadKeeps, UnlockKeeps, NotifyLockKeeps,
       NotifyOneKeeps DEF Run
  <1>4. ASSUME NEW t \in Threads, Wake(t) \/ Release(t)
        PROVE  IInv'
    BY <1>4, WakeKeeps, ReleaseKeeps
  <1> QED
    BY <1>1, <1>2, <1>3, <1>4 DEF Next

LEMMA SpecImpliesIInv == Spec => []IInv
  BY InitEstablishesIInv, NextKeepsIInv, PTL DEF Spec

-----------------------------------------------------------------------------
(* poll1's variables keep their types; in particular lock_state never wraps*)
(* below zero.                                                             *)
THEOREM TypeCorrect == Spec => []TypeOK
  BY SpecImpliesIInv, PTL DEF IInv

(* Only one thread at a time is inside poll2, for any number of threads.   *)
THEOREM MutualExclusionHolds == Spec => []MutualExclusion
  BY SpecImpliesIInv, PTL DEF IInv

(* lock_state is exactly the turn bit plus twice the number of waiters.    *)
THEOREM CountExactHolds == Spec => []CountExact
  BY SpecImpliesIInv, PTL DEF IInv

(* A free turn that is waited for always has a thread on its way to take it*)
(* or to notify a waiter.                                                  *)
THEOREM NoLostNotificationHolds == Spec => []NoLostNotification
  BY SpecImpliesIInv, PTL DEF IInv
=============================================================================
