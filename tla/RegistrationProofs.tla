------------------------- MODULE RegistrationProofs -------------------------
(***************************************************************************)
(* Proofs about Registration and RegistrationWord for any sets of threads  *)
(* and tokens.                                                             *)
(*                                                                         *)
(* First, the three token slots, which no lock protects from the poller,   *)
(* are never written while they are read.  The invariant IInv says that    *)
(* update_lock is held exactly by the one update between its exchange and  *)
(* its store, that this update's view of the write position stays true,    *)
(* and that the slot it chose stays different from both positions.  The    *)
(* poller may move the read position meanwhile, but only onto the write    *)
(* position.                                                               *)
(*                                                                         *)
(* Second, the queued flag: QInv says that at most one thread carries the  *)
(* node, and that somebody has it exactly while the flag is on.            *)
(*                                                                         *)
(* Third, the state word: getters and setters of StateWord meet on their   *)
(* own field and leave every other field alone, for any word of any width, *)
(* so the word and the record of Registration never come apart, and what   *)
(* is proved of Registration holds of the program's packed state.          *)
(***************************************************************************)
EXTENDS RegistrationWord, TLAPS

InLock == {"load", "write", "cas", "unlock", "unlock_enqueue"}

LockOwner ==
    /\ \A u, v \in Users : pc[u] \in InLock /\ pc[v] \in InLock => u = v
    /\ \A u \in Users : pc[u] \in InLock => update_lock

(* Only updaters are ever inside update, and not once it is dropped.       *)
SettersOutside ==
    \A s \in Setters : pc[s] \in {"idle", "enqueue"}

NoUpdateAfterDrop ==
    state.dropped => \A u \in Updaters : pc[u] = "idle"

WritePosKnown ==
    \A u \in Updaters : pc[u] \in {"write", "cas"} => state.wr = fromPos[u]

IInv == /\ TypeOK
        /\ LockOwner
        /\ SettersOutside
        /\ NoUpdateAfterDrop
        /\ WritePosKnown
        /\ TokenSlotExclusive

(* What update's arguments may be.                                         *)
LEMMA CallsType ==
    /\ NoCall \in Calls
    /\ \A c \in Calls : /\ c.token \in Tokens \cup {NoToken}
                         /\ c.opt \in Opts
                         /\ c.interest \in BOOLEAN
  <1>1. NoCall \in Calls
    BY Zenon DEF Calls, NoCall
  <1>2. ASSUME NEW c \in [token : Tokens, interest : {TRUE}, opt : Opts,
                         register : BOOLEAN]
        PROVE  c.token \in Tokens /\ c.opt \in Opts /\ c.interest = TRUE
    OBVIOUS
  <1>3. NoCall.token = NoToken /\ NoCall.opt = "level" /\ NoCall.interest = FALSE
    BY DEF NoCall
  <1>4. \A c \in Calls : \/ c \in [token : Tokens, interest : {TRUE}, opt : Opts,
                                  register : BOOLEAN]
                        \/ c = NoCall
    BY Zenon DEF Calls, NoCall
  <1> QED
    BY <1>1, <1>2, <1>3, <1>4, OptsAssumption

(* next_token_pos avoids the slots of both positions.                      *)
LEMMA NextTokenPosFree ==
    ASSUME TypeOK
    PROVE  /\ NextTokenPos(state) \in Slots
           /\ NextTokenPos(state) \notin {state.rd, state.wr}
  <1>1. state.rd \in {0, 1, 2} /\ state.wr \in {0, 1, 2}
    BY DEF TypeOK, Slots
  <1> QED
    BY <1>1 DEF NextTokenPos, Slots

LEMMA InitEstablishesIInv == Init => IInv
  <1> SUFFICES ASSUME Init PROVE IInv
    OBVIOUS
  <1>1. state \in [ready : BOOLEAN, interest : BOOLEAN, opt : Opts, rd : Slots,
                  wr : Slots, queued : BOOLEAN, dropped : BOOLEAN]
    BY OptsAssumption DEF Init, NewState, Slots
  <1>2. call \in [Users -> Calls]
    BY CallsType DEF Init
  <1>3. TypeOK
    BY <1>1, <1>2 DEF Init, NewState, TypeOK, Slots, Locations
  <1> QED
    BY <1>3 DEF Init, NewState, IInv, LockOwner, SettersOutside, NoUpdateAfterDrop,
                WritePosKnown, TokenSlotExclusive, InLock, Users

-----------------------------------------------------------------------------
(* The locals keep their types when a user's call returns or goes on.      *)
LEMMA ReturnTypes ==
    ASSUME TypeOK, NEW u \in Users, Return(u)
    PROVE  /\ pc' \in [Users -> Locations]
           /\ call' \in [Users -> Calls]
           /\ pos' \in [Users -> Slots]
           /\ fromPos' \in [Users -> Slots]
  BY CallsType DEF Return, Goto, TypeOK, Locations, Slots

LEMMA GotoTypes ==
    ASSUME TypeOK, NEW u \in Users, NEW l \in Locations, Goto(u, l)
    PROVE  pc' \in [Users -> Locations]
  BY DEF Goto, TypeOK

(* One lemma per step.                                                     *)
LEMMA CallUpdateKeeps ==
    ASSUME IInv, NEW u \in Updaters, NEW c \in Calls, CallUpdate(u, c)
    PROVE  IInv'
  <1> USE DEF IInv
  <1>1. TypeOK'
    BY ThreadsAssumption, CallsType DEF CallUpdate, TypeOK, Goto, Locations, Users, Slots
  <1>2. LockOwner' /\ SettersOutside' /\ NoUpdateAfterDrop'
    BY ThreadsAssumption DEF CallUpdate, TypeOK, Goto, LockOwner, SettersOutside,
       NoUpdateAfterDrop, InLock, Users
  <1>3. WritePosKnown' /\ TokenSlotExclusive'
    BY ThreadsAssumption DEF CallUpdate, TypeOK, Goto, LockOwner, WritePosKnown,
       TokenSlotExclusive, InLock, Users
  <1> QED
    BY <1>1, <1>2, <1>3

LEMMA TryUpdateLockKeeps ==
    ASSUME IInv, NEW u \in Updaters, TryUpdateLock(u)
    PROVE  IInv'
  <1> USE DEF IInv
  <1>1. TypeOK'
    <2>1. u \in Users /\ "load" \in Locations
      BY DEF Users, Locations
    <2>2. CASE UpdateLockFree
      BY <2>1, <2>2, GotoTypes DEF TryUpdateLock, TypeOK
    <2>3. CASE ~UpdateLockFree
      BY <2>1, <2>3, ReturnTypes DEF TryUpdateLock, TypeOK
    <2> QED
      BY <2>2, <2>3
  <1>2. LockOwner' /\ SettersOutside' /\ NoUpdateAfterDrop'
    BY ThreadsAssumption DEF TryUpdateLock, UpdateLockFree, Return, TypeOK, Goto, LockOwner, SettersOutside,
       NoUpdateAfterDrop, InLock, Users
  <1>3. WritePosKnown' /\ TokenSlotExclusive'
    BY ThreadsAssumption DEF TryUpdateLock, UpdateLockFree, Return, TypeOK, Goto, LockOwner, WritePosKnown,
       TokenSlotExclusive, InLock, Users
  <1> QED
    BY <1>1, <1>2, <1>3

LEMMA ChooseSlotKeeps ==
    ASSUME IInv, NEW u \in Updaters, ChooseSlot(u)
    PROVE  IInv'
  <1> USE DEF IInv
  <1>1. TypeOK'
    BY ThreadsAssumption, CallsType, NextTokenPosFree DEF ChooseSlot, TypeOK, Goto, Locations, Users, Slots
  <1>2. LockOwner' /\ SettersOutside' /\ NoUpdateAfterDrop'
    BY ThreadsAssumption, NextTokenPosFree DEF ChooseSlot, TypeOK, Goto, LockOwner, SettersOutside,
       NoUpdateAfterDrop, InLock, Users
  <1>3. WritePosKnown' /\ TokenSlotExclusive'
    BY ThreadsAssumption, NextTokenPosFree DEF ChooseSlot, TypeOK, Goto, LockOwner, WritePosKnown,
       TokenSlotExclusive, InLock, Users
  <1> QED
    BY <1>1, <1>2, <1>3

LEMMA WriteTokenKeeps ==
    ASSUME IInv, NEW u \in Updaters, WriteToken(u)
    PROVE  IInv'
  <1> USE DEF IInv
  <1>1. TypeOK'
    BY ThreadsAssumption, CallsType DEF WriteToken, TypeOK, Goto, Locations, Users, Slots
  <1>2. LockOwner' /\ SettersOutside' /\ NoUpdateAfterDrop'
    BY ThreadsAssumption DEF WriteToken, TypeOK, Goto, LockOwner, SettersOutside,
       NoUpdateAfterDrop, InLock, Users
  <1>3. WritePosKnown' /\ TokenSlotExclusive'
    BY ThreadsAssumption DEF WriteToken, TypeOK, Goto, LockOwner, WritePosKnown,
       TokenSlotExclusive, InLock, Users
  <1> QED
    BY <1>1, <1>2, <1>3

LEMMA CommitKeeps ==
    ASSUME IInv, NEW u \in Updaters, Commit(u)
    PROVE  IInv'
  <1> USE DEF IInv
  <1>1. TypeOK'
    BY ThreadsAssumption, CallsType DEF Commit, Queue, EffectiveReadiness, MustEnqueue, TypeOK, Goto, Locations, Users, Slots
  <1>2. LockOwner' /\ SettersOutside' /\ NoUpdateAfterDrop'
    BY ThreadsAssumption DEF Commit, Queue, EffectiveReadiness, MustEnqueue, TypeOK, Goto, LockOwner, SettersOutside,
       NoUpdateAfterDrop, InLock, Users
  <1>3. WritePosKnown' /\ TokenSlotExclusive'
    BY ThreadsAssumption DEF Commit, Queue, EffectiveReadiness, MustEnqueue, TypeOK, Goto, LockOwner, WritePosKnown,
       TokenSlotExclusive, InLock, Users
  <1> QED
    BY <1>1, <1>2, <1>3

LEMMA UnlockUpdateKeeps ==
    ASSUME IInv, NEW u \in Updaters, UnlockUpdate(u)
    PROVE  IInv'
  <1> USE DEF IInv
  <1>1. TypeOK'
    <2>1. u \in Users /\ "job" \in Locations
      BY DEF Users, Locations
    <2>2. CASE pc[u] = "unlock_enqueue"
      <3>1. Goto(u, "job") /\ UNCHANGED <<call, pos, fromPos>>
        BY <2>2 DEF UnlockUpdate
      <3>2. pc' \in [Users -> Locations]
        BY <2>1, <3>1, GotoTypes
      <3> QED
        BY <3>1, <3>2 DEF UnlockUpdate, TypeOK
    <2>3. CASE pc[u] = "unlock"
      <3>1. Return(u)
        BY <2>3 DEF UnlockUpdate
      <3>2. /\ pc' \in [Users -> Locations] /\ call' \in [Users -> Calls]
            /\ pos' \in [Users -> Slots] /\ fromPos' \in [Users -> Slots]
        BY <2>1, <3>1, ReturnTypes
      <3> QED
        BY <3>2 DEF UnlockUpdate, TypeOK
    <2> QED
      BY <2>2, <2>3 DEF UnlockUpdate
  <1>2. LockOwner' /\ SettersOutside' /\ NoUpdateAfterDrop'
    BY ThreadsAssumption DEF UnlockUpdate, Return, TypeOK, Goto, LockOwner, SettersOutside,
       NoUpdateAfterDrop, InLock, Users
  <1>3. WritePosKnown' /\ TokenSlotExclusive'
    BY ThreadsAssumption DEF UnlockUpdate, Return, TypeOK, Goto, LockOwner, WritePosKnown,
       TokenSlotExclusive, InLock, Users
  <1> QED
    BY <1>1, <1>2, <1>3

LEMMA WriteJobKeeps ==
    ASSUME IInv, NEW u \in Updaters, WriteJob(u)
    PROVE  IInv'
  <1> USE DEF IInv
  <1>1. TypeOK'
    BY ThreadsAssumption, CallsType DEF WriteJob, TypeOK, Goto, Locations, Users, Slots
  <1>2. LockOwner' /\ SettersOutside' /\ NoUpdateAfterDrop'
    BY ThreadsAssumption DEF WriteJob, TypeOK, Goto, LockOwner, SettersOutside,
       NoUpdateAfterDrop, InLock, Users
  <1>3. WritePosKnown' /\ TokenSlotExclusive'
    BY ThreadsAssumption DEF WriteJob, TypeOK, Goto, LockOwner, WritePosKnown,
       TokenSlotExclusive, InLock, Users
  <1> QED
    BY <1>1, <1>2, <1>3

LEMMA EnqueueNodeKeeps ==
    ASSUME IInv, NEW u \in Users, EnqueueNode(u)
    PROVE  IInv'
  <1> USE DEF IInv
  <1>1. TypeOK'
    BY ThreadsAssumption, CallsType DEF EnqueueNode, Return, TypeOK, Goto, Locations, Users, Slots
  <1>2. LockOwner' /\ SettersOutside' /\ NoUpdateAfterDrop'
    BY ThreadsAssumption DEF EnqueueNode, Return, TypeOK, Goto, LockOwner, SettersOutside,
       NoUpdateAfterDrop, InLock, Users
  <1>3. WritePosKnown' /\ TokenSlotExclusive'
    BY ThreadsAssumption DEF EnqueueNode, Return, TypeOK, Goto, LockOwner, WritePosKnown,
       TokenSlotExclusive, InLock, Users
  <1> QED
    BY <1>1, <1>2, <1>3

LEMMA SetReadinessKeeps ==
    ASSUME IInv, NEW s \in Setters, NEW r \in BOOLEAN, SetReadiness(s, r)
    PROVE  IInv'
  <1> USE DEF IInv
  <1>1. TypeOK'
    <2>1. PICK n : n = [state EXCEPT !.ready = r]
      OBVIOUS
    <2>2. n \in [ready : BOOLEAN, interest : BOOLEAN, opt : Opts, rd : Slots,
                 wr : Slots, queued : BOOLEAN, dropped : BOOLEAN]
      BY <2>1 DEF TypeOK
    <2>3. PICK q \in BOOLEAN : q = (n.queued \/ EffectiveReadiness(n))
      BY <2>2, Zenon DEF EffectiveReadiness
    <2>4. state' = [n EXCEPT !.queued = q]
      BY <2>1, <2>3 DEF SetReadiness, Queue
    <2>5. state' \in [ready : BOOLEAN, interest : BOOLEAN, opt : Opts, rd : Slots,
                      wr : Slots, queued : BOOLEAN, dropped : BOOLEAN]
      BY <2>2, <2>4
    <2>6. s \in Users /\ {"enqueue", "idle"} \subseteq Locations
      BY DEF Users, Locations
    <2>7. pc' \in [Users -> Locations]
      BY <2>6 DEF SetReadiness, Goto, TypeOK
    <2> QED
      BY <2>5, <2>7 DEF SetReadiness, TypeOK
  <1>2. LockOwner' /\ SettersOutside' /\ NoUpdateAfterDrop'
    BY ThreadsAssumption DEF SetReadiness, Queue, EffectiveReadiness, MustEnqueue, TypeOK, Goto, LockOwner, SettersOutside,
       NoUpdateAfterDrop, InLock, Users
  <1>3. WritePosKnown' /\ TokenSlotExclusive'
    BY ThreadsAssumption DEF SetReadiness, Queue, EffectiveReadiness, MustEnqueue, TypeOK, Goto, LockOwner, WritePosKnown,
       TokenSlotExclusive, InLock, Users
  <1> QED
    BY <1>1, <1>2, <1>3

LEMMA DropRegistrationKeeps ==
    ASSUME IInv, NEW s \in Setters, DropRegistration(s)
    PROVE  IInv'
  <1> USE DEF IInv
  <1>1. TypeOK'
    BY ThreadsAssumption, CallsType DEF DropRegistration, TypeOK, Goto, Locations, Users, Slots
  <1>2. LockOwner' /\ SettersOutside' /\ NoUpdateAfterDrop'
    BY ThreadsAssumption DEF DropRegistration, TypeOK, Goto, LockOwner, SettersOutside,
       NoUpdateAfterDrop, InLock, Users
  <1>3. WritePosKnown' /\ TokenSlotExclusive'
    BY ThreadsAssumption DEF DropRegistration, TypeOK, Goto, LockOwner, WritePosKnown,
       TokenSlotExclusive, InLock, Users
  <1> QED
    BY <1>1, <1>2, <1>3

LEMMA ProcessKeeps ==
    ASSUME IInv, Process
    PROVE  IInv'
  <1> USE DEF IInv
  <1>1. TypeOK'
    BY ThreadsAssumption, CallsType DEF Process, PollerAt, EffectiveReadiness, TypeOK, Goto, Locations, Users, Slots
  <1>2. LockOwner' /\ SettersOutside' /\ NoUpdateAfterDrop'
    BY ThreadsAssumption DEF Process, PollerAt, EffectiveReadiness, TypeOK, Goto, LockOwner, SettersOutside,
       NoUpdateAfterDrop, InLock, Users
  <1>3. WritePosKnown' /\ TokenSlotExclusive'
    BY ThreadsAssumption DEF Process, PollerAt, EffectiveReadiness, TypeOK, Goto, LockOwner, WritePosKnown,
       TokenSlotExclusive, InLock, Users
  <1> QED
    BY <1>1, <1>2, <1>3

LEMMA OtherPollerStepsKeeps ==
    ASSUME IInv, TakeNode \/ ProcessDropped \/ Requeue \/ ReportEvent \/ ResetJob
    PROVE  IInv'
  <1> USE DEF IInv
  <1>1. TypeOK'
    BY ThreadsAssumption, CallsType DEF TakeNode, ProcessDropped, Requeue, ReportEvent, ResetJob,
       PollerAt, TypeOK, Goto, Locations, Users, Slots
  <1>2. LockOwner' /\ SettersOutside' /\ NoUpdateAfterDrop'
    BY ThreadsAssumption DEF TakeNode, ProcessDropped, Requeue, ReportEvent, ResetJob,
       PollerAt, TypeOK, Goto, LockOwner, SettersOutside,
       NoUpdateAfterDrop, InLock, Users
  <1>3. WritePosKnown' /\ TokenSlotExclusive'
    BY ThreadsAssumption DEF TakeNode, ProcessDropped, Requeue, ReportEvent, ResetJob,
       PollerAt, TypeOK, Goto, LockOwner, WritePosKnown,
       TokenSlotExclusive, InLock, Users
  <1> QED
    BY <1>1, <1>2, <1>3

LEMMA NextKeepsIInv == IInv /\ [Next]_vars => IInv'
  <1> SUFFICES ASSUME IInv, [Next]_vars PROVE IInv'
    OBVIOUS
  <1>1. CASE UNCHANGED vars
    BY <1>1 DEF vars, IInv, TypeOK, LockOwner, SettersOutside,
                NoUpdateAfterDrop, WritePosKnown, TokenSlotExclusive
  <1>2. ASSUME NEW u \in Updaters, NEW c \in Calls, CallUpdate(u, c)
        PROVE  IInv'
    BY <1>2, CallUpdateKeeps
  <1>3. ASSUME NEW u \in Updaters, UpdateStep(u)
        PROVE  IInv'
    <2>1. u \in Users
      BY DEF Users
    <2> QED
      BY <1>3, <2>1, TryUpdateLockKeeps, ChooseSlotKeeps, WriteTokenKeeps,
         CommitKeeps, UnlockUpdateKeeps, WriteJobKeeps, EnqueueNodeKeeps
      DEF UpdateStep
  <1>4. ASSUME NEW s \in Setters, NEW r \in BOOLEAN, SetReadiness(s, r)
        PROVE  IInv'
    BY <1>4, SetReadinessKeeps
  <1>5. ASSUME NEW s \in Setters, EnqueueNode(s) \/ DropRegistration(s)
        PROVE  IInv'
    BY <1>5, EnqueueNodeKeeps, DropRegistrationKeeps DEF Users
  <1>6. CASE PollerStep
    BY <1>6, ProcessKeeps, OtherPollerStepsKeeps DEF PollerStep
  <1> QED
    BY <1>1, <1>2, <1>3, <1>4, <1>5, <1>6 DEF Next

LEMMA SpecImpliesIInv == Spec => []IInv
  BY InitEstablishesIInv, NextKeepsIInv, PTL DEF Spec

-----------------------------------------------------------------------------
(* The state word, the slots and the threads' locals keep their types.     *)
THEOREM TypeCorrect == Spec => []TypeOK
  BY SpecImpliesIInv, PTL DEF IInv

(* An update never writes the slot the poller may be reading, nor the one  *)
(* that holds the current token.                                           *)
THEOREM TokenSlotExclusiveHolds == Spec => []TokenSlotExclusive
  BY SpecImpliesIInv, PTL DEF IInv

(* A step never changes the cell of the current token nor the one last     *)
(* read, and from the exchange that moves the read position until the      *)
(* token is pushed that position stays.                                    *)
TokenStands ==
    [][/\ \A s \in {state.rd, state.wr} : token'[s] = token[s]
       /\ poller \in {"requeue", "read"} => state'.rd = state.rd]_vars

(* The token that poll reports is the one that was current when its        *)
(* exchange on the state word succeeded, whatever updates, set_readiness   *)
(* or a drop do before it reads the cell, without a lock, for push_event.  *)
THEOREM TokenStandsAlways == Spec => TokenStands
  <1> DEFINE Stands == /\ \A s \in {state.rd, state.wr} : token'[s] = token[s]
                       /\ poller \in {"requeue", "read"} => state'.rd = state.rd
  <1>1. ASSUME IInv, Next PROVE Stands
    <2>0. state.rd \in Slots /\ state.wr \in Slots /\ token \in [Slots -> Tokens \cup {NoToken}]
      BY <1>1 DEF IInv, TypeOK
    <2>1. ASSUME NEW u \in Updaters, WriteToken(u) PROVE Stands
      <3>1. /\ pc[u] = "write" /\ state' = state
            /\ token' = [token EXCEPT ![pos[u]] = call[u].token]
        BY <2>1 DEF WriteToken
      <3>2. pos[u] # state.rd /\ pos[u] # state.wr
        BY <1>1, <3>1 DEF IInv, TokenSlotExclusive
      <3> QED
        BY <2>0, <3>1, <3>2
    <2>2. ASSUME NEW u \in Updaters, Commit(u) PROVE Stands
      <3>1. PICK new : new = [state EXCEPT !.wr = pos[u], !.interest = call[u].interest,
                                            !.opt = call[u].opt]
        OBVIOUS
      <3>2. token' = token /\ state' = Queue(new)
        BY <2>2, <3>1 DEF Commit
      <3>3. state'.rd = state.rd
        BY <1>1, <3>1, <3>2 DEF Queue, IInv, TypeOK
      <3> QED
        BY <3>2, <3>3
    <2>3. ASSUME NEW s \in Setters, NEW r \in BOOLEAN, SetReadiness(s, r) PROVE Stands
      <3>1. PICK new : new = [state EXCEPT !.ready = r]
        OBVIOUS
      <3>2. token' = token /\ state' = Queue(new)
        BY <2>3, <3>1 DEF SetReadiness
      <3>3. state'.rd = state.rd
        BY <1>1, <3>1, <3>2 DEF Queue, IInv, TypeOK
      <3> QED
        BY <3>2, <3>3
    <2>4. ASSUME NEW s \in Setters, DropRegistration(s) PROVE Stands
      <3>1. token' = token /\ state' = [state EXCEPT !.dropped = TRUE, !.queued = TRUE]
        BY <2>4 DEF DropRegistration
      <3>2. state'.rd = state.rd
        BY <1>1, <3>1 DEF IInv, TypeOK
      <3> QED
        BY <3>1, <3>2
    <2>5. CASE Process
      BY <2>5 DEF Process, PollerAt
    <2>6. CASE token' = token /\ state' = state
      BY <2>6
    <2>7. ASSUME NEW u, \/ TryUpdateLock(u) \/ ChooseSlot(u) \/ UnlockUpdate(u)
                        \/ WriteJob(u) \/ EnqueueNode(u) \/ \E c \in Calls : CallUpdate(u, c)
          PROVE  token' = token /\ state' = state
      BY <2>7 DEF TryUpdateLock, ChooseSlot, UnlockUpdate, WriteJob, EnqueueNode, CallUpdate
    <2>8. CASE TakeNode \/ ProcessDropped \/ Requeue \/ ReportEvent \/ ResetJob
      BY <2>6, <2>8 DEF TakeNode, ProcessDropped, Requeue, ReportEvent, ResetJob
    <2> QED
      BY <1>1, <2>1, <2>2, <2>3, <2>4, <2>5, <2>6, <2>7, <2>8 DEF Next, UpdateStep, PollerStep
  <1>2. IInv /\ [Next]_vars => [Stands]_vars
    BY <1>1
  <1> QED
    BY <1>2, SpecImpliesIInv, PTL DEF Spec, TokenStands

(* The debug_asserts in update's loop cannot fail.                         *)
THEOREM UpdateAssertionsHold == Spec => []UpdateAssertions
  <1>1. IInv => UpdateAssertions
    BY DEF IInv, UpdateAssertions, WritePosKnown, NoUpdateAfterDrop
  <1> QED
    BY <1>1, SpecImpliesIInv, PTL
-----------------------------------------------------------------------------
(* Who has the node.  QueuedExactly names the holders by strings and users;*)
(* the inductive form says of each pair of holders that they exclude each  *)
(* other, and that a user who is to enqueue the node has a queue to put it *)
(* into, unless the registration was dropped before it met a Poll.         *)
PollerHas == poller \in {"process", "requeue"}

OneHolder ==
    /\ \A u, v \in Carriers : u = v
    /\ inQueue => ~PollerHas
    /\ \A u \in Carriers : ~inQueue /\ ~PollerHas

HeldIffQueued ==
    /\ inQueue \/ PollerHas => state.queued
    /\ \A u \in Carriers : state.queued
    /\ state.queued /\ ~state.dropped => inQueue \/ PollerHas \/ \E u \in Carriers : TRUE

(* Interest and updates exist only after the node was tied to a queue.     *)
AttachedBeforeUse ==
    /\ state.interest => attached
    /\ \A u \in Updaters : pc[u] # "idle" => attached
    /\ \A u \in Carriers : attached \/ state.dropped

QInv == OneHolder /\ HeldIffQueued /\ AttachedBeforeUse

LEMMA InitEstablishesQInv == Init => QInv
  <1> SUFFICES ASSUME Init PROVE QInv
    OBVIOUS
  <1>1. Carriers = {}
    BY DEF Init, Carriers
  <1> QED
    BY <1>1, ThreadsAssumption DEF Init, NewState, QInv, OneHolder, HeldIffQueued,
       AttachedBeforeUse, PollerHas, Users

(* The steps of update before its commit leave the holders alone.          *)
LEMMA BeforeCommitKeepsQInv ==
    ASSUME IInv, QInv, NEW u \in Updaters,
           \/ \E c \in Calls : CallUpdate(u, c)
           \/ TryUpdateLock(u) \/ ChooseSlot(u) \/ WriteToken(u)
    PROVE  QInv'
  <1>1. /\ Carriers' = Carriers
        /\ UNCHANGED <<state, inQueue, poller>>
        /\ attached => attached'
    BY DEF IInv, TypeOK, CallUpdate, TryUpdateLock, ChooseSlot, WriteToken,
           Return, Goto, Carriers, Users
  <1>2. \A v \in Updaters : pc'[v] # "idle" => attached'
    BY DEF IInv, TypeOK, QInv, AttachedBeforeUse, CallUpdate, TryUpdateLock,
           ChooseSlot, WriteToken, Return, Goto, Users
  <1> QED
    BY <1>1, <1>2 DEF QInv, OneHolder, HeldIffQueued, AttachedBeforeUse, PollerHas

(* The commit makes the update the holder exactly when it turns the flag on.*)
LEMMA CommitKeepsQInv ==
    ASSUME IInv, QInv, NEW u \in Updaters, Commit(u)
    PROVE  QInv'
  <1> DEFINE turned == ~state.queued /\ state'.queued
  <1>1. u \in Users /\ u \notin Carriers /\ attached /\ ~state.dropped
    BY DEF Commit, QInv, AttachedBeforeUse, IInv, NoUpdateAfterDrop, Carriers, Users
  <1>2. /\ state.queued => state'.queued
        /\ state'.dropped = state.dropped
        /\ UNCHANGED <<inQueue, poller, attached>>
    BY DEF Commit, Queue, IInv, TypeOK
  <1>3. Carriers' = IF turned THEN Carriers \cup {u} ELSE Carriers
    BY <1>1 DEF Commit, MustEnqueue, Goto, IInv, TypeOK, Carriers
  <1>4. turned => Carriers = {} /\ ~inQueue /\ ~PollerHas
    BY DEF QInv, HeldIffQueued
  <1>5. \A v \in Updaters : pc'[v] # "idle" => attached'
    BY <1>1, <1>2
  <1>6. OneHolder' /\ HeldIffQueued'
    BY <1>1, <1>2, <1>3, <1>4 DEF QInv, OneHolder, HeldIffQueued, PollerHas, IInv, TypeOK
  <1>7. AttachedBeforeUse'
    BY <1>1, <1>2, <1>5 DEF AttachedBeforeUse
  <1> QED
    BY <1>6, <1>7 DEF QInv

LEMMA AfterCommitKeepsQInv ==
    ASSUME IInv, QInv, NEW u \in Updaters, UnlockUpdate(u) \/ WriteJob(u)
    PROVE  QInv'
  <1>1. /\ Carriers' = Carriers
        /\ UNCHANGED <<state, inQueue, poller, attached>>
    BY DEF IInv, TypeOK, UnlockUpdate, WriteJob, Return, Goto, Carriers, Users
  <1>2. \A v \in Updaters : pc'[v] # "idle" => attached'
    BY DEF IInv, TypeOK, QInv, AttachedBeforeUse, UnlockUpdate, WriteJob,
           Return, Goto, Users
  <1> QED
    BY <1>1, <1>2 DEF QInv, OneHolder, HeldIffQueued, AttachedBeforeUse, PollerHas

(* enqueue_with_wakeup hands the node from the user to the queue.          *)
LEMMA EnqueueNodeKeepsQInv ==
    ASSUME IInv, QInv, NEW u \in Users, EnqueueNode(u)
    PROVE  QInv'
  <1>1. u \in Carriers
    BY DEF EnqueueNode, Carriers
  <1>2. /\ Carriers = {u} /\ ~inQueue /\ ~PollerHas
        /\ state.queued /\ (attached \/ state.dropped)
    BY <1>1 DEF QInv, OneHolder, HeldIffQueued, AttachedBeforeUse
  <1>3. /\ Carriers' = {}
        /\ inQueue' = attached /\ UNCHANGED <<state, poller, attached>>
        /\ \A v \in Updaters : pc'[v] # "idle" => pc[v] # "idle"
    BY <1>2 DEF EnqueueNode, Return, Goto, Carriers, IInv, TypeOK, Users
  <1> QED
    BY <1>2, <1>3 DEF QInv, OneHolder, HeldIffQueued, AttachedBeforeUse, PollerHas

LEMMA SetReadinessKeepsQInv ==
    ASSUME IInv, QInv, NEW s \in Setters, NEW r \in BOOLEAN, SetReadiness(s, r)
    PROVE  QInv'
  <1> DEFINE turned == ~state.queued /\ state'.queued
  <1>1. s \in Users /\ s \notin Carriers /\ s \notin Updaters
    BY ThreadsAssumption DEF SetReadiness, Carriers, Users
  <1>2. /\ state.queued => state'.queued
        /\ turned => state.interest
        /\ state'.dropped = state.dropped
        /\ state'.interest = state.interest
        /\ UNCHANGED <<inQueue, poller, attached>>
    BY DEF SetReadiness, Queue, EffectiveReadiness, IInv, TypeOK
  <1>3. Carriers' = IF turned THEN Carriers \cup {s} ELSE Carriers
    BY <1>1 DEF SetReadiness, MustEnqueue, Goto, IInv, TypeOK, Carriers
  <1>4. turned => Carriers = {} /\ ~inQueue /\ ~PollerHas
    BY DEF QInv, HeldIffQueued
  <1>5. \A v \in Updaters : pc'[v] = pc[v]
    BY <1>1 DEF SetReadiness, Goto, IInv, TypeOK, Users
  <1>6. OneHolder' /\ HeldIffQueued'
    BY <1>2, <1>3, <1>4 DEF QInv, OneHolder, HeldIffQueued, PollerHas
  <1>7. AttachedBeforeUse'
    BY <1>2, <1>3, <1>4, <1>5 DEF QInv, AttachedBeforeUse
  <1> QED
    BY <1>6, <1>7 DEF QInv

LEMMA DropRegistrationKeepsQInv ==
    ASSUME IInv, QInv, NEW s \in Setters, DropRegistration(s)
    PROVE  QInv'
  <1>1. s \in Users /\ s \notin Carriers /\ s \notin Updaters
    BY ThreadsAssumption DEF DropRegistration, Carriers, Users
  <1>2. /\ state'.queued /\ state'.dropped
        /\ state'.interest = state.interest
        /\ UNCHANGED <<inQueue, poller, attached>>
    BY DEF DropRegistration, IInv, TypeOK
  <1>3. Carriers' = IF state.queued THEN Carriers ELSE Carriers \cup {s}
    BY <1>1 DEF DropRegistration, Goto, IInv, TypeOK, Carriers
  <1>4. ~state.queued => Carriers = {} /\ ~inQueue /\ ~PollerHas
    BY DEF QInv, HeldIffQueued
  <1>5. \A v \in Updaters : pc'[v] = pc[v]
    BY <1>1 DEF DropRegistration, Goto, IInv, TypeOK, Users
  <1>6. OneHolder' /\ HeldIffQueued'
    BY <1>2, <1>3, <1>4 DEF QInv, OneHolder, HeldIffQueued, PollerHas
  <1>7. AttachedBeforeUse'
    BY <1>2, <1>5 DEF QInv, AttachedBeforeUse
  <1> QED
    BY <1>6, <1>7 DEF QInv

(* The poller has the node from TakeNode until it clears the flag, puts a  *)
(* level node back, or releases a dropped one.                             *)
LEMMA PollerStepKeepsQInv ==
    ASSUME IInv, QInv, PollerStep
    PROVE  QInv'
  <1>1. Carriers' = Carriers /\ UNCHANGED <<pc, attached>>
    BY DEF PollerStep, TakeNode, ProcessDropped, Process, Requeue, ReportEvent,
           ResetJob, Carriers
  <1>2. state'.interest => state.interest
    BY DEF PollerStep, TakeNode, ProcessDropped, Process, Requeue, ReportEvent,
           ResetJob, IInv, TypeOK
  <1>3. state'.dropped = state.dropped
    BY DEF PollerStep, TakeNode, ProcessDropped, Process, Requeue, ReportEvent,
           ResetJob, IInv, TypeOK
  <1>4. AttachedBeforeUse'
    BY <1>1, <1>2, <1>3 DEF QInv, AttachedBeforeUse
  <1>5. CASE Process
    <2>1. PollerHas /\ ~inQueue /\ Carriers = {} /\ inQueue' = inQueue
      BY <1>5 DEF Process, PollerAt, PollerHas, QInv, OneHolder
    <2>2. state'.queued = (poller' = "requeue") /\ poller' # "process"
      BY <1>5 DEF Process, IInv, TypeOK
    <2> QED
      BY <1>1, <1>4, <2>1, <2>2 DEF QInv, OneHolder, HeldIffQueued, PollerHas
  <1>6. CASE TakeNode \/ ProcessDropped \/ Requeue \/ ReportEvent \/ ResetJob
    BY <1>1, <1>3, <1>4, <1>6 DEF TakeNode, ProcessDropped, Requeue, ReportEvent,
       ResetJob, PollerAt, PollerHas, QInv, OneHolder, HeldIffQueued
  <1> QED
    BY <1>5, <1>6 DEF PollerStep

LEMMA NextKeepsQInv == IInv /\ QInv /\ [Next]_vars => QInv'
  <1> SUFFICES ASSUME IInv, QInv, [Next]_vars PROVE QInv'
    OBVIOUS
  <1>1. CASE UNCHANGED vars
    BY <1>1 DEF vars, QInv, OneHolder, HeldIffQueued, AttachedBeforeUse, PollerHas, Carriers
  <1>2. ASSUME NEW u \in Updaters, UpdateStep(u) \/ \E c \in Calls : CallUpdate(u, c)
        PROVE  QInv'
    <2>1. u \in Users
      BY DEF Users
    <2> QED
      BY <1>2, <2>1, BeforeCommitKeepsQInv, CommitKeepsQInv, AfterCommitKeepsQInv,
         EnqueueNodeKeepsQInv DEF UpdateStep
  <1>3. ASSUME NEW s \in Setters, NEW r \in BOOLEAN, SetReadiness(s, r)
        PROVE  QInv'
    BY <1>3, SetReadinessKeepsQInv
  <1>4. ASSUME NEW s \in Setters, EnqueueNode(s) \/ DropRegistration(s)
        PROVE  QInv'
    BY <1>4, EnqueueNodeKeepsQInv, DropRegistrationKeepsQInv DEF Users
  <1>5. CASE PollerStep
    BY <1>5, PollerStepKeepsQInv
  <1> QED
    BY <1>1, <1>2, <1>3, <1>4, <1>5 DEF Next

LEMMA SpecImpliesQInv == Spec => []QInv
  BY InitEstablishesQInv, NextKeepsQInv, SpecImpliesIInv, PTL DEF Spec

(* While its queued flag is set a live node is with exactly one of the     *)
(* queue, the poller and one user, and while it is clear with none.        *)
THEOREM QueuedExactlyHolds == Spec => []QueuedExactly
  <1>1. QInv => QueuedExactly
    BY DEF QInv, OneHolder, HeldIffQueued, PollerHas, QueuedExactly
  <1> QED
    BY <1>1, SpecImpliesQInv, PTL

-----------------------------------------------------------------------------
(* The state word.                                                         *)
RdBits(w) == Get(w, MASK_2, TOKEN_RD_SHIFT)
WrBits(w) == Get(w, MASK_2, TOKEN_WR_SHIFT)

(* A word is a set of bit positions.                                       *)
Word(w) == w \subseteq Nat

(* Which bits a getter sees.                                               *)
LEMMA GetBit ==
    ASSUME NEW w, Word(w), NEW m \in SUBSET Nat, NEW s \in Nat
    PROVE  \A i : i \in Get(w, m, s) <=> i \in m /\ i + s \in w
  <1>1. ASSUME NEW i, i \in m, i + s \in w
        PROVE  i \in Get(w, m, s)
    <2>1. i + s >= s /\ (i + s) - s = i
      BY <1>1
    <2> QED
      BY <1>1, <2>1 DEF Get, ShiftRight
  <1>2. ASSUME NEW i, i \in Get(w, m, s)
        PROVE  i \in m /\ i + s \in w
    <2>1. PICK c \in w : c >= s /\ i = c - s
      BY <1>2 DEF Get, ShiftRight
    <2>2. i + s = c
      BY <2>1 DEF Word
    <2> QED
      BY <1>2, <2>2 DEF Get
  <1> QED
    BY <1>1, <1>2

(* Which bits a setter leaves, and which it writes.                        *)
LEMMA SetBit ==
    ASSUME NEW w, Word(w), NEW m \in SUBSET Nat, NEW v \in SUBSET m, NEW s \in Nat
    PROVE  /\ Word(Set(w, v, m, s))
           /\ \A i \in m : i + s \in Set(w, v, m, s) <=> i \in v
           /\ \A b \in Nat : (\A i \in m : b # i + s)
                               => (b \in Set(w, v, m, s) <=> b \in w)
  <1>1. Word(Set(w, v, m, s))
    <2>1. \A j \in v : j + s \in Nat
      OBVIOUS
    <2> QED
      BY <2>1 DEF Word, Set, ShiftLeft
  <1>2. ASSUME NEW i \in m
        PROVE  i + s \in Set(w, v, m, s) <=> i \in v
    <2>1. i + s \in ShiftLeft(m, s)
      BY DEF ShiftLeft
    <2>2. i + s \in ShiftLeft(v, s) <=> i \in v
      <3>1. \A j \in v : j + s = i + s => j = i
        OBVIOUS
      <3> QED
        BY <3>1 DEF ShiftLeft
    <2> QED
      BY <2>1, <2>2 DEF Set
  <1>3. ASSUME NEW b \in Nat, \A i \in m : b # i + s
        PROVE  b \in Set(w, v, m, s) <=> b \in w
    BY <1>3 DEF Set, ShiftLeft
  <1> QED
    BY <1>1, <1>2, <1>3

(* What was set is got back, if it fits its field ...                      *)
LEMMA GetSetSame ==
    ASSUME NEW w, Word(w), NEW m \in SUBSET Nat, NEW v \in SUBSET m, NEW s \in Nat
    PROVE  Get(Set(w, v, m, s), m, s) = v
  <1> DEFINE x == Set(w, v, m, s)
  <1>1. Word(x) /\ \A i \in m : i + s \in x <=> i \in v
    BY SetBit
  <1> HIDE DEF x
  <1>2. \A i : i \in Get(x, m, s) <=> i \in m /\ i + s \in x
    BY <1>1, GetBit
  <1>3. Get(x, m, s) = v
    BY <1>1, <1>2
  <1> QED
    BY <1>3 DEF x

(* ... and a field that shares no bit with it is as before.                *)
LEMMA GetSetOther ==
    ASSUME NEW w, Word(w), NEW m \in SUBSET Nat, NEW v \in SUBSET m, NEW s \in Nat,
           NEW n \in SUBSET Nat, NEW r \in Nat,
           \A i \in m, j \in n : i + s # j + r
    PROVE  Get(Set(w, v, m, s), n, r) = Get(w, n, r)
  <1> DEFINE x == Set(w, v, m, s)
  <1>1. /\ Word(x)
        /\ \A b \in Nat : (\A i \in m : b # i + s) => (b \in x <=> b \in w)
    BY SetBit
  <1> HIDE DEF x
  <1>2. \A j \in n : j + r \in x <=> j + r \in w
    BY <1>1
  <1>3. /\ \A j : j \in Get(x, n, r) <=> j \in n /\ j + r \in x
        /\ \A j : j \in Get(w, n, r) <=> j \in n /\ j + r \in w
    BY <1>1, GetBit
  <1>4. Get(x, n, r) = Get(w, n, r)
    BY <1>2, <1>3
  <1> QED
    BY <1>4 DEF x
-----------------------------------------------------------------------------
(* The shifts put the five fields and the two flags side by side.          *)
Shifts == {READINESS_SHIFT, INTEREST_SHIFT, POLL_OPT_SHIFT}

(* A mask is a word, too.                                                  *)
LEMMA FieldSizes == MASK_4 \in SUBSET Nat /\ MASK_2 \in SUBSET Nat
  BY DEF MASK_4, MASK_2

(* A setter of a four-bit field leaves the flags, the positions and the    *)
(* other four-bit fields.                                                  *)
LEMMA SetFourBits ==
    ASSUME NEW w, Word(w), NEW v \in SUBSET MASK_4, NEW s \in Shifts
    PROVE  LET x == Set(w, v, MASK_4, s)
           IN  /\ Word(x) /\ Get(x, MASK_4, s) = v
               /\ \A r \in Shifts : r # s => Get(x, MASK_4, r) = Get(w, MASK_4, r)
               /\ RdBits(x) = RdBits(w) /\ WrBits(x) = WrBits(w)
               /\ IsQueued(x) = IsQueued(w) /\ IsDropped(x) = IsDropped(w)
  <1> DEFINE x == Set(w, v, MASK_4, s)
  <1>1. s \in {0, 4, 8} /\ s \in Nat
    BY DEF Shifts, READINESS_SHIFT, INTEREST_SHIFT, POLL_OPT_SHIFT
  <1>2. /\ Word(x)
        /\ \A b \in Nat : (\A i \in MASK_4 : b # i + s) => (b \in x <=> b \in w)
    BY <1>1, FieldSizes, SetBit
  <1>3. Get(x, MASK_4, s) = v
    BY <1>1, FieldSizes, GetSetSame
  <1>4. ASSUME NEW r \in Shifts, r # s
        PROVE  Get(x, MASK_4, r) = Get(w, MASK_4, r)
    <2>1. r \in {0, 4, 8} /\ r \in Nat
      BY DEF Shifts, READINESS_SHIFT, INTEREST_SHIFT, POLL_OPT_SHIFT
    <2>2. \A i \in MASK_4, j \in MASK_4 : i + s # j + r
      BY <1>1, <1>4, <2>1 DEF MASK_4
    <2> QED
      BY <1>1, <2>1, <2>2, FieldSizes, GetSetOther
  <1>5. RdBits(x) = RdBits(w) /\ WrBits(x) = WrBits(w)
    <2>1. \A i \in MASK_4, j \in MASK_2 : i + s # j + 12 /\ i + s # j + 14
      BY <1>1 DEF MASK_4, MASK_2
    <2> QED
      BY <1>1, <2>1, FieldSizes, GetSetOther
      DEF RdBits, WrBits, TOKEN_RD_SHIFT, TOKEN_WR_SHIFT
  <1>6. 16 \in x <=> 16 \in w
    BY <1>1, <1>2 DEF MASK_4
  <1>7. 17 \in x <=> 17 \in w
    BY <1>1, <1>2 DEF MASK_4
  <1> HIDE DEF x
  <1>8. IsQueued(x) = IsQueued(w) /\ IsDropped(x) = IsDropped(w)
    BY <1>6, <1>7 DEF IsQueued, IsDropped, ContainsBits, QUEUED_MASK, DROPPED_MASK
  <1> QED
    BY <1>2, <1>3, <1>4, <1>5, <1>8 DEF x

(* A setter of a position leaves everything but that position.             *)
LEMMA SetTwoBits ==
    ASSUME NEW w, Word(w), NEW v \in SUBSET MASK_2,
           NEW s \in {TOKEN_RD_SHIFT, TOKEN_WR_SHIFT}
    PROVE  LET x == Set(w, v, MASK_2, s)
           IN  /\ Word(x) /\ Get(x, MASK_2, s) = v
               /\ \A r \in Shifts : Get(x, MASK_4, r) = Get(w, MASK_4, r)
               /\ s # TOKEN_RD_SHIFT => RdBits(x) = RdBits(w)
               /\ s # TOKEN_WR_SHIFT => WrBits(x) = WrBits(w)
               /\ IsQueued(x) = IsQueued(w) /\ IsDropped(x) = IsDropped(w)
  <1> DEFINE x == Set(w, v, MASK_2, s)
  <1>1. s \in {12, 14} /\ s \in Nat
    BY DEF TOKEN_RD_SHIFT, TOKEN_WR_SHIFT
  <1>2. /\ Word(x)
        /\ \A b \in Nat : (\A i \in MASK_2 : b # i + s) => (b \in x <=> b \in w)
    BY <1>1, FieldSizes, SetBit
  <1>3. Get(x, MASK_2, s) = v
    BY <1>1, FieldSizes, GetSetSame
  <1>4. ASSUME NEW r \in Shifts
        PROVE  Get(x, MASK_4, r) = Get(w, MASK_4, r)
    <2>1. r \in {0, 4, 8} /\ r \in Nat
      BY DEF Shifts, READINESS_SHIFT, INTEREST_SHIFT, POLL_OPT_SHIFT
    <2>2. \A i \in MASK_2, j \in MASK_4 : i + s # j + r
      BY <1>1, <2>1 DEF MASK_4, MASK_2
    <2> QED
      BY <1>1, <2>1, <2>2, FieldSizes, GetSetOther
  <1>5. s # TOKEN_RD_SHIFT => RdBits(x) = RdBits(w)
    <2>1. s # 12 => \A i \in MASK_2, j \in MASK_2 : i + s # j + 12
      BY <1>1 DEF MASK_2
    <2> QED
      BY <1>1, <2>1, FieldSizes, GetSetOther DEF RdBits, TOKEN_RD_SHIFT
  <1>6. s # TOKEN_WR_SHIFT => WrBits(x) = WrBits(w)
    <2>1. s # 14 => \A i \in MASK_2, j \in MASK_2 : i + s # j + 14
      BY <1>1 DEF MASK_2
    <2> QED
      BY <1>1, <2>1, FieldSizes, GetSetOther DEF WrBits, TOKEN_WR_SHIFT
  <1>7. 16 \in x <=> 16 \in w
    BY <1>1, <1>2 DEF MASK_2
  <1>8. 17 \in x <=> 17 \in w
    BY <1>1, <1>2 DEF MASK_2
  <1> HIDE DEF x
  <1>9. IsQueued(x) = IsQueued(w) /\ IsDropped(x) = IsDropped(w)
    BY <1>7, <1>8 DEF IsQueued, IsDropped, ContainsBits, QUEUED_MASK, DROPPED_MASK
  <1> QED
    BY <1>2, <1>3, <1>4, <1>5, <1>6, <1>9 DEF x

(* Words that differ in the flags only have the same fields.               *)
LEMMA FlagsAreApart ==
    ASSUME NEW w, Word(w), NEW x, Word(x),
           \A b \in 0..15 : b \in x <=> b \in w
    PROVE  /\ \A r \in Shifts : Get(x, MASK_4, r) = Get(w, MASK_4, r)
           /\ RdBits(x) = RdBits(w) /\ WrBits(x) = WrBits(w)
  <1>1. ASSUME NEW r \in {0, 4, 8}
        PROVE  Get(x, MASK_4, r) = Get(w, MASK_4, r)
    <2>1. /\ \A j : j \in Get(x, MASK_4, r) <=> j \in MASK_4 /\ j + r \in x
          /\ \A j : j \in Get(w, MASK_4, r) <=> j \in MASK_4 /\ j + r \in w
      BY FieldSizes, GetBit
    <2>2. \A j \in MASK_4 : j + r \in 0..15
      BY DEF MASK_4
    <2>3. \A j \in MASK_4 : j + r \in x <=> j + r \in w
      BY <2>2
    <2> QED
      BY <2>1, <2>3
  <1>2. ASSUME NEW r \in {12, 14}
        PROVE  Get(x, MASK_2, r) = Get(w, MASK_2, r)
    <2>1. /\ \A j : j \in Get(x, MASK_2, r) <=> j \in MASK_2 /\ j + r \in x
          /\ \A j : j \in Get(w, MASK_2, r) <=> j \in MASK_2 /\ j + r \in w
      BY FieldSizes, GetBit
    <2>2. \A j \in MASK_2 : j + r \in 0..15
      BY DEF MASK_2
    <2>3. \A j \in MASK_2 : j + r \in x <=> j + r \in w
      BY <2>2
    <2> QED
      BY <2>1, <2>3
  <1> QED
    BY <1>1, <1>2 DEF Shifts, READINESS_SHIFT, INTEREST_SHIFT, POLL_OPT_SHIFT,
       RdBits, WrBits, TOKEN_RD_SHIFT, TOKEN_WR_SHIFT

(* A slot position survives being stored in two bits.                      *)
LEMMA PosOfBitsOf ==
    \A p \in Slots : BitsOf(p) \in SUBSET MASK_2 /\ PosOf(BitsOf(p)) = p
  BY DEF BitsOf, PosOf, Slots, MASK_2
-----------------------------------------------------------------------------
(* What the code's own operations on the word do to its fields.            *)
SameFields(x, w) ==
    /\ Readiness(x) = Readiness(w) /\ Interest(x) = Interest(w)
    /\ PollOpt(x) = PollOpt(w) /\ RdBits(x) = RdBits(w) /\ WrBits(x) = WrBits(w)

LEMMA FlagOperations ==
    ASSUME NEW w, Word(w)
    PROVE  /\ LET x == SetQueued(w)
              IN  /\ Word(x) /\ SameFields(x, w)
                  /\ IsQueued(x) /\ (IsDropped(x) <=> IsDropped(w))
           /\ LET x == SetDequeued(w)
              IN  /\ Word(x) /\ SameFields(x, w)
                  /\ ~IsQueued(x) /\ (IsDropped(x) <=> IsDropped(w))
           /\ LET x == FlagDropped(w)
              IN  Word(x) /\ SameFields(x, w) /\ IsQueued(x) /\ IsDropped(x)
  <1>1. ASSUME NEW x, Word(x), \A b \in 0..15 : b \in x <=> b \in w
        PROVE  SameFields(x, w)
    BY <1>1, FlagsAreApart DEF SameFields, Shifts, Readiness, Interest, PollOpt
  <1>2. /\ Word(SetQueued(w)) /\ 16 \in SetQueued(w)
        /\ 17 \in SetQueued(w) <=> 17 \in w
        /\ \A b \in 0..15 : b \in SetQueued(w) <=> b \in w
    BY DEF SetQueued, QUEUED_MASK, Word
  <1>3. /\ Word(SetDequeued(w)) /\ 16 \notin SetDequeued(w)
        /\ 17 \in SetDequeued(w) <=> 17 \in w
        /\ \A b \in 0..15 : b \in SetDequeued(w) <=> b \in w
    BY DEF SetDequeued, QUEUED_MASK, Word
  <1>4. /\ Word(FlagDropped(w)) /\ 16 \in FlagDropped(w) /\ 17 \in FlagDropped(w)
        /\ \A b \in 0..15 : b \in FlagDropped(w) <=> b \in w
    BY DEF FlagDropped, QUEUED_MASK, DROPPED_MASK, Word
  <1>5. \A x : (IsQueued(x) <=> 16 \in x) /\ (IsDropped(x) <=> 17 \in x)
    BY DEF IsQueued, IsDropped, ContainsBits, QUEUED_MASK, DROPPED_MASK
  <1> QED
    BY <1>1, <1>2, <1>3, <1>4, <1>5

LEMMA QueueIfEffectiveFields ==
    ASSUME NEW w, Word(w)
    PROVE  LET x == QueueIfEffective(w)
           IN  /\ Word(x) /\ SameFields(x, w)
               /\ IsQueued(x) <=> IsQueued(w) \/ Effective(w) # {}
               /\ IsDropped(x) <=> IsDropped(w)
  <1>1. CASE Effective(w) = {}
    BY <1>1 DEF QueueIfEffective, SameFields
  <1>2. CASE Effective(w) # {}
    BY <1>2, FlagOperations DEF QueueIfEffective
  <1> QED
    BY <1>1, <1>2

(* set_readiness.                                                          *)
LEMMA ReadiedWordFields ==
    ASSUME NEW w, Word(w), NEW v \in SUBSET MASK_4
    PROVE  LET x == ReadiedWord(w, v)
           IN  /\ Word(x) /\ Readiness(x) = v /\ Interest(x) = Interest(w)
               /\ PollOpt(x) = PollOpt(w)
               /\ RdBits(x) = RdBits(w) /\ WrBits(x) = WrBits(w)
               /\ IsQueued(x) <=> IsQueued(w) \/ v \cap Interest(w) # {}
               /\ IsDropped(x) <=> IsDropped(w)
  <1> DEFINE y == SetReadinessBits(w, v)
  <1>1. READINESS_SHIFT # INTEREST_SHIFT /\ READINESS_SHIFT # POLL_OPT_SHIFT
    BY DEF READINESS_SHIFT, INTEREST_SHIFT, POLL_OPT_SHIFT
  <1>2. /\ Word(y) /\ Readiness(y) = v /\ Interest(y) = Interest(w)
        /\ PollOpt(y) = PollOpt(w) /\ RdBits(y) = RdBits(w) /\ WrBits(y) = WrBits(w)
        /\ IsQueued(y) = IsQueued(w) /\ IsDropped(y) = IsDropped(w)
    BY <1>1, SetFourBits DEF SetReadinessBits, Readiness, Interest, PollOpt, Shifts
  <1> HIDE DEF y
  <1>3. LET x == QueueIfEffective(y)
        IN  /\ Word(x) /\ SameFields(x, y)
            /\ IsQueued(x) <=> IsQueued(y) \/ Effective(y) # {}
            /\ IsDropped(x) <=> IsDropped(y)
    BY <1>2, QueueIfEffectiveFields
  <1>4. ReadiedWord(w, v) = QueueIfEffective(y) /\ Effective(y) = v \cap Interest(w)
    BY <1>2 DEF ReadiedWord, Effective, y
  <1> QED
    BY <1>2, <1>3, <1>4 DEF SameFields

(* update.                                                                 *)
LEMMA UpdatedWordFields ==
    ASSUME NEW w, Word(w), NEW p \in Slots, NEW v \in SUBSET MASK_4,
           NEW o \in SUBSET MASK_4
    PROVE  LET x == UpdatedWord(w, p, v, o)
           IN  /\ Word(x) /\ Readiness(x) = Readiness(w) /\ Interest(x) = v
               /\ PollOpt(x) = o
               /\ RdBits(x) = RdBits(w) /\ WrBits(x) = BitsOf(p)
               /\ IsQueued(x) <=> IsQueued(w) \/ Readiness(w) \cap v # {}
               /\ IsDropped(x) <=> IsDropped(w)
  <1> DEFINE a == SetTokenWritePos(w, p)
             b == SetInterest(a, v)
             c == SetPollOpt(b, o)
  <1>1. /\ READINESS_SHIFT # INTEREST_SHIFT /\ READINESS_SHIFT # POLL_OPT_SHIFT
        /\ INTEREST_SHIFT # POLL_OPT_SHIFT /\ TOKEN_WR_SHIFT # TOKEN_RD_SHIFT
    BY DEF READINESS_SHIFT, INTEREST_SHIFT, POLL_OPT_SHIFT, TOKEN_RD_SHIFT, TOKEN_WR_SHIFT
  <1>2. /\ Word(a) /\ Readiness(a) = Readiness(w) 
        /\ RdBits(a) = RdBits(w) /\ WrBits(a) = BitsOf(p)
        /\ IsQueued(a) = IsQueued(w) /\ IsDropped(a) = IsDropped(w)
    BY <1>1, SetTwoBits, PosOfBitsOf DEF SetTokenWritePos, Readiness, Shifts, WrBits
  <1> HIDE DEF a
  <1>3. /\ Word(b) /\ Readiness(b) = Readiness(a) /\ Interest(b) = v
        /\ RdBits(b) = RdBits(a) /\ WrBits(b) = WrBits(a)
        /\ IsQueued(b) = IsQueued(a) /\ IsDropped(b) = IsDropped(a)
    BY <1>1, <1>2, SetFourBits DEF SetInterest, Readiness, Interest, Shifts
  <1> HIDE DEF b
  <1>4. /\ Word(c) /\ Readiness(c) = Readiness(b) /\ Interest(c) = Interest(b)
        /\ PollOpt(c) = o /\ RdBits(c) = RdBits(b) /\ WrBits(c) = WrBits(b)
        /\ IsQueued(c) = IsQueued(b) /\ IsDropped(c) = IsDropped(b)
    BY <1>1, <1>3, SetFourBits DEF SetPollOpt, Readiness, Interest, PollOpt, Shifts
  <1> HIDE DEF c
  <1>5. LET x == QueueIfEffective(c)
        IN  /\ Word(x) /\ SameFields(x, c)
            /\ IsQueued(x) <=> IsQueued(c) \/ Effective(c) # {}
            /\ IsDropped(x) <=> IsDropped(c)
    BY <1>4, QueueIfEffectiveFields
  <1>6. UpdatedWord(w, p, v, o) = QueueIfEffective(c)
    BY DEF UpdatedWord, a, b, c
  <1>7. Effective(c) = Readiness(w) \cap v
    BY <1>2, <1>3, <1>4 DEF Effective
  <1> QED
    BY <1>2, <1>3, <1>4, <1>5, <1>6, <1>7 DEF SameFields

(* poll.                                                                   *)
LEMMA PolledWordFields ==
    ASSUME NEW w, Word(w)
    PROVE  LET x == PolledWord(w)
               some == Effective(w) # {}
           IN  /\ Word(x) /\ Readiness(x) = Readiness(w) /\ PollOpt(x) = PollOpt(w)
               /\ Interest(x) = IF IsEdge(PollOpt(w)) /\ IsOneshot(PollOpt(w)) /\ some
                                THEN {} ELSE Interest(w)
               /\ RdBits(x) = WrBits(w) /\ WrBits(x) = WrBits(w)
               /\ IsQueued(x) <=> IsQueued(w) /\ ~IsEdge(PollOpt(w)) /\ some
               /\ IsDropped(x) <=> IsDropped(w)
  <1> DEFINE some == Effective(w) # {}
             edge == IsEdge(PollOpt(w))
             fires == IsEdge(PollOpt(w)) /\ IsOneshot(PollOpt(w)) /\ Effective(w) # {}
             a == IF IsEdge(PollOpt(w)) \/ Effective(w) = {} THEN SetDequeued(w) ELSE w
             b == IF fires THEN Disarm(a) ELSE a
             c == UpdateTokenReadPos(b)
  <1>1. /\ READINESS_SHIFT # INTEREST_SHIFT /\ INTEREST_SHIFT # POLL_OPT_SHIFT
        /\ TOKEN_WR_SHIFT # TOKEN_RD_SHIFT
    BY DEF READINESS_SHIFT, INTEREST_SHIFT, POLL_OPT_SHIFT, TOKEN_RD_SHIFT, TOKEN_WR_SHIFT
  <1>2. PolledWord(w) = c
    BY DEF PolledWord
  <1>3. /\ Word(a) /\ SameFields(a, w) /\ (IsDropped(a) <=> IsDropped(w))
        /\ IsQueued(a) <=> IsQueued(w) /\ ~edge /\ some
    <2>1. CASE edge \/ ~some
      <3>1. a = SetDequeued(w)
        BY <2>1
      <3> QED
        BY <2>1, <3>1, FlagOperations
    <2>2. CASE ~(edge \/ ~some)
      BY <2>2 DEF SameFields
    <2> QED
      BY <2>1, <2>2
  <1> HIDE DEF a, edge, some
  <1>4. /\ Word(b) /\ Readiness(b) = Readiness(a) /\ PollOpt(b) = PollOpt(a)
        /\ Interest(b) = IF fires THEN {} ELSE Interest(a)
        /\ RdBits(b) = RdBits(a) /\ WrBits(b) = WrBits(a)
        /\ (IsQueued(b) <=> IsQueued(a)) /\ (IsDropped(b) <=> IsDropped(a))
    <2>1. CASE fires
      <3>1. b = Set(a, {}, MASK_4, INTEREST_SHIFT)
        BY <2>1 DEF Disarm, SetInterest
      <3> QED
        BY <1>1, <1>3, <2>1, <3>1, SetFourBits DEF Readiness, Interest, PollOpt, Shifts
    <2>2. CASE ~fires
      BY <1>3, <2>2
    <2> QED
      BY <2>1, <2>2
  <1> HIDE DEF b, fires
  <1>5. WrBits(b) \in SUBSET MASK_2
    BY DEF WrBits, Get
  <1>6. /\ Word(c) /\ Readiness(c) = Readiness(b) /\ PollOpt(c) = PollOpt(b)
        /\ Interest(c) = Interest(b) /\ RdBits(c) = WrBits(b) /\ WrBits(c) = WrBits(b)
        /\ (IsQueued(c) <=> IsQueued(b)) /\ (IsDropped(c) <=> IsDropped(b))
    <2>1. c = Set(b, WrBits(b), MASK_2, TOKEN_RD_SHIFT)
      BY DEF UpdateTokenReadPos, WrBits
    <2>2. RdBits(c) = Get(c, MASK_2, TOKEN_RD_SHIFT)
      BY DEF RdBits
    <2> QED
      BY <1>1, <1>4, <1>5, <2>1, <2>2, SetTwoBits DEF Readiness, Interest, PollOpt, Shifts
  <1> HIDE DEF c
  <1> QED
    BY <1>2, <1>3, <1>4, <1>6 DEF SameFields, edge, some, fires
-----------------------------------------------------------------------------
(* A step with the word is a step without it.                              *)
LEMMA WNextIsNext == [WNext]_wvars => [Next]_vars
  <1>1. ASSUME Elsewhere PROVE Next
    BY <1>1 DEF Elsewhere, Next, UpdateStep, PollerStep, Users
  <1>2. ASSUME WProcess \/ (\E u \in Updaters : WCommit(u)) PROVE Next
    BY <1>2 DEF WProcess, WCommit, Next, UpdateStep, PollerStep
  <1>3. ASSUME \E s \in Setters : (\E r \in BOOLEAN : WSetReadiness(s, r)) \/ WDrop(s)
        PROVE  Next
    BY <1>3 DEF WSetReadiness, WDrop, Next
  <1> QED
    BY <1>1, <1>2, <1>3 DEF WNext, wvars

(* Every behaviour of the packed state is one of Registration, so all that *)
(* is proved of Registration is true of it.                                *)
THEOREM WordRefinesRegistration == WSpec => Spec
  BY WNextIsNext, PTL DEF WSpec, WInit, Spec

(* The inductive invariant; Process needs to know from QInv that the node  *)
(* it has taken is flagged.                                                *)
WInv == Word(word) /\ WordHoldsState

LEMMA FlagsBoolean ==
    \A x : /\ IsEdge(x) \in BOOLEAN /\ IsOneshot(x) \in BOOLEAN
           /\ IsQueued(x) \in BOOLEAN /\ IsDropped(x) \in BOOLEAN
  BY DEF IsEdge, IsOneshot, IsQueued, IsDropped, ContainsBits

LEMMA ArgumentsFit ==
    /\ \A r \in BOOLEAN : ReadyBitsOf(r) \in SUBSET MASK_4
    /\ \A c \in Calls : /\ InterestOf(c) \in SUBSET MASK_4
                        /\ InterestOf(c) = IF c.interest THEN InterestValue ELSE {}
                        /\ OptOf(c) \in SUBSET MASK_4
                        /\ IsEdge(OptOf(c)) <=> c.opt # "level"
                        /\ IsEdge(OptOf(c)) => (IsOneshot(OptOf(c)) <=> c.opt = "oneshot")
  <1>1. \A r \in BOOLEAN : ReadyBitsOf(r) \in SUBSET MASK_4
    BY ValuesFit DEF ReadyBitsOf
  <1>2. ASSUME NEW c \in Calls
        PROVE  /\ InterestOf(c) \in SUBSET MASK_4
               /\ InterestOf(c) = IF c.interest THEN InterestValue ELSE {}
    BY ValuesFit DEF InterestOf
  <1>3. EDGE \cup ONESHOT \cup LEVEL \in SUBSET MASK_4
    BY DEF EDGE, ONESHOT, LEVEL, MASK_4
  <1>4. /\ IsEdge(EDGE) /\ ~IsOneshot(EDGE)
        /\ IsEdge(EDGE \cup ONESHOT) /\ IsOneshot(EDGE \cup ONESHOT)
        /\ ~IsEdge(LEVEL) /\ ~IsEdge({})
    BY DEF IsEdge, IsOneshot, ContainsBits, EDGE, ONESHOT, LEVEL
  <1>5. ASSUME NEW c \in Calls
        PROVE  \/ c.interest = FALSE /\ c.opt = "level"
               \/ c.interest = TRUE /\ c.opt \in {"edge", "oneshot", "level"}
    <2>1. \/ c \in [token : Tokens, interest : {TRUE}, opt : Opts, register : BOOLEAN]
          \/ c = NoCall
      BY Zenon DEF Calls, NoCall
    <2>2. NoCall.interest = FALSE /\ NoCall.opt = "level"
      BY DEF NoCall
    <2>3. CASE c \in [token : Tokens, interest : {TRUE}, opt : Opts, register : BOOLEAN]
      BY <2>3, OptsAssumption
    <2> QED
      BY <2>1, <2>2, <2>3
  <1>6. ASSUME NEW c \in Calls
        PROVE  \/ OptOf(c) = {} /\ c.opt = "level"
               \/ OptOf(c) = EDGE /\ c.opt = "edge"
               \/ OptOf(c) = EDGE \cup ONESHOT /\ c.opt = "oneshot"
               \/ OptOf(c) = LEVEL /\ c.opt = "level"
    BY <1>5 DEF OptOf
  <1>7. ASSUME NEW c \in Calls
        PROVE  /\ OptOf(c) \in SUBSET MASK_4
               /\ IsEdge(OptOf(c)) <=> c.opt # "level"
               /\ IsEdge(OptOf(c)) => (IsOneshot(OptOf(c)) <=> c.opt = "oneshot")
    BY <1>3, <1>4, <1>6
  <1> QED
    BY <1>1, <1>2, <1>7

(* Both sides agree on when a node is effectively ready.                   *)
LEMMA EffectiveAgrees ==
    ASSUME NEW r \in BOOLEAN, NEW i \in BOOLEAN
    PROVE  ReadyBitsOf(r) \cap (IF i THEN InterestValue ELSE {}) # {} <=> r /\ i
  BY ValuesFit DEF ReadyBitsOf

LEMMA InitEstablishesWInv == WInit => WInv
  <1> SUFFICES ASSUME WInit PROVE WInv
    OBVIOUS
  <1>1. word = {}
    BY DEF WInit, NewWord, ShiftLeft
  <1>2. \A m, s : Get({}, m, s) = {}
    BY DEF Get, ShiftRight
  <1>3. PosOf({}) = 0
    BY DEF PosOf
  <1>4. ~IsEdge({}) /\ ~IsQueued({}) /\ ~IsDropped({})
    BY DEF IsEdge, IsQueued, IsDropped, ContainsBits, EDGE, QUEUED_MASK, DROPPED_MASK
  <1>5. state = NewState
    BY DEF WInit, Init
  <1> QED
    BY <1>1, <1>2, <1>3, <1>4, <1>5, FlagsBoolean
    DEF WInv, WordHoldsState, Word, NewState, Readiness, Interest, PollOpt,
        TokenReadPos, TokenWritePos, ReadyBitsOf

LEMMA WSetReadinessKeeps ==
    ASSUME IInv, WInv, NEW s \in Setters, NEW r \in BOOLEAN, WSetReadiness(s, r)
    PROVE  WInv'
  <1> DEFINE v == ReadyBitsOf(r)
  <1>1. /\ state'.ready = r /\ state'.interest = state.interest
        /\ state'.opt = state.opt /\ state'.rd = state.rd /\ state'.wr = state.wr
        /\ state'.dropped = state.dropped
        /\ state'.queued = (state.queued \/ (r /\ state.interest))
    BY DEF WSetReadiness, SetReadiness, Queue, EffectiveReadiness, IInv, TypeOK
  <1>2. v \in SUBSET MASK_4
    BY ArgumentsFit
  <1> HIDE DEF v
  <1>3. word' = ReadiedWord(word, v) /\ Word(word)
    BY DEF WSetReadiness, WInv, v
  <1>4. /\ Word(word') /\ Readiness(word') = v /\ Interest(word') = Interest(word)
        /\ PollOpt(word') = PollOpt(word)
        /\ RdBits(word') = RdBits(word) /\ WrBits(word') = WrBits(word)
        /\ IsQueued(word') <=> IsQueued(word) \/ v \cap Interest(word) # {}
        /\ IsDropped(word') <=> IsDropped(word)
    BY <1>2, <1>3, ReadiedWordFields
  <1>5. v \cap Interest(word) # {} <=> r /\ state.interest
    BY EffectiveAgrees DEF v, WInv, WordHoldsState, IInv, TypeOK
  <1> QED
    BY <1>1, <1>4, <1>5, FlagsBoolean
    DEF v, WInv, WordHoldsState, TokenReadPos, TokenWritePos, RdBits, WrBits, IInv, TypeOK
LEMMA WCommitKeeps ==
    ASSUME IInv, WInv, NEW u \in Updaters, WCommit(u)
    PROVE  WInv'
  <1> DEFINE v == InterestOf(call[u])
             o == OptOf(call[u])
             q == pos[u]
  <1>1. call[u] \in Calls /\ q \in Slots
    BY DEF IInv, TypeOK, Users
  <1>2. call[u].interest \in BOOLEAN /\ call[u].opt \in Opts
    BY <1>1, CallsType
  <1>3. /\ state'.ready = state.ready /\ state'.interest = call[u].interest
        /\ state'.opt = call[u].opt /\ state'.rd = state.rd /\ state'.wr = q
        /\ state'.dropped = state.dropped
        /\ state'.queued = (state.queued \/ (state.ready /\ call[u].interest))
    BY <1>1, <1>2 DEF WCommit, Commit, Queue, EffectiveReadiness, IInv, TypeOK
  <1>4. /\ v \in SUBSET MASK_4 /\ o \in SUBSET MASK_4
        /\ v = IF call[u].interest THEN InterestValue ELSE {}
        /\ IsEdge(o) <=> call[u].opt # "level"
        /\ IsEdge(o) => (IsOneshot(o) <=> call[u].opt = "oneshot")
    BY <1>1, ArgumentsFit
  <1>5. word' = UpdatedWord(word, q, v, o) /\ Word(word)
    BY DEF WCommit, WInv
  <1> HIDE DEF v, o, q
  <1>6. /\ Word(word') /\ Readiness(word') = Readiness(word) /\ Interest(word') = v
        /\ PollOpt(word') = o
        /\ RdBits(word') = RdBits(word) /\ WrBits(word') = BitsOf(q)
        /\ IsQueued(word') <=> IsQueued(word) \/ Readiness(word) \cap v # {}
        /\ IsDropped(word') <=> IsDropped(word)
    BY <1>1, <1>4, <1>5, UpdatedWordFields
  <1>7. Readiness(word) \cap v # {} <=> state.ready /\ call[u].interest
    BY <1>2, <1>4, EffectiveAgrees DEF WInv, WordHoldsState, IInv, TypeOK
  <1>8. PosOf(BitsOf(q)) = q
    BY <1>1, PosOfBitsOf
  <1> QED
    BY <1>2, <1>3, <1>4, <1>6, <1>7, <1>8, FlagsBoolean
    DEF WInv, WordHoldsState, TokenReadPos, TokenWritePos, RdBits, WrBits, IInv, TypeOK

LEMMA WDropKeeps ==
    ASSUME IInv, WInv, NEW s \in Setters, WDrop(s)
    PROVE  WInv'
  <1>1. /\ state'.ready = state.ready /\ state'.interest = state.interest
        /\ state'.opt = state.opt /\ state'.rd = state.rd /\ state'.wr = state.wr
        /\ state'.dropped = TRUE /\ state'.queued = TRUE
    BY DEF WDrop, DropRegistration, IInv, TypeOK
  <1>2. Word(word') /\ SameFields(word', word) /\ IsQueued(word') /\ IsDropped(word')
    BY FlagOperations DEF WDrop, WInv
  <1> QED
    BY <1>1, <1>2, FlagsBoolean
    DEF WInv, WordHoldsState, SameFields, TokenReadPos, TokenWritePos, RdBits, WrBits

LEMMA WProcessKeeps ==
    ASSUME IInv, QInv, WInv, WProcess
    PROVE  WInv'
  <1> DEFINE some == state.ready /\ state.interest
  <1>1. state.queued = TRUE
    BY DEF QInv, HeldIffQueued, PollerHas, WProcess, Process, PollerAt, IInv, TypeOK
  <1>2. /\ state'.ready = state.ready /\ state'.opt = state.opt
        /\ state'.interest = (state.interest /\ ~(state.opt = "oneshot" /\ some))
        /\ state'.rd = state.wr /\ state'.wr = state.wr
        /\ state'.dropped = state.dropped
        /\ state'.queued = (state.opt = "level" /\ some)
    BY DEF WProcess, Process, EffectiveReadiness, IInv, TypeOK
  <1>3. Effective(word) # {} <=> some
    BY EffectiveAgrees DEF Effective, WInv, WordHoldsState, IInv, TypeOK
  <1>4. word' = PolledWord(word) /\ Word(word)
    BY DEF WProcess, WInv
  <1>5. /\ Word(word') /\ Readiness(word') = Readiness(word)
        /\ PollOpt(word') = PollOpt(word)
        /\ Interest(word') = IF /\ IsEdge(PollOpt(word)) /\ IsOneshot(PollOpt(word))
                                /\ Effective(word) # {}
                             THEN {} ELSE Interest(word)
        /\ RdBits(word') = WrBits(word) /\ WrBits(word') = WrBits(word)
        /\ IsQueued(word') <=> /\ IsQueued(word) /\ ~IsEdge(PollOpt(word))
                               /\ Effective(word) # {}
        /\ IsDropped(word') <=> IsDropped(word)
    BY <1>4, PolledWordFields
  <1>6. /\ IsEdge(PollOpt(word)) <=> state.opt # "level"
        /\ IsEdge(PollOpt(word)) => (IsOneshot(PollOpt(word)) <=> state.opt = "oneshot")
        /\ IsQueued(word)
    BY <1>1, FlagsBoolean DEF WInv, WordHoldsState
  <1>7. Interest(word') = IF state'.interest THEN InterestValue ELSE {}
    BY <1>2, <1>3, <1>5, <1>6 DEF WInv, WordHoldsState, IInv, TypeOK
  <1>8. IsQueued(word') <=> state'.queued
    BY <1>2, <1>3, <1>5, <1>6
  <1>9. state'.queued \in BOOLEAN
    BY <1>2
  <1> QED
    BY <1>2, <1>5, <1>7, <1>8, <1>9, FlagsBoolean
    DEF WInv, WordHoldsState, TokenReadPos, TokenWritePos, RdBits, WrBits

LEMMA NextKeepsWInv == IInv /\ QInv /\ WInv /\ [WNext]_wvars => WInv'
  <1> SUFFICES ASSUME IInv, QInv, WInv, [WNext]_wvars PROVE WInv'
    OBVIOUS
  <1>1. CASE UNCHANGED <<state, word>>
    BY <1>1 DEF WInv, WordHoldsState
  <1>2. CASE Elsewhere
    <2>1. UNCHANGED <<state, word>>
      BY <1>2 DEF Elsewhere, CallUpdate, TryUpdateLock, ChooseSlot, WriteToken,
         UnlockUpdate, WriteJob, EnqueueNode, TakeNode, ProcessDropped, Requeue,
         ReportEvent, ResetJob
    <2> QED
      BY <1>1, <2>1
  <1> QED
    BY <1>1, <1>2, WCommitKeeps, WSetReadinessKeeps, WDropKeeps, WProcessKeeps
    DEF WNext, wvars, vars

(* The packed word always says what the record of Registration says: no    *)
(* shift, mask or fetch_or of ReadinessState reaches into another field.   *)
THEOREM WordHoldsStateAlways == WSpec => []WordHoldsState
  <1>1. WInv => WordHoldsState
    BY DEF WInv
  <1>2. WSpec => [](IInv /\ QInv)
    BY WordRefinesRegistration, SpecImpliesIInv, SpecImpliesQInv, PTL
  <1> QED
    BY <1>1, <1>2, InitEstablishesWInv, NextKeepsWInv, PTL DEF WSpec
=============================================================================
