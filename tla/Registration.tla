---------------------------- MODULE Registration ----------------------------
(***************************************************************************)
(* One registration's node (src/poll.rs, ReadinessNode): its state word,   *)
(* its three token slots, its job, and the threads that use them.          *)
(*                                                                         *)
(*  - updaters call Registration::update (register, reregister, deregister)*)
(*    through a shared reference, so several may be inside it at once;     *)
(*  - setters call SetReadiness::set_readiness;                            *)
(*  - the poller takes the node from the readiness queue and reports it.   *)
(*                                                                         *)
(* The readiness queue itself is abstracted to "the node is in it", which  *)
(* ReadinessQueue refines.  Accesses to the token slots and the job, which *)
(* are plain memory, are locations of their own so that two of them can be *)
(* seen to overlap.                                                        *)
(***************************************************************************)
EXTENDS Naturals

CONSTANTS Updaters, Setters,
          Tokens,       \* the tokens (each with its job) users register with
          Opts,         \* the poll options they register with
          NoToken,      \* Token(0), of a new2 node and of deregister
          Noop          \* the empty closure

ASSUME ThreadsAssumption == Updaters \cap Setters = {}
ASSUME OptsAssumption == "level" \in Opts /\ Opts \subseteq {"edge", "oneshot", "level"}
ASSUME ValuesAssumption == NoToken \notin Tokens /\ Noop \notin Tokens \cup {NoToken}

Slots == 0..2
Users == Updaters \cup Setters

(* The arguments of update: register brings a job, reregister does not, and*)
(* deregister clears everything.                                           *)
Calls == [token : Tokens, interest : {TRUE}, opt : Opts, register : BOOLEAN]
            \cup {[token |-> NoToken, interest |-> FALSE, opt |-> "level",
                   register |-> FALSE]}

VARIABLES
    state,          \* ReadinessState: a record of its fields
    token,          \* token_0, token_1, token_2
    job,            \* the closure to hand out with the next event
    attached,       \* readiness_queue is not null
    update_lock,    \* AtomicBool
    inQueue,        \* the node is in the readiness queue
    pc,             \* where each user is
    call,           \* the arguments of a user's update
    pos,            \* its local next_token_pos
    fromPos,        \* its local curr_token_pos
    poller          \* where the poller is

vars == <<state, token, job, attached, update_lock, inQueue, pc, call, pos,
          fromPos, poller>>

NoCall == [token |-> NoToken, interest |-> FALSE, opt |-> "level", register |-> FALSE]

(* The state word of a node of Registration::new2.  Options without the    *)
(* edge bit behave as "level".                                             *)
NewState == [ready |-> FALSE, interest |-> FALSE, opt |-> "level",
             rd |-> 0, wr |-> 0, queued |-> FALSE, dropped |-> FALSE]

Init ==
    /\ state = NewState
    /\ token = [s \in Slots |-> NoToken]
    /\ job = Noop
    /\ attached = FALSE
    /\ update_lock = FALSE
    /\ inQueue = FALSE
    /\ pc = [u \in Users |-> "idle"]
    /\ call = [u \in Users |-> NoCall]
    /\ pos = [u \in Users |-> 0]
    /\ fromPos = [u \in Users |-> 0]
    /\ poller = "idle"

Goto(u, l) == pc' = [pc EXCEPT ![u] = l]

(* The end of a user's call: its locals are gone.                          *)
Return(u) ==
    /\ Goto(u, "idle")
    /\ call' = [call EXCEPT ![u] = NoCall]
    /\ pos' = [pos EXCEPT ![u] = 0]
    /\ fromPos' = [fromPos EXCEPT ![u] = 0]

EffectiveReadiness(s) == s.ready /\ s.interest

(* set_queued, when the new readiness is effective.                        *)
Queue(s) == [s EXCEPT !.queued = s.queued \/ EffectiveReadiness(s)]

(* Operators whose names start with Bad are mistakes that mutation runs    *)
(* substitute for the operator defined after them.                         *)

(* A slot that is neither the one last written nor the one last read.      *)
BadNextTokenPos(s) == (s.wr + 1) % 3
BadUnwrapped(s) == s.wr + 1
NextTokenPos(s) ==
    CASE s.wr = 0 -> IF s.rd = 1 THEN 2 ELSE 1
      [] s.wr = 1 -> IF s.rd = 2 THEN 0 ELSE 2
      [] s.wr = 2 -> IF s.rd = 0 THEN 1 ELSE 0

(* Whether update or set_readiness turned queued on, and so must enqueue.  *)
BadEnqueueTwice(old, new) == new.queued
MustEnqueue(old, new) == ~old.queued /\ new.queued

-----------------------------------------------------------------------------
(* update.  The node is tied to the Poll's queue first.                    *)
CallUpdate(u, c) ==
    /\ pc[u] = "idle"
    /\ ~state.dropped       \* dropping a Registration takes ownership of it
    /\ call' = [call EXCEPT ![u] = c]
    /\ attached' = TRUE
    /\ Goto(u, "lock")
    /\ UNCHANGED <<state, token, job, update_lock, inQueue, pos, fromPos, poller>>

BadUpdateLockFree == TRUE
UpdateLockFree == ~update_lock

(* update_lock is taken, or another update is running and this one returns *)
(* Ok(()) without any effect.                                              *)
TryUpdateLock(u) ==
    /\ pc[u] = "lock"
    /\ \/ /\ UpdateLockFree
          /\ update_lock' = TRUE
          /\ Goto(u, "load") /\ UNCHANGED <<call, pos, fromPos>>
       \/ ~UpdateLockFree /\ UNCHANGED update_lock /\ Return(u)
    /\ UNCHANGED <<state, token, job, attached, inQueue, poller>>

(* The state is loaded and a slot chosen, unless the token stays the same. *)
ChooseSlot(u) ==
    /\ pc[u] = "load"
    /\ fromPos' = [fromPos EXCEPT ![u] = state.wr]
    /\ IF call[u].token = token[state.wr]
       THEN pos' = [pos EXCEPT ![u] = state.wr] /\ Goto(u, "cas")
       ELSE pos' = [pos EXCEPT ![u] = NextTokenPos(state)] /\ Goto(u, "write")
    /\ UNCHANGED <<state, token, job, attached, update_lock, inQueue, call, poller>>

WriteToken(u) ==
    /\ pc[u] = "write"
    /\ token' = [token EXCEPT ![pos[u]] = call[u].token]
    /\ Goto(u, "cas")
    /\ UNCHANGED <<state, job, attached, update_lock, inQueue, call, pos, fromPos, poller>>

(* The compare-and-swap loop on the state word, up to its success.         *)
Commit(u) ==
    LET new == Queue([state EXCEPT !.wr = pos[u], !.interest = call[u].interest,
                                   !.opt = call[u].opt])
    IN  /\ pc[u] = "cas"
        /\ state' = new
        /\ Goto(u, IF MustEnqueue(state, new) THEN "unlock_enqueue" ELSE "unlock")
        /\ UNCHANGED <<token, job, attached, update_lock, inQueue, call, pos, fromPos, poller>>

UnlockUpdate(u) ==
    /\ \/ pc[u] = "unlock" /\ Return(u)
       \/ pc[u] = "unlock_enqueue" /\ Goto(u, "job") /\ UNCHANGED <<call, pos, fromPos>>
    /\ update_lock' = FALSE
    /\ UNCHANGED <<state, token, job, attached, inQueue, poller>>

(* self.node's job = job: plain memory, written after the unlock.          *)
WriteJob(u) ==
    /\ pc[u] = "job"
    /\ job' = IF call[u].register THEN call[u].token ELSE Noop
    /\ Goto(u, "enqueue")
    /\ UNCHANGED <<state, token, attached, update_lock, inQueue, call, pos, fromPos, poller>>

(* enqueue_with_wakeup; a node without a queue is not enqueued.            *)
EnqueueNode(u) ==
    /\ pc[u] = "enqueue"
    /\ inQueue' = (inQueue \/ attached)
    /\ Return(u)
    /\ UNCHANGED <<state, token, job, attached, update_lock, poller>>

UpdateStep(u) ==
    \/ TryUpdateLock(u) \/ ChooseSlot(u) \/ WriteToken(u) \/ Commit(u)
    \/ UnlockUpdate(u) \/ WriteJob(u) \/ EnqueueNode(u)

-----------------------------------------------------------------------------
(* set_readiness: a loop on the state word, then possibly an enqueue.      *)
SetReadiness(s, r) ==
    LET new == Queue([state EXCEPT !.ready = r])
    IN  /\ pc[s] = "idle"
        /\ ~state.dropped
        /\ state' = new
        /\ Goto(s, IF MustEnqueue(state, new) THEN "enqueue" ELSE "idle")
        /\ UNCHANGED <<token, job, attached, update_lock, inQueue, call, pos, fromPos, poller>>

(* Drop for Registration: no update is running any more.                   *)
DropRegistration(s) ==
    /\ pc[s] = "idle"
    /\ \A u \in Updaters : pc[u] = "idle"
    /\ ~state.dropped
    /\ state' = [state EXCEPT !.dropped = TRUE, !.queued = TRUE]
    /\ Goto(s, IF state.queued THEN "idle" ELSE "enqueue")
    /\ UNCHANGED <<token, job, attached, update_lock, inQueue, call, pos, fromPos, poller>>

-----------------------------------------------------------------------------
(* The body of the poll loop for this node.                                *)
PollerAt(l) == poller = l

TakeNode ==
    /\ PollerAt("idle") /\ inQueue
    /\ inQueue' = FALSE
    /\ poller' = "process"
    /\ UNCHANGED <<state, token, job, attached, update_lock, pc, call, pos, fromPos>>

(* release_node of a dropped registration: the poller is done with it.     *)
ProcessDropped ==
    /\ PollerAt("process") /\ state.dropped
    /\ poller' = "released"
    /\ UNCHANGED <<state, token, job, attached, update_lock, inQueue, pc, call, pos, fromPos>>

(* The state loop: dequeue (unless level and ready), disarm a oneshot that *)
(* fires, and move the read position to the last slot written.             *)
Process ==
    LET report == EffectiveReadiness(state)
    IN  /\ PollerAt("process") /\ ~state.dropped
        /\ state' = [state EXCEPT
                        !.queued = state.opt = "level" /\ report,
                        !.interest = @ /\ ~(state.opt = "oneshot" /\ report),
                        !.rd = state.wr]
        /\ poller' = IF ~report THEN "idle"
                     ELSE IF state.opt = "level" THEN "requeue" ELSE "read"
        /\ UNCHANGED <<token, job, attached, update_lock, inQueue, pc, call, pos, fromPos>>

Requeue ==
    /\ PollerAt("requeue")
    /\ inQueue' = TRUE
    /\ poller' = "read"
    /\ UNCHANGED <<state, token, job, attached, update_lock, pc, call, pos, fromPos>>

(* push_event(token slot rd, job.clone()) ...                              *)
ReportEvent ==
    /\ PollerAt("read")
    /\ poller' = "reset"
    /\ UNCHANGED <<state, token, job, attached, update_lock, inQueue, pc, call, pos, fromPos>>

(* ... and node.job becomes the empty closure again.                       *)
ResetJob ==
    /\ PollerAt("reset")
    /\ job' = Noop
    /\ poller' = "idle"
    /\ UNCHANGED <<state, token, attached, update_lock, inQueue, pc, call, pos, fromPos>>

PollerStep ==
    \/ TakeNode \/ ProcessDropped \/ Process \/ Requeue \/ ReportEvent \/ ResetJob

-----------------------------------------------------------------------------
Next ==
    \/ \E u \in Updaters : UpdateStep(u) \/ \E c \in Calls : CallUpdate(u, c)
    \/ \E s \in Setters :
          \/ \E r \in BOOLEAN : SetReadiness(s, r)
          \/ EnqueueNode(s)
          \/ DropRegistration(s)
    \/ PollerStep

Spec == Init /\ [][Next]_vars

-----------------------------------------------------------------------------
Locations == {"idle", "lock", "load", "write", "cas", "unlock",
              "unlock_enqueue", "job", "enqueue"}

(* The fields of the state word, the token slots and the locals of update  *)
(* keep their types; slot positions stay below three (next_token_pos has   *)
(* unreachable!() for the rest).                                           *)
TypeOK ==
    /\ state \in [ready : BOOLEAN, interest : BOOLEAN, opt : Opts, rd : Slots,
                  wr : Slots, queued : BOOLEAN, dropped : BOOLEAN]
    /\ token \in [Slots -> Tokens \cup {NoToken}]
    /\ job \in Tokens \cup {NoToken, Noop}
    /\ attached \in BOOLEAN /\ update_lock \in BOOLEAN /\ inQueue \in BOOLEAN
    /\ pc \in [Users -> Locations]
    /\ call \in [Users -> Calls]
    /\ pos \in [Users -> Slots]
    /\ fromPos \in [Users -> Slots]
    /\ poller \in {"idle", "process", "requeue", "read", "reset", "released"}

(* The slot an update writes is neither the one the poller reads (its read *)
(* position, however far it moved since the slot was chosen) nor the one   *)
(* that holds the current token: the three unsynchronised cells are never  *)
(* read and written at once (next_token_pos, update, poll).                *)
TokenSlotExclusive ==
    \A u \in Updaters : pc[u] = "write" => pos[u] \notin {state.rd, state.wr}

(* The debug_asserts of update's loop: nobody else moved the write position*)
(* since this update read it, and the registration still exists.           *)
UpdateAssertions ==
    \A u \in Updaters :
        pc[u] = "cas" => state.wr = fromPos[u] /\ ~state.dropped

(* Users that turned the queued flag on and have not enqueued the node yet.*)
Carriers == {u \in Users : pc[u] \in {"unlock_enqueue", "job", "enqueue"}}

(* Over all interleavings of update, set_readiness, drop and poll, exactly *)
(* one of the queue, one user and the poller has the node while its queued *)
(* flag is set, and none when it is clear; so it is neither enqueued twice *)
(* nor flagged and forgotten.  A node dropped before it met a Poll, or     *)
(* released by the poller, is nowhere.                                     *)
QueuedExactly ==
    LET places == (IF inQueue THEN {"queue"} ELSE {})
                    \cup (IF poller \in {"process", "requeue"} THEN {"poller"} ELSE {})
                    \cup Carriers
    IN  /\ \A p, q \in places : p = q
        /\ places # {} => state.queued
        /\ state.queued /\ ~state.dropped => places # {}

(* The job is plain memory: no update writes it while the poller clones and*)
(* resets it.                                                              *)
JobExclusive ==
    \A u \in Updaters : pc[u] = "job" => poller \notin {"read", "reset"}
=============================================================================
