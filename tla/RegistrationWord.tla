-------------------------- MODULE RegistrationWord --------------------------
(***************************************************************************)
(* Registration, whose state is a record of fields, run in step with the   *)
(* word that the program keeps instead (StateWord): each action that       *)
(* changes the state changes the word as the code does, by shifts and      *)
(* masks, and the two must always say the same.                            *)
(***************************************************************************)
EXTENDS Registration, StateWord

CONSTANTS ReadyValue,       \* what set_readiness is given, or empty
          InterestValue     \* what update is given, or empty

(* Only values of four bits fit their fields (the debug_asserts of         *)
(* ReadinessState::new say so of the interest); the two have a bit in      *)
(* common, as Registration takes them to.                                  *)
ASSUME ValuesFit ==
    /\ ReadyValue \subseteq MASK_4 /\ InterestValue \subseteq MASK_4
    /\ ReadyValue \cap InterestValue # {}

(* Values that do not fit: Ready::all() as a readiness changes the         *)
(* interest; as an interest it changes the poll options, which update sets *)
(* right after it.                                                         *)
ASSUME AllSpills ==
    /\ Interest(SetReadinessBits({}, ReadyAll)) = WRITABLE \cup ERROR
    /\ PollOpt(SetPollOpt(SetInterest({}, ReadyAll), EDGE)) = EDGE

VARIABLE word

wvars == <<vars, word>>

ReadyBitsOf(r) == IF r THEN ReadyValue ELSE {}
InterestOf(c) == IF c.interest THEN InterestValue ELSE {}

(* deregister and new2 have no option at all, which is read as level.      *)
OptOf(c) ==
    CASE ~c.interest -> {}
      [] c.interest /\ c.opt = "edge" -> EDGE
      [] c.interest /\ c.opt = "oneshot" -> EDGE \cup ONESHOT
      [] c.interest /\ c.opt = "level" -> LEVEL

WInit == Init /\ word = NewWord({}, {})

WSetReadiness(s, r) == SetReadiness(s, r) /\ word' = ReadiedWord(word, ReadyBitsOf(r))
WDrop(s) == DropRegistration(s) /\ word' = FlagDropped(word)
WProcess == Process /\ word' = PolledWord(word)

WCommit(u) ==
    /\ Commit(u)
    /\ word' = UpdatedWord(word, pos[u], InterestOf(call[u]), OptOf(call[u]))

(* The steps that leave the state word alone.                              *)
Elsewhere ==
    /\ \/ \E u \in Updaters :
            \/ \E c \in Calls : CallUpdate(u, c)
            \/ TryUpdateLock(u) \/ ChooseSlot(u) \/ WriteToken(u)
            \/ UnlockUpdate(u) \/ WriteJob(u)
       \/ \E u \in Users : EnqueueNode(u)
       \/ TakeNode \/ ProcessDropped \/ Requeue \/ ReportEvent \/ ResetJob
    /\ UNCHANGED word

WNext ==
    \/ \E u \in Updaters : WCommit(u)
    \/ \E s \in Setters : (\E r \in BOOLEAN : WSetReadiness(s, r)) \/ WDrop(s)
    \/ WProcess
    \/ Elsewhere

WSpec == WInit /\ [][WNext]_wvars

-----------------------------------------------------------------------------
(* Through every interleaving of updates, set_readiness, polls and the     *)
(* drop, the fields packed into the word say what they would say if each   *)
(* were stored on its own: no shift, mask or fetch_or of ReadinessState    *)
(* reaches into a neighbouring field.                                      *)
WordHoldsState ==
    /\ Readiness(word) = ReadyBitsOf(state.ready)
    /\ Interest(word) = IF state.interest THEN InterestValue ELSE {}
    /\ IsEdge(PollOpt(word)) = (state.opt # "level")
    /\ IsEdge(PollOpt(word)) => IsOneshot(PollOpt(word)) = (state.opt = "oneshot")
    /\ TokenReadPos(word) = state.rd
    /\ TokenWritePos(word) = state.wr
    /\ IsQueued(word) = state.queued
    /\ IsDropped(word) = state.dropped
=============================================================================
