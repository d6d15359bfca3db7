----------------------------- MODULE StateWord -----------------------------
(***************************************************************************)
(* ReadinessState of src/poll.rs: one usize that holds the readiness, the  *)
(* interest, the poll options, the positions of the token slots last read  *)
(* and last written and the queued and dropped flags of a registration.    *)
(* The word is the set of the positions of its ones (see ReadyBits).       *)
(***************************************************************************)
EXTENDS ReadyBits

READINESS_SHIFT == 0
INTEREST_SHIFT == 4
POLL_OPT_SHIFT == 8
TOKEN_RD_SHIFT == 12
(* Operators whose names start with Bad are mistakes that mutation runs    *)
(* substitute for the operator defined after them.                         *)
BadTokenWrShift == 13
TOKEN_WR_SHIFT == 14
QUEUED_MASK == {16}
DROPPED_MASK == {17}

MASK_2 == 0..1
MASK_4 == 0..3

ShiftLeft(bits, n) == {b + n : b \in bits}
ShiftRight(bits, n) == {b - n : b \in {c \in bits : c >= n}}

Get(word, mask, shift) == ShiftRight(word, shift) \cap mask

(* The field is cleared and the value put in, which is not masked: one that*)
(* does not fit changes the field to its left.                             *)
Set(word, val, mask, shift) ==
    (word \ ShiftLeft(mask, shift)) \cup ShiftLeft(val, shift)

(* ReadinessState::new.                                                    *)
NewWord(interest, opt) ==
    ShiftLeft(interest, INTEREST_SHIFT) \cup ShiftLeft(opt, POLL_OPT_SHIFT)

Readiness(word) == Get(word, MASK_4, READINESS_SHIFT)
Interest(word) == Get(word, MASK_4, INTEREST_SHIFT)
PollOpt(word) == Get(word, MASK_4, POLL_OPT_SHIFT)
Effective(word) == Readiness(word) \cap Interest(word)

SetReadinessBits(word, ready) == Set(word, ready, MASK_4, READINESS_SHIFT)
SetInterest(word, ready) == Set(word, ready, MASK_4, INTEREST_SHIFT)
SetPollOpt(word, opt) == Set(word, opt, MASK_4, POLL_OPT_SHIFT)
Disarm(word) == SetInterest(word, {})

IsQueued(word) == ContainsBits(word, QUEUED_MASK)
IsDropped(word) == ContainsBits(word, DROPPED_MASK)
SetQueued(word) == word \cup QUEUED_MASK
SetDequeued(word) == word \ QUEUED_MASK

(* flag_as_dropped: fetch_or.                                              *)
FlagDropped(word) == word \cup DROPPED_MASK \cup QUEUED_MASK

(* Slot positions are numbers of two bits.                                 *)
BitsOf(pos) == {i \in MASK_2 : (pos \div 2^i) % 2 = 1}
PosOf(bits) == (IF 0 \in bits THEN 1 ELSE 0) + (IF 1 \in bits THEN 2 ELSE 0)

TokenReadPos(word) == PosOf(Get(word, MASK_2, TOKEN_RD_SHIFT))
TokenWritePos(word) == PosOf(Get(word, MASK_2, TOKEN_WR_SHIFT))
SetTokenWritePos(word, pos) == Set(word, BitsOf(pos), MASK_2, TOKEN_WR_SHIFT)
UpdateTokenReadPos(word) ==
    Set(word, Get(word, MASK_2, TOKEN_WR_SHIFT), MASK_2, TOKEN_RD_SHIFT)

-----------------------------------------------------------------------------
(* One turn of each loop on the word, as its compare-and-swap stores it.   *)

QueueIfEffective(word) == IF Effective(word) # {} THEN SetQueued(word) ELSE word

(* update.                                                                 *)
UpdatedWord(word, pos, interest, opt) ==
    QueueIfEffective(SetPollOpt(SetInterest(SetTokenWritePos(word, pos), interest), opt))

(* set_readiness.                                                          *)
ReadiedWord(word, ready) == QueueIfEffective(SetReadinessBits(word, ready))

(* poll.                                                                   *)
PolledWord(word) ==
    LET readiness == Effective(word)
        opt == PollOpt(word)
        dequeued == IF IsEdge(opt) \/ readiness = {} THEN SetDequeued(word) ELSE word
        disarmed == IF IsEdge(opt) /\ IsOneshot(opt) /\ readiness # {}
                    THEN Disarm(dequeued) ELSE dequeued
    IN  UpdateTokenReadPos(disarmed)
=============================================================================
