----------------------------- MODULE TimerWheel -----------------------------
(***************************************************************************)
(* The hashed timer wheel of src/timer.rs: a slab of entries threaded into *)
(* one doubly linked list per slot, and the cursor (tick, next) with which *)
(* poll walks them.                                                        *)
(*                                                                         *)
(* poll is split into the iterations of poll_to's loop.  Nothing else runs *)
(* inside it, but each expired entry is returned to the caller, whose      *)
(* closure may set and cancel timeouts before it polls on: that is phase   *)
(* "fired".  The event loop polls until it gets None (phase "idle").       *)
(*                                                                         *)
(* Times are in ticks.  The wakeup thread is modelled step by step in      *)
(* TimerWakeup; here `scheduled` is wakeup_state, the earliest tick it has *)
(* been asked for, and one action answers it.                              *)
(***************************************************************************)
EXTENDS Naturals, Sequences, FiniteSets, FiniteSetsExt

CONSTANTS NumSlots,     \* a power of two in the code, whose mask is then % NumSlots
          NumEntries,   \* bound on the slab, which grows without limit
          MaxDelay,     \* bound on the delay of a timeout, in ticks
          MaxTick       \* bound on the time, in ticks

ASSUME ConstantsAssumption ==
    NumSlots \in Nat \ {0} /\ {NumEntries, MaxDelay, MaxTick} \subseteq Nat

Keys == 1..NumEntries
EMPTY == 0
TERMINATE_THREAD == 0
TICK_MAX == MaxTick + MaxDelay + NumSlots + 2
Ticks == 0..TICK_MAX

VARIABLES
    now,        \* current_tick()
    entries,    \* the slab: key -> entry, on the occupied keys
    free,       \* its vacant keys, the next one to be used first
    wheel,      \* slot -> [next_tick, head]
    tick, next, \* the cursor
    registered, \* inner is filled: the timer is registered with a Poll
    scheduled,  \* wakeup_state: earliest tick asked of the wakeup thread
    ready,      \* the timer's registration is readable
    alive,      \* the wakeup thread has not terminated
    phase,      \* "idle", "polling" or "fired"
    target      \* local of poll_to: target_tick

cursor == <<tick, next>>
slab == <<entries, free>>
thread == <<registered, scheduled, ready, alive>>
vars == <<now, slab, wheel, cursor, thread, phase, target>>

Occupied == DOMAIN entries
SlotFor(t) == t % NumSlots

Init ==
    /\ now = 0
    /\ entries = [k \in {} |-> 0]
    /\ free = [i \in 1..NumEntries |-> i]
    /\ wheel = [s \in 0..NumSlots - 1 |-> [next_tick |-> TICK_MAX, head |-> EMPTY]]
    /\ tick = 0 /\ next = EMPTY
    /\ registered = FALSE /\ scheduled = TICK_MAX /\ ready = FALSE /\ alive = TRUE
    /\ phase = "idle" /\ target = 0

(* schedule_readiness(t): an earlier request stands.                       *)
ScheduleReadiness(s, t) == IF registered /\ t < s THEN t ELSE s

(* next_tick().                                                            *)
NextTick(c, w) ==
    IF c[2] # EMPTY /\ w[SlotFor(entries[c[2]].tick)].next_tick = c[1]
    THEN c[1]
    ELSE Min({w[s].next_tick : s \in DOMAIN w})

(* Operators whose names start with Bad are mistakes that mutation runs    *)
(* substitute for the operator defined after them.                         *)

(* unlink: what becomes of the other entries, of the slot's head and of    *)
(* the cursor when key k goes.                                             *)
UnlinkedEntries(k) ==
    LET e == entries[k]
    IN  [j \in Occupied \ {k} |->
            [entries[j] EXCEPT !.next = IF j = e.prev THEN e.next ELSE @,
                               !.prev = IF j = e.next THEN e.prev ELSE @]]

UnlinkedWheel(k, w) ==
    LET e == entries[k]
    IN  IF e.prev = EMPTY THEN [w EXCEPT ![SlotFor(e.tick)].head = e.next] ELSE w

BadUnlinkedNext(k) == next
UnlinkedNext(k) == IF k = next THEN entries[k].next ELSE next

(* entries.remove: the key is the next one the slab hands out.             *)
Remove(k, w) ==
    /\ entries' = UnlinkedEntries(k)
    /\ free' = <<k>> \o free
    /\ wheel' = UnlinkedWheel(k, w)
    /\ next' = UnlinkedNext(k)

-----------------------------------------------------------------------------
(* set_timeout_at: the tick a timeout is filed under.  A timeout for the   *)
(* very tick the cursor stands on keeps it.                                *)
BadFiledTick(t) == t
FiledTick(t) == IF t < tick THEN tick + 1 ELSE t

(* The slot's earliest tick after an insertion.                            *)
BadEarliest(s, t) == IF wheel[s].head = EMPTY THEN t ELSE wheel[s].next_tick
Earliest(s, t) == Min({t, wheel[s].next_tick})

(* The entry goes to the head of its slot's list.                          *)
Insert(t) ==
    LET k == Head(free)
        s == SlotFor(t)
        h == wheel[s].head
        e == [tick |-> t, prev |-> EMPTY, next |-> h, late |-> t = tick]
    IN  /\ entries' = [j \in Occupied \cup {k} |->
                          IF j = k THEN e
                          ELSE IF j = h THEN [entries[j] EXCEPT !.prev = k]
                          ELSE entries[j]]
        /\ free' = Tail(free)
        /\ wheel' = [wheel EXCEPT ![s] = [next_tick |-> Earliest(s, t), head |-> k]]
        /\ scheduled' = ScheduleReadiness(scheduled, t)

(* set_timeout(delay), from a closure or between two polls.                *)
SetTimeout(delay) ==
    /\ phase # "polling"
    /\ free # <<>>
    /\ Insert(FiledTick(now + delay))
    /\ UNCHANGED <<now, cursor, registered, ready, alive, phase, target>>

(* cancel_timeout of a Timeout whose key and tick match a pending entry;   *)
(* otherwise it returns None and nothing changes.                          *)
CancelTimeout(k) ==
    /\ phase # "polling"
    /\ k \in Occupied
    /\ Remove(k, wheel)
    /\ UNCHANGED <<now, tick, thread, phase, target>>

(* Evented::register.                                                      *)
Register ==
    /\ phase = "idle" /\ ~registered
    /\ registered' = TRUE
    /\ scheduled' = NextTick(cursor, wheel)
    /\ UNCHANGED <<now, slab, wheel, cursor, ready, alive, phase, target>>

-----------------------------------------------------------------------------
(* The wakeup thread: a request that is due is taken and the registration  *)
(* made readable; a request for tick 0 is TERMINATE_THREAD.                *)
Wakeup ==
    /\ registered /\ alive
    /\ IF scheduled = TERMINATE_THREAD
       THEN alive' = FALSE /\ UNCHANGED <<scheduled, ready>>
       ELSE scheduled <= now /\ scheduled' = TICK_MAX /\ ready' = TRUE /\ alive' = alive
    /\ UNCHANGED <<now, slab, wheel, cursor, registered, phase, target>>

(* poll: called for the timer's event, and again after each closure.  A    *)
(* target behind the cursor is moved up to it.                             *)
TargetTick == IF now < tick THEN tick ELSE now

StartPoll ==
    /\ phase = "fired" \/ (phase = "idle" /\ ready)
    /\ tick <= MaxTick
    /\ target' = TargetTick
    /\ phase' = "polling"
    /\ UNCHANGED <<now, slab, wheel, cursor, thread>>

Polling == phase = "polling" /\ tick <= target

(* The list of this tick is finished: on to the next tick.                 *)
PollAdvance ==
    LET t == tick + 1
        h == wheel[SlotFor(t)].head
    IN  /\ Polling /\ next = EMPTY
        /\ tick' = t
        /\ next' = h
        /\ wheel' = IF h = EMPTY THEN [wheel EXCEPT ![SlotFor(t)].next_tick = TICK_MAX]
                    ELSE wheel
        /\ UNCHANGED <<now, slab, thread, phase, target>>

(* At the head of the list the slot's earliest tick starts afresh.         *)
Visited ==
    IF next = wheel[SlotFor(tick)].head
    THEN [wheel EXCEPT ![SlotFor(tick)].next_tick = TICK_MAX]
    ELSE wheel

Expired(k) == entries[k].tick <= tick

(* An expired entry is unlinked, removed and returned.                     *)
PollFire ==
    /\ Polling /\ next # EMPTY /\ Expired(next)
    /\ Remove(next, Visited)
    /\ phase' = "fired"
    /\ UNCHANGED <<now, tick, thread, target>>

(* An entry of a later revolution stays and counts for the earliest tick.  *)
PollPass ==
    LET e == entries[next]
        s == SlotFor(tick)
    IN  /\ Polling /\ next # EMPTY /\ ~Expired(next)
        /\ wheel' = [Visited EXCEPT ![s].next_tick = Min({@, e.tick})]
        /\ next' = e.next
        /\ UNCHANGED <<now, slab, tick, thread, phase, target>>

(* Nothing is left up to the target: None.  The registration is made       *)
(* unreadable, and only then the next wakeup is asked.                     *)
PollNone ==
    /\ phase = "polling" /\ tick > target
    /\ phase' = "idle"
    /\ ready' = FALSE
    /\ scheduled' = ScheduleReadiness(scheduled, NextTick(cursor, wheel))
    /\ UNCHANGED <<now, slab, wheel, cursor, registered, alive, target>>

TimePasses ==
    /\ now < MaxTick
    /\ now' = now + 1
    /\ UNCHANGED <<slab, wheel, cursor, thread, phase, target>>

PollStep == PollAdvance \/ PollFire \/ PollPass \/ PollNone

Next ==
    \/ \E d \in 0..MaxDelay : SetTimeout(d)
    \/ \E k \in Keys : CancelTimeout(k)
    \/ Register \/ Wakeup \/ StartPoll \/ PollStep \/ TimePasses

Spec == Init /\ [][Next]_vars

-----------------------------------------------------------------------------
(* Links, cursor, heads and next_ticks of the wheel (src/timer.rs) have    *)
(* their types.                                                            *)
TypeOK ==
    /\ now \in 0..MaxTick
    /\ Occupied \subseteq Keys
    /\ \A k \in Occupied :
          entries[k] \in [tick : Ticks, prev : Keys \cup {EMPTY},
                          next : Keys \cup {EMPTY}, late : BOOLEAN]
    /\ free \in Seq(Keys)
    /\ wheel \in [0..NumSlots - 1 -> [next_tick : Ticks, head : Keys \cup {EMPTY}]]
    /\ tick \in 0..MaxTick + 1 /\ next \in Keys \cup {EMPTY} /\ target \in 0..MaxTick
    /\ {registered, ready, alive} \subseteq BOOLEAN /\ scheduled \in Ticks
    /\ phase \in {"idle", "polling", "fired"}

(* The lists survive insertion, cancellation and expiry in any order, also *)
(* while the cursor is inside one of them: links agree in both directions, *)
(* every entry is reachable from the head of its own slot (it has a        *)
(* predecessor there or is the head), and the cursor never dangles but     *)
(* stands on an entry of the slot it walks.                                *)
WheelWellFormed ==
    /\ \A k \in Occupied :
          LET e == entries[k]
              s == SlotFor(e.tick)
          IN  /\ e.prev = EMPTY <=> wheel[s].head = k
              /\ e.prev # EMPTY => /\ e.prev \in Occupied
                                   /\ entries[e.prev].next = k
                                   /\ SlotFor(entries[e.prev].tick) = s
              /\ e.next # EMPTY => /\ e.next \in Occupied
                                   /\ entries[e.next].prev = k
    /\ \A s \in DOMAIN wheel : wheel[s].head \in Occupied \cup {EMPTY}
    /\ next # EMPTY => next \in Occupied /\ SlotFor(entries[next].tick) = SlotFor(tick)

(* The event loop never waits with a timeout pending that the wakeup thread*)
(* was not asked for in time (insert, poll_to and register schedule).  For *)
(* a timeout that slipped behind the cursor the cursor's tick is in time.  *)
ScheduledInTime ==
    phase = "idle" /\ registered =>
        \A k \in Occupied :
            \/ ready
            \/ scheduled <= entries[k].tick
            \/ entries[k].late /\ scheduled <= tick

(* What poll leaves behind when it returns None: nothing that is due,      *)
(* except timeouts that were filed under the tick the cursor stood on.     *)
(* Those it has passed already; they are found one revolution later and no *)
(* later than that.                                                        *)
NothingDueIsLeft ==
    \A k \in Occupied :
        \/ entries[k].tick >= tick
        \/ entries[k].late /\ tick <= entries[k].tick + NumSlots
=============================================================================
