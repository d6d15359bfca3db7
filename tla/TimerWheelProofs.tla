-------------------------- MODULE TimerWheelProofs --------------------------
(***************************************************************************)
(* Proofs about TimerWheel for any number of slots and entries and any     *)
(* bound on the ticks: the lists stay sound, a wakeup is asked in time, and*)
(* a poll leaves nothing due behind.                                       *)
(*                                                                         *)
(* The links are local, and local agreement is not enough: a ring that no  *)
(* head leads to has it too, and unlinking one of two entries              *)
(* of a ring would leave the cursor on a removed one.  The inductive form  *)
(* numbers the insertions: every list runs from the youngest entry of its  *)
(* slot to the oldest and leaves none out (SomeOrder).  With it two more   *)
(* facts can be said of the entries the cursor has yet to come to: what is *)
(* due in the slot is among them, unless it was filed under the cursor's   *)
(* own tick (DueIsAhead), and so is whatever the slot's next_tick does not *)
(* account for while poll_to computes it anew (EarliestKnown).             *)
(***************************************************************************)
EXTENDS TimerWheel, WellFoundedInduction, TLAPS

EntryType == [tick : Ticks, prev : Keys \cup {EMPTY},
              next : Keys \cup {EMPTY}, late : BOOLEAN]
SlotType == [next_tick : Ticks, head : Keys \cup {EMPTY}]
Slots == 0..NumSlots - 1
SlotOf(k) == SlotFor(entries[k].tick)

(* The slab hands out no key that is in use, and none twice.               *)
VacantKeys ==
    \A i, j \in 1..Len(free) :
        free[i] \notin Occupied /\ (free[i] = free[j] => i = j)

(* A slot's list starts with an entry of that slot.                        *)
HeadsInSlot ==
    \A s \in DOMAIN wheel :
        wheel[s].head # EMPTY => wheel[s].head \in Occupied /\ SlotOf(wheel[s].head) = s

(* age numbers the insertions, b is the next number: each list runs from   *)
(* the youngest entry of its slot to the oldest and leaves none out.       *)
YoungestIsHead(age, k) ==
    /\ wheel[SlotOf(k)].head # EMPTY
    /\ age[k] <= age[wheel[SlotOf(k)].head]

NextIsNextOlder(age, k) ==
    /\ entries[k].next # EMPTY => age[entries[k].next] < age[k]
    /\ \A j \in Occupied : SlotOf(j) = SlotOf(k) =>
          /\ age[j] = age[k] => j = k
          /\ age[j] < age[k] => /\ entries[k].next # EMPTY
                                /\ age[j] <= age[entries[k].next]

ListsByAge(age, b) ==
    \A k \in Occupied : age[k] < b /\ YoungestIsHead(age, k) /\ NextIsNextOlder(age, k)

(* The cursor has yet to come to k.                                        *)
Ahead(age, k) == next # EMPTY /\ age[k] <= age[next]

(* What is due in the cursor's slot and not filed late is still ahead.     *)
DueIsAhead(age) ==
    \A k \in Occupied :
        SlotOf(k) = SlotFor(tick) /\ entries[k].tick <= tick =>
            \/ entries[k].late /\ entries[k].tick = tick
            \/ Ahead(age, k)

(* The cursor is inside the list of its tick, whose next_tick poll is      *)
(* computing anew.                                                         *)
Walking == phase = "fired" \/ (phase = "polling" /\ tick <= target)

(* A slot's next_tick is no later than its entries, except those that the  *)
(* walk in progress has yet to count.                                      *)
EarliestKnown(age) ==
    \A k \in Occupied :
        \/ wheel[SlotOf(k)].next_tick <= entries[k].tick
        \/ Walking /\ SlotOf(k) = SlotFor(tick) /\ Ahead(age, k)

Listed(age, b) == ListsByAge(age, b) /\ DueIsAhead(age) /\ EarliestKnown(age)

SomeOrder == \E age \in [Keys -> Nat], b \in Nat : Listed(age, b)

IInv == /\ TypeOK
        /\ VacantKeys
        /\ WheelWellFormed
        /\ HeadsInSlot
        /\ NothingDueIsLeft
        /\ ScheduledInTime
        /\ SomeOrder

-----------------------------------------------------------------------------
(* Slots and ticks.                                                        *)
LEMMA Bounds ==
    /\ NumSlots \in Nat \ {0} /\ MaxTick \in Nat /\ MaxDelay \in Nat
    /\ TICK_MAX \in Nat /\ TICK_MAX = MaxTick + MaxDelay + NumSlots + 2
    /\ Keys \subseteq Nat \ {0} /\ EMPTY = 0 /\ EMPTY \notin Keys
    /\ Ticks = 0..TICK_MAX
  BY ConstantsAssumption DEF Keys, EMPTY, TICK_MAX, Ticks

LEMMA SlotForIsSlot ==
    ASSUME NEW t \in Nat
    PROVE  SlotFor(t) \in Slots
  BY Bounds DEF SlotFor, Slots

(* Division has one remainder.                                             *)
LEMMA RemainderIsUnique ==
    ASSUME NEW n \in Nat \ {0}, NEW q \in Nat, NEW p \in Nat,
           NEW r \in 0..n - 1, NEW s \in 0..n - 1, n * q + r = n * p + s
    PROVE  r = s
  <1>1. ASSUME NEW x \in Nat, NEW y \in Nat, x > y
        PROVE  n * x >= n * y + n
    <2>1. PICK d \in Nat : x = y + 1 + d
      BY <1>1
    <2>2. n * x = n * y + n + n * d
      BY <2>1
    <2>3. n * d \in Nat /\ n * y \in Nat
      OBVIOUS
    <2> QED
      BY <2>2, <2>3
  <1>2. n * q \in Nat /\ n * p \in Nat
    OBVIOUS
  <1>3. CASE q > p
    <2>1. n * q >= n * p + n
      BY <1>1, <1>3
    <2> QED
      BY <1>2, <2>1
  <1>4. CASE q < p
    <2>1. n * p >= n * q + n
      BY <1>1, <1>4
    <2> QED
      BY <1>2, <2>1
  <1> QED
    BY <1>2, <1>3, <1>4

(* One revolution later it is the slot's turn again.                       *)
LEMMA Revolution ==
    ASSUME NEW t \in Nat
    PROVE  SlotFor(t + NumSlots) = SlotFor(t)
  <1>0. PICK n \in Nat \ {0} : n = NumSlots
    BY Bounds
  <1>1. t = n * (t \div n) + (t % n) /\ t \div n \in Nat /\ t % n \in 0..n - 1
    BY SMT
  <1>2. /\ t + n = n * ((t + n) \div n) + ((t + n) % n)
        /\ (t + n) \div n \in Nat /\ (t + n) % n \in 0..n - 1
    BY SMT
  <1>3. PICK q \in Nat, r \in 0..n - 1 : t = n * q + r /\ r = t % n
    BY <1>1
  <1>4. PICK p \in Nat, s \in 0..n - 1 : t + n = n * p + s /\ s = (t + n) % n
    BY <1>2
  <1>5. PICK u \in Nat : u = q + 1
    OBVIOUS
  <1>6. n * u = n * q + n
    BY <1>5
  <1>7. n * u + r = n * p + s
    BY <1>3, <1>4, <1>6
  <1>8. r = s
    BY <1>7, RemainderIsUnique
  <1> QED
    BY <1>0, <1>3, <1>4, <1>8 DEF SlotFor

LEMMA LeastElement ==
    ASSUME NEW S \in SUBSET Nat, S # {}
    PROVE  \E n \in S : \A m \in S : n <= m
  <1> DEFINE R == {ss \in Nat \X Nat : ss[1] < ss[2]}
  <1>1. IsWellFoundedOn(R, Nat)
    BY NatLessThanWellFounded, Zenon DEF OpToRel
  <1> HIDE DEF R
  <1>2. PICK n \in S : \A m \in S : ~(<<m, n>> \in R)
    BY <1>1, WFMin
  <1>3. \A m \in S : ~(m < n)
    BY <1>2 DEF R
  <1> QED
    BY <1>3

LEMMA MinIsLeast ==
    ASSUME NEW S \in SUBSET Nat, S # {}
    PROVE  Min(S) \in S /\ \A m \in S : Min(S) <= m
  BY LeastElement, Zenon DEF Min

LEMMA MinOfTwo ==
    ASSUME NEW x \in Nat, NEW y \in Nat
    PROVE  Min({x, y}) = IF x <= y THEN x ELSE y
  <1>1. Min({x, y}) \in {x, y} /\ \A m \in {x, y} : Min({x, y}) <= m
    BY MinIsLeast
  <1> QED
    BY <1>1

(* What the types say, in the form the provers use.                        *)
LEMMA Typed ==
    ASSUME TypeOK
    PROVE  /\ Occupied \subseteq Keys
           /\ \A k \in Occupied :
                 /\ entries[k] \in EntryType
                 /\ entries[k].tick \in Ticks /\ entries[k].tick \in Nat
                 /\ entries[k].prev \in Keys \cup {EMPTY}
                 /\ entries[k].next \in Keys \cup {EMPTY}
                 /\ entries[k].late \in BOOLEAN
                 /\ SlotOf(k) \in Slots
           /\ wheel \in [Slots -> SlotType] /\ DOMAIN wheel = Slots
           /\ \A s \in Slots : /\ wheel[s].next_tick \in Ticks /\ wheel[s].next_tick \in Nat
                               /\ wheel[s].head \in Keys \cup {EMPTY}
           /\ tick \in Nat /\ next \in Keys \cup {EMPTY}
           /\ SlotFor(tick) \in Slots
  <1>0. Ticks \subseteq Nat
    BY Bounds
  <1>1. \A k \in Occupied : entries[k] \in EntryType /\ entries[k].tick \in Nat
    <2> TAKE k \in Occupied
    <2>1. entries[k] \in EntryType
      BY DEF TypeOK, EntryType
    <2>2. entries[k].tick \in Ticks
      BY <2>1 DEF EntryType
    <2> QED
      BY <2>1, <2>2, <1>0
  <1>2. \A k \in Occupied : SlotOf(k) \in Slots
    BY <1>1, SlotForIsSlot DEF SlotOf
  <1>3. tick \in Nat
    BY Bounds DEF TypeOK
  <1>4. SlotFor(tick) \in Slots
    BY <1>3, SlotForIsSlot
  <1>5. wheel \in [Slots -> SlotType]
    BY DEF TypeOK, Slots, SlotType
  <1>6. \A s \in Slots : wheel[s] \in SlotType
    BY <1>5
  <1>7. \A s \in Slots : /\ wheel[s].next_tick \in Ticks /\ wheel[s].next_tick \in Nat
                         /\ wheel[s].head \in Keys \cup {EMPTY}
    BY <1>6, Bounds DEF SlotType
  <1>8. \A k \in Occupied :
           /\ entries[k].tick \in Ticks
           /\ entries[k].prev \in Keys \cup {EMPTY}
           /\ entries[k].next \in Keys \cup {EMPTY}
           /\ entries[k].late \in BOOLEAN
    BY <1>1 DEF EntryType
  <1> QED
    BY <1>1, <1>2, <1>3, <1>4, <1>5, <1>7, <1>8 DEF TypeOK

(* The links of one entry.                                                 *)
Linked(k) ==
    LET e == entries[k]
    IN  /\ e.prev = EMPTY <=> wheel[SlotOf(k)].head = k
        /\ e.prev # EMPTY => /\ e.prev \in Occupied
                             /\ entries[e.prev].next = k
                             /\ SlotOf(e.prev) = SlotOf(k)
        /\ e.next # EMPTY => /\ e.next \in Occupied
                             /\ entries[e.next].prev = k

LEMMA WellFormedLinks ==
    WheelWellFormed <=>
        /\ \A k \in Occupied : Linked(k)
        /\ \A s \in DOMAIN wheel : wheel[s].head \in Occupied \cup {EMPTY}
        /\ next # EMPTY => next \in Occupied /\ SlotOf(next) = SlotFor(tick)
  BY Zenon DEF WheelWellFormed, Linked, SlotOf

LEMMA WellFormedLinksAfter ==
    ASSUME \A k \in Occupied' : Linked(k)',
           \A s \in DOMAIN wheel' : wheel'[s].head \in Occupied' \cup {EMPTY},
           next' # EMPTY => next' \in Occupied' /\ SlotFor(entries'[next'].tick) = SlotFor(tick')
    PROVE  WheelWellFormed'
  BY Zenon DEF WheelWellFormed, Linked, SlotOf, SlotFor, EMPTY

LEMMA ByAgeAfter ==
    ASSUME NEW age, NEW b,
           \A i \in Occupied' :
              /\ age[i] < b
              /\ wheel'[SlotFor(entries'[i].tick)].head # EMPTY
              /\ age[i] <= age[wheel'[SlotFor(entries'[i].tick)].head]
              /\ entries'[i].next # EMPTY => age[entries'[i].next] < age[i],
           \A i, j \in Occupied' : SlotFor(entries'[j].tick) = SlotFor(entries'[i].tick) =>
              /\ age[j] = age[i] => j = i
              /\ age[j] < age[i] => /\ entries'[i].next # EMPTY
                                    /\ age[j] <= age[entries'[i].next]
    PROVE  ListsByAge(age, b)'
  BY Zenon DEF ListsByAge, YoungestIsHead, NextIsNextOlder, SlotOf, SlotFor, EMPTY

(* An entry and the next one are in the same slot.                         *)
LEMMA NextInSlot ==
    ASSUME TypeOK, WheelWellFormed, NEW k \in Occupied, entries[k].next # EMPTY
    PROVE  entries[k].next \in Occupied /\ SlotOf(entries[k].next) = SlotOf(k)
  <1>1. \A j \in Occupied : Linked(j)
    BY WellFormedLinks
  <1>2. entries[k].next \in Occupied /\ entries[entries[k].next].prev = k
    BY <1>1 DEF Linked
  <1>3. PICK n \in Occupied : n = entries[k].next
    BY <1>2
  <1>4. k # EMPTY
    BY Typed, Bounds
  <1> QED
    BY <1>1, <1>2, <1>3, <1>4 DEF Linked

-----------------------------------------------------------------------------
(* Removal of an entry: by cancel_timeout, and by poll_to for one that is  *)
(* expired.  w is the wheel with the next_tick poll_to has reset.          *)
RemovedFrom(k, w) ==
    /\ DOMAIN entries' = Occupied \ {k}
    /\ \A j \in Occupied \ {k} :
          /\ entries'[j] \in EntryType
          /\ entries'[j].tick = entries[j].tick
          /\ entries'[j].late = entries[j].late
          /\ entries'[j].next = IF j = entries[k].prev THEN entries[k].next
                                ELSE entries[j].next
          /\ entries'[j].prev = IF j = entries[k].next THEN entries[k].prev
                                ELSE entries[j].prev
    /\ wheel' \in [Slots -> SlotType]
    /\ \A s \in Slots :
          /\ wheel'[s].next_tick = w[s].next_tick
          /\ wheel'[s].head = IF entries[k].prev = EMPTY /\ s = SlotOf(k)
                              THEN entries[k].next ELSE w[s].head
    /\ next' = IF k = next THEN entries[k].next ELSE next
    /\ free' \in Seq(Keys) /\ Len(free') = Len(free) + 1 /\ free'[1] = k
    /\ \A i \in 1..Len(free) : free'[i + 1] = free[i]

LEMMA RemoveEffect ==
    ASSUME TypeOK, NEW k \in Occupied, NEW w \in [Slots -> SlotType], Remove(k, w)
    PROVE  RemovedFrom(k, w)
  <1> USE Typed
  <1>1. entries' = [j \in Occupied \ {k} |->
                       [entries[j] EXCEPT
                          !.next = IF j = entries[k].prev THEN entries[k].next ELSE @,
                          !.prev = IF j = entries[k].next THEN entries[k].prev ELSE @]]
    BY Zenon DEF Remove, UnlinkedEntries
  <1>2. ASSUME NEW j \in Occupied \ {k}
        PROVE  /\ entries'[j] \in EntryType
               /\ entries'[j].tick = entries[j].tick
               /\ entries'[j].late = entries[j].late
               /\ entries'[j].next = IF j = entries[k].prev THEN entries[k].next
                                     ELSE entries[j].next
               /\ entries'[j].prev = IF j = entries[k].next THEN entries[k].prev
                                     ELSE entries[j].prev
    <2>1. PICK m \in EntryType : m = entries[j]
      OBVIOUS
    <2>2. PICK p \in Keys \cup {EMPTY} : p = entries[k].prev
      OBVIOUS
    <2>3. PICK n \in Keys \cup {EMPTY} : n = entries[k].next
      OBVIOUS
    <2>4. entries'[j] = [m EXCEPT !.next = IF j = p THEN n ELSE @,
                                  !.prev = IF j = n THEN p ELSE @]
      BY <1>1, <2>1, <2>2, <2>3
    <2> QED
      BY <2>1, <2>2, <2>3, <2>4 DEF EntryType
  <1>3. wheel' = IF entries[k].prev = EMPTY
                 THEN [w EXCEPT ![SlotOf(k)].head = entries[k].next] ELSE w
    BY Zenon DEF Remove, UnlinkedWheel, SlotOf
  <1>4. /\ wheel' \in [Slots -> SlotType]
        /\ \A s \in Slots :
              /\ wheel'[s].next_tick = w[s].next_tick
              /\ wheel'[s].head = IF entries[k].prev = EMPTY /\ s = SlotOf(k)
                                  THEN entries[k].next ELSE w[s].head
    <2>1. PICK z \in Slots : z = SlotOf(k)
      OBVIOUS
    <2>2. PICK n \in Keys \cup {EMPTY} : n = entries[k].next
      OBVIOUS
    <2>3. PICK r \in SlotType : r = w[z]
      OBVIOUS
    <2>4. [r EXCEPT !.head = n] = [next_tick |-> r.next_tick, head |-> n]
      BY <2>3 DEF SlotType
    <2>5. [next_tick |-> r.next_tick, head |-> n] \in SlotType
      BY <2>3, <2>2 DEF SlotType
    <2> QED
      BY <1>3, <2>1, <2>2, <2>3, <2>4, <2>5
  <1>5. DOMAIN entries' = Occupied \ {k}
    BY <1>1
  <1>6. next' = IF k = next THEN entries[k].next ELSE next
    BY DEF Remove, UnlinkedNext
  <1>7. free' = <<k>> \o free /\ free \in Seq(Keys) /\ k \in Keys
    BY DEF Remove, TypeOK
  <1>8. /\ free' \in Seq(Keys) /\ Len(free') = Len(free) + 1 /\ free'[1] = k
        /\ \A i \in 1..Len(free) : free'[i + 1] = free[i]
    BY <1>7
  <1> QED
    BY <1>2, <1>4, <1>5, <1>6, <1>8 DEF RemovedFrom

LEMMA RemoveKeepsVacant ==
    ASSUME TypeOK, VacantKeys, NEW k \in Occupied,
           NEW w \in [Slots -> SlotType], Remove(k, w)
    PROVE  VacantKeys'
  <1> DEFINE D == DOMAIN entries'
  <1>0. /\ D = Occupied \ {k}
        /\ Len(free') = Len(free) + 1 /\ free'[1] = k
        /\ \A i \in 1..Len(free) : free'[i + 1] = free[i]
    BY RemoveEffect DEF RemovedFrom
  <1> HIDE DEF D
  <1>1. free \in Seq(Keys) /\ Len(free) \in Nat
    BY DEF TypeOK
  <1>2. \A i \in 1..Len(free') : i = 1 \/ (i - 1 \in 1..Len(free) /\ free'[i] = free[i - 1])
    <2> TAKE i \in 1..Len(free')
    <2>1. CASE i # 1
      <3>1. PICK h \in 1..Len(free) : i = h + 1
        BY <1>0, <1>1, <2>1
      <3> QED
        BY <1>0, <3>1, <1>1
    <2> QED
      BY <2>1
  <1>3. \A i \in 1..Len(free) : free[i] \notin Occupied /\ free[i] # k
    BY DEF VacantKeys
  <1>4. \A i \in 1..Len(free') : free'[i] \notin D
    BY <1>0, <1>2, <1>3
  <1>5. ASSUME NEW i \in 1..Len(free'), NEW j \in 1..Len(free'), free'[i] = free'[j]
        PROVE  i = j
    <2>1. CASE i = 1
      BY <1>0, <2>1, <1>2, <1>3, <1>5
    <2>2. CASE j = 1
      BY <1>0, <2>2, <1>2, <1>3, <1>5
    <2>3. CASE i # 1 /\ j # 1
      <3>1. free[i - 1] = free[j - 1] /\ i - 1 \in 1..Len(free) /\ j - 1 \in 1..Len(free)
        BY <2>3, <1>2, <1>5
      <3>2. i - 1 = j - 1
        BY <3>1 DEF VacantKeys
      <3> QED
        BY <3>2, <1>1
    <2> QED
      BY <2>1, <2>2, <2>3
  <1> QED
    BY <1>4, <1>5 DEF VacantKeys, Occupied, D

(* Slots do not change with a removal.                                     *)
LEMMA RemoveKeepsSlots ==
    ASSUME TypeOK, NEW k \in Occupied, NEW w \in [Slots -> SlotType], Remove(k, w)
    PROVE  \A j \in Occupied \ {k} : SlotOf(j)' = SlotOf(j)
  <1>1. \A j \in Occupied \ {k} : entries'[j].tick = entries[j].tick
    BY RemoveEffect DEF RemovedFrom
  <1> QED
    BY <1>1 DEF SlotOf, SlotFor

LEMMA RemoveKeepsLinks ==
    ASSUME TypeOK, WheelWellFormed, HeadsInSlot,
           NEW age \in [Keys -> Nat], NEW b \in Nat, ListsByAge(age, b),
           NEW k \in Occupied, NEW w \in [Slots -> SlotType],
           \A s \in Slots : w[s].head = wheel[s].head,
           Remove(k, w), tick' = tick
    PROVE  WheelWellFormed' /\ HeadsInSlot'
  <1> DEFINE D == Occupied \ {k}
             e == entries[k]
  <1>a. PICK p \in Keys \cup {EMPTY} : p = entries[k].prev
    BY Typed
  <1>b. PICK n \in Keys \cup {EMPTY} : n = entries[k].next
    BY Typed
  <1>c. PICK z \in Slots : z = SlotOf(k)
    BY Typed
  <1>0. /\ Occupied' = D
        /\ \A j \in D : /\ entries'[j].next = IF j = p THEN n ELSE entries[j].next
                        /\ entries'[j].prev = IF j = n THEN p ELSE entries[j].prev
        /\ \A s \in Slots : wheel'[s].head = IF p = EMPTY /\ s = z THEN n ELSE wheel[s].head
        /\ next' = IF k = next THEN n ELSE next
        /\ DOMAIN wheel' = Slots
    <2>1. RemovedFrom(k, w)
      BY RemoveEffect
    <2>2. Occupied' = D
      BY <2>1 DEF Occupied, RemovedFrom
    <2> QED
      BY <2>1, <2>2, <1>a, <1>b, <1>c DEF RemovedFrom
  <1>1. \A j \in D : SlotOf(j)' = SlotOf(j)
    BY RemoveKeepsSlots
  <1>2. \A j \in Occupied : Linked(j)
    BY WellFormedLinks
  <1>3. /\ k # EMPTY /\ EMPTY \notin Occupied
        /\ \A j \in Occupied : SlotOf(j) \in Slots
    BY Typed, Bounds
  <1>4. n # EMPTY => n \in D /\ SlotOf(n) = z
    <2> HAVE n # EMPTY
    <2>1. n \in Occupied /\ SlotOf(n) = z
      BY <1>b, <1>c, NextInSlot
    <2>2. age[n] < age[k] /\ age[k] \in Nat
      BY <1>b, Typed DEF ListsByAge, NextIsNextOlder
    <2> QED
      BY <2>1, <2>2
  <1>5. p # EMPTY => p \in D /\ SlotOf(p) = z /\ entries[p].next = k
    <2> HAVE p # EMPTY
    <2>1. p \in Occupied /\ SlotOf(p) = z /\ entries[p].next = k
      BY <1>2, <1>a, <1>c DEF Linked
    <2>2. age[k] < age[p] /\ age[k] \in Nat
      BY <2>1, <1>3, Typed DEF ListsByAge, NextIsNextOlder
    <2> QED
      BY <2>1, <2>2
  <1>6. n # EMPTY => entries[n].prev = k
    BY <1>2, <1>b DEF Linked
  <1>7. p = EMPTY <=> wheel[z].head = k
    BY <1>2, <1>a, <1>c DEF Linked
  <1>8. \A s \in Slots : wheel[s].head # EMPTY =>
            wheel[s].head \in Occupied /\ SlotOf(wheel[s].head) = s
    BY Typed DEF HeadsInSlot
  <1>9. ASSUME NEW s \in Slots, wheel'[s].head # EMPTY
        PROVE  wheel'[s].head \in D /\ SlotOf(wheel'[s].head) = s
    <2>1. CASE p = EMPTY /\ s = z
      BY <2>1, <1>0, <1>4, <1>9
    <2>2. CASE ~(p = EMPTY /\ s = z)
      <3>1. wheel'[s].head = wheel[s].head
        BY <2>2, <1>0
      <3>2. wheel[s].head # k
        BY <2>2, <1>7, <1>8, <1>3, <1>c
      <3> QED
        BY <3>1, <3>2, <1>8, <1>9
    <2> QED
      BY <2>1, <2>2
  <1>10. HeadsInSlot'
    <2> SUFFICES ASSUME NEW s \in Slots, wheel'[s].head # EMPTY
                 PROVE  wheel'[s].head \in Occupied' /\ SlotFor(entries'[wheel'[s].head].tick) = s
      BY <1>0 DEF HeadsInSlot, SlotOf, EMPTY
    <2>1. PICK h \in D : h = wheel'[s].head
      BY <1>9
    <2> QED
      BY <2>1, <1>9, <1>1, <1>0 DEF SlotOf
  <1>11. ASSUME NEW j \in D
         PROVE  Linked(j)'
    <2> DEFINE q == entries[j].prev
               o == entries[j].next
               sj == SlotOf(j)
    <2>0. j # k /\ j \in Occupied /\ Linked(j) /\ sj \in Slots
      BY <1>2, <1>3
    <2>1. (entries[j].prev)' = IF j = n THEN p ELSE q
      BY <1>0
    <2>2. (entries[j].next)' = IF j = p THEN n ELSE o
      BY <1>0
    <2>3. wheel'[SlotFor(entries'[j].tick)].head = IF p = EMPTY /\ sj = z THEN n ELSE wheel[sj].head
      BY <1>0, <1>1, <2>0 DEF SlotOf
    <2>4. /\ q = EMPTY <=> wheel[sj].head = j
          /\ q # EMPTY => q \in Occupied /\ entries[q].next = j /\ SlotOf(q) = sj
          /\ o # EMPTY => o \in Occupied /\ entries[o].prev = j
      BY <2>0 DEF Linked
    <2> HIDE DEF q, o, sj
    <2>5. j = n \/ q # k
      BY <2>4, <1>b, <1>3
    <2>6. j = p \/ o # k
      BY <2>4, <1>a, <1>3
    <2>7. (entries'[j].prev = EMPTY) <=> (wheel'[SlotFor(entries'[j].tick)].head = j)
      <3>1. CASE j = n
        <4>1. sj = z
          BY <3>1, <1>4, <1>3 DEF sj
        <4>2. q = k
          BY <3>1, <1>6, <1>3 DEF q
        <4> QED
          BY <3>1, <4>1, <4>2, <2>1, <2>3, <2>4, <1>3
      <3>2. CASE j # n
        <4>1. CASE p = EMPTY /\ sj = z
          BY <3>2, <4>1, <2>1, <2>3, <2>4, <1>7, <2>0
        <4>2. CASE ~(p = EMPTY /\ sj = z)
          BY <3>2, <4>2, <2>1, <2>3, <2>4
        <4> QED
          BY <4>1, <4>2
      <3> QED
        BY <3>1, <3>2
    <2>8. ASSUME entries'[j].prev # EMPTY
          PROVE  /\ entries'[j].prev \in D
                 /\ entries'[entries'[j].prev].next = j
                 /\ SlotFor(entries'[entries'[j].prev].tick) = sj
      <3>1. CASE j = n
        <4>1. entries'[j].prev = p /\ p # EMPTY
          BY <3>1, <2>1, <2>8
        <4> QED
          BY <3>1, <4>1, <1>5, <1>4, <1>3, <1>0, <1>1 DEF SlotOf, sj
      <3>2. CASE j # n
        <4>1. entries'[j].prev = q /\ q # EMPTY /\ q # k
          BY <3>2, <2>1, <2>5, <2>8
        <4>2. q \in D /\ entries[q].next = j /\ SlotOf(q) = sj
          BY <4>1, <2>4
        <4>3. q # p
          BY <4>2, <1>5, <1>3, <2>0
        <4> QED
          BY <4>1, <4>2, <4>3, <1>0, <1>1 DEF SlotOf
      <3> QED
        BY <3>1, <3>2
    <2>9. ASSUME entries'[j].next # EMPTY
          PROVE  entries'[j].next \in D /\ entries'[entries'[j].next].prev = j
      <3>1. CASE j = p
        <4>1. entries'[j].next = n /\ n # EMPTY
          BY <3>1, <2>2, <2>9
        <4> QED
          BY <3>1, <4>1, <1>4, <1>0
      <3>2. CASE j # p
        <4>1. entries'[j].next = o /\ o # EMPTY /\ o # k
          BY <3>2, <2>2, <2>6, <2>9
        <4>2. o \in D /\ entries[o].prev = j
          BY <4>1, <2>4
        <4>3. o # n
          BY <4>2, <1>6, <1>3, <2>0
        <4> QED
          BY <4>1, <4>2, <4>3, <1>0
      <3> QED
        BY <3>1, <3>2
    <2>10. SlotFor(entries'[j].tick) = sj
      BY <1>1 DEF SlotOf, sj
    <2> QED
      BY <2>7, <2>8, <2>9, <2>10, <1>0, Zenon DEF Linked, SlotOf, EMPTY
  <1>12. next' # EMPTY => next' \in D /\ SlotFor(entries'[next'].tick) = SlotFor(tick)
    <2> HAVE next' # EMPTY
    <2>0. next # EMPTY => next \in Occupied /\ SlotOf(next) = SlotFor(tick)
      BY WellFormedLinks
    <2>1. CASE k = next
      <3>1. next' = n /\ n \in D /\ SlotOf(n) = z
        BY <2>1, <1>0, <1>4
      <3> QED
        BY <3>1, <1>c, <2>1, <2>0, <1>3, <1>1 DEF SlotOf
    <2>2. CASE k # next
      <3>1. next' = next /\ next \in D
        BY <2>2, <1>0, <2>0
      <3> QED
        BY <3>1, <2>0, <1>1 DEF SlotOf
    <2> QED
      BY <2>1, <2>2
  <1>13. /\ \A s \in Slots : wheel'[s].head \in D \cup {EMPTY}
    BY <1>9
  <1> QED
    BY <1>0, <1>10, <1>11, <1>12, <1>13, WellFormedLinksAfter

(* An entry ahead of the cursor stays ahead of it when another one goes.   *)
LEMMA RemoveKeepsAhead ==
    ASSUME TypeOK, WheelWellFormed,
           NEW age \in [Keys -> Nat], NEW b \in Nat, ListsByAge(age, b),
           NEW k \in Occupied, NEW w \in [Slots -> SlotType], Remove(k, w),
           NEW j \in Occupied \ {k}, SlotOf(j) = SlotFor(tick), Ahead(age, j)
    PROVE  Ahead(age, j)'
  <1>1. next' = IF k = next THEN entries[k].next ELSE next
    BY RemoveEffect DEF RemovedFrom
  <1>2. next # EMPTY /\ age[j] <= age[next] /\ next \in Occupied /\ SlotOf(next) = SlotFor(tick)
    BY WellFormedLinks DEF Ahead
  <1>3. CASE k = next
    <2>1. NextIsNextOlder(age, k) /\ SlotOf(j) = SlotOf(k)
      BY <1>2, <1>3 DEF ListsByAge
    <2>2. age[j] # age[k]
      BY <2>1 DEF NextIsNextOlder
    <2>3. age[j] < age[k]
      BY <2>2, <1>2, <1>3, Typed
    <2>4. entries[k].next # EMPTY /\ age[j] <= age[entries[k].next]
      BY <2>1, <2>3 DEF NextIsNextOlder
    <2>5. next' # EMPTY /\ age[j] <= age[next']
      BY <2>4, <1>1, <1>3
    <2> QED
      BY <2>5 DEF Ahead, EMPTY
  <1>4. CASE k # next
    <2>5. next' # EMPTY /\ age[j] <= age[next']
      BY <1>1, <1>2, <1>4
    <2> QED
      BY <2>5 DEF Ahead, EMPTY
  <1> QED
    BY <1>3, <1>4

LEMMA RemoveKeepsLists ==
    ASSUME TypeOK, WheelWellFormed, HeadsInSlot,
           NEW age \in [Keys -> Nat], NEW b \in Nat, ListsByAge(age, b),
           NEW k \in Occupied, NEW w \in [Slots -> SlotType],
           \A s \in Slots : w[s].head = wheel[s].head,
           Remove(k, w)
    PROVE  ListsByAge(age, b)'
  <1> DEFINE D == Occupied \ {k}
  <1>a. PICK p \in Keys \cup {EMPTY} : p = entries[k].prev
    BY Typed
  <1>b. PICK n \in Keys \cup {EMPTY} : n = entries[k].next
    BY Typed
  <1>c. PICK z \in Slots : z = SlotOf(k)
    BY Typed
  <1>0. /\ Occupied' = D
        /\ \A j \in D : entries'[j].next = IF j = p THEN n ELSE entries[j].next
        /\ \A s \in Slots : wheel'[s].head = IF p = EMPTY /\ s = z THEN n ELSE wheel[s].head
    <2>1. RemovedFrom(k, w)
      BY RemoveEffect
    <2>2. Occupied' = D
      BY <2>1 DEF Occupied, RemovedFrom
    <2> QED
      BY <2>1, <2>2, <1>a, <1>b, <1>c DEF RemovedFrom
  <1>1. \A j \in D : SlotFor(entries'[j].tick) = SlotOf(j)
    BY RemoveKeepsSlots DEF SlotOf
  <1>2. \A j \in Occupied : Linked(j)
    BY WellFormedLinks
  <1>3. /\ \A j \in Occupied : SlotOf(j) \in Slots /\ age[j] \in Nat
        /\ EMPTY \notin Occupied
    BY Typed, Bounds
  <1>4. p # EMPTY => p \in Occupied /\ SlotOf(p) = z /\ entries[p].next = k
    BY <1>2, <1>a, <1>c DEF Linked
  <1>5. p = EMPTY <=> wheel[z].head = k
    BY <1>2, <1>a, <1>c DEF Linked
  <1>6. \A i, j \in Occupied : SlotOf(j) = SlotOf(i) =>
          /\ age[j] = age[i] => j = i
          /\ age[j] < age[i] => entries[i].next # EMPTY /\ age[j] <= age[entries[i].next]
    BY DEF ListsByAge, NextIsNextOlder
  <1>7. \A i \in Occupied :
          /\ age[i] < b
          /\ entries[i].next # EMPTY => age[entries[i].next] < age[i]
          /\ wheel[SlotOf(i)].head # EMPTY /\ age[i] <= age[wheel[SlotOf(i)].head]
    BY DEF ListsByAge, NextIsNextOlder, YoungestIsHead
  <1>8. \A j \in D : SlotOf(j) = z /\ age[j] <= age[k] => n # EMPTY /\ age[j] <= age[n]
    BY <1>3, <1>6, <1>b, <1>c
  <1>9. n # EMPTY => n \in Occupied /\ age[n] < age[k] /\ age[n] \in Nat
    BY <1>2, <1>3, <1>7, <1>b DEF Linked
  <1>10. ASSUME NEW i \in D
         PROVE  /\ wheel'[SlotOf(i)].head # EMPTY
                /\ age[i] <= age[wheel'[SlotOf(i)].head]
    <2>1. CASE p = EMPTY /\ SlotOf(i) = z
      <3>1. wheel[SlotOf(i)].head = k
        BY <2>1, <1>5
      <3>2. age[i] <= age[k]
        BY <3>1, <1>7
      <3> QED
        BY <2>1, <3>2, <1>8, <1>0
    <2>2. CASE ~(p = EMPTY /\ SlotOf(i) = z)
      BY <2>2, <1>0, <1>3, <1>7
    <2> QED
      BY <2>1, <2>2
  <1>11. ASSUME NEW i \in D, entries'[i].next # EMPTY
         PROVE  age[entries'[i].next] < age[i]
    <2>1. CASE i = p
      <3>1. entries'[i].next = n /\ n # EMPTY /\ entries[i].next = k
        BY <2>1, <1>0, <1>11, <1>4, <1>3
      <3>2. age[k] < age[i] /\ k # EMPTY
        BY <3>1, <1>7, <1>3
      <3> QED
        BY <3>1, <3>2, <1>9, <1>3
    <2>2. CASE i # p
      BY <2>2, <1>0, <1>11, <1>7
    <2> QED
      BY <2>1, <2>2
  <1>12. ASSUME NEW i \in D, NEW j \in D, SlotOf(j) = SlotOf(i), age[j] < age[i]
         PROVE  entries'[i].next # EMPTY /\ age[j] <= age[entries'[i].next]
    <2>1. entries[i].next # EMPTY /\ age[j] <= age[entries[i].next]
      BY <1>6, <1>12
    <2>2. CASE i = p
      <3>1. entries[i].next = k /\ SlotOf(j) = z
        BY <2>2, <1>4, <1>3, <1>12
      <3> QED
        BY <3>1, <2>1, <2>2, <1>8, <1>0
    <2>3. CASE i # p
      BY <2>1, <2>3, <1>0
    <2> QED
      BY <2>2, <2>3
  <1>13. \A i \in Occupied' :
           /\ age[i] < b
           /\ wheel'[SlotFor(entries'[i].tick)].head # EMPTY
           /\ age[i] <= age[wheel'[SlotFor(entries'[i].tick)].head]
           /\ entries'[i].next # EMPTY => age[entries'[i].next] < age[i]
    BY <1>0, <1>1, <1>7, <1>10, <1>11
  <1>14. \A i, j \in Occupied' : SlotFor(entries'[j].tick) = SlotFor(entries'[i].tick) =>
           /\ age[j] = age[i] => j = i
           /\ age[j] < age[i] => /\ entries'[i].next # EMPTY
                                 /\ age[j] <= age[entries'[i].next]
    BY <1>0, <1>1, <1>6, <1>12
  <1> QED
    BY <1>13, <1>14, ByAgeAfter

LEMMA RemoveKeepsListed ==
    ASSUME TypeOK, WheelWellFormed, HeadsInSlot,
           NEW age \in [Keys -> Nat], NEW b \in Nat, Listed(age, b),
           NEW k \in Occupied, NEW w \in [Slots -> SlotType],
           \A s \in Slots : w[s].head = wheel[s].head,
           \A j \in Occupied :
              \/ w[SlotOf(j)].next_tick <= entries[j].tick
              \/ Walking' /\ SlotOf(j) = SlotFor(tick) /\ Ahead(age, j),
           Remove(k, w), tick' = tick
    PROVE  Listed(age, b)'
  <1> DEFINE D == Occupied \ {k}
  <1>1. /\ Occupied' = D
        /\ \A j \in D : entries'[j].tick = entries[j].tick /\ entries'[j].late = entries[j].late
        /\ \A s \in Slots : wheel'[s].next_tick = w[s].next_tick
    <2>1. RemovedFrom(k, w)
      BY RemoveEffect
    <2> QED
      BY <2>1 DEF RemovedFrom, Occupied
  <1>2. \A j \in D : SlotFor(entries'[j].tick) = SlotOf(j) /\ SlotOf(j) \in Slots
    BY RemoveKeepsSlots, Typed DEF SlotOf
  <1>3. \A j \in D : SlotOf(j) = SlotFor(tick) /\ Ahead(age, j) => Ahead(age, j)'
    BY RemoveKeepsAhead DEF Listed
  <1>4. ListsByAge(age, b)'
    BY RemoveKeepsLists DEF Listed
  <1>5. DueIsAhead(age)'
    <2> SUFFICES ASSUME NEW j \in D, SlotFor(entries'[j].tick) = SlotFor(tick'),
                        entries'[j].tick <= tick'
                 PROVE  (entries'[j].late /\ entries'[j].tick = tick') \/ Ahead(age, j)'
      BY <1>1 DEF DueIsAhead, SlotOf, SlotFor
    <2>1. SlotOf(j) = SlotFor(tick) /\ entries[j].tick <= tick
      BY <1>1, <1>2
    <2>2. (entries[j].late /\ entries[j].tick = tick) \/ Ahead(age, j)
      BY <2>1 DEF Listed, DueIsAhead
    <2> QED
      BY <2>1, <2>2, <1>1, <1>3
  <1>6. EarliestKnown(age)'
    <2> SUFFICES ASSUME NEW j \in D
                 PROVE  \/ wheel'[SlotFor(entries'[j].tick)].next_tick <= entries'[j].tick
                        \/ /\ Walking' /\ SlotFor(entries'[j].tick) = SlotFor(tick')
                           /\ Ahead(age, j)'
      BY <1>1 DEF EarliestKnown, SlotOf, SlotFor
    <2>1. \/ w[SlotOf(j)].next_tick <= entries[j].tick
          \/ Walking' /\ SlotOf(j) = SlotFor(tick) /\ Ahead(age, j)
      OBVIOUS
    <2> QED
      BY <2>1, <1>1, <1>2, <1>3
  <1> QED
    BY <1>4, <1>5, <1>6 DEF Listed

-----------------------------------------------------------------------------
(* Insertion of key k under tick t.                                        *)
InsertedAt(k, t) ==
    /\ k \in Keys \ Occupied
    /\ Occupied' = Occupied \cup {k}
    /\ entries'[k] = [tick |-> t, prev |-> EMPTY, next |-> wheel[SlotFor(t)].head,
                      late |-> t = tick]
    /\ \A j \in Occupied :
          /\ entries'[j] \in EntryType
          /\ entries'[j].tick = entries[j].tick
          /\ entries'[j].late = entries[j].late
          /\ entries'[j].next = entries[j].next
          /\ entries'[j].prev = IF j = wheel[SlotFor(t)].head THEN k ELSE entries[j].prev
    /\ wheel' \in [Slots -> SlotType]
    /\ \A s \in Slots :
          /\ wheel'[s].head = IF s = SlotFor(t) THEN k ELSE wheel[s].head
          /\ wheel'[s].next_tick <= wheel[s].next_tick
    /\ wheel'[SlotFor(t)].next_tick <= t
    /\ k = free[1] /\ free' \in Seq(Keys) /\ Len(free') = Len(free) - 1
    /\ \A i \in 1..Len(free') : free'[i] = free[i + 1]
    /\ scheduled' = ScheduleReadiness(scheduled, t)

LEMMA InsertEffect ==
    ASSUME TypeOK, VacantKeys, free # <<>>, NEW t \in Ticks, Insert(t)
    PROVE  \E k \in Keys : InsertedAt(k, t)
  <1> USE Typed
  <1>1. PICK k \in Keys : k = Head(free) /\ k = free[1] /\ k \notin Occupied
    BY DEF TypeOK, VacantKeys
  <1>2. /\ free' \in Seq(Keys) /\ Len(free') = Len(free) - 1
        /\ \A i \in 1..Len(free') : free'[i] = free[i + 1]
    <2>1. free \in Seq(Keys) /\ free' = Tail(free)
      BY DEF TypeOK, Insert
    <2> QED
      BY <2>1
  <1>3. t \in Nat
    BY Bounds
  <1>4. PICK s \in Slots : s = SlotFor(t)
    BY <1>3, SlotForIsSlot
  <1>5. PICK h \in Keys \cup {EMPTY} : h = wheel[s].head
    OBVIOUS
  <1>6. PICK m \in BOOLEAN : m = (t = tick)
    OBVIOUS
  <1>7. entries' = [j \in Occupied \cup {k} |->
                       IF j = k THEN [tick |-> t, prev |-> EMPTY, next |-> h, late |-> m]
                       ELSE IF j = h THEN [entries[j] EXCEPT !.prev = k] ELSE entries[j]]
    BY <1>1, <1>4, <1>5, <1>6 DEF Insert
  <1>8. Occupied' = Occupied \cup {k}
    BY <1>7 DEF Occupied
  <1>9. entries'[k] = [tick |-> t, prev |-> EMPTY, next |-> h, late |-> m]
    BY <1>7
  <1>10. ASSUME NEW j \in Occupied
         PROVE  /\ entries'[j] \in EntryType
                /\ entries'[j].tick = entries[j].tick
                /\ entries'[j].late = entries[j].late
                /\ entries'[j].next = entries[j].next
                /\ entries'[j].prev = IF j = h THEN k ELSE entries[j].prev
    <2>1. PICK r \in EntryType : r = entries[j]
      OBVIOUS
    <2>2. entries'[j] = IF j = h THEN [r EXCEPT !.prev = k] ELSE r
      BY <1>1, <1>7, <2>1
    <2> QED
      BY <2>1, <2>2 DEF EntryType
  <1>11. PICK x \in Ticks : x = Earliest(s, t) /\ x <= t /\ x <= wheel[s].next_tick
    BY MinOfTwo, <1>3 DEF Earliest
  <1>12. wheel' = [wheel EXCEPT ![s] = [next_tick |-> x, head |-> k]]
    BY <1>1, <1>4, <1>11 DEF Insert
  <1>13. [next_tick |-> x, head |-> k] \in SlotType
    BY DEF SlotType
  <1>14. /\ wheel' \in [Slots -> SlotType]
         /\ \A i \in Slots : /\ wheel'[i].head = IF i = s THEN k ELSE wheel[i].head
                             /\ wheel'[i].next_tick <= wheel[i].next_tick
         /\ wheel'[s].next_tick <= t
    BY <1>11, <1>12, <1>13
  <1>15. scheduled' = ScheduleReadiness(scheduled, t)
    BY DEF Insert
  <1> QED
    <2>1. entries'[k] = [tick |-> t, prev |-> EMPTY, next |-> wheel[SlotFor(t)].head,
                         late |-> t = tick]
      BY <1>4, <1>5, <1>6, <1>9
    <2>2. \A j \in Occupied :
             /\ entries'[j] \in EntryType
             /\ entries'[j].tick = entries[j].tick
             /\ entries'[j].late = entries[j].late
             /\ entries'[j].next = entries[j].next
             /\ entries'[j].prev = IF j = wheel[SlotFor(t)].head THEN k ELSE entries[j].prev
      BY <1>4, <1>5, <1>10
    <2>3. /\ wheel' \in [Slots -> SlotType]
          /\ \A i \in Slots : /\ wheel'[i].head = IF i = SlotFor(t) THEN k ELSE wheel[i].head
                              /\ wheel'[i].next_tick <= wheel[i].next_tick
          /\ wheel'[SlotFor(t)].next_tick <= t
      BY <1>4, <1>14
    <2>4. InsertedAt(k, t)
      BY <1>1, <1>2, <1>8, <1>15, <2>1, <2>2, <2>3, Zenon DEF InsertedAt
    <2> QED
      BY <2>4

LEMMA InsertKeepsVacant ==
    ASSUME TypeOK, VacantKeys, free # <<>>, NEW k \in Keys, NEW t \in Ticks, InsertedAt(k, t)
    PROVE  VacantKeys'
  <1>1. /\ Occupied' = Occupied \cup {k} /\ k = free[1] /\ Len(free') = Len(free) - 1
        /\ \A i \in 1..Len(free') : free'[i] = free[i + 1]
    BY DEF InsertedAt
  <1>2. Len(free) \in Nat /\ Len(free) >= 1
    BY DEF TypeOK
  <1>3. \A i \in 1..Len(free') : i + 1 \in 1..Len(free) /\ 1 \in 1..Len(free) /\ i + 1 # 1
    BY <1>1, <1>2
  <1>4. \A i \in 1..Len(free') : free'[i] \notin Occupied'
    BY <1>1, <1>3 DEF VacantKeys
  <1>5. \A i, j \in 1..Len(free') : free'[i] = free'[j] => i + 1 = j + 1
    BY <1>1, <1>3 DEF VacantKeys
  <1> QED
    BY <1>4, <1>5 DEF VacantKeys

LEMMA InsertKeepsLinks ==
    ASSUME TypeOK, WheelWellFormed, HeadsInSlot,
           NEW k \in Keys, NEW t \in Ticks, InsertedAt(k, t), UNCHANGED cursor
    PROVE  WheelWellFormed' /\ HeadsInSlot'
  <1>0. t \in Nat
    BY Bounds
  <1>a. PICK s \in Slots : s = SlotFor(t)
    BY <1>0, SlotForIsSlot
  <1>b. PICK h \in Keys \cup {EMPTY} : h = wheel[s].head
    BY Typed
  <1>1. /\ k \notin Occupied /\ Occupied' = Occupied \cup {k}
        /\ entries'[k].tick = t /\ entries'[k].prev = EMPTY /\ entries'[k].next = h
        /\ \A j \in Occupied : /\ entries'[j].tick = entries[j].tick
                               /\ entries'[j].next = entries[j].next
                               /\ entries'[j].prev = IF j = h THEN k ELSE entries[j].prev
        /\ DOMAIN wheel' = Slots
        /\ \A i \in Slots : wheel'[i].head = IF i = s THEN k ELSE wheel[i].head
    BY <1>a, <1>b DEF InsertedAt
  <1>2. /\ SlotFor(entries'[k].tick) = s
        /\ \A j \in Occupied : SlotFor(entries'[j].tick) = SlotOf(j) /\ SlotOf(j) \in Slots
    BY <1>1, <1>a, Typed DEF SlotOf
  <1>3. \A j \in Occupied : Linked(j)
    BY WellFormedLinks
  <1>4. \A i \in Slots : wheel[i].head # EMPTY =>
            wheel[i].head \in Occupied /\ SlotOf(wheel[i].head) = i
    BY Typed DEF HeadsInSlot
  <1>5. k # EMPTY /\ EMPTY \notin Occupied
    BY Typed, Bounds
  <1>6. \A i \in Slots : wheel'[i].head # EMPTY =>
            wheel'[i].head \in Occupied' /\ SlotFor(entries'[wheel'[i].head].tick) = i
    BY <1>1, <1>2, <1>4
  <1>7. HeadsInSlot'
    BY <1>1, <1>6 DEF HeadsInSlot, SlotOf, EMPTY
  <1>8. Linked(k)'
    <2>1. wheel'[SlotFor(entries'[k].tick)].head = k
      BY <1>1, <1>2
    <2>2. h # EMPTY => h \in Occupied /\ entries'[h].prev = k
      BY <1>1, <1>b, <1>4
    <2> QED
      BY <2>1, <2>2, <1>1 DEF Linked, SlotOf, EMPTY
  <1>9. ASSUME NEW j \in Occupied
        PROVE  Linked(j)'
    <2>0. /\ entries[j].prev = EMPTY <=> wheel[SlotOf(j)].head = j
          /\ entries[j].prev # EMPTY => /\ entries[j].prev \in Occupied
                                        /\ entries[entries[j].prev].next = j
                                        /\ SlotOf(entries[j].prev) = SlotOf(j)
          /\ entries[j].next # EMPTY => /\ entries[j].next \in Occupied
                                        /\ entries[entries[j].next].prev = j
      BY <1>3 DEF Linked
    <2>1. entries'[j].prev = EMPTY <=> wheel'[SlotOf(j)].head = j
      BY <2>0, <1>1, <1>2, <1>4, <1>5, <1>b
    <2>2. ASSUME entries'[j].prev # EMPTY
          PROVE  /\ entries'[j].prev \in Occupied'
                 /\ entries'[entries'[j].prev].next = j
                 /\ SlotFor(entries'[entries'[j].prev].tick) = SlotOf(j)
      <3>1. CASE j = h
        BY <3>1, <1>1, <1>2, <1>4, <1>5, <1>b
      <3>2. CASE j # h
        BY <3>2, <2>0, <2>2, <1>1, <1>2
      <3> QED
        BY <3>1, <3>2
    <2>3. ASSUME entries'[j].next # EMPTY
          PROVE  entries'[j].next \in Occupied' /\ entries'[entries'[j].next].prev = j
      <3>1. PICK n \in Occupied : n = entries[j].next /\ entries[n].prev = j
        BY <2>0, <2>3, <1>1
      <3>2. n # h
        <4> SUFFICES ASSUME n = h PROVE FALSE
          OBVIOUS
        <4>1. SlotOf(n) = s
          BY <1>4, <1>b, <1>5
        <4>2. entries[n].prev = EMPTY
          BY <4>1, <1>3, <1>b DEF Linked
        <4> QED
          BY <3>1, <4>2, <1>5
      <3> QED
        BY <3>1, <3>2, <1>1
    <2> QED
      BY <2>1, <2>2, <2>3, <1>2, Zenon DEF Linked, SlotOf, EMPTY
  <1>10. next' # EMPTY => next' \in Occupied' /\ SlotFor(entries'[next'].tick) = SlotFor(tick')
    BY <1>1, <1>2, WellFormedLinks DEF cursor
  <1>11. \A i \in Slots : wheel'[i].head \in Occupied' \cup {EMPTY}
    BY <1>6
  <1> QED
    BY <1>1, <1>7, <1>8, <1>9, <1>10, <1>11, WellFormedLinksAfter

LEMMA InsertKeepsListed ==
    ASSUME TypeOK, WheelWellFormed, HeadsInSlot,
           NEW age \in [Keys -> Nat], NEW b \in Nat, Listed(age, b),
           NEW k \in Keys, NEW t \in Ticks, t >= tick, InsertedAt(k, t),
           UNCHANGED <<cursor, phase, target>>
    PROVE  SomeOrder'
  <1>0. t \in Nat
    BY Bounds
  <1>a. PICK s \in Slots : s = SlotFor(t)
    BY <1>0, SlotForIsSlot
  <1>b. PICK h \in Keys \cup {EMPTY} : h = wheel[s].head
    BY Typed
  <1>1. /\ k \notin Occupied /\ Occupied' = Occupied \cup {k}
        /\ entries'[k].tick = t /\ entries'[k].next = h /\ entries'[k].late = (t = tick)
        /\ \A j \in Occupied : /\ entries'[j].tick = entries[j].tick
                               /\ entries'[j].late = entries[j].late
                               /\ entries'[j].next = entries[j].next
        /\ \A i \in Slots : wheel'[i].head = IF i = s THEN k ELSE wheel[i].head
        /\ \A i \in Slots : wheel'[i].next_tick <= wheel[i].next_tick
        /\ wheel'[s].next_tick <= t
        /\ \A i \in Slots : wheel'[i].next_tick \in Nat
    <2>1. wheel' \in [Slots -> SlotType]
      BY DEF InsertedAt
    <2>2. \A i \in Slots : wheel'[i].next_tick \in Nat
      BY <2>1, Bounds DEF SlotType
    <2> QED
      BY <2>2, <1>a, <1>b DEF InsertedAt
  <1>2. /\ SlotFor(entries'[k].tick) = s
        /\ \A j \in Occupied : SlotFor(entries'[j].tick) = SlotOf(j) /\ SlotOf(j) \in Slots
    BY <1>1, <1>a, Typed DEF SlotOf
  <1>3. \A i \in Slots : wheel[i].head # EMPTY =>
            wheel[i].head \in Occupied /\ SlotOf(wheel[i].head) = i
    BY Typed DEF HeadsInSlot
  <1>4. k # EMPTY /\ EMPTY \notin Occupied /\ Occupied \subseteq Keys
    BY Typed, Bounds
  <1>5. PICK new \in [Keys -> Nat] :
           new[k] = b /\ \A j \in Occupied : new[j] = age[j] /\ age[j] \in Nat
    <2>1. [age EXCEPT ![k] = b] \in [Keys -> Nat]
      OBVIOUS
    <2> QED
      BY <2>1, <1>1, <1>4
  <1>6. ListsByAge(age, b) /\ DueIsAhead(age) /\ EarliestKnown(age)
    BY DEF Listed
  <1>7. \A i \in Occupied :
          /\ age[i] < b
          /\ entries[i].next # EMPTY => entries[i].next \in Occupied
          /\ entries[i].next # EMPTY => age[entries[i].next] < age[i]
          /\ wheel[SlotOf(i)].head # EMPTY /\ age[i] <= age[wheel[SlotOf(i)].head]
    BY <1>6, NextInSlot DEF ListsByAge, NextIsNextOlder, YoungestIsHead
  <1>8. \A i, j \in Occupied : SlotOf(j) = SlotOf(i) =>
          /\ age[j] = age[i] => j = i
          /\ age[j] < age[i] => entries[i].next # EMPTY /\ age[j] <= age[entries[i].next]
    BY <1>6 DEF ListsByAge, NextIsNextOlder
  <1>9. ListsByAge(new, b + 1)'
    <2>1. ASSUME NEW i \in Occupied'
          PROVE  /\ new[i] < b + 1
                 /\ wheel'[SlotFor(entries'[i].tick)].head # EMPTY
                 /\ new[i] <= new[wheel'[SlotFor(entries'[i].tick)].head]
                 /\ entries'[i].next # EMPTY => new[entries'[i].next] < new[i]
      <3>1. CASE i = k
        BY <3>1, <1>1, <1>2, <1>3, <1>4, <1>5, <1>7, <1>b
      <3>2. CASE i \in Occupied
        BY <3>2, <1>1, <1>2, <1>3, <1>4, <1>5, <1>7, <1>b
      <3> QED
        BY <3>1, <3>2, <1>1
    <2>2. ASSUME NEW i \in Occupied', NEW j \in Occupied',
                 SlotFor(entries'[j].tick) = SlotFor(entries'[i].tick)
          PROVE  /\ new[j] = new[i] => j = i
                 /\ new[j] < new[i] => /\ entries'[i].next # EMPTY
                                       /\ new[j] <= new[entries'[i].next]
      <3>1. CASE i = k /\ j \in Occupied
        BY <3>1, <2>2, <1>1, <1>2, <1>3, <1>4, <1>5, <1>7, <1>b
      <3>2. CASE j = k
        BY <3>2, <1>1, <1>5, <1>7
      <3>3. CASE i \in Occupied /\ j \in Occupied
        BY <3>3, <2>2, <1>1, <1>2, <1>5, <1>7, <1>8
      <3> QED
        BY <3>1, <3>2, <3>3, <1>1
    <2> QED
      BY <2>1, <2>2, ByAgeAfter
  <1>10. tick' = tick /\ next' = next /\ Walking' = Walking
    BY DEF cursor, Walking
  <1>11. \A j \in Occupied : SlotOf(j) = SlotFor(tick) /\ Ahead(age, j) => Ahead(new, j)'
    <2> SUFFICES ASSUME NEW j \in Occupied, Ahead(age, j)
                 PROVE  next' # EMPTY /\ new[j] <= new[next']
      BY DEF Ahead, EMPTY
    <2>1. next # EMPTY /\ age[j] <= age[next] /\ next \in Occupied
      BY WellFormedLinks DEF Ahead
    <2> QED
      BY <2>1, <1>5, <1>10
  <1>12. DueIsAhead(new)'
    <2> SUFFICES ASSUME NEW j \in Occupied', SlotFor(entries'[j].tick) = SlotFor(tick'),
                        entries'[j].tick <= tick'
                 PROVE  (entries'[j].late /\ entries'[j].tick = tick') \/ Ahead(new, j)'
      BY DEF DueIsAhead, SlotOf, SlotFor
    <2>1. CASE j = k
      <3>1. t = tick
        BY <2>1, <1>0, <1>1, <1>10, Typed
      <3> QED
        BY <2>1, <3>1, <1>1, <1>10
    <2>2. CASE j \in Occupied
      <3>1. SlotOf(j) = SlotFor(tick) /\ entries[j].tick <= tick
        BY <2>2, <1>1, <1>2, <1>10
      <3>2. (entries[j].late /\ entries[j].tick = tick) \/ Ahead(age, j)
        BY <2>2, <3>1, <1>6 DEF DueIsAhead
      <3> QED
        BY <2>2, <3>1, <3>2, <1>1, <1>10, <1>11
    <2> QED
      BY <2>1, <2>2, <1>1
  <1>13. EarliestKnown(new)'
    <2> SUFFICES ASSUME NEW j \in Occupied'
                 PROVE  \/ wheel'[SlotFor(entries'[j].tick)].next_tick <= entries'[j].tick
                        \/ /\ Walking' /\ SlotFor(entries'[j].tick) = SlotFor(tick')
                           /\ Ahead(new, j)'
      BY DEF EarliestKnown, SlotOf, SlotFor
    <2>1. CASE j = k
      BY <2>1, <1>1, <1>2
    <2>2. CASE j \in Occupied
      <3>1. \/ wheel[SlotOf(j)].next_tick <= entries[j].tick
            \/ Walking /\ SlotOf(j) = SlotFor(tick) /\ Ahead(age, j)
        BY <2>2, <1>6 DEF EarliestKnown
      <3>2. CASE wheel[SlotOf(j)].next_tick <= entries[j].tick
        BY <2>2, <3>2, <1>1, <1>2, Typed
      <3>3. CASE Walking /\ SlotOf(j) = SlotFor(tick) /\ Ahead(age, j)
        BY <2>2, <3>3, <1>2, <1>10, <1>11
      <3> QED
        BY <3>1, <3>2, <3>3
    <2> QED
      BY <2>1, <2>2, <1>1
  <1>14. Listed(new, b + 1)' /\ b + 1 \in Nat
    BY <1>9, <1>12, <1>13 DEF Listed
  <1>15. PICK c \in Nat : c = b + 1 /\ Listed(new, c)'
    BY <1>14
  <1> QED
    BY <1>5, <1>15 DEF SomeOrder, Keys

-----------------------------------------------------------------------------
(* The actions.                                                            *)
LEMMA InitEstablishesIInv == Init => IInv
  <1> SUFFICES ASSUME Init PROVE IInv
    OBVIOUS
  <1>1. Occupied = {}
    BY DEF Init, Occupied
  <1>2. TypeOK
    <2>1. free \in Seq(Keys)
      <3>1. NumEntries \in Nat /\ free = [i \in 1..NumEntries |-> i]
        BY ConstantsAssumption DEF Init
      <3> QED
        BY <3>1 DEF Keys
    <2>2. wheel \in [0..NumSlots - 1 -> [next_tick : Ticks, head : Keys \cup {EMPTY}]]
      <3>1. TICK_MAX \in Ticks
        BY Bounds
      <3> QED
        BY <3>1 DEF Init
    <2>3. /\ now \in 0..MaxTick /\ tick \in 0..MaxTick + 1 /\ target \in 0..MaxTick
          /\ next \in Keys \cup {EMPTY} /\ scheduled \in Ticks
          /\ phase \in {"idle", "polling", "fired"}
      BY Bounds DEF Init
    <2>4. {registered, ready, alive} \subseteq BOOLEAN
      BY Zenon DEF Init
    <2> QED
      BY <1>1, <2>1, <2>2, <2>3, <2>4 DEF TypeOK
  <1>3. VacantKeys
    <2>1. NumEntries \in Nat /\ free = [i \in 1..NumEntries |-> i]
      BY ConstantsAssumption DEF Init
    <2>2. Len(free) = NumEntries
      BY <2>1
    <2>3. \A i \in 1..Len(free) : free[i] = i
      BY <2>1, <2>2
    <2> QED
      BY <1>1, <2>3 DEF VacantKeys
  <1>4. \A s \in DOMAIN wheel : wheel[s].head = EMPTY
    BY DEF Init
  <1>5. WheelWellFormed
    BY <1>1, <1>4 DEF WheelWellFormed, Init
  <1>6. HeadsInSlot
    BY <1>4 DEF HeadsInSlot
  <1>7. NothingDueIsLeft /\ ScheduledInTime
    BY <1>1 DEF NothingDueIsLeft, ScheduledInTime
  <1>8. SomeOrder
    <2>1. [k \in Keys |-> 0] \in [Keys -> Nat]
      OBVIOUS
    <2>2. \A age : Listed(age, 0)
      BY <1>1 DEF Listed, ListsByAge, DueIsAhead, EarliestKnown
    <2> QED
      BY <2>1, <2>2 DEF SomeOrder
  <1> QED
    BY <1>2, <1>3, <1>5, <1>6, <1>7, <1>8 DEF IInv

(* What holds of the lists and the cursor goes on holding in a step that   *)
(* touches neither.                                                        *)
LEMMA ListsUntouched ==
    ASSUME IInv, UNCHANGED <<slab, wheel, cursor>>, Walking => Walking'
    PROVE  VacantKeys' /\ WheelWellFormed' /\ HeadsInSlot' /\ NothingDueIsLeft' /\ SomeOrder'
  <1>1. /\ entries' = entries /\ free' = free /\ wheel' = wheel
        /\ tick' = tick /\ next' = next
    BY DEF slab, cursor
  <1>2. VacantKeys' /\ HeadsInSlot' /\ NothingDueIsLeft'
    BY <1>1 DEF IInv, VacantKeys, HeadsInSlot, NothingDueIsLeft, Occupied, SlotOf,
                SlotFor, EMPTY
  <1>3. WheelWellFormed'
    BY <1>1 DEF IInv, WheelWellFormed, Occupied, SlotFor, EMPTY
  <1>4. PICK age \in [Keys -> Nat], b \in Nat : Listed(age, b)
    BY DEF IInv, SomeOrder
  <1>5. ListsByAge(age, b)' /\ DueIsAhead(age)'
    BY <1>1, <1>4 DEF Listed, ListsByAge, YoungestIsHead, NextIsNextOlder, DueIsAhead,
                      Ahead, Occupied, SlotOf, SlotFor, EMPTY
  <1>6. EarliestKnown(age)'
    BY <1>1, <1>4 DEF Listed, EarliestKnown, Ahead, Occupied, SlotOf, SlotFor, EMPTY
  <1>7. Listed(age, b)'
    BY <1>5, <1>6 DEF Listed
  <1>8. SomeOrder'
    BY <1>7, Zenon DEF SomeOrder, Keys
  <1> QED
    BY <1>2, <1>3, <1>8

(* next_tick() comes no later than any pending timeout, or is the tick the *)
(* cursor stands on.                                                       *)
LEMMA NextTickInTime ==
    ASSUME IInv, ~Walking
    PROVE  /\ NextTick(cursor, wheel) \in Ticks
           /\ \A k \in Occupied :
                 \/ NextTick(cursor, wheel) <= entries[k].tick
                 \/ entries[k].late /\ NextTick(cursor, wheel) <= tick
  <1> USE DEF IInv
  <1> DEFINE S == {wheel[s].next_tick : s \in DOMAIN wheel}
  <1>1. S \in SUBSET Nat /\ S \subseteq Ticks /\ S # {}
    <2>1. SlotFor(tick) \in Slots
      BY Typed
    <2> QED
      BY <2>1, Typed
  <1>2. Min(S) \in S /\ \A m \in S : Min(S) <= m
    BY <1>1, MinIsLeast
  <1>3. PICK age \in [Keys -> Nat], b \in Nat : Listed(age, b)
    BY DEF SomeOrder
  <1>4. \A k \in Occupied : wheel[SlotOf(k)].next_tick <= entries[k].tick
    BY <1>3 DEF Listed, EarliestKnown
  <1>5. \A k \in Occupied : Min(S) <= entries[k].tick
    <2> TAKE k \in Occupied
    <2>1. PICK x \in Nat : x = wheel[SlotOf(k)].next_tick
      BY Typed
    <2>2. x \in S
      BY <2>1, Typed
    <2>3. Min(S) <= x /\ Min(S) \in Nat
      BY <2>2, <1>1, <1>2
    <2>4. x <= entries[k].tick /\ entries[k].tick \in Nat
      BY <2>1, <1>4, Typed
    <2> HIDE DEF S
    <2> QED
      BY <2>1, <2>3, <2>4
  <1>6. Min(S) \in Ticks
    BY <1>1, <1>2
  <1>7. cursor[1] = tick /\ cursor[2] = next
    BY DEF cursor
  <1>8. tick \in Ticks
    BY Bounds DEF TypeOK
  <1>9. CASE NextTick(cursor, wheel) = Min(S)
    BY <1>5, <1>6, <1>9
  <1>10. CASE NextTick(cursor, wheel) = tick
    BY <1>8, <1>10, Typed DEF NothingDueIsLeft
  <1> QED
    BY <1>7, <1>9, <1>10 DEF NextTick

LEMMA TimePassesKeeps ==
    ASSUME IInv, TimePasses
    PROVE  IInv'
  <1>1. VacantKeys' /\ WheelWellFormed' /\ HeadsInSlot' /\ NothingDueIsLeft' /\ SomeOrder'
    BY ListsUntouched DEF TimePasses, Walking, cursor
  <1>2. TypeOK'
    BY Bounds DEF IInv, TypeOK, TimePasses, slab, cursor, thread, Occupied, Keys, EMPTY,
                   Ticks, TICK_MAX
  <1>3. ScheduledInTime'
    BY DEF IInv, ScheduledInTime, TimePasses, slab, cursor, thread, Occupied
  <1> QED
    BY <1>1, <1>2, <1>3 DEF IInv

LEMMA RegisterKeeps ==
    ASSUME IInv, Register
    PROVE  IInv'
  <1>1. VacantKeys' /\ WheelWellFormed' /\ HeadsInSlot' /\ NothingDueIsLeft' /\ SomeOrder'
    BY ListsUntouched DEF Register, Walking, cursor
  <1>2. /\ NextTick(cursor, wheel) \in Ticks
        /\ \A k \in Occupied : \/ NextTick(cursor, wheel) <= entries[k].tick
                               \/ entries[k].late /\ NextTick(cursor, wheel) <= tick
    BY NextTickInTime DEF Register, Walking
  <1>3. PICK x \in Ticks : x = NextTick(cursor, wheel)
    BY <1>2
  <1>4. /\ scheduled' = x /\ registered' = TRUE
        /\ UNCHANGED <<now, slab, wheel, cursor, ready, alive, phase, target>>
    BY <1>3 DEF Register
  <1>5. TypeOK'
    BY <1>4 DEF IInv, TypeOK, slab, cursor, Occupied, Keys, EMPTY, Ticks, TICK_MAX
  <1>6. ScheduledInTime'
    BY <1>2, <1>3, <1>4 DEF ScheduledInTime, slab, cursor, Occupied
  <1> QED
    BY <1>1, <1>5, <1>6 DEF IInv

LEMMA WakeupKeeps ==
    ASSUME IInv, Wakeup
    PROVE  IInv'
  <1>1. VacantKeys' /\ WheelWellFormed' /\ HeadsInSlot' /\ NothingDueIsLeft' /\ SomeOrder'
    BY ListsUntouched DEF Wakeup, Walking, cursor
  <1>2. TICK_MAX \in Ticks
    BY Bounds
  <1>3. TypeOK'
    BY <1>2 DEF IInv, TypeOK, Wakeup, slab, cursor, Occupied, Keys, EMPTY, Ticks, TICK_MAX
  <1>4. ScheduledInTime'
    <2>1. /\ entries' = entries /\ tick' = tick /\ registered' = registered
          /\ phase' = phase
      BY DEF Wakeup, slab, cursor
    <2>2. CASE scheduled = TERMINATE_THREAD
      <3>1. scheduled' = scheduled /\ ready' = ready
        BY <2>2, Zenon DEF Wakeup
      <3> QED
        BY <2>1, <3>1 DEF IInv, ScheduledInTime, Occupied
    <2>3. CASE scheduled # TERMINATE_THREAD
      <3>1. ready'
        BY <2>3, Zenon DEF Wakeup
      <3> QED
        BY <3>1 DEF ScheduledInTime
    <2> QED
      BY <2>2, <2>3
  <1> QED
    BY <1>1, <1>3, <1>4 DEF IInv

LEMMA StartPollKeeps ==
    ASSUME IInv, StartPoll
    PROVE  IInv'
  <1>1. target' \in 0..MaxTick /\ tick <= target' /\ phase' = "polling"
    BY Bounds DEF IInv, TypeOK, StartPoll, TargetTick
  <1>2. VacantKeys' /\ WheelWellFormed' /\ HeadsInSlot' /\ NothingDueIsLeft' /\ SomeOrder'
    <2>1. Walking'
      BY <1>1 DEF StartPoll, Walking, cursor
    <2> QED
      BY <2>1, ListsUntouched DEF StartPoll
  <1>3. TypeOK'
    BY <1>1 DEF IInv, TypeOK, StartPoll, slab, cursor, thread, Occupied, Keys, EMPTY,
                   Ticks, TICK_MAX
  <1>4. ScheduledInTime'
    BY <1>1 DEF ScheduledInTime
  <1> QED
    BY <1>2, <1>3, <1>4 DEF IInv

LEMMA PollNoneKeeps ==
    ASSUME IInv, PollNone
    PROVE  IInv'
  <1>0. ~Walking
    BY Typed, Bounds DEF PollNone, Walking, IInv, TypeOK
  <1>1. VacantKeys' /\ WheelWellFormed' /\ HeadsInSlot' /\ NothingDueIsLeft' /\ SomeOrder'
    BY <1>0, ListsUntouched DEF PollNone
  <1>2. /\ NextTick(cursor, wheel) \in Ticks
        /\ \A k \in Occupied : \/ NextTick(cursor, wheel) <= entries[k].tick
                               \/ entries[k].late /\ NextTick(cursor, wheel) <= tick
    BY <1>0, NextTickInTime
  <1>3. PICK x \in Ticks : x = NextTick(cursor, wheel)
    BY <1>2
  <1>4. /\ scheduled' = IF registered /\ x < scheduled THEN x ELSE scheduled
        /\ phase' = "idle" /\ ready' = FALSE
        /\ UNCHANGED <<now, slab, wheel, cursor, registered, alive, target>>
    BY <1>3 DEF PollNone, ScheduleReadiness
  <1>5. TypeOK'
    BY <1>4 DEF IInv, TypeOK, slab, cursor, Occupied, Keys, EMPTY, Ticks, TICK_MAX
  <1>6. ScheduledInTime'
    <2>1. scheduled \in Nat /\ scheduled' \in Nat /\ x \in Nat /\ tick \in Nat
      BY <1>4, Bounds DEF IInv, TypeOK
    <2>2. registered => scheduled' <= x
      BY <1>4, <2>1
    <2>3. entries' = entries /\ tick' = tick /\ registered' = registered
      BY <1>4 DEF slab, cursor
    <2>4. \A k \in Occupied : registered => \/ scheduled' <= entries[k].tick
                                            \/ entries[k].late /\ scheduled' <= tick
      BY <1>2, <1>3, <2>1, <2>2, Typed DEF IInv
    <2> QED
      BY <2>3, <2>4 DEF ScheduledInTime, Occupied
  <1> QED
    BY <1>1, <1>5, <1>6 DEF IInv

LEMMA SetTimeoutKeeps ==
    ASSUME IInv, NEW d \in 0..MaxDelay, SetTimeout(d)
    PROVE  IInv'
  <1>1. PICK t \in Ticks : t = FiledTick(now + d) /\ t >= tick /\ t \in Nat
    BY Bounds DEF IInv, TypeOK, FiledTick
  <1>2. /\ free # <<>> /\ Insert(t)
        /\ UNCHANGED <<now, cursor, registered, ready, alive, phase, target>>
    BY <1>1 DEF SetTimeout
  <1>3. PICK k \in Keys : InsertedAt(k, t)
    BY <1>2, InsertEffect DEF IInv
  <1>4. VacantKeys'
    BY <1>2, <1>3, InsertKeepsVacant DEF IInv
  <1>5. WheelWellFormed' /\ HeadsInSlot'
    BY <1>2, <1>3, InsertKeepsLinks DEF IInv
  <1>6. PICK age \in [Keys -> Nat], b \in Nat : Listed(age, b)
    BY DEF IInv, SomeOrder
  <1>7. SomeOrder'
    BY <1>1, <1>2, <1>3, <1>6, InsertKeepsListed DEF IInv
  <1>8. /\ Occupied' = Occupied \cup {k}
        /\ entries'[k].tick = t /\ entries'[k] \in EntryType
        /\ \A j \in Occupied : /\ entries'[j] \in EntryType
                               /\ entries'[j].tick = entries[j].tick
                               /\ entries'[j].late = entries[j].late
        /\ wheel' \in [Slots -> SlotType] /\ free' \in Seq(Keys)
        /\ scheduled' = IF registered /\ t < scheduled THEN t ELSE scheduled
    <2>1. PICK h \in Keys \cup {EMPTY} : h = wheel[SlotFor(t)].head
      BY <1>1, Typed, SlotForIsSlot DEF IInv
    <2>2. PICK m \in BOOLEAN : m = (t = tick)
      OBVIOUS
    <2>3. entries'[k] = [tick |-> t, prev |-> EMPTY, next |-> h, late |-> m]
      BY <1>3, <2>1, <2>2 DEF InsertedAt
    <2>4. entries'[k].tick = t /\ entries'[k] \in EntryType
      BY <2>3 DEF EntryType
    <2> QED
      BY <2>4, <1>3 DEF InsertedAt, ScheduleReadiness
  <1>9. TypeOK'
    <2>1. Occupied' \subseteq Keys /\ \A j \in Occupied' : entries'[j] \in EntryType
      BY <1>8, Typed DEF IInv
    <2>2. scheduled' \in Ticks
      BY <1>8 DEF IInv, TypeOK
    <2>3. {registered', ready', alive'} \subseteq BOOLEAN
      BY <1>2 DEF IInv, TypeOK
    <2> QED
      BY <2>1, <2>2, <2>3, <1>2, <1>8 DEF IInv, TypeOK, EntryType, SlotType, Slots, cursor,
                                     Keys, EMPTY, Ticks, TICK_MAX
  <1>10. NothingDueIsLeft'
    BY <1>1, <1>2, <1>8 DEF IInv, NothingDueIsLeft, cursor
  <1>11. ScheduledInTime'
    <2>1. /\ scheduled \in Nat /\ scheduled' \in Nat /\ scheduled' <= scheduled
          /\ registered => scheduled' <= t
      BY <1>1, <1>8, Bounds DEF IInv, TypeOK
    <2>2. /\ phase' = phase /\ registered' = registered /\ ready' = ready /\ tick' = tick
      BY <1>2 DEF cursor
    <2> SUFFICES ASSUME phase = "idle", registered, NEW j \in Occupied'
                 PROVE  \/ ready
                        \/ scheduled' <= entries'[j].tick
                        \/ entries'[j].late /\ scheduled' <= tick
      BY <2>2 DEF ScheduledInTime
    <2>3. CASE j = k
      BY <2>1, <2>3, <1>8
    <2>4. CASE j \in Occupied
      <3>1. ready \/ scheduled <= entries[j].tick \/ (entries[j].late /\ scheduled <= tick)
        BY <2>4 DEF IInv, ScheduledInTime
      <3>2. CASE ready
        BY <3>2
      <3>3. CASE scheduled <= entries[j].tick
        BY <3>3, <2>1, <2>4, <1>8, Typed DEF IInv
      <3>4. CASE entries[j].late /\ scheduled <= tick
        BY <3>4, <2>1, <2>4, <1>8, Typed DEF IInv
      <3> QED
        BY <3>1, <3>2, <3>3, <3>4
    <2> QED
      BY <2>3, <2>4, <1>8
  <1> QED
    BY <1>4, <1>5, <1>7, <1>9, <1>10, <1>11 DEF IInv

(* The types after a removal.                                              *)
LEMMA RemoveKeepsTypes ==
    ASSUME IInv, NEW k \in Occupied, NEW w \in [Slots -> SlotType], Remove(k, w),
           UNCHANGED <<now, tick, thread, target>>, phase' \in {"idle", "polling", "fired"}
    PROVE  TypeOK' /\ NothingDueIsLeft'
  <1>1. RemovedFrom(k, w)
    BY RemoveEffect DEF IInv
  <1>2. /\ Occupied' = Occupied \ {k}
        /\ \A j \in Occupied' : /\ entries'[j] \in EntryType
                                /\ entries'[j].tick = entries[j].tick
                                /\ entries'[j].late = entries[j].late
        /\ wheel' \in [Slots -> SlotType] /\ free' \in Seq(Keys)
    BY <1>1 DEF RemovedFrom, Occupied
  <1>3. next' \in Keys \cup {EMPTY}
    BY <1>1, Typed DEF RemovedFrom, IInv
  <1>4. TypeOK'
    <2>1. Occupied' \subseteq Keys
      BY <1>2, Typed DEF IInv
    <2>2. {registered', ready', alive'} \subseteq BOOLEAN
      BY DEF IInv, TypeOK, thread
    <2> QED
      BY <2>1, <2>2, <1>2, <1>3 DEF IInv, TypeOK, EntryType, SlotType, Slots, thread,
                                    Keys, EMPTY, Ticks, TICK_MAX
  <1>5. NothingDueIsLeft'
    BY <1>2 DEF IInv, NothingDueIsLeft
  <1> QED
    BY <1>4, <1>5

LEMMA CancelTimeoutKeeps ==
    ASSUME IInv, NEW k \in Keys, CancelTimeout(k)
    PROVE  IInv'
  <1>1. PICK w \in [Slots -> SlotType] : w = wheel
    BY Typed DEF IInv
  <1>2. /\ k \in Occupied /\ Remove(k, w)
        /\ UNCHANGED <<now, tick, thread, phase, target>>
    BY <1>1 DEF CancelTimeout
  <1>3. TypeOK' /\ NothingDueIsLeft'
    <2>1. phase' \in {"idle", "polling", "fired"}
      BY <1>2 DEF IInv, TypeOK
    <2> QED
      BY <2>1, <1>2, RemoveKeepsTypes
  <1>4. VacantKeys'
    BY <1>2, RemoveKeepsVacant DEF IInv
  <1>5. PICK age \in [Keys -> Nat], b \in Nat : Listed(age, b)
    BY DEF IInv, SomeOrder
  <1>6. ListsByAge(age, b)
    BY <1>5 DEF Listed
  <1>7. \A s \in Slots : w[s].head = wheel[s].head
    BY <1>1
  <1>8. WheelWellFormed' /\ HeadsInSlot'
    BY <1>2, <1>6, <1>7, RemoveKeepsLinks DEF IInv
  <1>9. \A j \in Occupied :
           \/ w[SlotOf(j)].next_tick <= entries[j].tick
           \/ Walking' /\ SlotOf(j) = SlotFor(tick) /\ Ahead(age, j)
    <2>1. Walking' = Walking
      BY <1>2 DEF Walking
    <2> QED
      BY <2>1, <1>1, <1>5 DEF Listed, EarliestKnown
  <1>10. Listed(age, b)'
    BY <1>2, <1>5, <1>7, <1>9, RemoveKeepsListed DEF IInv
  <1>11. SomeOrder'
    BY <1>10, Zenon DEF SomeOrder, Keys
  <1>12. ScheduledInTime'
    <2>1. RemovedFrom(k, w)
      BY <1>2, RemoveEffect DEF IInv
    <2>2. /\ Occupied' = Occupied \ {k}
          /\ \A j \in Occupied' : /\ entries'[j].tick = entries[j].tick
                                  /\ entries'[j].late = entries[j].late
      BY <2>1 DEF RemovedFrom, Occupied
    <2> QED
      BY <2>2, <1>2 DEF IInv, ScheduledInTime, thread
  <1> QED
    BY <1>3, <1>4, <1>8, <1>11, <1>12 DEF IInv

(* poll_to resets the next_tick of the list it enters, and nothing else.   *)
LEMMA VisitedEffect ==
    ASSUME TypeOK
    PROVE  /\ Visited \in [Slots -> SlotType]
           /\ \A s \in Slots : Visited[s].head = wheel[s].head
           /\ \A s \in Slots :
                 \/ Visited[s].next_tick = wheel[s].next_tick
                 \/ s = SlotFor(tick) /\ next = wheel[s].head
  <1>1. PICK z \in Slots : z = SlotFor(tick)
    BY Typed
  <1>2. PICK r \in SlotType : r = wheel[z]
    BY Typed
  <1>3. PICK x \in Ticks : x = TICK_MAX
    BY Bounds
  <1>4. [r EXCEPT !.next_tick = x] \in SlotType /\ [r EXCEPT !.next_tick = x].head = r.head
    BY DEF SlotType
  <1>5. Visited = IF next = r.head THEN [wheel EXCEPT ![z] = [r EXCEPT !.next_tick = x]]
                  ELSE wheel
    BY <1>1, <1>2, <1>3, Typed DEF Visited
  <1> QED
    BY <1>1, <1>2, <1>4, <1>5, Typed

(* Every entry of the list that poll_to enters is ahead of the cursor.     *)
LEMMA VisitedKeepsEarliest ==
    ASSUME IInv, NEW age, NEW b, Listed(age, b), Polling,
           NEW w, w = Visited, NEW j \in Occupied
    PROVE  \/ w[SlotOf(j)].next_tick <= entries[j].tick
           \/ SlotOf(j) = SlotFor(tick) /\ Ahead(age, j)
  <1>1. \/ wheel[SlotOf(j)].next_tick <= entries[j].tick
        \/ SlotOf(j) = SlotFor(tick) /\ Ahead(age, j)
    BY DEF Listed, EarliestKnown
  <1>2. SlotOf(j) \in Slots
    BY Typed DEF IInv
  <1>3. \/ w[SlotOf(j)].next_tick = wheel[SlotOf(j)].next_tick
        \/ SlotOf(j) = SlotFor(tick) /\ next = wheel[SlotOf(j)].head
    BY <1>2, VisitedEffect DEF IInv
  <1>4. wheel[SlotOf(j)].head # EMPTY /\ age[j] <= age[wheel[SlotOf(j)].head]
    BY DEF Listed, ListsByAge, YoungestIsHead
  <1> QED
    BY <1>1, <1>3, <1>4 DEF Ahead

LEMMA PollFireKeeps ==
    ASSUME IInv, PollFire
    PROVE  IInv'
  <1>1. PICK w \in [Slots -> SlotType] : w = Visited
    BY VisitedEffect DEF IInv
  <1>2. PICK k \in Occupied : k = next
    BY WellFormedLinks DEF IInv, PollFire
  <1>3. /\ Remove(k, w) /\ phase' = "fired"
        /\ UNCHANGED <<now, tick, thread, target>>
    BY <1>1, <1>2 DEF PollFire
  <1>4. TypeOK' /\ NothingDueIsLeft'
    BY <1>3, RemoveKeepsTypes
  <1>5. VacantKeys'
    BY <1>3, RemoveKeepsVacant DEF IInv
  <1>6. PICK age \in [Keys -> Nat], b \in Nat : Listed(age, b)
    BY DEF IInv, SomeOrder
  <1>7. ListsByAge(age, b)
    BY <1>6 DEF Listed
  <1>8. \A s \in Slots : w[s].head = wheel[s].head
    BY <1>1, VisitedEffect DEF IInv
  <1>9. WheelWellFormed' /\ HeadsInSlot'
    BY <1>3, <1>7, <1>8, RemoveKeepsLinks DEF IInv
  <1>10. \A j \in Occupied :
            \/ w[SlotOf(j)].next_tick <= entries[j].tick
            \/ Walking' /\ SlotOf(j) = SlotFor(tick) /\ Ahead(age, j)
    <2>1. Walking'
      BY <1>3 DEF Walking
    <2>2. Polling
      BY DEF PollFire
    <2> QED
      BY <2>1, <2>2, <1>1, <1>6, VisitedKeepsEarliest
  <1>11. Listed(age, b)'
    BY <1>3, <1>6, <1>8, <1>10, RemoveKeepsListed DEF IInv
  <1>12. SomeOrder'
    BY <1>11, Zenon DEF SomeOrder, Keys
  <1>13. ScheduledInTime'
    BY <1>3 DEF ScheduledInTime
  <1> QED
    BY <1>4, <1>5, <1>9, <1>12, <1>13 DEF IInv

(* Neither step of the walk that removes nothing changes a head, so the    *)
(* lists stay; only the cursor and a next_tick move.                       *)
LEMMA CursorMoves ==
    ASSUME IInv, NEW age \in [Keys -> Nat], NEW b \in Nat, Listed(age, b),
           UNCHANGED <<now, slab, thread, phase, target>>,
           wheel' \in [Slots -> SlotType],
           \A s \in Slots : wheel'[s].head = wheel[s].head,
           next' # EMPTY => next' \in Occupied /\ SlotOf(next') = SlotFor(tick'),
           next' \in Keys \cup {EMPTY}, tick' \in 0..MaxTick + 1
    PROVE  TypeOK' /\ VacantKeys' /\ WheelWellFormed' /\ HeadsInSlot' /\ ListsByAge(age, b)'
  <1>1. entries' = entries /\ free' = free /\ Occupied' = Occupied
    BY DEF slab, Occupied
  <1>2. DOMAIN wheel' = Slots /\ DOMAIN wheel = Slots
    BY Typed DEF IInv
  <1>3. \A j \in Occupied : SlotOf(j) \in Slots /\ SlotFor(entries'[j].tick) = SlotOf(j)
    BY <1>1, Typed DEF IInv, SlotOf
  <1>4. TypeOK'
    BY <1>1 DEF IInv, TypeOK, slab, thread, SlotType, Slots, Keys, EMPTY, Ticks, TICK_MAX
  <1>5. VacantKeys'
    BY <1>1 DEF IInv, VacantKeys
  <1>6. HeadsInSlot'
    BY <1>1, <1>2 DEF IInv, HeadsInSlot, SlotOf, SlotFor, EMPTY
  <1>7. \A k \in Occupied' : Linked(k)'
    <2> SUFFICES ASSUME NEW k \in Occupied PROVE Linked(k)'
      BY <1>1
    <2>1. Linked(k) /\ wheel'[SlotOf(k)].head = wheel[SlotOf(k)].head
      BY <1>3, WellFormedLinks DEF IInv
    <2> QED
      BY <2>1, <1>1 DEF Linked, SlotOf, SlotFor, EMPTY
  <1>8. \A s \in DOMAIN wheel' : wheel'[s].head \in Occupied' \cup {EMPTY}
    BY <1>1, <1>2, WellFormedLinks DEF IInv
  <1>9. next' # EMPTY => next' \in Occupied' /\ SlotFor(entries'[next'].tick) = SlotFor(tick')
    BY <1>1, <1>3
  <1>10. WheelWellFormed'
    BY <1>7, <1>8, <1>9, WellFormedLinksAfter
  <1>11. ListsByAge(age, b)'
    <2>1. \A i \in Occupied :
             /\ age[i] < b /\ YoungestIsHead(age, i) /\ NextIsNextOlder(age, i)
      BY DEF Listed, ListsByAge
    <2>2. ASSUME NEW i \in Occupied
          PROVE  YoungestIsHead(age, i)' /\ NextIsNextOlder(age, i)'
      <3>1. wheel'[SlotOf(i)].head = wheel[SlotOf(i)].head
        BY <1>3
      <3> QED
        BY <2>1, <3>1, <1>1 DEF YoungestIsHead, NextIsNextOlder, SlotOf, SlotFor, EMPTY
    <2> QED
      BY <2>1, <2>2, <1>1 DEF ListsByAge
  <1> QED
    BY <1>4, <1>5, <1>6, <1>10, <1>11

LEMMA PollPassKeeps ==
    ASSUME IInv, PollPass
    PROVE  IInv'
  <1>1. PICK w \in [Slots -> SlotType] : w = Visited
    BY VisitedEffect DEF IInv
  <1>2. PICK k \in Occupied : k = next /\ SlotOf(k) = SlotFor(tick)
    BY WellFormedLinks DEF IInv, PollPass
  <1>3. PICK z \in Slots : z = SlotFor(tick)
    BY Typed DEF IInv
  <1>4. PICK n \in Keys \cup {EMPTY} : n = entries[k].next
    BY Typed DEF IInv
  <1>5. PICK y \in Ticks : y = entries[k].tick
    BY Typed DEF IInv
  <1>6. PICK r \in SlotType : r = w[z]
    OBVIOUS
  <1>7. PICK x \in Ticks : x = Min({r.next_tick, y}) /\ x <= r.next_tick /\ x <= y
    <2>1. r.next_tick \in Nat /\ r.next_tick \in Ticks /\ y \in Nat
      BY Bounds DEF SlotType
    <2> QED
      BY <2>1, MinOfTwo
  <1>8. /\ wheel' = [w EXCEPT ![z] = [r EXCEPT !.next_tick = x]]
        /\ next' = n /\ tick' = tick /\ y > tick
        /\ UNCHANGED <<now, slab, thread, phase, target>>
    BY <1>1, <1>2, <1>3, <1>4, <1>5, <1>6, <1>7, Typed, Bounds DEF PollPass, Expired, IInv
  <1>9. /\ [r EXCEPT !.next_tick = x] \in SlotType
        /\ [r EXCEPT !.next_tick = x].head = r.head
        /\ [r EXCEPT !.next_tick = x].next_tick = x
    BY DEF SlotType
  <1>10. /\ wheel' \in [Slots -> SlotType]
         /\ \A s \in Slots : wheel'[s].head = wheel[s].head
         /\ \A s \in Slots : s # z => wheel'[s].next_tick = w[s].next_tick
         /\ wheel'[z].next_tick = x
    BY <1>1, <1>6, <1>8, <1>9, VisitedEffect DEF IInv
  <1>11. PICK age \in [Keys -> Nat], b \in Nat : Listed(age, b)
    BY DEF IInv, SomeOrder
  <1>12. n # EMPTY => n \in Occupied /\ SlotOf(n) = z
    BY <1>2, <1>3, <1>4, NextInSlot DEF IInv
  <1>13. TypeOK' /\ VacantKeys' /\ WheelWellFormed' /\ HeadsInSlot' /\ ListsByAge(age, b)'
    <2>1. next' # EMPTY => next' \in Occupied /\ SlotOf(next') = SlotFor(tick')
      BY <1>3, <1>8, <1>12
    <2>2. next' \in Keys \cup {EMPTY} /\ tick' \in 0..MaxTick + 1
      BY <1>8 DEF IInv, TypeOK
    <2> QED
      BY <2>1, <2>2, <1>8, <1>10, <1>11, CursorMoves
  <1>14. entries' = entries /\ Occupied' = Occupied
    BY <1>8 DEF slab, Occupied
  <1>15. \A j \in Occupied : j # k /\ SlotOf(j) = z /\ Ahead(age, j) => Ahead(age, j)'
    <2> SUFFICES ASSUME NEW j \in Occupied, j # k, SlotOf(j) = z, Ahead(age, j)
                 PROVE  Ahead(age, j)'
      OBVIOUS
    <2>1. NextIsNextOlder(age, k) /\ age[j] <= age[k] /\ SlotOf(j) = SlotOf(k)
      BY <1>2, <1>3, <1>11 DEF Listed, ListsByAge, Ahead
    <2>2. age[j] \in Nat /\ age[k] \in Nat
      BY Typed DEF IInv
    <2>3. age[j] < age[k]
      BY <2>1, <2>2 DEF NextIsNextOlder
    <2>4. n # EMPTY /\ age[j] <= age[n]
      BY <2>1, <2>3, <1>4 DEF NextIsNextOlder
    <2>5. next' # EMPTY /\ age[j] <= age[next']
      BY <2>4, <1>8
    <2> QED
      BY <2>5 DEF Ahead, EMPTY
  <1>16. DueIsAhead(age)'
    <2> SUFFICES ASSUME NEW j \in Occupied, SlotOf(j) = SlotFor(tick), entries[j].tick <= tick
                 PROVE  (entries[j].late /\ entries[j].tick = tick) \/ Ahead(age, j)'
      BY <1>8, <1>14 DEF DueIsAhead, SlotOf, SlotFor
    <2>1. (entries[j].late /\ entries[j].tick = tick) \/ Ahead(age, j)
      BY <1>11 DEF Listed, DueIsAhead
    <2>2. j # k
      BY <1>5, <1>8, Typed DEF IInv
    <2> QED
      BY <2>1, <2>2, <1>3, <1>15
  <1>17. EarliestKnown(age)'
    <2>1. Walking'
      BY <1>8 DEF PollPass, Polling, Walking
    <2> SUFFICES ASSUME NEW j \in Occupied
                 PROVE  \/ wheel'[SlotOf(j)].next_tick <= entries[j].tick
                        \/ SlotOf(j) = SlotFor(tick) /\ Ahead(age, j)'
      BY <2>1, <1>8, <1>14 DEF EarliestKnown, SlotOf, SlotFor
    <2>2. CASE j = k
      BY <2>2, <1>2, <1>3, <1>5, <1>7, <1>10
    <2>3. CASE j # k
      <3>1. \/ w[SlotOf(j)].next_tick <= entries[j].tick
            \/ SlotOf(j) = SlotFor(tick) /\ Ahead(age, j)
        BY <1>1, <1>11, VisitedKeepsEarliest DEF PollPass
      <3>2. CASE SlotOf(j) = z
        <4>1. CASE Ahead(age, j)
          BY <2>3, <3>2, <4>1, <1>3, <1>15
        <4>2. CASE r.next_tick <= entries[j].tick
          <5>1. x \in Nat /\ r.next_tick \in Nat /\ entries[j].tick \in Nat
            BY Bounds, Typed DEF SlotType, IInv
          <5> QED
            BY <5>1, <4>2, <3>2, <1>7, <1>10
        <4> QED
          BY <4>1, <4>2, <3>1, <3>2, <1>6
      <3>3. CASE SlotOf(j) # z
        BY <3>1, <3>3, <1>3, <1>10, Typed DEF IInv
      <3> QED
        BY <3>2, <3>3
    <2> QED
      BY <2>2, <2>3
  <1>18. SomeOrder'
    <2>1. Listed(age, b)'
      BY <1>13, <1>16, <1>17 DEF Listed
    <2> QED
      BY <2>1, Zenon DEF SomeOrder, Keys
  <1>19. NothingDueIsLeft'
    BY <1>8, <1>14 DEF IInv, NothingDueIsLeft
  <1>20. ScheduledInTime'
    BY <1>8 DEF PollPass, Polling, ScheduledInTime
  <1> QED
    BY <1>13, <1>18, <1>19, <1>20 DEF IInv

LEMMA PollAdvanceKeeps ==
    ASSUME IInv, PollAdvance
    PROVE  IInv'
  <1>1. PICK t \in Nat : t = tick + 1
    BY Typed DEF IInv
  <1>2. PICK z \in Slots : z = SlotFor(t)
    BY SlotForIsSlot
  <1>3. PICK r \in SlotType : r = wheel[z]
    BY Typed DEF IInv
  <1>4. PICK x \in Ticks : x = TICK_MAX
    BY Bounds
  <1>5. /\ next = EMPTY /\ tick' = t /\ next' = r.head
        /\ wheel' = IF r.head = EMPTY THEN [wheel EXCEPT ![z] = [r EXCEPT !.next_tick = x]]
                    ELSE wheel
        /\ UNCHANGED <<now, slab, thread, phase, target>>
    BY <1>1, <1>2, <1>3, <1>4, Typed DEF PollAdvance, IInv
  <1>6. /\ [r EXCEPT !.next_tick = x] \in SlotType
        /\ [r EXCEPT !.next_tick = x].head = r.head
    BY DEF SlotType
  <1>7. /\ wheel' \in [Slots -> SlotType]
        /\ \A s \in Slots : wheel'[s].head = wheel[s].head
        /\ \A s \in Slots : (s = z /\ r.head = EMPTY) \/ wheel'[s].next_tick = wheel[s].next_tick
    BY <1>3, <1>5, <1>6, Typed DEF IInv
  <1>8. PICK age \in [Keys -> Nat], b \in Nat : Listed(age, b)
    BY DEF IInv, SomeOrder
  <1>9. TypeOK' /\ VacantKeys' /\ WheelWellFormed' /\ HeadsInSlot' /\ ListsByAge(age, b)'
    <2>1. r.head # EMPTY => r.head \in Occupied /\ SlotOf(r.head) = z
      BY <1>3, Typed DEF IInv, HeadsInSlot
    <2>2. next' # EMPTY => next' \in Occupied /\ SlotOf(next') = SlotFor(tick')
      BY <2>1, <1>2, <1>5
    <2>3. next' \in Keys \cup {EMPTY}
      BY <1>5 DEF SlotType
    <2>4. tick' \in 0..MaxTick + 1
      <3>1. tick' = tick + 1 /\ Polling
        BY <1>1 DEF PollAdvance
      <3>2. tick \in 0..MaxTick + 1 /\ target \in 0..MaxTick
        BY DEF IInv, TypeOK
      <3> QED
        BY <3>1, <3>2, Bounds DEF Polling
    <2> QED
      BY <2>2, <2>3, <2>4, <1>5, <1>7, <1>8, CursorMoves
  <1>10. entries' = entries /\ Occupied' = Occupied
    BY <1>5 DEF slab, Occupied
  <1>11. \A j \in Occupied : SlotOf(j) = z => r.head # EMPTY /\ age[j] <= age[r.head]
    BY <1>3, <1>8 DEF Listed, ListsByAge, YoungestIsHead
  <1>12. \A j \in Occupied : SlotOf(j) = z => Ahead(age, j)'
    BY <1>5, <1>11 DEF Ahead, EMPTY
  <1>13. DueIsAhead(age)'
    <2> SUFFICES ASSUME NEW j \in Occupied, SlotOf(j) = z
                 PROVE  Ahead(age, j)'
      BY <1>2, <1>5, <1>10 DEF DueIsAhead, SlotOf, SlotFor
    <2> QED
      BY <1>12
  <1>14. EarliestKnown(age)'
    <2> SUFFICES ASSUME NEW j \in Occupied
                 PROVE  wheel'[SlotOf(j)].next_tick <= entries[j].tick
      BY <1>10 DEF EarliestKnown, SlotOf, SlotFor
    <2>1. wheel[SlotOf(j)].next_tick <= entries[j].tick
      BY <1>5, <1>8 DEF Listed, EarliestKnown, Ahead
    <2> QED
      BY <2>1, <1>7, <1>11, Typed DEF IInv
  <1>15. SomeOrder'
    <2>1. Listed(age, b)'
      BY <1>9, <1>13, <1>14 DEF Listed
    <2> QED
      BY <2>1, Zenon DEF SomeOrder, Keys
  <1>16. NothingDueIsLeft'
    <2> SUFFICES ASSUME NEW j \in Occupied
                 PROVE  \/ entries[j].tick >= t
                        \/ entries[j].late /\ t <= entries[j].tick + NumSlots
      BY <1>5, <1>10 DEF NothingDueIsLeft
    <2>0. PICK y \in Nat : y = entries[j].tick
      BY Typed DEF IInv
    <2>1. y >= tick \/ (entries[j].late /\ tick <= y + NumSlots)
      BY <2>0 DEF IInv, NothingDueIsLeft
    <2>2. tick \in Nat /\ NumSlots \in Nat \ {0}
      BY Typed, Bounds DEF IInv
    <2>3. SlotFor(y) = SlotFor(tick) /\ y <= tick => entries[j].late /\ y = tick
      BY <2>0, <1>5, <1>8 DEF Listed, DueIsAhead, Ahead, SlotOf
    <2>4. CASE y > tick
      BY <2>0, <2>2, <2>4, <1>1
    <2>5. CASE y = tick
      BY <2>0, <2>2, <2>3, <2>5, <1>1
    <2>6. CASE y < tick
      <3>1. entries[j].late /\ tick <= y + NumSlots
        BY <2>1, <2>2, <2>6
      <3>2. tick # y + NumSlots
        BY <2>2, <2>3, <2>6, Revolution
      <3> QED
        BY <2>0, <2>2, <3>1, <3>2, <1>1
    <2> QED
      BY <2>2, <2>4, <2>5, <2>6
  <1>17. ScheduledInTime'
    BY <1>5 DEF PollAdvance, Polling, ScheduledInTime
  <1> QED
    BY <1>9, <1>15, <1>16, <1>17 DEF IInv

-----------------------------------------------------------------------------
LEMMA NextKeepsIInv == IInv /\ [Next]_vars => IInv'
  <1> SUFFICES ASSUME IInv, [Next]_vars PROVE IInv'
    OBVIOUS
  <1>1. CASE \E d \in 0..MaxDelay : SetTimeout(d)
    BY <1>1, SetTimeoutKeeps
  <1>2. CASE \E k \in Keys : CancelTimeout(k)
    BY <1>2, CancelTimeoutKeeps
  <1>3. CASE PollStep
    BY <1>3, PollAdvanceKeeps, PollFireKeeps, PollPassKeeps, PollNoneKeeps DEF PollStep
  <1>4. CASE UNCHANGED vars
    <2>1. VacantKeys' /\ WheelWellFormed' /\ HeadsInSlot' /\ NothingDueIsLeft' /\ SomeOrder'
      BY <1>4, ListsUntouched DEF vars, Walking, cursor
    <2>2. TypeOK'
      BY <1>4 DEF IInv, TypeOK, vars, slab, cursor, thread, Occupied, Keys, EMPTY, Ticks, TICK_MAX
    <2>3. ScheduledInTime'
      BY <1>4 DEF IInv, ScheduledInTime, vars, slab, cursor, thread, Occupied
    <2> QED
      BY <2>1, <2>2, <2>3 DEF IInv
  <1> QED
    BY <1>1, <1>2, <1>3, <1>4, RegisterKeeps, WakeupKeeps, StartPollKeeps, TimePassesKeeps
    DEF Next

LEMMA SpecImpliesIInv == Spec => []IInv
  BY InitEstablishesIInv, NextKeepsIInv, PTL DEF Spec

-----------------------------------------------------------------------------
(* Links, cursor, heads and next_ticks of the wheel stay within their      *)
(* ranges: no key outside the slab, no tick past what a timeout can have.  *)
THEOREM TypeCorrect == Spec => []TypeOK
  <1>1. IInv => TypeOK
    BY DEF IInv
  <1> QED
    BY <1>1, SpecImpliesIInv, PTL

(* insert, unlink and the walk of poll_to keep the lists' links agreeing   *)
(* in both directions and the cursor on an entry of the slot it walks, for *)
(* any order of timeouts set, cancelled and expired.                       *)
THEOREM WheelWellFormedHolds == Spec => []WheelWellFormed
  <1>1. IInv => WheelWellFormed
    BY DEF IInv
  <1> QED
    BY <1>1, SpecImpliesIInv, PTL

(* The lists of the wheel (insert, unlink) have no rings and lose no       *)
(* entry: from the head of its slot, which has the youngest entry, each    *)
(* next leads to the next older entry of that slot, down to the oldest.    *)
THEOREM ListsAreComplete == Spec => []SomeOrder
  <1>1. IInv => SomeOrder
    BY DEF IInv
  <1> QED
    BY <1>1, SpecImpliesIInv, PTL

(* While the event loop waits, the wakeup thread has been asked for a tick *)
(* no later than any pending timeout, or has answered: the minimum kept by *)
(* insert and recomputed by poll_to never misses an entry.                 *)
THEOREM ScheduledInTimeHolds == Spec => []ScheduledInTime
  <1>1. IInv => ScheduledInTime
    BY DEF IInv
  <1> QED
    BY <1>1, SpecImpliesIInv, PTL

(* poll_to passes no timeout that is due; one filed under the tick the     *)
(* cursor stands on is found one revolution later at the latest.           *)
THEOREM NothingDueIsLeftHolds == Spec => []NothingDueIsLeft
  <1>1. IInv => NothingDueIsLeft
    BY DEF IInv
  <1> QED
    BY <1>1, SpecImpliesIInv, PTL
=============================================================================
