-------------------------- MODULE SlotFinderProofs --------------------------
(***************************************************************************)
(* Every slot that the search offers is free of the meetings that Exchange *)
(* has answered, in the hours of work and not in the past, and passes the  *)
(* later check of the same mailboxes, for all days, hours, meetings,       *)
(* mailboxes and requests.                                                 *)
(***************************************************************************)
EXTENDS SlotFinder, FiniteSetTheorems, TLAPS

-----------------------------------------------------------------------------
(* Arithmetic of days.                                                      *)

LEMMA TimeOfDayType ==
  ASSUME NEW t \in Nat
  PROVE  /\ TimeOfDay(t) \in 0..(Day - 1) /\ t \div Day \in Nat
         /\ t = (t \div Day) * Day + TimeOfDay(t)
BY SlotAssumption DEF SlotAssumption, TimeOfDay

LEMMA Unique ==
  ASSUME NEW q \in Nat, NEW r \in Nat, r < Day
  PROVE  TimeOfDay(q * Day + r) = r /\ (q * Day + r) \div Day = q
BY SlotAssumption DEF SlotAssumption, TimeOfDay

\* A time in the hours of work whose slot does not end late ends in them, too.
InHours(t, d) == WorkStart <= TimeOfDay(t) /\ TimeOfDay(t) + d <= WorkEnd

LEMMA EndsOnTheSameDay ==
  ASSUME NEW t \in Nat, NEW d \in Nat, d <= Day - WorkEnd,
         WorkStart <= TimeOfDay(t), TimeOfDay(t) < WorkEnd, TimeOfDay(t + d) <= WorkEnd
  PROVE  InHours(t, d)
<1> DEFINE q == t \div Day
           r == TimeOfDay(t)
<1>1. q \in Nat /\ r \in Nat /\ t = q * Day + r
  BY TimeOfDayType, SlotAssumption DEF SlotAssumption
<1>2. r + d < Day
  BY <1>1, SlotAssumption DEF SlotAssumption
<1> HIDE DEF q, r
<1>3. q * Day \in Nat
  BY <1>1, SlotAssumption DEF SlotAssumption
<1>4. t + d = q * Day + (r + d)
  BY <1>1, <1>3
<1>5. TimeOfDay(t + d) = r + d
  BY <1>1, <1>2, <1>4, Unique
<1> QED
  BY <1>5 DEF InHours, r

\* A slot in the hours of work that begins before the last tick of a day ends before it.
LEMMA EndsInRange ==
  ASSUME NEW t \in Nat, NEW d \in Nat, NEW n \in Nat, InHours(t, d), t < n * Day - 1
  PROVE  t + d <= n * Day - 1
<1> DEFINE q == t \div Day
           r == TimeOfDay(t)
<1>1. q \in Nat /\ r \in Nat /\ t = q * Day + r
  BY TimeOfDayType, SlotAssumption DEF SlotAssumption
<1>2. r + d <= WorkEnd
  BY DEF InHours
<1> HIDE DEF q, r
<1>3. q * Day < n * Day
  BY <1>1, SlotAssumption DEF SlotAssumption
<1>4. q + 1 <= n
  BY <1>1, <1>3, SlotAssumption DEF SlotAssumption
<1>5. (q + 1) * Day <= n * Day
  BY <1>1, <1>4, SlotAssumption DEF SlotAssumption
<1>6. (q + 1) * Day = q * Day + Day
  BY <1>1, SlotAssumption DEF SlotAssumption
<1> QED
  BY <1>1, <1>2, <1>5, <1>6, SlotAssumption DEF SlotAssumption

LEMMA NineType ==
  ASSUME NEW t \in Nat
  PROVE  At9(t) \in Nat /\ t < At9(t) + Day
BY TimeOfDayType, SlotAssumption DEF SlotAssumption, At9, TimeOfDay

LEMMA NineIsLater ==
  ASSUME NEW n \in Nat
  PROVE  n * Day <= At9(n * Day)
BY Unique, SlotAssumption DEF SlotAssumption, At9, TimeOfDay

LEMMA NextInterval ==
  ASSUME NEW t \in Nat
  PROVE  (t \div Interval + 1) * Interval \in Nat /\ t < (t \div Interval + 1) * Interval
BY SlotAssumption DEF SlotAssumption

-----------------------------------------------------------------------------
(* The sort and the cut.                                                    *)

Earlier(slots, t) == {s \in slots : Before(s, t)}

\* No slot comes before itself, and of two slots one comes before the other.
LEMMA BeforeIsTotal ==
  ASSUME NEW s \in Nat, NEW t \in Nat
  PROVE  /\ ~Before(s, s) /\ (s = t \/ Before(s, t) \/ Before(t, s))
         /\ \A u \in Nat : Before(s, t) /\ Before(t, u) => Before(s, u)
<1>1. \A u \in Nat : Score(u) \in Nat
  BY DEF Score
<1> HIDE DEF Score
<1> QED
  BY <1>1 DEF Before

LEMMA CountFromZero ==
  ASSUME NEW n \in Nat
  PROVE  IsFiniteSet(0..(n - 1)) /\ Cardinality(0..(n - 1)) = n
<1>1. 0 \in Int /\ n - 1 \in Int /\ (0 > n - 1 <=> n = 0) /\ (n - 1) - 0 + 1 = n
  OBVIOUS
<1> QED
  BY <1>1, FS_Interval

\* The places of the sorted slots are the numbers from 0 on, one each.
LEMMA Places ==
  ASSUME NEW slots, slots \subseteq Nat, IsFiniteSet(slots)
  PROVE  [t \in slots |-> Cardinality(Earlier(slots, t))]
           \in Bijection(slots, 0..(Cardinality(slots) - 1))
<1> DEFINE n == Cardinality(slots)
           place == [t \in slots |-> Cardinality(Earlier(slots, t))]
<1>1. n \in Nat
  BY FS_CardinalityType
<1>2. ASSUME NEW t \in slots
      PROVE  /\ IsFiniteSet(Earlier(slots, t)) /\ Cardinality(Earlier(slots, t)) \in Nat
             /\ Cardinality(Earlier(slots, t)) < n
  <2>1. Earlier(slots, t) \in SUBSET slots
    BY DEF Earlier
  <2>2. IsFiniteSet(Earlier(slots, t)) /\ Cardinality(Earlier(slots, t)) <= n
    BY <2>1, FS_Subset
  <2>3. t \notin Earlier(slots, t)
    BY BeforeIsTotal DEF Earlier
  <2>4. Cardinality(Earlier(slots, t)) # n
    BY <2>1, <2>3, FS_Subset
  <2> QED
    BY <1>1, <2>2, <2>4, FS_CardinalityType
<1>3. ASSUME NEW s \in slots, NEW t \in slots, Before(s, t)
      PROVE  Cardinality(Earlier(slots, s)) # Cardinality(Earlier(slots, t))
  <2>1. Earlier(slots, s) \in SUBSET Earlier(slots, t)
    BY <1>3, BeforeIsTotal DEF Earlier
  <2>2. s \in Earlier(slots, t) /\ s \notin Earlier(slots, s)
    BY <1>3, BeforeIsTotal DEF Earlier
  <2> QED
    BY <1>2, <2>1, <2>2, FS_Subset
<1>4. place \in [slots -> 0..(n - 1)]
  BY <1>1, <1>2
<1>5. place \in Injection(slots, 0..(n - 1))
  <2>1. ASSUME NEW s \in slots, NEW t \in slots, place[s] = place[t]
        PROVE  s = t
    BY <1>3, <2>1, BeforeIsTotal
  <2> HIDE DEF place
  <2> QED
    BY <1>4, <2>1 DEF Injection, IsInjective
<1> HIDE DEF place, n
<1>6. IsFiniteSet(0..(n - 1)) /\ Cardinality(0..(n - 1)) = n
  BY <1>1, CountFromZero
<1>7. place \in Surjection(slots, 0..(n - 1))
  BY <1>5, <1>6, FS_Injection DEF n
<1> QED
  BY <1>5, <1>7 DEF Bijection, place, n

\* The cut keeps MaxSlots slots, or all when there are no more.
LEMMA BestSize ==
  ASSUME NEW slots, slots \subseteq Nat, IsFiniteSet(slots)
  PROVE  /\ Best(slots) \subseteq slots /\ IsFiniteSet(Best(slots))
         /\ Cardinality(slots) < MaxSlots => Best(slots) = slots
         /\ Cardinality(slots) >= MaxSlots => Cardinality(Best(slots)) = MaxSlots
<1> DEFINE n == Cardinality(slots)
           place == [t \in slots |-> Cardinality(Earlier(slots, t))]
<1>1. place \in Bijection(slots, 0..(n - 1))
  BY Places
<1>2. Best(slots) = {t \in slots : place[t] < MaxSlots}
  BY DEF Best, Earlier
<1>3. n \in Nat /\ MaxSlots \in Nat
  BY FS_CardinalityType, SlotAssumption DEF SlotAssumption
<1> HIDE DEF place, n
<1>4. /\ place \in [slots -> 0..(n - 1)]
      /\ \A s, t \in slots : place[s] = place[t] => s = t
      /\ \A i \in 0..(n - 1) : \E t \in slots : place[t] = i
  BY <1>1 DEF Bijection, Injection, IsInjective, Surjection
<1>5. Best(slots) \in SUBSET slots
  BY <1>2
<1>6. IsFiniteSet(Best(slots))
  BY <1>5, FS_Subset
<1>7. \A t \in slots : place[t] \in Nat /\ place[t] < n
  BY <1>3, <1>4
<1>8. ASSUME n < MaxSlots
      PROVE  Best(slots) = slots
  <2>1. \A t \in slots : place[t] < MaxSlots
    BY <1>3, <1>7, <1>8
  <2> QED
    BY <1>2, <2>1
<1>9. ASSUME n >= MaxSlots
      PROVE  Cardinality(Best(slots)) = MaxSlots
  <2> DEFINE first == [t \in Best(slots) |-> place[t]]
  <2>1. first \in [Best(slots) -> 0..(MaxSlots - 1)]
    <3>1. \A t \in Best(slots) : t \in slots /\ place[t] < MaxSlots
      BY <1>2
    <3>2. \A t \in Best(slots) : place[t] \in 0..(MaxSlots - 1)
      <4> TAKE t \in Best(slots)
      <4>1. place[t] \in Nat /\ place[t] < MaxSlots
        BY <1>7, <3>1
      <4> QED
        BY <1>3, <4>1
    <3> QED
      BY <3>2
  <2>2. \A s, t \in Best(slots) : first[s] = first[t] => s = t
    BY <1>4, <1>5
  <2>3. \A i \in 0..(MaxSlots - 1) : \E t \in Best(slots) : first[t] = i
    <3> TAKE i \in 0..(MaxSlots - 1)
    <3>1. i \in 0..(n - 1)
      BY <1>3, <1>9
    <3>2. PICK t \in slots : place[t] = i
      BY <1>4, <3>1
    <3>3. t \in Best(slots)
      BY <1>2, <1>3, <3>2
    <3> QED
      BY <3>2, <3>3
  <2> HIDE DEF first
  <2>4. first \in Injection(Best(slots), 0..(MaxSlots - 1))
    BY <2>1, <2>2 DEF Injection, IsInjective
  <2>5. first \in Surjection(Best(slots), 0..(MaxSlots - 1))
    BY <2>1, <2>3 DEF Surjection
  <2>6. IsFiniteSet(0..(MaxSlots - 1)) /\ Cardinality(0..(MaxSlots - 1)) = MaxSlots
    BY <1>3, CountFromZero
  <2> QED
    BY <2>4, <2>5, <2>6, FS_Injection
<1> QED
  BY <1>3, <1>5, <1>6, <1>8, <1>9 DEF n

-----------------------------------------------------------------------------
(* The grid of half hours.                                                  *)

LEMMA Remainder ==
  ASSUME NEW d \in Nat, d > 0, NEW q \in Nat, NEW r \in Nat, r < d
  PROVE  (q * d + r) % d = r
OBVIOUS

LEMMA Quotient ==
  ASSUME NEW d, d \in Nat, 0 < d, NEW t \in Nat
  PROVE  t \div d \in Nat /\ t % d \in Nat /\ t % d < d /\ t = (t \div d) * d + (t % d)
<1>1. t \div d \in Nat
  OBVIOUS
<1>2. t % d \in Nat /\ t % d < d
  OBVIOUS
<1>3. t = (t \div d) * d + (t % d)
  OBVIOUS
<1> QED
  BY <1>1, <1>2, <1>3

OnGrid(t) == \E k \in Nat : t = k * Interval

\* The times on the grid of a day of work are the multiples of the interval.
LEMMA GridOfDay ==
  ASSUME NEW t \in Nat, WorkStart <= TimeOfDay(t)
  PROVE  (TimeOfDay(t) - WorkStart) % Interval = 0 <=> OnGrid(t)
<1> DEFINE q == t \div Day
           a == Day \div Interval
           b == WorkStart \div Interval
           x == TimeOfDay(t) - WorkStart
<1>1. Interval \in Nat /\ Interval > 0 /\ WorkStart \in Nat /\ Day \in Nat /\ Day > 0
  BY SlotAssumption DEF SlotAssumption
<1>2. a \in Nat /\ Day = a * Interval /\ b \in Nat /\ WorkStart = b * Interval
  BY <1>1, Quotient, SlotAssumption DEF SlotAssumption
<1>3. q \in Nat /\ x \in Nat /\ t = q * Day + (WorkStart + x)
  <2>1. q \in Nat /\ TimeOfDay(t) \in Nat /\ t = q * Day + TimeOfDay(t)
    BY <1>1, Quotient DEF TimeOfDay
  <2> QED
    BY <1>1, <2>1
<1> HIDE DEF q, a, b, x
<1>4. q * Day = (q * a) * Interval /\ q * a \in Nat
  BY <1>1, <1>2, <1>3
<1>5. t = (q * a + b) * Interval + x
  <2>1. (q * a + b) * Interval = (q * a) * Interval + b * Interval
    BY <1>1, <1>2, <1>4
  <2> QED
    BY <1>1, <1>2, <1>3, <1>4, <2>1
<1> DEFINE c == q * a + b
<1>6. c \in Nat /\ t = c * Interval + x
  BY <1>2, <1>4, <1>5
<1> HIDE DEF c
<1>7. ASSUME x % Interval = 0
      PROVE  OnGrid(t)
  <2> DEFINE e == x \div Interval
  <2>1. e \in Nat /\ x = e * Interval
    BY <1>1, <1>3, <1>7, Quotient
  <2> HIDE DEF e
  <2>2. t = (c + e) * Interval /\ c + e \in Nat
    BY <1>1, <1>6, <2>1
  <2> QED
    BY <2>2 DEF OnGrid
<1>8. ASSUME OnGrid(t)
      PROVE  x % Interval = 0
  <2>1. PICK k \in Nat : t = k * Interval
    BY <1>8 DEF OnGrid
  <2>2. c <= k
    <3> SUFFICES ASSUME k + 1 <= c PROVE FALSE
      BY <1>6, <2>1
    <3>1. (k + 1) * Interval <= c * Interval
      BY <1>1, <1>6
    <3>2. (k + 1) * Interval = k * Interval + Interval
      BY <1>1
    <3> QED
      BY <1>1, <1>3, <1>6, <2>1, <3>1, <3>2
  <2>3. x = (k - c) * Interval /\ k - c \in Nat
    BY <1>1, <1>3, <1>6, <2>1, <2>2
  <2>4. ((k - c) * Interval + 0) % Interval = 0
    BY <1>1, <2>3, Remainder
  <2> QED
    BY <1>1, <2>3, <2>4
<1> QED
  BY <1>7, <1>8 DEF x

\* Between a time on the grid and the next one there is none.
LEMMA NextOnGrid ==
  ASSUME NEW s \in Nat, NEW t \in Nat, OnGrid(s), OnGrid(t), s <= t, t < s + Interval
  PROVE  s = t
<1>1. PICK j \in Nat : s = j * Interval
  BY DEF OnGrid
<1>2. PICK k \in Nat : t = k * Interval
  BY DEF OnGrid
<1>3. Interval \in Nat /\ Interval > 0
  BY SlotAssumption DEF SlotAssumption
<1>4. k * Interval < (j + 1) * Interval
  BY <1>1, <1>2, <1>3
<1>5. k < j + 1
  BY <1>3, <1>4
<1>6. ~(k < j)
  BY <1>1, <1>2, <1>3
<1> QED
  BY <1>1, <1>2, <1>5, <1>6

\* A later time before the end of the day is later by the clock.
LEMMA LaterThatDay ==
  ASSUME NEW s \in Nat, NEW t \in Nat, s <= t, t < s - TimeOfDay(s) + Day
  PROVE  TimeOfDay(t) = TimeOfDay(s) + (t - s)
<1> DEFINE q == s \div Day
           r == TimeOfDay(s)
<1>1. Day \in Nat /\ Day > 0
  BY SlotAssumption DEF SlotAssumption
<1>2. q \in Nat /\ r \in Nat /\ r < Day /\ s = q * Day + r
  BY <1>1, Quotient DEF TimeOfDay
<1> HIDE DEF q
<1>3. r + (t - s) \in Nat /\ r + (t - s) < Day
  BY <1>1, <1>2
<1>4. q * Day \in Nat
  BY <1>1, <1>2
<1>5. t = q * Day + (r + (t - s))
  BY <1>2, <1>4
<1> HIDE DEF r
<1>6. (q * Day + (r + (t - s))) % Day = r + (t - s)
  BY <1>1, <1>2, <1>3, Remainder
<1> QED
  BY <1>5, <1>6 DEF TimeOfDay, r

-----------------------------------------------------------------------------
(* The inductive invariant: what the slots found so far have been tested for. *)

Typed ==
  /\ pc \in {"ask", "loop", "done", "unasked"}
  /\ now \in Nat /\ date_from \in Nat /\ date_to \in Nat /\ duration \in Nat \ {0}
  /\ calendars \subseteq Meetings /\ busy_intervals \subseteq calendars
  /\ answered \subseteq Mailboxes
  /\ current \in Nat /\ available_slots \subseteq Nat

WholeDays == \E c, n \in Nat : date_from = c * Day /\ date_to = n * Day - 1

Tested(t) ==
  /\ now <= t /\ date_from <= t /\ t < date_to
  /\ WorkStart <= TimeOfDay(t) /\ TimeOfDay(t) < WorkEnd /\ TimeOfDay(t + duration) <= WorkEnd
  /\ \A m \in busy_intervals : ~_overlaps(t, t + duration, m.start, m.end)

SlotInv ==
  /\ Typed /\ WholeDays
  /\ pc = "ask" => available_slots = {}
  /\ pc = "loop" => now <= current /\ date_from <= current
  /\ busy_intervals = get_schedule(answered, date_from, date_to)
  /\ \A t \in available_slots : Tested(t)

\* A time that the loop accepts has passed its tests.
LEMMA FreeIsTested ==
  ASSUME SlotInv, Going, ~BeforeOrAfterWork, ~EndsLate, is_free
  PROVE  Tested(current)
<1>1. current \in Nat /\ TimeOfDay(current) \in Nat /\ TimeOfDay(current + duration) \in Nat
  BY TimeOfDayType, SlotAssumption DEF SlotInv, Typed, SlotAssumption
<1>2. /\ ~(TimeOfDay(current) < WorkStart \/ TimeOfDay(current) >= WorkEnd)
      /\ ~(TimeOfDay(current + duration) > WorkEnd)
  BY DEF BeforeOrAfterWork, EndsLate
<1> QED
  BY <1>1, <1>2, SlotAssumption DEF Going, SlotInv, Tested, is_free, SlotAssumption

LEMMA SlotInvInit == Init => SlotInv
<1> SUFFICES ASSUME Init PROVE SlotInv
  OBVIOUS
<1>1. /\ \E c \in 0..(Days - 1) : date_from = c * Day
      /\ \E n \in 1..Days : date_to = n * Day - 1
  BY SlotAssumption DEF Init, SlotAssumption
<1>2. PICK c \in 0..(Days - 1) : date_from = c * Day
  BY <1>1
<1>3. PICK n \in 1..Days : date_to = n * Day - 1
  BY <1>1
<1>4. c \in Nat /\ n \in Nat /\ n # 0
  BY SlotAssumption DEF SlotAssumption
<1>5. WholeDays
  BY <1>2, <1>3, <1>4 DEF WholeDays
<1>6. date_from \in Nat /\ date_to \in Nat
  BY <1>2, <1>3, <1>4, SlotAssumption DEF SlotAssumption
<1>7. now \in Nat
  BY SlotAssumption DEF Init, Times, SlotAssumption
<1>8. Typed
  BY <1>6, <1>7, SlotAssumption DEF Init, Typed, SlotAssumption
<1>9. busy_intervals = get_schedule(answered, date_from, date_to)
  BY DEF Init, get_schedule
<1> QED
  BY <1>5, <1>8, <1>9 DEF Init, SlotInv

LEMMA SlotInvStep == SlotInv /\ [Next]_vars => SlotInv'
<1> SUFFICES ASSUME SlotInv, [Next]_vars PROVE SlotInv'
  OBVIOUS
<1>1. CASE UNCHANGED vars
  BY <1>1 DEF vars, request, SlotInv, Typed, WholeDays, Tested, get_schedule
<1>2. CASE NoCalendar
  BY <1>2 DEF NoCalendar, request, SlotInv, Typed, WholeDays, Tested, get_schedule
<1>3. CASE Ask
  <2>1. WholeDays' /\ UNCHANGED request /\ available_slots' = {}
    BY <1>3 DEF Ask, request, SlotInv, WholeDays
  <2>2. PICK c \in Nat : date_from = c * Day
    BY DEF SlotInv, WholeDays
  <2>3. date_from <= At9(date_from) /\ At9(date_from) \in Nat
    BY <2>2, NineIsLater, NineType DEF SlotInv, Typed
  <2>4. FirstTime \in Nat /\ now <= FirstTime /\ date_from <= FirstTime
    <3>1. now \in Nat /\ date_from \in Nat
      BY DEF SlotInv, Typed
    <3>2. /\ (now \div Interval + 1) * Interval \in Nat
          /\ now < (now \div Interval + 1) * Interval
      BY <3>1, NextInterval
    <3> QED
      BY <2>3, <3>1, <3>2 DEF FirstTime
  <2>5. busy_intervals' \subseteq calendars /\ answered' \subseteq Mailboxes
    BY <1>3 DEF Ask, get_schedule
  <2>6. busy_intervals' = get_schedule(answered', date_from, date_to)
    BY <1>3 DEF Ask
  <2>7. current' \in Nat /\ now <= current' /\ date_from <= current' /\ pc' = "loop"
    BY <1>3, <2>4 DEF Ask
  <2> QED
    BY <2>1, <2>5, <2>6, <2>7 DEF SlotInv, Typed, request, get_schedule
<1>4. CASE NextDay
  <2>1. current' \in Nat /\ current < current'
    BY <1>4, NineType, SlotAssumption DEF NextDay, SlotInv, Typed, SlotAssumption
  <2> QED
    BY <1>4, <2>1 DEF NextDay, Going, request, SlotInv, Typed, WholeDays, Tested, get_schedule
<1>5. CASE TrySlot
  <2>1. /\ pc = "loop" /\ current < date_to /\ pc' = "loop"
        /\ UNCHANGED <<request, answered, busy_intervals>>
        /\ current' = current + Interval
    BY <1>5 DEF TrySlot, Going
  <2>2. current' \in Nat /\ current < current'
    BY <2>1, SlotAssumption DEF SlotInv, Typed, SlotAssumption
  <2>3. is_free => Tested(current)
    BY <1>5, FreeIsTested DEF TrySlot
  <2>4. available_slots' \subseteq available_slots \cup {current}
        /\ (~is_free => available_slots' = available_slots)
    BY <1>5 DEF TrySlot
  <2>5. \A t \in available_slots' : Tested(t)
    BY <2>3, <2>4 DEF SlotInv
  <2>6. (\A t \in available_slots : Tested(t))'
    BY <2>1, <2>5 DEF Tested, request
  <2>7. Typed'
    BY <2>1, <2>2, <2>4 DEF SlotInv, Typed, request
  <2>8. WholeDays' /\ busy_intervals' = get_schedule(answered, date_from, date_to)'
    BY <2>1 DEF SlotInv, WholeDays, request, get_schedule
  <2>9. now' <= current' /\ date_from' <= current'
    BY <2>1, <2>2 DEF SlotInv, Typed, request
  <2> QED
    BY <2>1, <2>6, <2>7, <2>8, <2>9 DEF SlotInv
<1>6. CASE Finish
  <2>1. available_slots' \subseteq available_slots /\ pc' = "done"
        /\ UNCHANGED <<request, answered, busy_intervals, current>>
    BY <1>6 DEF Finish, Best
  <2> QED
    BY <2>1 DEF request, SlotInv, Typed, WholeDays, Tested, get_schedule
<1> QED
  BY <1>1, <1>2, <1>3, <1>4, <1>5, <1>6 DEF Next

THEOREM SlotInvHolds == Spec => []SlotInv
<1> QED
  BY SlotInvInit, SlotInvStep, PTL DEF Spec

-----------------------------------------------------------------------------
(* What it says of the slots.                                               *)

LEMMA TestedInHours ==
  ASSUME SlotInv, duration <= Day - WorkEnd, NEW t \in Nat, Tested(t)
  PROVE  InHours(t, duration) /\ t + duration <= date_to /\ date_from <= t /\ now <= t
<1>1. duration \in Nat
  BY DEF SlotInv, Typed
<1>2. InHours(t, duration)
  BY <1>1, EndsOnTheSameDay DEF Tested
<1>3. PICK n \in Nat : date_to = n * Day - 1
  BY DEF SlotInv, WholeDays
<1>4. t + duration <= date_to
  BY <1>1, <1>2, <1>3, EndsInRange DEF Tested
<1> QED
  BY <1>1, <1>2, <1>4 DEF Tested

\* Slots are in the hours of work of one day and not in the past.
THEOREM InHoursTheorem == Spec => []SlotsInHours
<1>1. SlotInv => SlotsInHours
  BY TestedInHours DEF SlotsInHours, InHours, SlotInv, Typed
<1> QED
  BY <1>1, SlotInvHolds, PTL

\* A meeting that overlaps a slot is in the range that was asked for: the answer has it.
LEMMA NoMeetingOverlaps ==
  ASSUME SlotInv, duration <= Day - WorkEnd, NEW t \in Nat, Tested(t),
         NEW m \in calendars, m.mailbox \in answered, m.status # "free"
  PROVE  ~_overlaps(t, t + duration, m.start, m.end)
<1>1. duration \in Nat \ {0} /\ date_from \in Nat /\ date_to \in Nat
  BY DEF SlotInv, Typed
<1>2. m.start \in Nat /\ m.end \in Nat
  BY SlotAssumption DEF SlotInv, Typed, SlotAssumption
<1>3. SUFFICES ASSUME _overlaps(t, t + duration, m.start, m.end) PROVE FALSE
  OBVIOUS
<1>4. _overlaps(date_from, date_to, m.start, m.end)
  BY <1>1, <1>2, <1>3, TestedInHours DEF _overlaps
<1>5. m \in busy_intervals
  BY <1>4 DEF SlotInv, get_schedule
<1> QED
  BY <1>1, <1>3, <1>5 DEF Tested

\* No tick of a slot is a tick of a meeting in a mailbox that Exchange has read.
THEOREM FreeTheorem == Spec => []SlotsAreFree
<1>1. ASSUME SlotInv, duration <= Day - WorkEnd, NEW t \in available_slots,
             NEW m \in calendars, m.mailbox \in answered, m.status # "free"
      PROVE  (t..(t + duration - 1)) \cap (m.start..(m.end - 1)) = {}
  <2>1. /\ t \in Nat /\ Tested(t) /\ duration \in Nat
        /\ m.start \in Nat /\ m.end \in Nat
    BY <1>1, SlotAssumption DEF SlotInv, Typed, SlotAssumption
  <2>2. t >= m.end \/ m.start >= t + duration
    BY <1>1, <2>1, NoMeetingOverlaps DEF _overlaps
  <2> QED
    BY <2>1, <2>2
<1>2. SlotInv => SlotsAreFree
  BY <1>1 DEF SlotsAreFree
<1> QED
  BY <1>2, SlotInvHolds, PTL

\* The check before the creation finds no conflict in a slot that was offered, as long as
\* Exchange reads no other mailbox for it than for the search.
THEOREM AgreementTheorem == Spec => []CheckAgrees
<1>1. ASSUME SlotInv, duration <= Day - WorkEnd, NEW t \in available_slots
      PROVE  check_slot(answered, t, t + duration) = {}
  BY <1>1, NoMeetingOverlaps DEF check_slot, get_schedule, SlotInv, Typed
<1>2. SlotInv => CheckAgrees
  BY <1>1 DEF CheckAgrees
<1> QED
  BY <1>2, SlotInvHolds, PTL

-----------------------------------------------------------------------------
(* Nothing that the request allows is passed over.                          *)

\* The requests that EnoughSlots speaks of.
Scope == duration <= Day - WorkEnd /\ WorkStart <= TimeOfDay(FirstTime)

AfterNow(t) == now < t \/ (t = At9(date_from) /\ now <= t)

\* What a time must be, whatever the calendars hold.
Open(t) ==
  /\ AfterNow(t)
  /\ date_from <= t /\ t < date_to
  /\ TimeOfDay(t) >= WorkStart /\ TimeOfDay(t) + duration <= WorkEnd
  /\ (TimeOfDay(t) - WorkStart) % Interval = 0

Searched ==
  /\ date_to < Day * Days /\ preferred \in Nat \X Nat
  /\ pc = "loop" /\ Scope =>
       /\ WorkStart <= TimeOfDay(current) /\ OnGrid(current) /\ AfterNow(current)
       /\ \A t \in available_slots : Allowed(t)
       /\ \A t \in Nat : Allowed(t) /\ t < current => t \in available_slots
  /\ pc = "done" => Cardinality(available_slots) <= MaxSlots
  /\ EnoughSlots

LEMMA AllowedIsOpen ==
  \A t : Allowed(t) => Open(t)
BY DEF Allowed, Open, AfterNow

\* Nine o'clock is on the grid.
LEMMA NineOnGrid ==
  ASSUME NEW t \in Nat
  PROVE  /\ At9(t) \in Nat /\ TimeOfDay(At9(t)) = WorkStart /\ OnGrid(At9(t))
         /\ At9(t) + Day \in Nat /\ TimeOfDay(At9(t) + Day) = WorkStart
         /\ OnGrid(At9(t) + Day)
<1> DEFINE q == t \div Day
<1>1. q \in Nat /\ q + 1 \in Nat
  BY TimeOfDayType
<1>2. WorkStart \in Nat /\ WorkStart < Day /\ Interval \in Nat /\ 0 < Interval /\ Day \in Nat
  BY SlotAssumption DEF SlotAssumption
<1>3. At9(t) = q * Day + WorkStart
  BY DEF At9
<1> HIDE DEF q
<1>4. At9(t) + Day = (q + 1) * Day + WorkStart
  BY <1>1, <1>2, <1>3
<1>5. TimeOfDay(At9(t)) = WorkStart /\ TimeOfDay(At9(t) + Day) = WorkStart
  <2>1. TimeOfDay(q * Day + WorkStart) = WorkStart
    BY <1>1, <1>2, Unique
  <2>2. TimeOfDay((q + 1) * Day + WorkStart) = WorkStart
    BY <1>1, <1>2, Unique
  <2> QED
    BY <1>3, <1>4, <2>1, <2>2
<1>6. At9(t) \in Nat /\ At9(t) + Day \in Nat
  BY <1>2, NineType
<1>7. (WorkStart - WorkStart) % Interval = 0
  BY <1>2
<1> QED
  BY <1>2, <1>5, <1>6, <1>7, GridOfDay

\* What was tested and is on the grid is allowed.
LEMMA TestedIsAllowed ==
  ASSUME SlotInv, Scope, NEW t \in Nat, Tested(t), OnGrid(t), AfterNow(t)
  PROVE  Allowed(t)
<1>1. InHours(t, duration) /\ date_from <= t /\ t < date_to /\ WorkStart <= TimeOfDay(t)
  BY TestedInHours DEF Tested, Scope
<1>2. (TimeOfDay(t) - WorkStart) % Interval = 0
  BY <1>1, GridOfDay
<1>3. ASSUME NEW m \in calendars, m.mailbox \in answered, m.status # "free"
      PROVE  m.end <= t \/ t + duration <= m.start
  <2>1. /\ duration \in Nat /\ m.start \in Nat /\ m.end \in Nat
    BY SlotAssumption DEF SlotInv, Typed, SlotAssumption
  <2>2. ~_overlaps(t, t + duration, m.start, m.end)
    BY <1>3, NoMeetingOverlaps DEF Scope
  <2> QED
    BY <2>1, <2>2 DEF _overlaps
<1>4. TimeOfDay(t) >= WorkStart /\ TimeOfDay(t) + duration <= WorkEnd
  BY <1>1, TimeOfDayType, SlotAssumption DEF InHours, SlotAssumption
<1> QED
  BY <1>1, <1>2, <1>3, <1>4 DEF Allowed, AfterNow

\* What is allowed passes the test of the loop.
LEMMA AllowedIsFree ==
  ASSUME SlotInv, Searched, current \in Nat, Allowed(current)
  PROVE  is_free
<1>1. ASSUME NEW m \in busy_intervals, _overlaps(current, current + duration, m.start, m.end)
      PROVE  FALSE
  <2>1. m \in calendars /\ m.mailbox \in answered /\ m.status # "free"
    BY DEF SlotInv, get_schedule
  <2>2. /\ duration \in Nat /\ m.start \in Nat /\ m.end \in Nat
    BY <2>1, SlotAssumption DEF SlotInv, Typed, SlotAssumption
  <2>3. m.end <= current \/ current + duration <= m.start
    BY <2>1 DEF Allowed
  <2> QED
    BY <1>1, <2>2, <2>3 DEF _overlaps
<1> QED
  BY <1>1 DEF is_free

\* The search begins at the first time that the request allows, or before it.
LEMMA NothingBeforeFirst ==
  ASSUME SlotInv, NEW t \in Nat, Open(t)
  PROVE  FirstTime <= t
<1>1. /\ now \in Nat /\ date_from \in Nat /\ TimeOfDay(t) \in Nat /\ WorkStart \in Nat
      /\ Day \in Nat /\ 0 < Day /\ Interval \in Nat /\ 0 < Interval
  BY TimeOfDayType, SlotAssumption DEF SlotInv, Typed, SlotAssumption
<1>2. PICK c \in Nat : date_from = c * Day
  BY DEF SlotInv, WholeDays
<1>3. At9(date_from) = c * Day + WorkStart
  <2>1. (c * Day + 0) \div Day = c
    BY <1>1, <1>2, Unique
  <2> QED
    BY <1>1, <1>2, <2>1 DEF At9
<1>4. CASE At9(date_from) < now
  <2>1. now < t
    BY <1>1, <1>4, NineType DEF Open, AfterNow
  <2>2. OnGrid(t)
    BY <1>1, GridOfDay DEF Open
  <2>3. PICK k \in Nat : t = k * Interval
    BY <2>2 DEF OnGrid
  <2> DEFINE j == now \div Interval
  <2>4. j \in Nat /\ now = j * Interval + (now % Interval) /\ now % Interval \in Nat
    BY <1>1, Quotient
  <2> HIDE DEF j
  <2>5. j * Interval < k * Interval
    BY <1>1, <2>1, <2>3, <2>4
  <2>6. j + 1 <= k
    BY <1>1, <2>4, <2>5
  <2>7. (j + 1) * Interval <= k * Interval
    BY <1>1, <2>4, <2>6
  <2> QED
    BY <1>4, <2>3, <2>7 DEF FirstTime, j
<1>5. CASE ~(At9(date_from) < now)
  <2> DEFINE q == t \div Day
  <2>1. q \in Nat /\ t = q * Day + TimeOfDay(t) /\ TimeOfDay(t) < Day
    BY <1>1, Quotient DEF TimeOfDay
  <2> HIDE DEF q
  <2>2. c * Day <= t
    BY <1>2 DEF Open
  <2>3. c * Day < (q + 1) * Day
    BY <1>1, <2>1, <2>2
  <2>4. c <= q
    BY <1>1, <2>1, <2>3
  <2>5. c * Day <= q * Day
    BY <1>1, <2>1, <2>4
  <2>6. At9(date_from) <= t
    BY <1>1, <1>3, <2>1, <2>5 DEF Open
  <2> QED
    BY <1>5, <2>6 DEF FirstTime
<1> QED
  BY <1>4, <1>5

LEMMA FirstIsReady ==
  ASSUME SlotInv, Scope
  PROVE  FirstTime \in Nat /\ OnGrid(FirstTime) /\ AfterNow(FirstTime)
<1>1. now \in Nat /\ date_from \in Nat
  BY DEF SlotInv, Typed
<1>2. CASE At9(date_from) < now
  <2>1. /\ FirstTime = (now \div Interval + 1) * Interval
        /\ FirstTime \in Nat /\ now < FirstTime
    BY <1>1, <1>2, NextInterval DEF FirstTime
  <2>2. now \div Interval + 1 \in Nat
    BY <1>1, Quotient, SlotAssumption DEF SlotAssumption
  <2> QED
    BY <2>1, <2>2 DEF OnGrid, AfterNow
<1>3. CASE ~(At9(date_from) < now)
  <2>1. FirstTime = At9(date_from)
    BY <1>3 DEF FirstTime
  <2>2. At9(date_from) \in Nat /\ OnGrid(At9(date_from))
    BY <1>1, NineOnGrid
  <2> QED
    BY <1>1, <1>3, <2>1, <2>2 DEF AfterNow
<1> QED
  BY <1>2, <1>3

\* A day that the search leaves has no allowed time any more.
LEMMA NothingSkipped ==
  ASSUME SlotInv, Scope, WorkStart <= TimeOfDay(current), BeforeOrAfterWork \/ EndsLate,
         NEW t \in Nat, Open(t), current <= t
  PROVE  At9(current) + Day <= t
<1> DEFINE q == current \div Day
           p == t \div Day
<1>1. /\ current \in Nat /\ duration \in Nat /\ WorkStart \in Nat /\ WorkEnd \in Nat
      /\ Day \in Nat /\ 0 < Day
  BY SlotAssumption DEF SlotInv, Typed, SlotAssumption
<1>2. /\ q \in Nat /\ TimeOfDay(current) \in Nat /\ TimeOfDay(current) < Day
      /\ current = q * Day + TimeOfDay(current)
  BY <1>1, Quotient DEF TimeOfDay
<1>3. p \in Nat /\ TimeOfDay(t) \in Nat /\ t = p * Day + TimeOfDay(t)
  BY <1>1, Quotient DEF TimeOfDay
<1>4. At9(current) = q * Day + WorkStart
  BY DEF At9
<1> HIDE DEF p, q
<1>5. CASE q * Day + Day <= t
  <2>1. (q + 1) * Day <= t /\ t < (p + 1) * Day
    <3>1. TimeOfDay(t) < Day
      BY TimeOfDayType, <1>1
    <3> QED
      BY <1>1, <1>2, <1>3, <1>5, <3>1
  <2>2. (q + 1) * Day < (p + 1) * Day
    BY <1>1, <1>2, <1>3, <2>1
  <2>3. q + 1 <= p
    BY <1>1, <1>2, <1>3, <2>2
  <2>4. (q + 1) * Day <= p * Day
    BY <1>1, <1>2, <1>3, <2>3
  <2> QED
    BY <1>1, <1>2, <1>3, <1>4, <2>4 DEF Open
<1>6. CASE ~(q * Day + Day <= t)
  <2>1. TimeOfDay(t) = TimeOfDay(current) + (t - current)
    BY <1>1, <1>2, <1>6, LaterThatDay
  <2>2. TimeOfDay(current) + duration <= WorkEnd
    BY <1>1, <1>2, <2>1 DEF Open
  <2>3. TimeOfDay(current) < WorkEnd
    BY <1>1, <1>2, <2>2 DEF SlotInv, Typed
  <2>4. TimeOfDay(current + duration) = TimeOfDay(current) + duration
    <3>1. current + duration \in Nat /\ current <= current + duration
      BY <1>1
    <3>2. current + duration < current - TimeOfDay(current) + Day
      BY <1>1, <1>2, <2>3, <2>2, SlotAssumption DEF SlotAssumption
    <3>3. TimeOfDay(current + duration) = TimeOfDay(current) + ((current + duration) - current)
      BY <1>1, <3>1, <3>2, LaterThatDay
    <3> QED
      BY <1>1, <3>3
  <2>5. ~BeforeOrAfterWork /\ ~EndsLate
    BY <1>1, <1>2, <2>2, <2>3, <2>4 DEF BeforeOrAfterWork, EndsLate
  <2> QED
    BY <2>5
<1> QED
  BY <1>5, <1>6

LEMMA SearchedInit == Init => Searched
<1> SUFFICES ASSUME Init PROVE Searched
  OBVIOUS
<1>1. PICK n \in 1..Days : date_to = n * Day - 1
  <2>1. \E n \in 1..Days : date_to = n * Day - 1
    BY DEF Init
  <2> QED
    BY <2>1
<1>2. Days \in Nat /\ Day \in Nat /\ 0 < Day /\ n \in Nat /\ n <= Days
  BY SlotAssumption DEF SlotAssumption
<1>3. n * Day <= Days * Day
  BY <1>2
<1>4. n * Day \in Nat /\ Days * Day = Day * Days /\ Day * Days \in Nat
  BY <1>2
<1>5. date_to < Day * Days
  BY <1>1, <1>3, <1>4
<1>6. preferred \in Nat \X Nat
  BY SlotAssumption DEF Init, SlotAssumption
<1> QED
  BY <1>5, <1>6 DEF Init, Searched, EnoughSlots

\* The slots found so far are finitely many, and so are those that are allowed.
LEMMA FiniteSlots ==
  ASSUME SlotInv, Searched
  PROVE  /\ IsFiniteSet(available_slots) /\ available_slots \subseteq Times
         /\ IsFiniteSet({t \in Times : Allowed(t)})
<1>1. Day \in Nat /\ Days \in Nat /\ Day * Days \in Nat
  BY SlotAssumption DEF SlotAssumption
<1>2. date_to \in Nat /\ available_slots \subseteq Nat
  BY DEF SlotInv, Typed
<1>3. \A t \in available_slots : t < date_to
  BY DEF SlotInv, Tested
<1>4. available_slots \subseteq Times
  BY <1>1, <1>2, <1>3 DEF Searched, Times
<1>5. IsFiniteSet(Times)
  <2>1. 0 \in Int /\ Day * Days - 1 \in Int
    BY <1>1
  <2> QED
    BY <2>1, FS_Interval DEF Times
<1>6. {t \in Times : Allowed(t)} \in SUBSET Times /\ available_slots \in SUBSET Times
  BY <1>4
<1> QED
  BY <1>4, <1>5, <1>6, FS_Subset

LEMMA SearchedAsk ==
  ASSUME SlotInv, Searched, Ask
  PROVE  Searched'
<1>1. /\ UNCHANGED request /\ pc' = "loop" /\ available_slots' = {}
      /\ current' = FirstTime
  BY DEF Ask, SlotInv
<1>2. UNCHANGED <<now, date_from, date_to, duration, preferred, calendars>>
  BY <1>1 DEF request
<1>3. Scope' <=> Scope
  BY <1>2 DEF Scope, FirstTime
<1>4. ASSUME Scope
      PROVE  /\ WorkStart <= TimeOfDay(current') /\ OnGrid(current')
             /\ AfterNow(current)'
             /\ \A t \in Nat : Allowed(t)' => ~(t < current')
  <2>1. \A t \in Nat : Allowed(t)' => Open(t)
    BY <1>2 DEF Allowed, Open, AfterNow
  <2>2. FirstTime \in Nat /\ OnGrid(FirstTime) /\ AfterNow(FirstTime)
    BY <1>4, FirstIsReady
  <2>3. AfterNow(current)'
    BY <1>1, <1>2, <2>2 DEF AfterNow
  <2>4. ASSUME NEW t \in Nat, Open(t)
        PROVE  ~(t < FirstTime)
    BY <2>2, <2>4, NothingBeforeFirst
  <2> QED
    BY <1>1, <1>4, <2>1, <2>2, <2>3, <2>4 DEF Scope
<1>5. EnoughSlots'
  BY <1>1 DEF EnoughSlots
<1> QED
  BY <1>1, <1>2, <1>3, <1>4, <1>5 DEF Searched

\* The turns of the loop, by what they add and how far they go.
LEMMA SearchedTurn ==
  ASSUME SlotInv, Searched, pc = "loop", pc' = "loop",
         UNCHANGED <<request, answered, busy_intervals>>,
         Scope => /\ WorkStart <= TimeOfDay(current') /\ OnGrid(current')
                  /\ AfterNow(current)'
                  /\ \A t \in available_slots' : Allowed(t)
                  /\ \A t \in Nat :
                       Allowed(t) /\ t < current' => t \in available_slots'
  PROVE  Searched'
<1>1. UNCHANGED <<now, date_from, date_to, duration, preferred, calendars, answered>>
  BY DEF request
<1>2. Scope' <=> Scope
  BY <1>1 DEF Scope, FirstTime
<1>3. \A t : Allowed(t)' <=> Allowed(t)
  BY <1>1 DEF Allowed
<1>4. EnoughSlots'
  BY DEF EnoughSlots
<1> QED
  BY <1>1, <1>2, <1>3, <1>4 DEF Searched

LEMMA SearchedNextDay ==
  ASSUME SlotInv, Searched, NextDay
  PROVE  Searched'
<1>1. /\ pc = "loop" /\ pc' = "loop" /\ UNCHANGED <<request, answered, busy_intervals>>
      /\ current' = At9(current) + Day /\ available_slots' = available_slots
      /\ BeforeOrAfterWork \/ EndsLate
  BY DEF NextDay, Going
<1>2. current \in Nat /\ now \in Nat /\ now <= current
  BY <1>1 DEF SlotInv, Typed
<1>3. /\ current' \in Nat /\ current < current' /\ OnGrid(current')
      /\ TimeOfDay(current') = WorkStart
  BY <1>1, <1>2, NineType, NineOnGrid
<1>4. AfterNow(current)'
  BY <1>1, <1>2, <1>3 DEF AfterNow, request
<1>5. ASSUME Scope, NEW t \in Nat, Allowed(t), t < current'
      PROVE  t \in available_slots'
  <2>1. t < current
    BY <1>1, <1>2, <1>3, <1>5, NothingSkipped, AllowedIsOpen DEF Searched
  <2> QED
    BY <1>1, <1>5, <2>1 DEF Searched
<1>6. WorkStart <= WorkStart
  BY SlotAssumption DEF SlotAssumption
<1> QED
  BY <1>1, <1>3, <1>4, <1>5, <1>6, SearchedTurn DEF Searched

LEMMA SearchedTrySlot ==
  ASSUME SlotInv, Searched, TrySlot
  PROVE  Searched'
<1>1. /\ pc = "loop" /\ pc' = "loop" /\ UNCHANGED <<request, answered, busy_intervals>>
      /\ current' = current + Interval /\ Going /\ ~BeforeOrAfterWork /\ ~EndsLate
      /\ available_slots' = IF is_free THEN available_slots \cup {current}
                                       ELSE available_slots
  BY DEF TrySlot, Going
<1>2. /\ current \in Nat /\ now \in Nat /\ now <= current
      /\ Interval \in Nat /\ 0 < Interval /\ WorkEnd + Interval <= Day
      /\ WorkStart \in Nat /\ WorkEnd \in Nat /\ Day \in Nat
  BY <1>1, SlotAssumption DEF SlotInv, Typed, SlotAssumption
<1>3. /\ TimeOfDay(current) \in Nat /\ WorkStart <= TimeOfDay(current)
      /\ TimeOfDay(current) < WorkEnd
  <2>1. TimeOfDay(current) \in Nat
    BY <1>2, TimeOfDayType
  <2>2. ~(TimeOfDay(current) < WorkStart) /\ ~(TimeOfDay(current) >= WorkEnd)
    BY <1>1 DEF BeforeOrAfterWork
  <2> QED
    BY <1>2, <2>1, <2>2
<1>4. AfterNow(current)'
  BY <1>1, <1>2 DEF AfterNow, request
<1>5. ASSUME Scope
      PROVE  WorkStart <= TimeOfDay(current') /\ OnGrid(current')
  <2>1. PICK k \in Nat : current = k * Interval
    BY <1>1, <1>5 DEF Searched, OnGrid
  <2>2. current' = (k + 1) * Interval /\ k + 1 \in Nat
    BY <1>1, <1>2, <2>1
  <2>3. OnGrid(current')
    BY <2>2 DEF OnGrid
  <2>4. CASE TimeOfDay(current) + Interval < Day
    <3>1. TimeOfDay(current + Interval) = TimeOfDay(current) + ((current + Interval) - current)
      BY <1>2, <1>3, <2>4, LaterThatDay
    <3> QED
      BY <1>1, <1>2, <1>3, <2>3, <3>1
  <2> QED
    BY <1>2, <1>3, <2>3, <2>4
<1>6. ASSUME Scope, is_free
      PROVE  Allowed(current)
  BY <1>1, <1>2, <1>6, FreeIsTested, TestedIsAllowed DEF Searched
<1>7. ASSUME Scope, NEW t \in Nat, Allowed(t), t < current', ~(t < current)
      PROVE  t = current /\ is_free
  <2>1. OnGrid(current) /\ current <= t /\ t < current + Interval
    BY <1>1, <1>2, <1>7 DEF Searched
  <2>2. OnGrid(t)
    BY <1>2, <1>7, TimeOfDayType, GridOfDay DEF Allowed
  <2>3. t = current
    BY <1>2, <2>1, <2>2, NextOnGrid
  <2> QED
    BY <1>2, <1>7, <2>3, AllowedIsFree
<1>8. ASSUME Scope
      PROVE  /\ \A t \in available_slots' : Allowed(t)
             /\ \A t \in Nat : Allowed(t) /\ t < current' => t \in available_slots'
  BY <1>1, <1>6, <1>7, <1>8 DEF Searched
<1> QED
  BY <1>1, <1>4, <1>5, <1>8, SearchedTurn

LEMMA SearchedFinish ==
  ASSUME SlotInv, Searched, Finish
  PROVE  Searched'
<1> DEFINE found == available_slots
           allowed == {t \in Times : Allowed(t)}
<1>1. /\ pc = "loop" /\ pc' = "done" /\ ~Going /\ available_slots' = Best(found)
      /\ UNCHANGED <<request, answered, busy_intervals>>
  BY DEF Finish
<1>2. UNCHANGED <<now, date_from, date_to, duration, preferred, calendars, answered>>
  BY <1>1 DEF request
<1>3. /\ found \subseteq Nat /\ IsFiniteSet(found) /\ found \subseteq Times
      /\ IsFiniteSet(allowed)
  BY FiniteSlots DEF SlotInv, Typed
<1>4. MaxSlots \in Nat /\ Cardinality(found) \in Nat
  BY <1>3, FS_CardinalityType, SlotAssumption DEF SlotAssumption
<1>5. /\ Best(found) \subseteq found
      /\ Cardinality(found) < MaxSlots => Best(found) = found
      /\ Cardinality(found) >= MaxSlots => Cardinality(Best(found)) = MaxSlots
  BY <1>3, BestSize
<1>6. Cardinality(Best(found)) <= MaxSlots
  BY <1>4, <1>5
<1>7. ASSUME Scope
      PROVE  /\ Best(found) \subseteq allowed
             /\ \/ Cardinality(Best(found)) = MaxSlots
                \/ Cardinality(allowed) < MaxSlots /\ Best(found) = allowed
  <2>1. found \subseteq allowed
    BY <1>1, <1>3, <1>7 DEF Searched
  <2>2. CASE Cardinality(found) >= MaxSlots
    BY <1>5, <2>1, <2>2
  <2>3. CASE Cardinality(found) < MaxSlots
    <3>1. current >= date_to
      BY <1>1, <1>4, <2>3 DEF Going, SlotInv, Typed
    <3>2. ASSUME NEW t \in allowed
          PROVE  t \in found
      <4>1. t \in Nat /\ Allowed(t)
        BY SlotAssumption DEF Times, SlotAssumption
      <4>2. t < current
        BY <3>1, <4>1 DEF Allowed, SlotInv, Typed
      <4> QED
        BY <1>1, <1>7, <4>1, <4>2 DEF Searched
    <3>3. allowed = found
      BY <2>1, <3>2
    <3> QED
      BY <1>5, <2>3, <3>3
  <2> QED
    BY <1>4, <2>2, <2>3
<1>8. \A t : Allowed(t)' <=> Allowed(t)
  BY <1>2 DEF Allowed
<1>9. EnoughSlots'
  <2> SUFFICES ASSUME (/\ duration <= Day - WorkEnd
                       /\ TimeOfDay(FirstTime) >= WorkStart)'
               PROVE  (/\ available_slots \subseteq {t \in Times : Allowed(t)}
                       /\ \/ Cardinality(available_slots) = MaxSlots
                          \/ /\ Cardinality({t \in Times : Allowed(t)}) < MaxSlots
                             /\ available_slots = {t \in Times : Allowed(t)})'
    BY DEF EnoughSlots
  <2>1. Scope
    <3>1. FirstTime' = FirstTime
      BY <1>2 DEF FirstTime
    <3>2. FirstTime \in Nat
      BY NextInterval, NineType DEF FirstTime, SlotInv, Typed
    <3> QED
      BY <1>2, <3>1, <3>2, TimeOfDayType, SlotAssumption DEF Scope, SlotAssumption
  <2>2. {t \in Times : Allowed(t)}' = allowed
    BY <1>8 DEF Times
  <2> QED
    BY <1>1, <1>7, <2>1, <2>2
<1> QED
  BY <1>1, <1>2, <1>6, <1>9 DEF Searched

LEMMA SearchedStep == SlotInv /\ Searched /\ [Next]_vars => Searched'
<1> SUFFICES ASSUME SlotInv, Searched, [Next]_vars PROVE Searched'
  OBVIOUS
<1>1. CASE UNCHANGED vars
  <2>1. UNCHANGED <<pc, now, date_from, date_to, duration, preferred, calendars,
                    answered, busy_intervals, current, available_slots>>
    BY <1>1 DEF vars, request
  <2>2. /\ Scope' <=> Scope
        /\ \A t : (Allowed(t)' <=> Allowed(t)) /\ (AfterNow(t)' <=> AfterNow(t))
        /\ EnoughSlots' <=> EnoughSlots
    BY <2>1 DEF Scope, FirstTime, Allowed, AfterNow, EnoughSlots
  <2> QED
    BY <2>1, <2>2 DEF Searched
<1>2. CASE NoCalendar
  <2>1. pc' = "unasked" /\ UNCHANGED <<date_to, preferred>>
    BY <1>2 DEF NoCalendar, request
  <2> QED
    BY <2>1 DEF Searched, EnoughSlots
<1> QED
  BY <1>1, <1>2, SearchedAsk, SearchedNextDay, SearchedTrySlot, SearchedFinish DEF Next

THEOREM SearchedHolds == Spec => []Searched
<1> QED
  BY SlotInvHolds, SearchedInit, SearchedStep, PTL DEF Spec

\* The variables have their types, and no more than MaxSlots slots are offered.
THEOREM TypeTheorem == Spec => []TypeOK
<1>1. SlotInv /\ Searched => TypeOK
  BY DEF SlotInv, Typed, Searched, TypeOK
<1> QED
  BY <1>1, SlotInvHolds, SearchedHolds, PTL

\* The search passes over no time that the request allows.
THEOREM EnoughTheorem == Spec => []EnoughSlots
<1>1. Searched => EnoughSlots
  BY DEF Searched
<1> QED
  BY <1>1, SearchedHolds, PTL
=============================================================================
