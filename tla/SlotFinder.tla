----------------------------- MODULE SlotFinder -----------------------------
(***************************************************************************)
(* The search for free slots (api/services/availability/slot_finder.py)    *)
(* over the free/busy answer of Exchange (api/services/ews/availability.py), *)
(* one action per turn of its loop, and the check of a single time         *)
(* (availability_service.py), which must agree with it.                    *)
(*                                                                         *)
(* Times are numbers of ticks since midnight of the first day, in local    *)
(* time; hours of the day are ticks modulo Day.                            *)
(***************************************************************************)
EXTENDS Naturals, FiniteSets

CONSTANTS Day, WorkStart, WorkEnd,   \* ticks of a day, WORK_HOUR_START, WORK_HOUR_END
          Interval,                  \* SLOT_INTERVAL
          Noon, Afternoon,           \* where the hours end that score: up to 12, up to 15
          MaxSlots,                  \* MAX_SLOTS
          Mailboxes,                 \* those of the user and of the attendees
          Days,                      \* bound: how many days the model has
          Durations,                 \* bound: lengths that are asked for
          Meetings                   \* bound: what calendars may hold

ASSUME SlotAssumption ==
  /\ Day \in Nat /\ WorkStart \in Nat /\ WorkEnd \in Nat /\ Interval \in Nat /\ Days \in Nat
  /\ Interval > 0 /\ WorkStart < WorkEnd /\ WorkEnd + Interval <= Day
  /\ Day % Interval = 0 /\ WorkStart % Interval = 0       \* half hours: 9:00, 18:00
  /\ MaxSlots \in Nat
  /\ Noon \in Nat /\ Afternoon \in Nat
  /\ Durations \subseteq Nat \ {0}
  /\ Meetings \subseteq [mailbox: Mailboxes, start: Nat, end: Nat,
                         status: {"busy", "tentative", "oof", "workingelsewhere", "free"}]

VARIABLES
  pc,                \* "ask", "loop", "done", or "unasked" without a calendar
  now,               \* the time of the search
  date_from, date_to, duration, preferred,   \* the request
  calendars,         \* the meetings in the mailboxes
  answered,          \* history: the mailboxes that Exchange has read
  busy_intervals,    \* their meetings, as it has answered
  current,           \* the time the loop looks at
  available_slots    \* the starts it has found

request == <<now, date_from, date_to, duration, preferred, calendars>>
vars == <<pc, request, answered, busy_intervals, current, available_slots>>

Times == 0..(Day * Days - 1)
TimeOfDay(t) == t % Day
At9(t) == (t \div Day) * Day + WorkStart

\* Mutant: an interval inside another does not overlap it.
_overlaps_ends(s1, e1, s2, e2) == (s1 <= s2 /\ s2 < e1) \/ (s1 < e2 /\ e2 <= e1)

\* _overlaps: half-open intervals.
_overlaps(s1, e1, s2, e2) == s1 < e2 /\ s2 < e1

-----------------------------------------------------------------------------
(* find_slots.                                                              *)

\* get_schedule: the meetings in the range, without those marked free, of the mailboxes
\* that Exchange can read.  One that it cannot is answered like one without meetings, and
\* any error like no mailbox at all.
get_schedule(readable, from, to) ==
  {m \in calendars : /\ m.mailbox \in readable /\ m.status # "free"
                     /\ _overlaps(from, to, m.start, m.end)}

\* The first time looked at: nine o'clock, or the next full interval from now.
FirstTime ==
  IF At9(date_from) < now THEN (now \div Interval + 1) * Interval ELSE At9(date_from)

Ask ==
  /\ pc = "ask"
  /\ answered' \in SUBSET Mailboxes
  /\ busy_intervals' = get_schedule(answered', date_from, date_to)
  /\ current' = FirstTime
  /\ pc' = "loop"
  /\ UNCHANGED <<request, available_slots>>

\* Without an active calendar nobody is asked and nothing is offered.
NoCalendar ==
  /\ pc = "ask"
  /\ pc' = "unasked"
  /\ UNCHANGED <<request, answered, busy_intervals, current, available_slots>>

Going ==
  /\ pc = "loop"
  /\ current < date_to
  /\ Cardinality(available_slots) < MaxSlots * 3

BeforeOrAfterWork == TimeOfDay(current) < WorkStart \/ TimeOfDay(current) >= WorkEnd

\* Mutant: the start of the slot is compared instead of its end.
EndsLateByStart == TimeOfDay(current) > WorkEnd

EndsLate == TimeOfDay(current + duration) > WorkEnd

\* Mutant: the search goes on at nine o'clock of the same day.
NextDaySame ==
  /\ Going
  /\ BeforeOrAfterWork \/ EndsLate
  /\ current' = At9(current)
  /\ UNCHANGED <<pc, request, answered, busy_intervals, available_slots>>

NextDay ==
  /\ Going
  /\ BeforeOrAfterWork \/ EndsLate
  /\ current' = At9(current) + Day
  /\ UNCHANGED <<pc, request, answered, busy_intervals, available_slots>>

\* Mutant: only meetings that are certain count.
is_free_of_busy ==
  ~ \E m \in busy_intervals :
      m.status = "busy" /\ _overlaps(current, current + duration, m.start, m.end)

is_free ==
  ~ \E m \in busy_intervals : _overlaps(current, current + duration, m.start, m.end)

\* Mutant: an accepted slot is skipped as a whole.
TrySlotWhole ==
  /\ Going
  /\ ~BeforeOrAfterWork /\ ~EndsLate
  /\ IF is_free
       THEN available_slots' = available_slots \cup {current} /\ current' = current + duration
       ELSE UNCHANGED available_slots /\ current' = current + Interval
  /\ UNCHANGED <<pc, request, answered, busy_intervals>>

TrySlot ==
  /\ Going
  /\ ~BeforeOrAfterWork /\ ~EndsLate
  /\ available_slots' = IF is_free THEN available_slots \cup {current} ELSE available_slots
  /\ current' = current + Interval
  /\ UNCHANGED <<pc, request, answered, busy_intervals>>

\* The scores, in the tenths that the code counts in.
Score(t) ==
  (IF preferred[1] <= TimeOfDay(t) /\ TimeOfDay(t) < preferred[2] THEN 10 ELSE 0)
  + (IF TimeOfDay(t) < Noon THEN 2 ELSE IF TimeOfDay(t) < Afternoon THEN 1 ELSE 0)

\* Mutant: the sort does not order slots of equal score.
Before_by_score(s, t) == Score(s) > Score(t)

Before(s, t) == Score(s) > Score(t) \/ (Score(s) = Score(t) /\ s < t)

\* The sort and the cut: the MaxSlots slots that come first.
Best(slots) ==
  {t \in slots : Cardinality({s \in slots : Before(s, t)}) < MaxSlots}

Finish ==
  /\ pc = "loop"
  /\ ~Going
  /\ available_slots' = Best(available_slots)
  /\ pc' = "done"
  /\ UNCHANGED <<request, answered, busy_intervals, current>>

-----------------------------------------------------------------------------

\* The ranges of the bot begin before and end after the hours of work
\* (find_slot.py:121-122, create.py:587-588).
Init ==
  /\ pc = "ask"
  /\ now \in Times
  /\ date_from \in {d * Day : d \in 0..(Days - 1)}
  /\ date_to \in {d * Day - 1 : d \in 1..Days} /\ date_from < date_to
  /\ duration \in Durations
  /\ preferred \in {<<WorkStart, WorkEnd>>, <<Noon, WorkEnd>>}
  /\ calendars \in SUBSET Meetings
  /\ answered = {} /\ busy_intervals = {}
  /\ current = 0 /\ available_slots = {}

Next == NoCalendar \/ Ask \/ NextDay \/ TrySlot \/ Finish

Spec == Init /\ [][Next]_vars /\ WF_vars(Next)

-----------------------------------------------------------------------------
(* check_slot.                                                              *)

\* The conflicts of a time with what Exchange answers for that time alone.
check_slot(readable, start, end) ==
  {m \in get_schedule(readable, start, end) :
     /\ m.status \in {"busy", "tentative", "oof"}
     /\ _overlaps(start, end, m.start, m.end)}

-----------------------------------------------------------------------------
(* Properties.                                                              *)

\* The variables have their types.
TypeOK ==
  /\ pc \in {"ask", "loop", "done", "unasked"}
  /\ now \in Nat /\ date_from \in Nat /\ date_to \in Nat /\ duration \in Nat \ {0}
  /\ preferred \in Nat \X Nat
  /\ calendars \subseteq Meetings /\ busy_intervals \subseteq calendars
  /\ answered \subseteq Mailboxes
  /\ current \in Nat /\ available_slots \subseteq Nat
  /\ pc = "done" => Cardinality(available_slots) <= MaxSlots

\* No tick of a slot is a tick of a meeting that is not marked free, in any mailbox that
\* Exchange has read, although only the range of the request was asked for and slots are
\* compared by their ends (slot_finder.py:29-32, 77, 110).  The
\* meetings of the other mailboxes, all of them when the call fails, are not seen.
SlotsAreFree ==
  duration <= Day - WorkEnd
    => \A t \in available_slots, m \in calendars :
         m.mailbox \in answered /\ m.status # "free"
           => (t..(t + duration - 1)) \cap (m.start..(m.end - 1)) = {}

\* A slot is in the hours of one day and not in the past, for every duration that
\* cannot end after midnight (slot_finder.py:94-107).
SlotsInHours ==
  duration <= Day - WorkEnd
    => \A t \in available_slots :
         /\ now <= t
         /\ WorkStart <= TimeOfDay(t) /\ TimeOfDay(t) + duration <= WorkEnd

\* Every time on the grid that the request and the answer allow, found without a loop.
Allowed(t) ==
  /\ (now < t \/ (t = At9(date_from) /\ now <= t))
  /\ date_from <= t /\ t < date_to
  /\ TimeOfDay(t) >= WorkStart /\ TimeOfDay(t) + duration <= WorkEnd
  /\ (TimeOfDay(t) - WorkStart) % Interval = 0
  /\ \A m \in calendars :
       \/ m.mailbox \notin answered \/ m.status = "free"
       \/ m.end <= t \/ t + duration <= m.start

\* As many slots are offered as the request allows, up to MaxSlots: the jumps of the
\* loop pass over none.  Left out: durations that can pass midnight, and a first time
\* before work on a later day than date_from, whose day the loop leaves out
\* (slot_finder.py:95-101).
EnoughSlots ==
  pc = "done" /\ duration <= Day - WorkEnd /\ TimeOfDay(FirstTime) >= WorkStart
    => LET allowed == {t \in Times : Allowed(t)} IN
       /\ available_slots \subseteq allowed
       /\ \/ Cardinality(available_slots) = MaxSlots
          \/ Cardinality(allowed) < MaxSlots /\ available_slots = allowed

\* A slot that the search offers is one that the check calls free, when Exchange can read
\* no more mailboxes for it: the user who picks it is not sent back by the question before
\* the creation.  (availability_service.py has an overlap test, a range and a list of
\* statuses of its own.)
CheckAgrees ==
  duration <= Day - WorkEnd
    => \A t \in available_slots : check_slot(answered, t, t + duration) = {}

\* The search ends, whatever it jumps over.
SearchEnds == <>(pc \in {"done", "unasked"})
=============================================================================
