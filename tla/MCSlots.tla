------------------------------- MODULE MCSlots -------------------------------
(***************************************************************************)
(* Instances of SlotFinder for TLC: days of sixteen ticks with six ticks   *)
(* of work, slots every second tick.                                       *)
(***************************************************************************)
EXTENDS SlotFinder

\* Meetings of the first two days: on and off the grid, short and long, one that
\* touches the end of another, one over night, one marked free.
SomeMeetings ==
  {[mailbox |-> "user", start |-> 6, end |-> 8, status |-> "busy"],
   [mailbox |-> "attendee", start |-> 8, end |-> 9, status |-> "tentative"],
   [mailbox |-> "user", start |-> 11, end |-> 23, status |-> "oof"],
   [mailbox |-> "attendee", start |-> 24, end |-> 28, status |-> "workingelsewhere"],
   [mailbox |-> "attendee", start |-> 22, end |-> 28, status |-> "free"]}
=============================================================================
