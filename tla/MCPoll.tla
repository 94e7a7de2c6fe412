------------------------------- MODULE MCPoll -------------------------------
(***************************************************************************)
(* An instance of PollLoop for TLC: one account with two calendars, one    *)
(* with one, and an event in each calendar, of which the configuration     *)
(* says that the view does not list the second.                            *)
(***************************************************************************)
EXTENDS PollLoop

MCCalendars == {"c1", "c2", "c3"}
MCAccountOf == [c \in MCCalendars |-> IF c = "c3" THEN "a2" ELSE "a1"]
MCEvents == {"e1", "e2", "e3"}
MCCalendarOf == [e \in MCEvents |-> CASE e = "e1" -> "c1" [] e = "e2" -> "c2" [] OTHER -> "c3"]
=============================================================================
