------------------------------ MODULE PollLoop ------------------------------
(***************************************************************************)
(* The two periodic tasks over all accounts and events: the poll           *)
(* (worker/tasks/subscription_tasks.py) with its loops over accounts,      *)
(* calendars and rows, and the reconciliation                              *)
(* (worker/tasks/reconciliation_tasks.py) with its loop over groups.  What *)
(* one synchronisation or deletion does in detail is in SyncSystem; here   *)
(* it is one step, and the question is which events an exception keeps     *)
(* from being reached.                                                     *)
(***************************************************************************)
EXTENDS Naturals, FiniteSets

CONSTANTS Accounts, Calendars, Events,
          account_of,    \* the account of a calendar
          calendar_of,   \* the calendar of an event's primary
          Unlisted,      \* the events that the view of the poll does not list: those
                         \* beyond its end, and the masters of a recurrence
          Limit,         \* how many groups a reconciliation takes
          MaxChanges,    \* bound: what users do in the API and in Outlook
          MaxFailures    \* bound: calls and tasks that fail

ASSUME LoopAssumption ==
  /\ account_of \in [Calendars -> Accounts] /\ calendar_of \in [Events -> Calendars]
  /\ IsFiniteSet(Events) /\ Unlisted \subseteq Events
  /\ Limit \in Nat /\ MaxChanges \in Nat /\ MaxFailures \in Nat

VARIABLES
  item,     \* Exchange: whether the primary is there
  key,      \* Exchange: its change key, 0 before it was created
  mirror,   \* Exchange: the mirror shows the row, something older, or was removed
  live,     \* the rows that are not deleted
  seen,     \* last_seen_change_key, 0 before a poll has stored one
  poll,     \* the poll: what is left of its loops, and what it holds
  late,     \* history: the events created between the last list and the query after it
  groups,   \* what is left of the reconciliation's loop
  changes, failures   \* what the bounds count

exchange == <<item, key, mirror>>
vars == <<exchange, live, seen, poll, late, groups, changes, failures>>

Nothing == [pc |-> "idle", accounts |-> {}, calendars |-> {}, calendar |-> {},
            listed |-> {}, rows |-> {}]

Account(e) == account_of[calendar_of[e]]

CallFails == failures < MaxFailures /\ failures' = failures + 1

-----------------------------------------------------------------------------
(* One synchronisation (mirror_service.py).                                 *)

\* It raises when the mirror is gone, and when a call fails; a deleted event has no mirror
\* left to write.
Synced(e) ==
  /\ e \in live => mirror[e] # "lost"
  /\ mirror' = IF e \in live THEN [mirror EXCEPT ![e] = "fresh"] ELSE mirror
  /\ UNCHANGED failures

SyncRaises(e) ==
  /\ e \in live
  /\ \/ mirror[e] = "lost" /\ UNCHANGED failures
     \/ CallFails
  /\ UNCHANGED mirror

-----------------------------------------------------------------------------
(* The poll.                                                                *)

\* Every five minutes.
poll_calendar_changes_task ==
  /\ poll.pc = "idle"
  /\ poll' = [Nothing EXCEPT !.pc = "running", !.accounts = Accounts]
  /\ UNCHANGED <<exchange, live, seen, late, groups, changes, failures>>

Between == poll.pc = "running" /\ poll.rows = {}

select_calendars ==
  /\ Between /\ poll.calendars = {}
  /\ \E a \in poll.accounts :
       poll' = [poll EXCEPT !.accounts = @ \ {a},
                            !.calendars = {c \in Calendars : account_of[c] = a}]
  /\ UNCHANGED <<exchange, live, seen, late, groups, changes, failures>>

\* Mutant: an exception ends the whole poll.
NextAccount_none == poll' = Nothing

\* An exception ends the loop over the account's calendars.
NextAccount == poll' = [Nothing EXCEPT !.pc = "running", !.accounts = poll.accounts]

list_events ==
  /\ Between
  /\ \E c \in poll.calendars :
       \/ /\ poll' = [poll EXCEPT !.calendars = @ \ {c}, !.calendar = {c}, !.pc = "select",
                        !.listed = {<<e, key[e]>> : e \in {f \in Events \ Unlisted :
                                                     calendar_of[f] = c /\ item[f]}}]
          /\ late' = {}
          /\ UNCHANGED failures
       \/ CallFails /\ NextAccount /\ UNCHANGED late
  /\ UNCHANGED <<exchange, live, seen, groups, changes>>

\* Mutant: the query does not say which calendar.
select_rows_of_all ==
  /\ poll.pc = "select"
  /\ LET missing == {e \in live : \A l \in poll.listed : l[1] # e}
         changed == {l \in poll.listed : l[1] \in live /\ l[2] # seen[l[1]]}
     IN poll' = [poll EXCEPT !.pc = "running", !.calendar = {}, !.listed = {},
                             !.rows = {<<e, 0>> : e \in missing} \cup changed]
  /\ UNCHANGED <<exchange, live, seen, late, groups, changes, failures>>

\* The rows of the calendar that are missing in the list (their key is 0) or have
\* another key than was seen.
select_rows ==
  /\ poll.pc = "select"
  /\ LET mine == {e \in live : calendar_of[e] \in poll.calendar}
         missing == {e \in mine : \A l \in poll.listed : l[1] # e}
         changed == {l \in poll.listed : l[1] \in mine /\ l[2] # seen[l[1]]}
     IN poll' = [poll EXCEPT !.pc = "running", !.calendar = {}, !.listed = {},
                             !.rows = {<<e, 0>> : e \in missing} \cup changed]
  /\ UNCHANGED <<exchange, live, seen, late, groups, changes, failures>>

\* The row and what is left in Exchange; on a failure Exchange may be ahead.
handle_external_delete ==
  /\ poll.pc = "running"
  /\ \E r \in poll.rows :
       /\ r[2] = 0
       /\ \/ /\ live' = live \ {r[1]}
             /\ item' = [item EXCEPT ![r[1]] = FALSE]
             /\ poll' = [poll EXCEPT !.rows = @ \ {r}]
             /\ UNCHANGED failures
          \/ /\ item' \in {item, [item EXCEPT ![r[1]] = FALSE]}
             /\ CallFails /\ NextAccount /\ UNCHANGED live
  /\ UNCHANGED <<key, mirror, seen, late, groups, changes>>

sync_mirror_to_primary ==
  /\ poll.pc = "running"
  /\ \E r \in poll.rows :
       /\ r[2] # 0
       /\ \/ Synced(r[1]) /\ poll' = [poll EXCEPT !.pc = "store", !.listed = {r}]
          \/ SyncRaises(r[1]) /\ NextAccount
  /\ UNCHANGED <<item, key, live, seen, late, groups, changes>>

\* Mutant: the key is forgotten.
store_key_lost ==
  /\ poll.pc = "store"
  /\ poll' = [poll EXCEPT !.pc = "running", !.rows = @ \ poll.listed, !.listed = {}]
  /\ UNCHANGED <<exchange, live, seen, late, groups, changes, failures>>

\* The key that was listed.
store_key ==
  /\ poll.pc = "store"
  /\ \E r \in poll.listed : seen' = [seen EXCEPT ![r[1]] = r[2]]
  /\ poll' = [poll EXCEPT !.pc = "running", !.rows = @ \ poll.listed, !.listed = {}]
  /\ UNCHANGED <<exchange, live, late, groups, changes, failures>>

EndOfPoll ==
  /\ Between /\ poll.calendars = {} /\ poll.accounts = {}
  /\ poll' = Nothing
  /\ UNCHANGED <<exchange, live, seen, late, groups, changes, failures>>

Poll ==
  \/ poll_calendar_changes_task \/ select_calendars \/ list_events \/ select_rows
  \/ handle_external_delete \/ sync_mirror_to_primary \/ store_key \/ EndOfPoll

-----------------------------------------------------------------------------
(* The reconciliation.                                                      *)

\* Mutant: the query has no limit.
reconcile_all ==
  /\ groups = {}
  /\ groups' = live
  /\ UNCHANGED <<exchange, live, seen, poll, late, changes, failures>>

\* Every night: any groups that are not deleted, up to the limit.
reconcile_sync_groups_task ==
  /\ groups = {}
  /\ groups' \in {g \in SUBSET live :
       Cardinality(g) = IF Cardinality(live) < Limit THEN Cardinality(live) ELSE Limit}
  /\ UNCHANGED <<exchange, live, seen, poll, late, changes, failures>>

\* Mutant: an exception ends the loop.
repair_sync_group_raises ==
  /\ \E e \in groups :
       \/ Synced(e) /\ groups' = groups \ {e}
       \/ SyncRaises(e) /\ groups' = {}
  /\ UNCHANGED <<item, key, live, seen, poll, late, changes>>

\* An exception is logged, and the loop goes on.
repair_sync_group ==
  /\ \E e \in groups :
       /\ Synced(e) \/ SyncRaises(e)
       /\ groups' = groups \ {e}
  /\ UNCHANGED <<item, key, live, seen, poll, late, changes>>

Reconciliation == reconcile_sync_groups_task \/ repair_sync_group

-----------------------------------------------------------------------------
(* Users, and processes that are killed.                                    *)

Change ==
  /\ changes < MaxChanges
  /\ changes' = changes + 1
  /\ UNCHANGED <<seen, poll, groups>>

\* A mirror that cannot be created has no row, and nothing to repair.
create_event(e) ==
  /\ Change
  /\ key[e] = 0
  /\ live' = live \cup {e}
  /\ item' = [item EXCEPT ![e] = TRUE]
  /\ key' = [key EXCEPT ![e] = 1]
  /\ late' = IF calendar_of[e] \in poll.calendar THEN late \cup {e} ELSE late
  /\ UNCHANGED <<mirror, failures>>

\* PATCH: Exchange gives the primary a new key, which update_event does not store; the
\* mirror follows unless its call fails.
update_event(e) ==
  /\ Change
  /\ e \in live /\ item[e]
  /\ key' = [key EXCEPT ![e] = @ + 1]
  /\ \/ Synced(e)
     \/ /\ mirror[e] = "lost" /\ UNCHANGED <<mirror, failures>>
     \/ CallFails /\ mirror[e] # "lost" /\ mirror' = [mirror EXCEPT ![e] = "stale"]
  /\ UNCHANGED <<item, live, late>>

delete_event(e) ==
  /\ Change
  /\ e \in live
  /\ live' = live \ {e}
  /\ item' = [item EXCEPT ![e] = FALSE]
  /\ UNCHANGED <<key, mirror, late, failures>>

\* In Outlook.
Edit(e) ==
  /\ Change /\ item[e]
  /\ key' = [key EXCEPT ![e] = @ + 1]
  /\ UNCHANGED <<item, mirror, live, late, failures>>
RemovePrimary(e) ==
  /\ Change /\ item[e]
  /\ item' = [item EXCEPT ![e] = FALSE]
  /\ UNCHANGED <<key, mirror, live, late, failures>>
RemoveMirror(e) ==
  /\ Change /\ e \in live /\ mirror[e] # "lost"
  /\ mirror' = [mirror EXCEPT ![e] = "lost"]
  /\ UNCHANGED <<item, key, live, late, failures>>

Users ==
  \E e \in Events : \/ create_event(e) \/ update_event(e) \/ delete_event(e)
                    \/ Edit(e) \/ RemovePrimary(e) \/ RemoveMirror(e)

Kill ==
  /\ CallFails
  /\ \/ poll.pc # "idle" /\ poll' = Nothing /\ UNCHANGED groups
     \/ groups # {} /\ groups' = {} /\ UNCHANGED poll
  /\ UNCHANGED <<exchange, live, seen, late, changes>>

-----------------------------------------------------------------------------

\* Some events were created and seen by a poll; the others are not there yet.
Init ==
  /\ live \in SUBSET Events
  /\ item = [e \in Events |-> e \in live]
  /\ key = [e \in Events |-> IF e \in live THEN 1 ELSE 0]
  /\ mirror = [e \in Events |-> "fresh"]
  /\ seen = key
  /\ poll = Nothing /\ late = {} /\ groups = {}
  /\ changes = 0 /\ failures = 0

Next == Poll \/ Reconciliation \/ Users \/ Kill

Spec == Init /\ [][Next]_vars /\ WF_vars(Poll) /\ WF_vars(Reconciliation)

-----------------------------------------------------------------------------
(* Properties.                                                              *)

Keys == 0..(MaxChanges + 1)

\* The variables have their types; a reconciliation takes no more groups than the limit.
TypeOK ==
  /\ item \in [Events -> BOOLEAN] /\ key \in [Events -> Keys] /\ seen \in [Events -> Keys]
  /\ mirror \in [Events -> {"fresh", "stale", "lost"}]
  /\ live \subseteq Events /\ late \subseteq Events
  /\ groups \subseteq Events /\ Cardinality(groups) <= Limit
  /\ poll.pc \in {"idle", "running", "select", "store"}
  /\ poll.accounts \subseteq Accounts /\ poll.calendars \subseteq Calendars
  /\ poll.rows \subseteq Events \X Keys /\ poll.listed \subseteq Events \X Keys
  /\ changes \in 0..MaxChanges /\ failures \in 0..MaxFailures

\* What the poll is about to delete has been removed from Exchange, or is one of the two
\* that it takes for removed: an event that its view does not list, and one that was created
\* between the list and the query.  Nothing else becomes a third, although the query and the
\* deletions come after the list, calendar by calendar, and users, failures and the other
\* task go on between them (subscription_tasks.py:33, 53-82).
MissingIsRemoved ==
  \A r \in poll.rows : r[2] = 0 => ~item[r[1]] \/ r[1] \in Unlisted \cup late

\* The poll of an account never gets past a changed event whose mirror was removed: its
\* synchronisation raises, and its new key is not stored (subscription_tasks.py:93-100).
Stuck(a) ==
  \E e \in live : Account(e) = a /\ item[e] /\ mirror[e] = "lost" /\ key[e] # seen[e]

\* Whatever fails, races or is killed, in the end every event that was removed in Outlook
\* is deleted with its mirrors, except in an account whose own poll is stuck: one account
\* never keeps another from being polled (subscription_tasks.py:41-105).
DisappearancesAreFollowed ==
  <>[](\A e \in live : item[e] \/ Stuck(Account(e)))

\* In the end no change is left to notice, except in an account that is stuck: the poll
\* settles and does not synchronise the same event for ever (subscription_tasks.py:88-98).
ChangesAreNoticed ==
  <>[](\A e \in live : item[e] => seen[e] = key[e] \/ Stuck(Account(e)))

\* In the end no mirror is older than its row, also in accounts that are stuck, as long as
\* there are not more groups than the reconciliation takes at a time: a group that cannot
\* be repaired does not keep the others from it (reconciliation_tasks.py:21-39).
GroupsAreRepaired ==
  <>[](Cardinality(live) <= Limit => \A e \in live : mirror[e] # "stale")
=============================================================================
