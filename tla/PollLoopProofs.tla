--------------------------- MODULE PollLoopProofs ---------------------------
(***************************************************************************)
(* The periodic tasks over any accounts, calendars and events: the types,  *)
(* the limit of a reconciliation, and which events that are still in       *)
(* Exchange the poll takes for removed.                                    *)
(***************************************************************************)
EXTENDS PollLoop, FiniteSetTheorems, TLAPS

-----------------------------------------------------------------------------
(* Types.  A key that was given is positive, and every change raises one of *)
(* them by one.                                                             *)

Given == 1..(MaxChanges + 1)

Poll_ == [pc: {"idle", "running", "select", "store"}, accounts: SUBSET Accounts,
          calendars: SUBSET Calendars, calendar: SUBSET Calendars,
          listed: SUBSET (Events \X Given), rows: SUBSET (Events \X Keys)]

Typed ==
  /\ item \in [Events -> BOOLEAN] /\ key \in [Events -> Keys] /\ seen \in [Events -> Keys]
  /\ \A e \in Events : key[e] <= changes + 1
  /\ mirror \in [Events -> {"fresh", "stale", "lost"}]
  /\ live \subseteq Events /\ late \subseteq Events
  /\ groups \subseteq Events /\ Cardinality(groups) <= Limit
  /\ poll \in Poll_
  /\ changes \in 0..MaxChanges /\ failures \in 0..MaxFailures

\* What is in Exchange, in the database or in the poll's hands was created once, and is
\* never created again.
Created ==
  /\ \A e \in Events : item[e] \/ e \in live => key[e] # 0
  /\ \A r \in poll.rows : key[r[1]] # 0

\* What the poll still holds of an older list: the events that were not in it have been
\* removed, are not listed or were created since, when it is about to compare and when it
\* has compared.
Missing ==
  /\ MissingIsRemoved
  /\ poll.pc = "select" =>
       \A e \in Events : calendar_of[e] \in poll.calendar /\ item[e]
         => e \in Unlisted \cup late \/ \E l \in poll.listed : l[1] = e

PollInv == Typed /\ Created /\ Missing

LEMMA Constants ==
  /\ account_of \in [Calendars -> Accounts] /\ calendar_of \in [Events -> Calendars]
  /\ IsFiniteSet(Events) /\ Unlisted \subseteq Events
  /\ Limit \in Nat /\ MaxChanges \in Nat /\ MaxFailures \in Nat
  /\ Given \subseteq Keys /\ Given \subseteq Nat /\ Keys \subseteq Nat
  /\ 0 \in Keys /\ 1 \in Given
BY LoopAssumption DEF LoopAssumption, Given, Keys

\* An idle poll, and one that has given up an account.
LEMMA NothingType ==
  /\ Nothing \in Poll_ /\ Nothing.rows = {} /\ Nothing.pc = "idle"
  /\ \A a \in SUBSET Accounts :
       LET q == [Nothing EXCEPT !.pc = "running", !.accounts = a] IN
       q \in Poll_ /\ q.rows = {} /\ q.pc = "running"
BY DEF Nothing, Poll_

\* A call that fails is counted.
LEMMA FailureType ==
  ASSUME Typed, CallFails
  PROVE  failures' \in 0..MaxFailures
BY Constants DEF Typed, CallFails

\* What a synchronisation leaves of the types, whether it succeeds or raises.
LEMMA SyncTypes ==
  ASSUME Typed, NEW e \in Events, Synced(e) \/ SyncRaises(e)
  PROVE  /\ mirror' \in [Events -> {"fresh", "stale", "lost"}]
         /\ failures' \in 0..MaxFailures
<1>1. CASE Synced(e)
  BY <1>1 DEF Synced, Typed
<1>2. CASE SyncRaises(e)
  BY <1>2, FailureType DEF SyncRaises, Typed
<1> QED
  BY <1>1, <1>2

\* The groups can only become fewer while they are repaired.
LEMMA FewerGroups ==
  ASSUME Typed, NEW g, g \subseteq groups
  PROVE  g \subseteq Events /\ Cardinality(g) <= Limit
<1>1. IsFiniteSet(groups)
  BY Constants, FS_Subset DEF Typed
<1>2. /\ IsFiniteSet(g) /\ Cardinality(g) \in Nat /\ Cardinality(groups) \in Nat
      /\ Cardinality(g) <= Cardinality(groups)
  BY <1>1, FS_Subset, FS_CardinalityType
<1> QED
  BY <1>2, Constants DEF Typed

-----------------------------------------------------------------------------
(* The poll.                                                                *)

\* The steps of the poll that change only the poll itself.
LEMMA TurnStep ==
  ASSUME PollInv,
         \/ poll_calendar_changes_task \/ select_calendars \/ EndOfPoll
  PROVE  PollInv'
<1>1. /\ UNCHANGED <<item, key, mirror, live, seen, late, groups, changes, failures>>
      /\ poll' \in Poll_ /\ poll'.pc # "select" /\ poll'.rows = {}
  <2> USE DEF exchange
  <2>1. CASE poll_calendar_changes_task
    BY <2>1, NothingType DEF poll_calendar_changes_task
  <2>2. CASE select_calendars
    <3>1. PICK a \in poll.accounts :
            poll' = [poll EXCEPT !.accounts = @ \ {a},
                                 !.calendars = {c \in Calendars : account_of[c] = a}]
      BY <2>2 DEF select_calendars
    <3>2. poll \in Poll_ /\ poll.pc = "running" /\ poll.rows = {}
      BY <2>2 DEF select_calendars, Between, PollInv, Typed
    <3>3. poll' \in Poll_ /\ poll'.pc = "running" /\ poll'.rows = {}
      BY <3>1, <3>2 DEF Poll_
    <3> QED
      BY <2>2, <3>3 DEF select_calendars
  <2>3. CASE EndOfPoll
    BY <2>3, NothingType DEF EndOfPoll
  <2> QED
    BY <2>1, <2>2, <2>3
<1> QED
  BY <1>1 DEF PollInv, Typed, Created, Missing, MissingIsRemoved

\* The list of a calendar has every event of the calendar that is there.
LEMMA ListStep ==
  ASSUME PollInv, list_events
  PROVE  PollInv'
<1>1. /\ UNCHANGED <<item, key, mirror, live, seen, groups, changes>>
      /\ poll \in Poll_ /\ poll.pc = "running" /\ poll.rows = {}
  BY DEF list_events, Between, exchange, PollInv, Typed
<1>2. PICK c \in poll.calendars :
        \/ /\ poll' = [poll EXCEPT !.calendars = @ \ {c}, !.calendar = {c}, !.pc = "select",
                        !.listed = {<<e, key[e]>> : e \in {f \in Events \ Unlisted :
                                                     calendar_of[f] = c /\ item[f]}}]
           /\ late' = {}
           /\ UNCHANGED failures
        \/ CallFails /\ NextAccount /\ UNCHANGED late
  BY DEF list_events
<1>3. c \in Calendars
  BY <1>1 DEF Poll_
<1>4. CASE CallFails /\ NextAccount /\ UNCHANGED late
  <2>1. failures' \in 0..MaxFailures
    BY <1>4, FailureType DEF PollInv
  <2>2. poll.accounts \in SUBSET Accounts
    BY <1>1 DEF Poll_
  <2>3. poll' \in Poll_ /\ poll'.rows = {} /\ poll'.pc = "running"
    BY <1>4, <2>2, NothingType DEF NextAccount
  <2> QED
    BY <1>1, <1>4, <2>1, <2>3 DEF PollInv, Typed, Created, Missing, MissingIsRemoved
<1>5. CASE ~(CallFails /\ NextAccount /\ UNCHANGED late)
  <2> DEFINE there == {f \in Events \ Unlisted : calendar_of[f] = c /\ item[f]}
             l == {<<e, key[e]>> : e \in there}
  <2>1. l \subseteq Events \X Given
    <3>1. \A e \in there : e \in Events /\ key[e] \in Given
      BY DEF PollInv, Typed, Created, Keys, Given
    <3> HIDE DEF there
    <3> QED
      BY <3>1
  <2>2. \A e \in Events \ Unlisted : calendar_of[e] = c /\ item[e] => \E x \in l : x[1] = e
    <3> TAKE e \in Events \ Unlisted
    <3> HAVE calendar_of[e] = c /\ item[e]
    <3>1. <<e, key[e]>> \in l /\ <<e, key[e]>>[1] = e
      OBVIOUS
    <3> QED
      BY <3>1
  <2>3. /\ poll' = [poll EXCEPT !.calendars = @ \ {c}, !.calendar = {c}, !.pc = "select",
                                !.listed = l]
        /\ late' = {} /\ UNCHANGED failures
    BY <1>2, <1>5
  <2> HIDE DEF l
  <2>4. /\ poll' \in Poll_ /\ poll'.rows = {} /\ poll'.calendar = {c} /\ poll'.listed = l
    BY <1>1, <1>3, <2>1, <2>3 DEF Poll_
  <2>5. Typed'
    BY <1>1, <2>3, <2>4 DEF PollInv, Typed
  <2>6. Missing'
    BY <1>1, <2>2, <2>4 DEF Missing, MissingIsRemoved
  <2>7. Created'
    BY <1>1, <2>4 DEF PollInv, Created
  <2> QED
    BY <2>5, <2>6, <2>7 DEF PollInv
<1> QED
  BY <1>4, <1>5

\* What is missing in the list is missing in Exchange, and what is listed has a key.
LEMMA SelectStep ==
  ASSUME PollInv, select_rows
  PROVE  PollInv'
<1> DEFINE mine == {e \in live : calendar_of[e] \in poll.calendar}
           missing == {e \in mine : \A l \in poll.listed : l[1] # e}
           changed == {l \in poll.listed : l[1] \in mine /\ l[2] # seen[l[1]]}
           r == {<<e, 0>> : e \in missing} \cup changed
<1>1. /\ UNCHANGED <<item, key, mirror, live, seen, late, groups, changes, failures>>
      /\ poll \in Poll_ /\ poll.pc = "select" /\ live \subseteq Events
      /\ poll' = [poll EXCEPT !.pc = "running", !.calendar = {}, !.listed = {}, !.rows = r]
  BY DEF select_rows, exchange, PollInv, Typed
<1>2. poll.listed \subseteq Events \X Given
  BY <1>1 DEF Poll_
<1>3. r \subseteq Events \X Keys
  BY <1>1, <1>2, Constants
<1>4. /\ \A x \in r : x[2] = 0 => ~item[x[1]] \/ x[1] \in Unlisted \cup late
      /\ \A x \in r : key[x[1]] # 0
  <2>1. ASSUME NEW x \in changed PROVE x[2] # 0 /\ key[x[1]] # 0
    BY <1>1, <1>2 DEF Given, PollInv, Created
  <2>2. ASSUME NEW e \in missing PROVE (~item[e] \/ e \in Unlisted \cup late) /\ key[e] # 0
    <3>1. e \in live /\ e \in Events /\ calendar_of[e] \in poll.calendar
      BY <1>1
    <3>2. \A l \in poll.listed : l[1] # e
      OBVIOUS
    <3> QED
      BY <1>1, <3>1, <3>2 DEF PollInv, Missing, Created
  <2>3. ASSUME NEW x \in r, x \notin changed PROVE \E e \in missing : x[1] = e
    <3>1. PICK e \in missing : x = <<e, 0>>
      BY <2>3
    <3> QED
      BY <3>1
  <2> HIDE DEF r, missing, changed
  <2> QED
    BY <2>1, <2>2, <2>3
<1> HIDE DEF r
<1>5. poll' \in Poll_ /\ poll'.pc = "running" /\ poll'.rows = r
  BY <1>1, <1>3 DEF Poll_
<1>6. Typed'
  BY <1>1, <1>5 DEF PollInv, Typed
<1>7. Missing'
  BY <1>1, <1>4, <1>5 DEF Missing, MissingIsRemoved
<1>8. Created'
  BY <1>1, <1>4, <1>5 DEF PollInv, Created
<1> QED
  BY <1>6, <1>7, <1>8 DEF PollInv

\* A deletion, a synchronisation and the storing of a key take rows off.
LEMMA RowStep ==
  ASSUME PollInv, handle_external_delete \/ sync_mirror_to_primary \/ store_key
  PROVE  PollInv'
<1>1. poll \in Poll_ /\ poll.accounts \subseteq Accounts /\ poll.rows \subseteq Events \X Keys
  BY DEF PollInv, Typed, Poll_
<1>2. ASSUME NextAccount, UNCHANGED <<key, seen, late, groups, changes>>,
             item' \in [Events -> BOOLEAN], \A e \in Events : item'[e] => item[e],
             mirror' \in [Events -> {"fresh", "stale", "lost"}],
             failures' \in 0..MaxFailures, UNCHANGED live
      PROVE  PollInv'
  <2>1. poll' \in Poll_ /\ poll'.rows = {} /\ poll'.pc = "running"
    BY <1>1, <1>2, NothingType DEF NextAccount
  <2> QED
    BY <1>2, <2>1 DEF PollInv, Typed, Created, Missing, MissingIsRemoved
<1>3. CASE handle_external_delete
  <2>1. PICK r \in poll.rows :
          /\ item' \in {item, [item EXCEPT ![r[1]] = FALSE]}
          /\ \/ /\ live' = live \ {r[1]}
                /\ poll' = [poll EXCEPT !.rows = @ \ {r}]
                /\ UNCHANGED failures
             \/ CallFails /\ NextAccount /\ UNCHANGED live
    BY <1>3 DEF handle_external_delete
  <2>2. /\ UNCHANGED <<key, mirror, seen, late, groups, changes>> /\ poll.pc = "running"
        /\ item' \in [Events -> BOOLEAN] /\ \A e \in Events : item'[e] => item[e]
    BY <1>3, <2>1 DEF handle_external_delete, PollInv, Typed
  <2>3. CASE CallFails /\ NextAccount /\ UNCHANGED live
    BY <1>2, <2>2, <2>3, FailureType DEF PollInv, Typed
  <2>4. CASE ~(CallFails /\ NextAccount /\ UNCHANGED live)
    <3>1. /\ poll' \in Poll_ /\ poll'.pc = "running" /\ poll'.rows = poll.rows \ {r}
          /\ live' \subseteq live /\ UNCHANGED failures
      BY <1>1, <2>1, <2>2, <2>4 DEF Poll_
    <3>2. Typed'
      BY <2>2, <3>1 DEF PollInv, Typed
    <3>3. Created'
      BY <1>1, <2>2, <3>1 DEF PollInv, Typed, Created
    <3>4. Missing'
      BY <1>1, <2>2, <3>1 DEF PollInv, Missing, MissingIsRemoved
    <3> QED
      BY <3>2, <3>3, <3>4 DEF PollInv
  <2> QED
    BY <2>3, <2>4
<1>4. CASE sync_mirror_to_primary
  <2>1. PICK r \in poll.rows :
          /\ r[2] # 0
          /\ \/ Synced(r[1]) /\ poll' = [poll EXCEPT !.pc = "store", !.listed = {r}]
             \/ SyncRaises(r[1]) /\ NextAccount
    BY <1>4 DEF sync_mirror_to_primary
  <2>2. UNCHANGED <<item, key, live, seen, late, groups, changes>> /\ r[1] \in Events
        /\ r \in Events \X Given
    <3>1. r = <<r[1], r[2]>> /\ r[1] \in Events /\ r[2] \in Keys
      BY <1>1, <2>1
    <3>2. r[2] \in Given
      BY <2>1, <3>1, Constants DEF Keys, Given
    <3> QED
      BY <1>4, <3>1, <3>2 DEF sync_mirror_to_primary
  <2>3. /\ mirror' \in [Events -> {"fresh", "stale", "lost"}]
        /\ failures' \in 0..MaxFailures
    BY <2>1, <2>2, SyncTypes DEF PollInv
  <2>4. CASE SyncRaises(r[1]) /\ NextAccount
    BY <1>2, <2>2, <2>3, <2>4 DEF PollInv, Typed
  <2>5. CASE Synced(r[1]) /\ poll' = [poll EXCEPT !.pc = "store", !.listed = {r}]
    <3>1. poll' \in Poll_ /\ poll'.pc = "store" /\ poll'.rows = poll.rows
      BY <1>1, <2>2, <2>5 DEF Poll_
    <3> QED
      BY <2>2, <2>3, <3>1 DEF PollInv, Typed, Created, Missing, MissingIsRemoved
  <2> QED
    BY <2>1, <2>4, <2>5
<1>5. CASE store_key
  <2>1. PICK r \in poll.listed : seen' = [seen EXCEPT ![r[1]] = r[2]]
    BY <1>5 DEF store_key
  <2>2. /\ UNCHANGED <<item, key, mirror, live, late, groups, changes, failures>>
        /\ poll' = [poll EXCEPT !.pc = "running", !.rows = @ \ poll.listed, !.listed = {}]
    BY <1>5 DEF store_key, exchange
  <2>3. r[2] \in Keys
    BY <1>1, Constants DEF Poll_
  <2>4. seen' \in [Events -> Keys]
    BY <2>1, <2>3 DEF PollInv, Typed
  <2>5. poll' \in Poll_ /\ poll'.pc = "running" /\ poll'.rows \subseteq poll.rows
    BY <1>1, <2>2 DEF Poll_
  <2> QED
    BY <2>2, <2>4, <2>5 DEF PollInv, Typed, Created, Missing, MissingIsRemoved
<1> QED
  BY <1>3, <1>4, <1>5

-----------------------------------------------------------------------------
(* The reconciliation, the users, and processes that are killed.            *)

LEMMA ReconcileStep ==
  ASSUME PollInv, Reconciliation
  PROVE  PollInv'
<1>1. CASE reconcile_sync_groups_task
  <2>1. /\ groups' \subseteq live
        /\ Cardinality(groups') = IF Cardinality(live) < Limit THEN Cardinality(live) ELSE Limit
    BY <1>1 DEF reconcile_sync_groups_task
  <2>2. IsFiniteSet(live) /\ Cardinality(live) \in Nat
    BY Constants, FS_Subset, FS_CardinalityType DEF PollInv, Typed
  <2>3. Cardinality(groups') <= Limit /\ groups' \subseteq Events
    BY <2>1, <2>2, Constants DEF PollInv, Typed
  <2>4. UNCHANGED <<item, key, mirror, live, seen, poll, late, changes, failures>>
    BY <1>1 DEF reconcile_sync_groups_task, exchange
  <2> QED
    BY <2>3, <2>4 DEF PollInv, Typed, Created, Missing, MissingIsRemoved
<1>2. CASE repair_sync_group
  <2>1. PICK e \in groups : (Synced(e) \/ SyncRaises(e)) /\ groups' = groups \ {e}
    BY <1>2 DEF repair_sync_group
  <2>2. UNCHANGED <<item, key, live, seen, poll, late, changes>>
    BY <1>2 DEF repair_sync_group
  <2>3. /\ mirror' \in [Events -> {"fresh", "stale", "lost"}]
        /\ failures' \in 0..MaxFailures
    BY <2>1, SyncTypes DEF PollInv, Typed
  <2>4. groups' \subseteq Events /\ Cardinality(groups') <= Limit
    BY <2>1, FewerGroups DEF PollInv
  <2> QED
    BY <2>2, <2>3, <2>4 DEF PollInv, Typed, Created, Missing, MissingIsRemoved
<1> QED
  BY <1>1, <1>2 DEF Reconciliation

\* Users remove items, and create only what was not there before: what was missing stays
\* missing, and what is created while a list of its calendar is held is late.
LEMMA UsersStep ==
  ASSUME PollInv, Users
  PROVE  PollInv'
<1>1. PICK e \in Events : \/ create_event(e) \/ update_event(e) \/ delete_event(e)
                          \/ Edit(e) \/ RemovePrimary(e) \/ RemoveMirror(e)
  BY DEF Users
<1>2. /\ changes' = changes + 1 /\ changes' \in 0..MaxChanges
      /\ UNCHANGED <<seen, poll, groups>>
  BY <1>1, Constants DEF create_event, update_event, delete_event, Edit, RemovePrimary,
     RemoveMirror, Change, PollInv, Typed
<1>3. /\ key' \in [Events -> Keys]
      /\ \A f \in Events : key'[f] <= changes' + 1 /\ (key[f] # 0 => key'[f] # 0)
  <2>1. \/ key' = key
        \/ key' = [key EXCEPT ![e] = @ + 1]
        \/ key[e] = 0 /\ key' = [key EXCEPT ![e] = 1]
    BY <1>1 DEF create_event, update_event, delete_event, Edit, RemovePrimary, RemoveMirror
  <2>2. \A f \in Events : key'[f] \in {key[f], key[f] + 1}
    BY <2>1 DEF PollInv, Typed
  <2>3. \A f \in Events : key[f] \in Nat /\ key[f] <= changes + 1
    BY DEF PollInv, Typed, Keys
  <2>4. \A f \in Events : /\ key'[f] \in Keys /\ key'[f] <= changes' + 1
                          /\ key[f] # 0 => key'[f] # 0
    BY <1>2, <2>2, <2>3, Constants DEF PollInv, Typed, Keys
  <2> QED
    BY <2>1, <2>4 DEF PollInv, Typed
<1>4. CASE create_event(e)
  <2>1. /\ key[e] = 0 /\ key'[e] # 0 /\ UNCHANGED <<mirror, failures>>
        /\ live' = live \cup {e} /\ item' = [item EXCEPT ![e] = TRUE]
        /\ late' = IF calendar_of[e] \in poll.calendar THEN late \cup {e} ELSE late
    BY <1>4 DEF create_event, PollInv, Typed
  <2>2. /\ item' \in [Events -> BOOLEAN] /\ \A f \in Events : f # e => item'[f] = item[f]
        /\ late \subseteq late' /\ (calendar_of[e] \in poll.calendar => e \in late')
    BY <2>1 DEF PollInv, Typed
  <2>3. Typed'
    BY <1>2, <1>3, <2>1, <2>2 DEF PollInv, Typed
  <2>4. \A r \in poll.rows : r[1] \in Events /\ key[r[1]] # 0 /\ r[1] # e
    BY <2>1 DEF PollInv, Typed, Poll_, Created
  <2>5. Created'
    BY <1>2, <1>3, <2>1, <2>2, <2>4 DEF PollInv, Typed, Created
  <2>6. Missing'
    BY <1>2, <2>2, <2>4 DEF PollInv, Missing, MissingIsRemoved
  <2> QED
    BY <2>3, <2>5, <2>6 DEF PollInv
<1>5. CASE ~create_event(e)
  <2>1. /\ item' \in [Events -> BOOLEAN] /\ \A f \in Events : item'[f] => item[f]
        /\ UNCHANGED late
    <3>1. /\ item' = item \/ item' = [item EXCEPT ![e] = FALSE]
          /\ UNCHANGED late
      BY <1>1, <1>5 DEF update_event, delete_event, Edit, RemovePrimary, RemoveMirror
    <3> QED
      BY <3>1 DEF PollInv, Typed
  <2>2. live' \subseteq live
    BY <1>1, <1>5, <1>2
       DEF update_event, delete_event, Edit, RemovePrimary, RemoveMirror
  <2>3. mirror' \in [Events -> {"fresh", "stale", "lost"}] /\ failures' \in 0..MaxFailures
    <3> USE DEF PollInv, Typed
    <3>1. CASE update_event(e)
      BY <3>1, SyncTypes, FailureType DEF update_event
    <3>2. CASE ~update_event(e)
      BY <1>1, <1>5, <3>2 DEF delete_event, Edit, RemovePrimary, RemoveMirror
    <3> QED
      BY <3>1, <3>2
  <2>4. poll.rows \subseteq Events \X Keys
    BY DEF PollInv, Typed, Poll_
  <2>5. Typed'
    BY <1>2, <1>3, <2>1, <2>2, <2>3 DEF PollInv, Typed
  <2>6. Created'
    BY <1>2, <1>3, <2>1, <2>2, <2>4 DEF PollInv, Typed, Created
  <2>7. Missing'
    BY <1>2, <2>1, <2>4 DEF PollInv, Missing, MissingIsRemoved
  <2> QED
    BY <2>5, <2>6, <2>7 DEF PollInv
<1> QED
  BY <1>4, <1>5

LEMMA KillStep ==
  ASSUME PollInv, Kill
  PROVE  PollInv'
<1>1. /\ UNCHANGED <<item, key, mirror, live, seen, late, changes>>
      /\ failures' \in 0..MaxFailures
  BY FailureType DEF Kill, exchange, PollInv
<1>2. poll' = poll \/ poll' = Nothing
  BY DEF Kill
<1>3. groups' \subseteq groups
  BY DEF Kill
<1>4. groups' \subseteq Events /\ Cardinality(groups') <= Limit
  BY <1>3, FewerGroups DEF PollInv
<1> QED
  BY <1>1, <1>2, <1>4, NothingType DEF PollInv, Typed, Created, Missing, MissingIsRemoved

-----------------------------------------------------------------------------
(* The theorems.                                                            *)

LEMMA InitInv == Init => PollInv
<1> SUFFICES ASSUME Init PROVE PollInv
  OBVIOUS
<1>1. Cardinality(groups) <= Limit /\ groups = {}
  BY Constants, FS_EmptySet DEF Init
<1>2. \A e \in Events : key[e] <= changes + 1
  BY DEF Init
<1>3. Typed
  <2>1. /\ item \in [Events -> BOOLEAN] /\ live \subseteq Events
        /\ mirror \in [Events -> {"fresh", "stale", "lost"}]
    BY DEF Init
  <2>2. key \in [Events -> Keys] /\ seen \in [Events -> Keys] /\ late \subseteq Events
    <3>1. 0 \in Keys /\ 1 \in Keys
      BY Constants
    <3>2. key \in [Events -> Keys] /\ seen = key /\ late = {}
      BY <3>1 DEF Init
    <3> QED
      BY <3>2
  <2>3. poll \in Poll_
    BY NothingType DEF Init
  <2>4. changes = 0 /\ failures = 0
    BY DEF Init
  <2>5. changes \in 0..MaxChanges /\ failures \in 0..MaxFailures
    BY <2>4, Constants
  <2> QED
    BY <1>1, <1>2, <2>1, <2>2, <2>3, <2>5 DEF Typed
<1>4. Missing
  BY NothingType DEF Init, Missing, MissingIsRemoved
<1>5. Created
  <2>1. ASSUME NEW e \in Events, item[e] \/ e \in live
        PROVE  key[e] # 0
    <3>1. item[e] <=> e \in live
      BY DEF Init
    <3>2. e \in live
      BY <2>1, <3>1
    <3>3. key[e] = 1
      BY <3>2 DEF Init
    <3> QED
      BY <3>3
  <2>2. poll.rows = {}
    BY NothingType DEF Init
  <2> QED
    BY <2>1, <2>2 DEF Created
<1> QED
  BY <1>3, <1>4, <1>5 DEF PollInv

LEMMA StepInv == PollInv /\ [Next]_vars => PollInv'
<1> SUFFICES ASSUME PollInv, [Next]_vars PROVE PollInv'
  OBVIOUS
<1>1. CASE UNCHANGED vars
  BY <1>1 DEF vars, exchange, PollInv, Typed, Created, Missing, MissingIsRemoved
<1> QED
  BY <1>1, TurnStep, ListStep, SelectStep, RowStep, ReconcileStep, UsersStep, KillStep
     DEF Next, Poll

\* The invariant holds whatever fails and is killed.
THEOREM Invariance == Spec => []PollInv
BY InitInv, StepInv, PTL DEF Spec

\* The variables have their types, and a reconciliation never takes more groups than its
\* limit.
THEOREM TypeCorrect == Spec => []TypeOK
<1>1. PollInv => TypeOK
  <2> SUFFICES ASSUME PollInv PROVE TypeOK
    OBVIOUS
  <2>1. key \in [Events -> Keys] /\ poll.listed \subseteq Events \X Keys
    BY Constants DEF PollInv, Typed, Poll_
  <2> QED
    BY <2>1 DEF PollInv, Typed, Poll_, TypeOK
<1> QED
  BY <1>1, Invariance, PTL

\* An event that is still in Exchange when the poll is about to delete its row is one that
\* the view does not list, or was created between the list and the query: no interleaving of
\* users, failures, killed processes and the reconciliation adds a third (53-82).
THEOREM PollDeletesRemoved == Spec => []MissingIsRemoved
<1>1. PollInv => MissingIsRemoved
  BY DEF PollInv, Missing
<1> QED
  BY <1>1, Invariance, PTL
=============================================================================
