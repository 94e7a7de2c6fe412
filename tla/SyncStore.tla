------------------------------ MODULE SyncStore ------------------------------
(***************************************************************************)
(* The state shared by everything that touches one calendar event and its  *)
(* mirrors: the committed rows of PostgreSQL (events, sync_groups), the    *)
(* items in Exchange, and the tasks (API requests and Celery jobs) that    *)
(* work on both.                                                           *)
(*                                                                         *)
(* One event has a primary copy in the calendar Primary and at most one    *)
(* copy in each calendar of Mirrors.  The content of a copy (title, times) *)
(* is a version number: version 1 is the draft, each PATCH has the next.   *)
(***************************************************************************)
EXTENDS Integers, FiniteSets

CONSTANTS Primary,      \* the calendar of the event
          Mirrors,      \* the user's other calendars
          Workers,      \* API requests and Celery jobs that can run at once
          MaxVersion,   \* bound on the versions users ask for
          MaxForeign,   \* bound on edits and deletions made in Outlook
          MaxFaults     \* bound on failed EWS calls and killed tasks

Calendars == Mirrors \cup {Primary}

Gone == -1              \* there is no item in Exchange
Foreign == 0            \* content somebody typed in Outlook
Version == 1..MaxVersion
Content == Gone..MaxVersion

\* What a draft can be: an event the poll's calendar view lists, a recurring
\* master (a view lists only its occurrences), an event over 30 days ahead.
Shape == {"plain", "recurring", "far"}

ASSUME StoreAssumption ==
  /\ Primary \notin Mirrors
  /\ MaxVersion \in Nat \ {0} /\ MaxForeign \in Nat /\ MaxFaults \in Nat

VARIABLES
  row,         \* events: "none" (never committed), "live" or "deleted"
  rowVersion,  \* events: the content of the row
  lastSeen,    \* events.last_seen_change_key of the primary, 0 for NULL
  group,       \* sync_groups.state, "none" before the group is committed
  item,        \* Exchange: the content of the item in each calendar
  changeKey,   \* Exchange: the change key of the primary item
  shape,       \* what kind of event the draft describes
  asked,       \* the versions users have asked for so far
  foreign,     \* the edits and deletions made in Outlook so far
  faults,      \* the failed calls and killed tasks so far
  task,        \* what each worker is doing
  published,   \* history: the versions the primary row has been committed with
  leaked,      \* history: calendars whose item survived a failed deletion
  confirmed,   \* history: calendars whose copy a client was told is deleted
  interrupted  \* history: a mirror sync died and none has completed since

database == <<row, rowVersion, lastSeen, group>>
exchange == <<item, changeKey>>
history == <<published, leaked, confirmed, interrupted>>
vars == <<database, exchange, shape, asked, foreign, faults, task, history>>

-----------------------------------------------------------------------------
(* Tasks.  A task is an async function with one SQLAlchemy session: what it *)
(* has read stays in its fields, what it writes becomes visible at its     *)
(* single commit, and it can be suspended at every EWS call and query.     *)

Place == {"idle", "createPrimary", "createMirror",
          "updatePrimary", "updateCommit",
          "syncPrimary", "syncSelect", "syncMirror", "storeKey",
          "deleteItem", "deleteSelect", "deleteMirror", "fallback",
          "pollSelect", "pollDeleted", "repair"}

Creating == {"createPrimary", "createMirror"}
Syncing == {"syncPrimary", "syncSelect", "syncMirror"}
Deleting == {"deleteItem", "deleteSelect", "deleteMirror"}

Task == [pc     : Place,
         ver    : Version,            \* the content being written
         target : Calendars,          \* the copy being deleted
         todo   : SUBSET Mirrors,     \* mirrors not handled yet
         done   : SUBSET Mirrors,     \* mirrors handled by an EWS call
         same   : SUBSET Mirrors,     \* mirror rows that already hold ver
         failed : BOOLEAN,            \* some mirror call has failed
         key    : Nat,                \* the change key the poll saw, 0 if none
         store  : BOOLEAN]            \* the poll stores key after the sync

IdleTask == [pc |-> "idle", ver |-> 1, target |-> Primary,
             todo |-> {}, done |-> {}, same |-> {}, failed |-> FALSE,
             key |-> 0, store |-> FALSE]

Idle(p) == task[p] = IdleTask
At(p, place) == task[p].pc = place
Become(p, t) == task' = [task EXCEPT ![p] = t]
Finish(p) == Become(p, IdleTask)
Goto(p, place) == Become(p, [task[p] EXCEPT !.pc = place])

StoreTypeOK ==
  /\ row \in [Calendars -> {"none", "live", "deleted"}]
  /\ rowVersion \in [Calendars -> Version]
  /\ lastSeen \in Nat
  /\ group \in {"none", "active", "degraded", "deleted"}
  /\ item \in [Calendars -> Content]
  /\ changeKey \in Nat
  /\ shape \in Shape
  /\ asked \in 0..MaxVersion
  /\ foreign \in 0..MaxForeign
  /\ faults \in 0..MaxFaults
  /\ task \in [Workers -> Task]
  /\ published \in SUBSET Version
  /\ leaked \in SUBSET Calendars
  /\ confirmed \in SUBSET Calendars
  /\ interrupted \in BOOLEAN

StoreInit ==
  /\ row = [c \in Calendars |-> "none"]
  /\ rowVersion = [c \in Calendars |-> 1]
  /\ lastSeen = 0
  /\ group = "none"
  /\ item = [c \in Calendars |-> Gone]
  /\ changeKey = 0
  /\ asked = 0 /\ foreign = 0 /\ faults = 0
  /\ task = [p \in Workers |-> IdleTask]
  /\ published = {} /\ leaked = {} /\ confirmed = {}
  /\ interrupted = FALSE

LiveMirrors == {m \in Mirrors : row[m] = "live"}

-----------------------------------------------------------------------------
(* Exchange.  Every call of EWSClient is one request: it succeeds, it finds *)
(* no such item and raises, or the connection fails before or after the    *)
(* server has carried it out.                                              *)

Write(c, content) ==
  /\ item' = [item EXCEPT ![c] = content]
  /\ changeKey' = IF c = Primary /\ content # Gone THEN changeKey + 1 ELSE changeKey

CallSucceeds(c, content) == Write(c, content) /\ UNCHANGED faults

ConnectionFails(c, content) ==
  /\ faults < MaxFaults
  /\ faults' = faults + 1
  /\ Write(c, content) \/ UNCHANGED exchange

ItemNotFound(c) == item[c] = Gone /\ UNCHANGED <<exchange, faults>>

CreateOk(c, v) == CallSucceeds(c, v)
CreateFails(c, v) == ConnectionFails(c, v)

\* Mutants: an update that creates the item when there is none, at once or when
\* the server has answered that it does not exist.
UpdateOrCreateOk(c, v) == CallSucceeds(c, v)
UpdateRecreates(c, v) ==
  \/ item[c] = Gone /\ CallSucceeds(c, v)
  \/ item[c] # Gone /\ ConnectionFails(c, v)

UpdateOk(c, v) == item[c] # Gone /\ CallSucceeds(c, v)
UpdateFails(c, v) ==
  \/ ItemNotFound(c)
  \/ item[c] # Gone /\ ConnectionFails(c, v)

\* A deletion that raises: its caller swallows the exception and goes on.
DeleteItem(c) ==
  /\ \/ item[c] # Gone /\ CallSucceeds(c, Gone)
     \/ ItemNotFound(c)
     \/ item[c] # Gone /\ ConnectionFails(c, Gone)
  /\ leaked' = IF item'[c] = Gone THEN leaked ELSE leaked \cup {c}
=============================================================================
