----------------------------- MODULE SyncSystem -----------------------------
(***************************************************************************)
(* One event with its mirrors in the whole system: the API requests of     *)
(* EventService, the five-minute poll (worker/tasks/subscription_tasks.py), *)
(* the nightly reconciliation (worker/tasks/reconciliation_tasks.py), the  *)
(* people who use Outlook, and failures.                                   *)
(***************************************************************************)
EXTENDS EventService

Init ==
  /\ StoreInit
  /\ shape \in Shapes

-----------------------------------------------------------------------------
(* The poll of the calendar of the primary.                                 *)

\* The calendar view from one day back to 30 days ahead, recurrences expanded.
InView == shape = "plain" /\ item[Primary] # Gone

PollList(p) ==
  /\ Idle(p)
  /\ Become(p, [IdleTask EXCEPT !.pc = "pollSelect",
                                !.key = IF InView THEN changeKey ELSE 0])
  /\ UNCHANGED <<database, exchange, shape, asked, foreign, faults, history>>

\* Mutant: a change key that is not the stored one counts as a deletion.
PollSelectEager(p) ==
  /\ At(p, "pollSelect")
  /\ IF row[Primary] = "live" /\ task[p].key # lastSeen THEN Goto(p, "pollDeleted")
                                                      ELSE Finish(p)
  /\ UNCHANGED <<database, exchange, shape, asked, foreign, faults, history>>

\* The live primary rows of the calendar, without an upper bound on the start,
\* against the items listed before.
PollSelect(p) ==
  /\ At(p, "pollSelect")
  /\ IF row[Primary] # "live" THEN Finish(p)
     ELSE IF task[p].key = 0 THEN Goto(p, "pollDeleted")
     ELSE IF task[p].key # lastSeen THEN Become(p, SyncTask(task[p].key, TRUE))
     ELSE Finish(p)
  /\ UNCHANGED <<database, exchange, shape, asked, foreign, faults, history>>

PollStoreKey(p) ==
  /\ At(p, "storeKey")
  /\ lastSeen' = task[p].key
  /\ Finish(p)
  /\ UNCHANGED <<row, rowVersion, group, exchange, shape, asked, foreign, faults,
                 history>>

PollStep(p) == PollSelect(p) \/ PollStoreKey(p)

\* Mutant: only the degraded groups are reconciled.
ReconcileDegraded(p) ==
  /\ Idle(p)
  /\ group = "degraded"
  /\ Become(p, [IdleTask EXCEPT !.pc = "repair"])
  /\ UNCHANGED <<database, exchange, shape, asked, foreign, faults, history>>

\* The reconciliation picks the groups that are active or degraded.
Reconcile(p) ==
  /\ Idle(p)
  /\ group \in {"active", "degraded"}
  /\ Become(p, [IdleTask EXCEPT !.pc = "repair"])
  /\ UNCHANGED <<database, exchange, shape, asked, foreign, faults, history>>

-----------------------------------------------------------------------------
(* The environment.                                                         *)

\* Somebody edits or deletes a copy in Outlook.
OutlookEdit(c) ==
  /\ foreign < MaxForeign
  /\ item[c] # Gone
  /\ foreign' = foreign + 1
  /\ \/ Write(c, Foreign)
     \/ Write(c, Gone)
  /\ UNCHANGED <<database, shape, asked, faults, task, history>>

\* The process of the task is killed or its database session raises: nothing
\* that it has not committed remains, what it did in Exchange does.
Abort(p) ==
  /\ ~Idle(p)
  /\ faults < MaxFaults
  /\ faults' = faults + 1
  /\ interrupted' = (interrupted \/ task[p].pc \in Syncing)
  /\ Finish(p)
  /\ UNCHANGED <<database, exchange, shape, asked, foreign, published, leaked, confirmed>>

TaskStep(p) == EventStep(p) \/ SyncStep(p) \/ PollStep(p)

Next ==
  \/ \E p \in Workers : \/ UserRequest(p) \/ PollList(p) \/ Reconcile(p)
                        \/ TaskStep(p) \/ Abort(p)
  \/ \E c \in Calendars : OutlookEdit(c)

Spec == Init /\ [][Next]_vars

(* Fairness: a task that runs goes on; Celery Beat keeps sending the poll   *)
(* and the reconciliation and the queue is first come, first served, so    *)
(* each of them gets a worker again and again.  Users owe us nothing.      *)
Fairness ==
  /\ \A p \in Workers : WF_vars(TaskStep(p))
  /\ SF_vars(\E p \in Workers : PollList(p))
  /\ SF_vars(\E p \in Workers : Reconcile(p))

FairSpec == Spec /\ Fairness

-----------------------------------------------------------------------------
(* Safety, whatever runs at the same time.                                  *)

TypeOK == StoreTypeOK

\* The contract of MirroredEvent: the life of the event is that of its primary
\* row, and its mirrors are the items in the other calendars.
Contract == INSTANCE MirroredEvent WITH
  life <- row[Primary],
  shown <- [m \in Mirrors |-> item[m]]

\* The system implements that contract, whatever tasks run at the same time and
\* wherever they fail: an event never comes back, a mirror never shows a version
\* that was not committed, and no late sync recreates a mirror.
ImplementsContract == Contract!Spec

\* A copy that the database calls deleted is gone from Exchange, unless its EWS
\* deletion failed (event_service.py:273 and 303 swallow that): no concurrent
\* sync, update or second deletion brings it back.
DeletedRowsAreGone ==
  \A c \in Calendars : row[c] = "deleted" /\ c \notin leaked => item[c] = Gone

\* No mirror ever shows a version that the primary row has not been committed
\* with: an update whose EWS call fails or whose task dies is never announced
\* (event_service.py:361-373 writes the mirrors only after the commit).
MirrorsShowCommitted ==
  \A m \in Mirrors :
    /\ item[m] > 1 => item[m] \in published
    /\ rowVersion[m] > 1 => rowVersion[m] \in published

\* A group that is marked deleted has no mirror left in the database, so nothing
\* is left behind that no task would ever look at again.
DeletedGroupIsEmpty == group = "deleted" => LiveMirrors = {}

\* A copy that a client was told is deleted stays deleted in the database,
\* whatever runs at the same time; recurrence masters are the exception shown
\* by the next property.
ConfirmedIsDeleted ==
  shape # "recurring" => \A c \in confirmed : row[c] = "deleted"

\* Without failures an Exchange item without a row belongs to a create_event
\* that is still running.
NoOrphans ==
  faults = 0 =>
    \A c \in Calendars :
      item[c] # Gone /\ row[c] = "none" => \E p \in Workers : task[p].pc \in Creating

-----------------------------------------------------------------------------
(* Safety when tasks run one after the other (Workers has one element).     *)

\* Between tasks, an active group means what it says: each live mirror has the
\* content of the primary row, in the database and in Exchange (unless Outlook
\* was used on it), provided no sync has died since the last complete one.
ActiveMeansMirrored ==
  (\A p \in Workers : Idle(p)) /\ group = "active" /\ ~interrupted
    => \A m \in LiveMirrors : /\ rowVersion[m] = rowVersion[Primary]
                              /\ item[m] \in {rowVersion[m], Foreign, Gone}

\* Between tasks, as long as no call has failed, the item of the primary shows the
\* version of its row: update_event writes Exchange first and the row second
\* (event_service.py:361-370), and nothing ever compares the two.
PrimaryAgrees ==
  (\A p \in Workers : Idle(p)) /\ row[Primary] = "live" /\ faults = 0
    => item[Primary] \in {rowVersion[Primary], Foreign, Gone}

\* The poll takes a plain event for deleted only when it is.
PollDeletesOnlyMissing ==
  [][\A p \in Workers :
        shape = "plain" /\ At(p, "pollSelect") /\ task'[p].pc = "pollDeleted"
          => item[Primary] = Gone]_vars

-----------------------------------------------------------------------------
(* Liveness under FairSpec: users and failures are bounded, so both stop.   *)

\* In the end every mirror that still exists shows the version of the primary
\* row, for ever: stale syncs, lost calls and killed tasks are repaired by the
\* reconciliation.
EventuallyMirrored ==
  <>[](row[Primary] = "live" =>
         \A m \in LiveMirrors : item[m] \in {rowVersion[Primary], Gone})

\* An event whose primary item has disappeared is in the end deleted with all
\* its mirrors.
DisappearanceFollowed ==
  (row[Primary] = "live" /\ item[Primary] = Gone)
    ~> (row[Primary] = "deleted" /\ LiveMirrors = {})

-----------------------------------------------------------------------------
(* What the documents say and the code does not do.                         *)

\* The comment of subscription_tasks.py:74: what the poll handles as deleted has
\* been deleted in Exchange.  Its query has no upper bound on the start and its
\* view does not list masters, so it also takes far and recurring events; and
\* the query comes after the list, so it takes events created in between.
PollDeletesOnlyDeleted ==
  [][\A p \in Workers :
        At(p, "pollSelect") /\ task'[p].pc = "pollDeleted" => item[Primary] = Gone]_vars

\* README.md:165: any change of the primary event reaches all mirrors.  The poll
\* notices an edit made in Outlook but pushes the row, which it never refreshes.
EditsReachMirrors ==
  (row[Primary] = "live" /\ item[Primary] = Foreign)
    ~> \/ row[Primary] # "live" \/ item[Primary] # Foreign
       \/ \A m \in LiveMirrors : item[m] \in {Foreign, Gone}
=============================================================================
