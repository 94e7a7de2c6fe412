---------------------------- MODULE EventService ----------------------------
(***************************************************************************)
(* api/services/events/event_service.py and the endpoints that call it:    *)
(* create_event, update_event, delete_event, handle_external_delete, and   *)
(* the fallback of delete-by-exchange-ids for items with no row.           *)
(***************************************************************************)
EXTENDS MirrorService

CONSTANT Shapes     \* the kinds of draft users make

ASSUME ShapesAssumption == Shapes \subseteq Shape

-----------------------------------------------------------------------------
(* create_event.  The lock sync_group:<user> that it holds keeps two drafts *)
(* apart; one draft is one group, so nothing here depends on it.           *)

StartCreate(p) ==
  /\ Idle(p)
  /\ asked = 0
  /\ asked' = 1
  /\ Become(p, [IdleTask EXCEPT !.pc = "createPrimary"])
  /\ UNCHANGED <<database, exchange, shape, foreign, faults, history>>

\* The primary item, the unflushed rows, and the calendars that are to mirror it
\* (is_active and is_mirror_enabled at this moment).
CreatePrimary(p) ==
  /\ At(p, "createPrimary")
  /\ CreateOk(Primary, 1)
  /\ \E enabled \in SUBSET Mirrors :
       Become(p, [task[p] EXCEPT !.pc = "createMirror", !.todo = enabled])
  /\ UNCHANGED <<database, shape, asked, foreign, history>>

\* The exception leaves create_event: the session is rolled back.
CreatePrimaryFails(p) ==
  /\ At(p, "createPrimary")
  /\ CreateFails(Primary, 1)
  /\ Finish(p)
  /\ UNCHANGED <<database, shape, asked, foreign, history>>

CreateMirror(p, m) ==
  /\ At(p, "createMirror")
  /\ m \in task[p].todo
  /\ \/ /\ CreateOk(m, 1)
        /\ Become(p, [task[p] EXCEPT !.todo = @ \ {m}, !.done = @ \cup {m}])
     \/ /\ CreateFails(m, 1)
        /\ Become(p, [task[p] EXCEPT !.todo = @ \ {m}, !.failed = TRUE])
  /\ UNCHANGED <<database, shape, asked, foreign, history>>

\* Mutant: the mirror rows are not added to the session.
CreateCommitPrimaryOnly(p) ==
  /\ At(p, "createMirror")
  /\ task[p].todo = {}
  /\ row' = [row EXCEPT ![Primary] = "live"]
  /\ group' = IF task[p].failed THEN "degraded" ELSE "active"
  /\ published' = published \cup {1}
  /\ Finish(p)
  /\ UNCHANGED <<rowVersion, lastSeen, exchange, shape, asked, foreign, faults,
                 leaked, confirmed, interrupted>>

CreateCommit(p) ==
  /\ At(p, "createMirror")
  /\ task[p].todo = {}
  /\ row' = [c \in Calendars |->
               IF c = Primary \/ c \in task[p].done THEN "live" ELSE row[c]]
  /\ group' = IF task[p].failed THEN "degraded" ELSE "active"
  /\ published' = published \cup {1}
  /\ Finish(p)
  /\ UNCHANGED <<rowVersion, lastSeen, exchange, shape, asked, foreign, faults,
                 leaked, confirmed, interrupted>>

-----------------------------------------------------------------------------
(* update_event: Exchange first, then the row, then the mirrors.            *)

\* The id in the request is that of the primary: the API gives no other away.
StartUpdate(p) ==
  /\ Idle(p)
  /\ row[Primary] = "live"
  /\ asked < MaxVersion
  /\ asked' = asked + 1
  /\ Become(p, [IdleTask EXCEPT !.pc = "updatePrimary", !.ver = asked + 1])
  /\ UNCHANGED <<database, exchange, shape, foreign, faults, history>>

\* Mutant: the mirrors are pushed before the commit.
UpdatePrimarySyncsFirst(p) ==
  /\ At(p, "updatePrimary")
  /\ \/ UpdateOk(Primary, task[p].ver) /\ Goto(p, "syncSelect")
     \/ UpdateFails(Primary, task[p].ver) /\ Finish(p)
  /\ UNCHANGED <<database, shape, asked, foreign, history>>

UpdatePrimary(p) ==
  /\ At(p, "updatePrimary")
  /\ \/ UpdateOk(Primary, task[p].ver) /\ Goto(p, "updateCommit")
     \/ UpdateFails(Primary, task[p].ver) /\ Finish(p)
  /\ UNCHANGED <<database, shape, asked, foreign, history>>

\* Mutant: the row keeps the old content.
UpdateCommitNothing(p) ==
  /\ At(p, "updateCommit")
  /\ Become(p, SyncTask(0, FALSE))
  /\ UNCHANGED <<database, exchange, shape, asked, foreign, faults, history>>

\* UPDATE ... WHERE id: the row may have been marked deleted meanwhile.
UpdateCommit(p) ==
  /\ At(p, "updateCommit")
  /\ rowVersion' = [rowVersion EXCEPT ![Primary] = task[p].ver]
  /\ published' = published \cup {task[p].ver}
  /\ Become(p, SyncTask(0, FALSE))
  /\ UNCHANGED <<row, lastSeen, group, exchange, shape, asked, foreign, faults,
                 leaked, confirmed, interrupted>>

-----------------------------------------------------------------------------
(* delete_event of the copy in calendar t.  The row is looked up by its id *)
(* alone: it may be a mirror, and it may have been deleted before.         *)

DeleteTask(t) == [IdleTask EXCEPT !.pc = "deleteItem", !.target = t]

StartDelete(p, t) ==
  /\ Idle(p)
  /\ row[t] # "none"
  /\ Become(p, DeleteTask(t))
  /\ UNCHANGED <<database, exchange, shape, asked, foreign, faults, history>>

\* Mode "single" on a recurrence master skips the whole body; the endpoint
\* answers that the event is deleted.
DeleteNothing(p, t) ==
  /\ Idle(p)
  /\ row[t] # "none"
  /\ shape = "recurring"
  /\ confirmed' = confirmed \cup {t}
  /\ UNCHANGED <<database, exchange, shape, asked, foreign, faults, task,
                 published, leaked, interrupted>>

\* Mutant: the exception of a missing item is not caught.
DeleteTargetRaises(p) ==
  /\ At(p, "deleteItem")
  /\ DeleteItem(task[p].target)
  /\ IF item[task[p].target] = Gone THEN Finish(p) ELSE Goto(p, "deleteSelect")
  /\ UNCHANGED <<database, shape, asked, foreign, published, confirmed, interrupted>>

DeleteTarget(p) ==
  /\ At(p, "deleteItem")
  /\ DeleteItem(task[p].target)
  /\ Goto(p, "deleteSelect")
  /\ UNCHANGED <<database, shape, asked, foreign, published, confirmed, interrupted>>

\* Mutant: deleting one mirror leaves the others, but not the group.
DeleteSelectOfPrimary(p) ==
  /\ At(p, "deleteSelect")
  /\ Become(p, [task[p] EXCEPT !.pc = "deleteMirror",
                               !.todo = IF task[p].target = Primary THEN LiveMirrors ELSE {}])
  /\ UNCHANGED <<database, exchange, shape, asked, foreign, faults, history>>

\* The query flushes deleted_at of the target first, so it does not return it.
DeleteSelectMirrors(p) ==
  /\ At(p, "deleteSelect")
  /\ Become(p, [task[p] EXCEPT !.pc = "deleteMirror",
                               !.todo = LiveMirrors \ {task[p].target}])
  /\ UNCHANGED <<database, exchange, shape, asked, foreign, faults, history>>

DeleteMirror(p, m) ==
  /\ At(p, "deleteMirror")
  /\ m \in task[p].todo
  /\ DeleteItem(m)
  /\ Become(p, [task[p] EXCEPT !.todo = @ \ {m}, !.done = @ \cup {m}])
  /\ UNCHANGED <<database, shape, asked, foreign, published, confirmed, interrupted>>

DeleteCommit(p) ==
  /\ At(p, "deleteMirror")
  /\ task[p].todo = {}
  /\ row' = [c \in Calendars |->
               IF c = task[p].target \/ c \in task[p].done THEN "deleted" ELSE row[c]]
  /\ group' = "deleted"
  /\ confirmed' = confirmed \cup {task[p].target}
  /\ Finish(p)
  /\ UNCHANGED <<rowVersion, lastSeen, exchange, shape, asked, foreign, faults,
                 published, leaked, interrupted>>

\* handle_external_delete of the primary: only a live row is deleted.
HandleExternalDelete(p) ==
  /\ At(p, "pollDeleted")
  /\ IF row[Primary] = "live" THEN Become(p, DeleteTask(Primary)) ELSE Finish(p)
  /\ UNCHANGED <<database, exchange, shape, asked, foreign, faults, history>>

\* delete-by-exchange-ids of an item that has no row: straight to Exchange.
StartFallback(p, t) ==
  /\ Idle(p)
  /\ row[t] = "none"
  /\ item[t] # Gone
  /\ Become(p, [IdleTask EXCEPT !.pc = "fallback", !.target = t])
  /\ UNCHANGED <<database, exchange, shape, asked, foreign, faults, history>>

\* A failure is reported to the caller: nothing is taken for deleted.
Fallback(p) ==
  /\ At(p, "fallback")
  /\ \/ item[task[p].target] # Gone /\ CallSucceeds(task[p].target, Gone)
     \/ ItemNotFound(task[p].target)
     \/ item[task[p].target] # Gone /\ ConnectionFails(task[p].target, Gone)
  /\ Finish(p)
  /\ UNCHANGED <<database, shape, asked, foreign, history>>

EventStep(p) ==
  \/ CreatePrimary(p) \/ CreatePrimaryFails(p)
  \/ \E m \in Mirrors : CreateMirror(p, m)
  \/ CreateCommit(p)
  \/ UpdatePrimary(p) \/ UpdateCommit(p)
  \/ DeleteTarget(p) \/ DeleteSelectMirrors(p)
  \/ \E m \in Mirrors : DeleteMirror(p, m)
  \/ DeleteCommit(p)
  \/ HandleExternalDelete(p) \/ Fallback(p)

UserRequest(p) ==
  \/ StartCreate(p) \/ StartUpdate(p)
  \/ \E t \in Calendars : StartDelete(p, t) \/ DeleteNothing(p, t) \/ StartFallback(p, t)
=============================================================================
