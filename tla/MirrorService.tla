---------------------------- MODULE MirrorService ----------------------------
(***************************************************************************)
(* api/services/events/mirror_service.py: sync_mirror_to_primary pushes    *)
(* the content of the primary row to the mirrors, and repair_sync_group    *)
(* does so for the nightly reconciliation.                                 *)
(***************************************************************************)
EXTENDS SyncStore

\* The task of a call of sync_mirror_to_primary; store says that the poll is the
\* caller and key is the change key it has seen.
SyncTask(key, store) == [IdleTask EXCEPT !.pc = "syncPrimary",
                                         !.key = key, !.store = store]

\* Mutant: the body is built from the Exchange item instead of the row.
SyncReadItem(p) ==
  /\ At(p, "syncPrimary")
  /\ Become(p, [task[p] EXCEPT !.pc = "syncSelect", !.ver = item[Primary]])
  /\ UNCHANGED <<database, exchange, shape, asked, foreign, faults, history>>

\* The row of the primary is read by its id, deleted or not; the body of the
\* mirrors is built from it once.
SyncReadPrimary(p) ==
  /\ At(p, "syncPrimary")
  /\ Become(p, [task[p] EXCEPT !.pc = "syncSelect", !.ver = rowVersion[Primary]])
  /\ UNCHANGED <<database, exchange, shape, asked, foreign, faults, history>>

\* The ORM loads the mirror rows.  A column that is assigned the value it was
\* loaded with is not written at the commit: "same" remembers those rows.
SyncSelectMirrors(p) ==
  /\ At(p, "syncSelect")
  /\ Become(p, [task[p] EXCEPT
                  !.pc = "syncMirror",
                  !.todo = LiveMirrors,
                  !.same = {m \in LiveMirrors : rowVersion[m] = task[p].ver}])
  /\ UNCHANGED <<database, exchange, shape, asked, foreign, faults, history>>

SyncMirror(p, m) ==
  /\ At(p, "syncMirror")
  /\ m \in task[p].todo
  /\ \/ /\ UpdateOk(m, task[p].ver)
        /\ Become(p, [task[p] EXCEPT !.todo = @ \ {m}, !.done = @ \cup {m}])
     \/ /\ UpdateFails(m, task[p].ver)
        /\ Become(p, [task[p] EXCEPT !.todo = @ \ {m}, !.failed = TRUE])
  /\ UNCHANGED <<database, shape, asked, foreign, history>>

\* Mutants: a failure is not noted in the group; every column of the rows that
\* were loaded is written back.
SyncCommitSilent(p) ==
  /\ At(p, "syncMirror")
  /\ task[p].todo = {}
  /\ rowVersion' = [c \in Calendars |->
                      IF c \in task[p].done \ task[p].same THEN task[p].ver
                                                           ELSE rowVersion[c]]
  /\ interrupted' = (interrupted /\ task[p].failed)
  /\ IF task[p].store /\ ~task[p].failed THEN Goto(p, "storeKey") ELSE Finish(p)
  /\ UNCHANGED <<row, group, lastSeen, exchange, shape, asked, foreign, faults,
                 published, leaked, confirmed>>

SyncCommitWholeRows(p) ==
  /\ At(p, "syncMirror")
  /\ task[p].todo = {}
  /\ row' = [c \in Calendars |-> IF c \in task[p].done THEN "live" ELSE row[c]]
  /\ Finish(p)
  /\ UNCHANGED <<rowVersion, lastSeen, group, exchange, shape, asked, foreign, faults, history>>

\* The commit: the rows of the mirrors that were updated, and DEGRADED, whatever
\* the state of the group, when one was not.  A failure raises MirrorSyncError,
\* so that the poll does not store the change key.
SyncCommit(p) ==
  /\ At(p, "syncMirror")
  /\ task[p].todo = {}
  /\ rowVersion' = [c \in Calendars |->
                      IF c \in task[p].done \ task[p].same THEN task[p].ver
                                                           ELSE rowVersion[c]]
  /\ group' = IF task[p].failed THEN "degraded" ELSE group
  /\ interrupted' = (interrupted /\ task[p].failed)
  /\ IF task[p].store /\ ~task[p].failed
       THEN Goto(p, "storeKey")
       ELSE Finish(p)
  /\ UNCHANGED <<row, lastSeen, exchange, shape, asked, foreign, faults,
                 published, leaked, confirmed>>

\* repair_sync_group: nothing to do without a live primary.
Repair(p) ==
  /\ At(p, "repair")
  /\ IF row[Primary] = "live" THEN Become(p, SyncTask(0, FALSE)) ELSE Finish(p)
  /\ UNCHANGED <<database, exchange, shape, asked, foreign, faults, history>>

SyncStep(p) ==
  \/ SyncReadPrimary(p) \/ SyncSelectMirrors(p)
  \/ \E m \in Mirrors : SyncMirror(p, m)
  \/ SyncCommit(p) \/ Repair(p)
=============================================================================
