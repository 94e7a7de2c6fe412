--------------------------------- MODULE SyncProofs -------------------------
(***************************************************************************)
(* The safety properties of SyncSystem, for any set of mirrors, any number *)
(* of tasks at once and any bounds: an inductive invariant in five parts,  *)
(* each of which is preserved by every action.  Four more parts, preserved *)
(* when tasks run one after the other, give the properties of that case.   *)
(***************************************************************************)
EXTENDS SyncSystem, TLAPS

-----------------------------------------------------------------------------
(* Types.                                                                   *)

\* What the assumptions say of the constants.
LEMMA Constants ==
  /\ MaxVersion \in Nat \ {0} /\ MaxForeign \in Nat /\ MaxFaults \in Nat
  /\ Primary \in Calendars /\ Primary \notin Mirrors /\ Mirrors \subseteq Calendars
  /\ 1 \in Version /\ Version \subseteq Content /\ Gone \in Content /\ Foreign \in Content
  /\ Shapes \subseteq Shape
BY StoreAssumption, ShapesAssumption
   DEF StoreAssumption, ShapesAssumption, Calendars, Version, Content, Gone, Foreign

\* The idle task is a task.
LEMMA IdleType == IdleTask \in Task
BY Constants DEF IdleTask, Task, Place

\* A worker that becomes a task keeps the type of the tasks.
LEMMA BecomeType ==
  ASSUME TypeOK, NEW p \in Workers, NEW t \in Task, Become(p, t)
  PROVE  task' \in [Workers -> Task]
BY DEF TypeOK, StoreTypeOK, Become

\* So does one that ends its task,
LEMMA FinishType ==
  ASSUME TypeOK, NEW p \in Workers, Finish(p)
  PROVE  task' \in [Workers -> Task]
BY IdleType, BecomeType DEF Finish

\* and one that goes to another place.
LEMMA GotoType ==
  ASSUME TypeOK, NEW p \in Workers, NEW place \in Place, Goto(p, place)
  PROVE  task' \in [Workers -> Task]
<1>1. [task[p] EXCEPT !.pc = place] \in Task
  BY DEF TypeOK, StoreTypeOK, Task
<1> QED
  BY <1>1, BecomeType DEF Goto

\* A new sync is a task.
LEMMA SyncTaskType ==
  ASSUME NEW k \in Nat, NEW s \in BOOLEAN
  PROVE  SyncTask(k, s) \in Task
BY IdleType DEF SyncTask, Task, Place

\* What an EWS call leaves of the types.
LEMMA WriteType ==
  ASSUME TypeOK, NEW c \in Calendars, NEW x \in Content, Write(c, x)
  PROVE  item' \in [Calendars -> Content] /\ changeKey' \in Nat
BY DEF TypeOK, StoreTypeOK, Write

\* Whatever becomes of an EWS call, Exchange keeps its type.
LEMMA CallTypes ==
  ASSUME TypeOK, NEW c \in Calendars, NEW x \in Content,
         \/ CallSucceeds(c, x) \/ ConnectionFails(c, x) \/ ItemNotFound(c)
  PROVE  /\ item' \in [Calendars -> Content] /\ changeKey' \in Nat
         /\ faults' \in 0..MaxFaults
<1> USE Constants
<1>1. CASE CallSucceeds(c, x)
  BY <1>1, WriteType DEF CallSucceeds, TypeOK, StoreTypeOK
<1>2. CASE ConnectionFails(c, x)
  <2>1. faults' \in 0..MaxFaults
    BY <1>2 DEF ConnectionFails, TypeOK, StoreTypeOK
  <2> QED
    BY <1>2, <2>1, WriteType DEF ConnectionFails, TypeOK, StoreTypeOK, exchange
<1>3. CASE ItemNotFound(c)
  BY <1>3 DEF ItemNotFound, TypeOK, StoreTypeOK, exchange
<1> QED
  BY <1>1, <1>2, <1>3

\* The same of a deletion whose exception is swallowed.
LEMMA DeleteItemTypes ==
  ASSUME TypeOK, NEW c \in Calendars, DeleteItem(c)
  PROVE  /\ item' \in [Calendars -> Content] /\ changeKey' \in Nat
         /\ faults' \in 0..MaxFaults /\ leaked' \in SUBSET Calendars
<1>1. leaked' \in SUBSET Calendars
  BY DEF DeleteItem, TypeOK, StoreTypeOK
<1> QED
  BY <1>1, CallTypes, Constants DEF DeleteItem

\* The steps of mirror_service.py.
LEMMA SyncStepTypes ==
  ASSUME TypeOK, NEW p \in Workers, SyncStep(p)
  PROVE  TypeOK'
<1> USE Constants DEF TypeOK, StoreTypeOK
<1>0. task[p] \in Task
  OBVIOUS
<1>1. CASE SyncReadPrimary(p)
  <2>1. [task[p] EXCEPT !.pc = "syncSelect", !.ver = rowVersion[Primary]] \in Task
    BY <1>0 DEF Task, Place
  <2> QED
    BY <1>1, <2>1, BecomeType DEF SyncReadPrimary, database, exchange, history
<1>2. CASE SyncSelectMirrors(p)
  <2>1. [task[p] EXCEPT !.pc = "syncMirror", !.todo = LiveMirrors,
           !.same = {m \in LiveMirrors : rowVersion[m] = task[p].ver}] \in Task
    BY <1>0 DEF Task, Place, LiveMirrors
  <2> QED
    BY <1>2, <2>1, BecomeType DEF SyncSelectMirrors, database, exchange, history
<1>3. ASSUME NEW m \in Mirrors, SyncMirror(p, m) PROVE TypeOK'
  <2>1. /\ [task[p] EXCEPT !.todo = @ \ {m}, !.done = @ \cup {m}] \in Task
        /\ [task[p] EXCEPT !.todo = @ \ {m}, !.failed = TRUE] \in Task
    BY <1>0 DEF Task
  <2>2. task' \in [Workers -> Task]
    BY <1>3, <2>1, BecomeType DEF SyncMirror
  <2>3. task[p].ver \in Content /\ m \in Calendars
    BY <1>0 DEF Task
  <2>4. /\ item' \in [Calendars -> Content] /\ changeKey' \in Nat
        /\ faults' \in 0..MaxFaults
    BY <1>3, <2>3, CallTypes DEF SyncMirror, UpdateOk, UpdateFails
  <2> QED
    BY <1>3, <2>2, <2>4 DEF SyncMirror, database, history
<1>4. CASE SyncCommit(p)
  <2>1. task' \in [Workers -> Task]
    BY <1>4, FinishType, GotoType DEF SyncCommit, Place
  <2>2. rowVersion' \in [Calendars -> Version]
    BY <1>0, <1>4 DEF SyncCommit, Task
  <2>3. group' \in {"none", "active", "degraded", "deleted"} /\ interrupted' \in BOOLEAN
    BY <1>4 DEF SyncCommit
  <2> QED
    BY <1>4, <2>1, <2>2, <2>3 DEF SyncCommit, exchange
<1>5. CASE Repair(p)
  <2>1. task' \in [Workers -> Task]
    BY <1>5, FinishType, SyncTaskType, BecomeType DEF Repair
  <2> QED
    BY <1>5, <2>1 DEF Repair, database, exchange, history
<1> QED
  BY <1>1, <1>2, <1>3, <1>4, <1>5 DEF SyncStep

\* The steps of create_event.
LEMMA CreateStepTypes ==
  ASSUME TypeOK, NEW p \in Workers,
         \/ StartCreate(p) \/ CreatePrimary(p) \/ CreatePrimaryFails(p)
         \/ \E m \in Mirrors : CreateMirror(p, m)
         \/ CreateCommit(p)
  PROVE  TypeOK'
<1> USE Constants DEF TypeOK, StoreTypeOK
<1>0. task[p] \in Task
  OBVIOUS
<1>1. CASE StartCreate(p)
  <2>1. [IdleTask EXCEPT !.pc = "createPrimary"] \in Task
    BY IdleType DEF Task, Place
  <2> QED
    BY <1>1, <2>1, BecomeType DEF StartCreate, database, exchange, history
<1>2. CASE CreatePrimary(p)
  <2>1. ASSUME NEW e \in SUBSET Mirrors
        PROVE  [task[p] EXCEPT !.pc = "createMirror", !.todo = e] \in Task
    BY <1>0 DEF Task, Place
  <2>2. task' \in [Workers -> Task]
    BY <1>2, <2>1, BecomeType DEF CreatePrimary
  <2>3. /\ item' \in [Calendars -> Content] /\ changeKey' \in Nat
        /\ faults' \in 0..MaxFaults
    BY <1>2, CallTypes DEF CreatePrimary, CreateOk
  <2> QED
    BY <1>2, <2>2, <2>3 DEF CreatePrimary, database, history
<1>3. CASE CreatePrimaryFails(p)
  <2>1. /\ item' \in [Calendars -> Content] /\ changeKey' \in Nat
        /\ faults' \in 0..MaxFaults
    BY <1>3, CallTypes DEF CreatePrimaryFails, CreateFails
  <2> QED
    BY <1>3, <2>1, FinishType DEF CreatePrimaryFails, database, history
<1>4. ASSUME NEW m \in Mirrors, CreateMirror(p, m) PROVE TypeOK'
  <2>1. /\ [task[p] EXCEPT !.todo = @ \ {m}, !.done = @ \cup {m}] \in Task
        /\ [task[p] EXCEPT !.todo = @ \ {m}, !.failed = TRUE] \in Task
    BY <1>0 DEF Task
  <2>2. task' \in [Workers -> Task]
    BY <1>4, <2>1, BecomeType DEF CreateMirror
  <2>3. /\ item' \in [Calendars -> Content] /\ changeKey' \in Nat
        /\ faults' \in 0..MaxFaults
    BY <1>4, CallTypes DEF CreateMirror, CreateOk, CreateFails
  <2> QED
    BY <1>4, <2>2, <2>3 DEF CreateMirror, database, history
<1>5. CASE CreateCommit(p)
  BY <1>5, FinishType DEF CreateCommit, exchange
<1> QED
  BY <1>1, <1>2, <1>3, <1>4, <1>5

\* The steps of update_event.
LEMMA UpdateStepTypes ==
  ASSUME TypeOK, NEW p \in Workers,
         StartUpdate(p) \/ UpdatePrimary(p) \/ UpdateCommit(p)
  PROVE  TypeOK'
<1> USE Constants DEF TypeOK, StoreTypeOK
<1>0. task[p] \in Task
  OBVIOUS
<1>1. CASE StartUpdate(p)
  <2>1. asked + 1 \in Version /\ asked' \in 0..MaxVersion
    BY <1>1 DEF StartUpdate, Version
  <2>2. [IdleTask EXCEPT !.pc = "updatePrimary", !.ver = asked + 1] \in Task
    BY <2>1, IdleType DEF Task, Place
  <2> QED
    BY <1>1, <2>1, <2>2, BecomeType DEF StartUpdate, database, exchange, history
<1>2. CASE UpdatePrimary(p)
  <2>1. task' \in [Workers -> Task]
    BY <1>2, FinishType, GotoType DEF UpdatePrimary, Place
  <2>2. task[p].ver \in Content
    BY <1>0 DEF Task
  <2>3. /\ item' \in [Calendars -> Content] /\ changeKey' \in Nat
        /\ faults' \in 0..MaxFaults
    BY <1>2, <2>2, CallTypes DEF UpdatePrimary, UpdateOk, UpdateFails
  <2> QED
    BY <1>2, <2>1, <2>3 DEF UpdatePrimary, database, history
<1>3. CASE UpdateCommit(p)
  <2>1. task' \in [Workers -> Task]
    BY <1>3, SyncTaskType, BecomeType DEF UpdateCommit
  <2>2. task[p].ver \in Version
    BY <1>0 DEF Task
  <2> QED
    BY <1>3, <2>1, <2>2 DEF UpdateCommit, exchange
<1> QED
  BY <1>1, <1>2, <1>3

\* A new deletion is a task.
LEMMA DeleteTaskType == ASSUME NEW t \in Calendars PROVE DeleteTask(t) \in Task
BY IdleType DEF DeleteTask, Task, Place

\* The steps of delete_event and handle_external_delete.
LEMMA DeleteStepTypes ==
  ASSUME TypeOK, NEW p \in Workers,
         \/ \E t \in Calendars : StartDelete(p, t) \/ DeleteNothing(p, t)
         \/ DeleteTarget(p) \/ DeleteSelectMirrors(p)
         \/ \E m \in Mirrors : DeleteMirror(p, m)
         \/ DeleteCommit(p) \/ HandleExternalDelete(p)
  PROVE  TypeOK'
<1> USE Constants DEF TypeOK, StoreTypeOK
<1>0. task[p] \in Task /\ task[p].target \in Calendars
  BY DEF Task
<1>1. ASSUME NEW t \in Calendars, StartDelete(p, t) PROVE TypeOK'
  BY <1>1, DeleteTaskType, BecomeType DEF StartDelete, database, exchange, history
<1>2. ASSUME NEW t \in Calendars, DeleteNothing(p, t) PROVE TypeOK'
  BY <1>2 DEF DeleteNothing, database, exchange
<1>3. CASE DeleteTarget(p)
  <2>1. task' \in [Workers -> Task]
    BY <1>3, GotoType DEF DeleteTarget, Place
  <2>2. /\ item' \in [Calendars -> Content] /\ changeKey' \in Nat
        /\ faults' \in 0..MaxFaults /\ leaked' \in SUBSET Calendars
    BY <1>0, <1>3, DeleteItemTypes DEF DeleteTarget
  <2> QED
    BY <1>3, <2>1, <2>2 DEF DeleteTarget, database
<1>4. CASE DeleteSelectMirrors(p)
  <2>1. [task[p] EXCEPT !.pc = "deleteMirror",
                        !.todo = LiveMirrors \ {task[p].target}] \in Task
    BY <1>0 DEF Task, Place, LiveMirrors
  <2> QED
    BY <1>4, <2>1, BecomeType DEF DeleteSelectMirrors, database, exchange, history
<1>5. ASSUME NEW m \in Mirrors, DeleteMirror(p, m) PROVE TypeOK'
  <2>1. [task[p] EXCEPT !.todo = @ \ {m}, !.done = @ \cup {m}] \in Task
    BY <1>0 DEF Task
  <2>2. /\ item' \in [Calendars -> Content] /\ changeKey' \in Nat
        /\ faults' \in 0..MaxFaults /\ leaked' \in SUBSET Calendars
    BY <1>5, DeleteItemTypes DEF DeleteMirror
  <2>3. task' \in [Workers -> Task]
    BY <1>5, <2>1, BecomeType DEF DeleteMirror
  <2> QED
    BY <1>5, <2>2, <2>3 DEF DeleteMirror, database
<1>6. CASE DeleteCommit(p)
  <2>1. row' \in [Calendars -> {"none", "live", "deleted"}]
    BY <1>6 DEF DeleteCommit
  <2>2. confirmed' \in SUBSET Calendars
    BY <1>0, <1>6 DEF DeleteCommit
  <2> QED
    BY <1>6, <2>1, <2>2, FinishType DEF DeleteCommit, exchange
<1>7. CASE HandleExternalDelete(p)
  <2>1. task' \in [Workers -> Task]
    BY <1>7, FinishType, DeleteTaskType, BecomeType DEF HandleExternalDelete
  <2> QED
    BY <1>7, <2>1 DEF HandleExternalDelete, database, exchange, history
<1> QED
  BY <1>1, <1>2, <1>3, <1>4, <1>5, <1>6, <1>7

\* The steps of the deletion of an item that has no row.
LEMMA FallbackStepTypes ==
  ASSUME TypeOK, NEW p \in Workers,
         (\E t \in Calendars : StartFallback(p, t)) \/ Fallback(p)
  PROVE  TypeOK'
<1> USE Constants DEF TypeOK, StoreTypeOK
<1>0. task[p].target \in Calendars
  BY DEF Task
<1>1. ASSUME NEW t \in Calendars, StartFallback(p, t) PROVE TypeOK'
  <2>1. [IdleTask EXCEPT !.pc = "fallback", !.target = t] \in Task
    BY IdleType DEF Task, Place
  <2> QED
    BY <1>1, <2>1, BecomeType DEF StartFallback, database, exchange, history
<1>2. CASE Fallback(p)
  <2>1. /\ item' \in [Calendars -> Content] /\ changeKey' \in Nat
        /\ faults' \in 0..MaxFaults
    BY <1>0, <1>2, CallTypes DEF Fallback
  <2> QED
    BY <1>2, <2>1, FinishType DEF Fallback, database, history
<1> QED
  BY <1>1, <1>2

\* The steps of the poll and the reconciliation, and a task that is killed.
LEMMA WorkerStepTypes ==
  ASSUME TypeOK, NEW p \in Workers,
         PollList(p) \/ PollStep(p) \/ Reconcile(p) \/ Abort(p)
  PROVE  TypeOK'
<1> USE Constants DEF TypeOK, StoreTypeOK
<1>1. CASE PollList(p)
  <2>1. \A k \in Nat : [IdleTask EXCEPT !.pc = "pollSelect", !.key = k] \in Task
    BY IdleType DEF Task, Place
  <2>2. task' \in [Workers -> Task]
    BY <1>1, <2>1, BecomeType DEF PollList
  <2> QED
    BY <1>1, <2>2 DEF PollList, database, exchange, history
<1>2. CASE PollSelect(p)
  <2>1. task[p].key \in Nat
    BY DEF Task
  <2>2. task' \in [Workers -> Task]
    BY <1>2, <2>1, FinishType, GotoType, SyncTaskType, BecomeType DEF PollSelect, Place
  <2> QED
    BY <1>2, <2>2 DEF PollSelect, database, exchange, history
<1>3. CASE PollStoreKey(p)
  <2>1. task[p].key \in Nat
    BY DEF Task
  <2> QED
    BY <1>3, <2>1, FinishType DEF PollStoreKey, exchange, history
<1>4. CASE Reconcile(p)
  <2>1. [IdleTask EXCEPT !.pc = "repair"] \in Task
    BY IdleType DEF Task, Place
  <2> QED
    BY <1>4, <2>1, BecomeType DEF Reconcile, database, exchange, history
<1>5. CASE Abort(p)
  <2>1. faults' \in 0..MaxFaults /\ interrupted' \in BOOLEAN
    BY <1>5 DEF Abort
  <2> QED
    BY <1>5, <2>1, FinishType DEF Abort, database, exchange
<1> QED
  BY <1>1, <1>2, <1>3, <1>4, <1>5 DEF PollStep

\* The people who use Outlook.
LEMMA OutlookTypes ==
  ASSUME TypeOK, NEW c \in Calendars, OutlookEdit(c)
  PROVE  TypeOK'
<1>1. item' \in [Calendars -> Content] /\ changeKey' \in Nat
  BY Constants, WriteType DEF OutlookEdit
<1>2. foreign' \in 0..MaxForeign
  BY Constants DEF OutlookEdit, TypeOK, StoreTypeOK
<1> QED
  BY <1>1, <1>2 DEF OutlookEdit, TypeOK, StoreTypeOK, database, history

\* The initial states have the types,
LEMMA InitTypes == Init => TypeOK
<1> SUFFICES ASSUME Init PROVE TypeOK
  OBVIOUS
<1> USE Constants DEF Init, StoreInit
<1>1. task \in [Workers -> Task]
  BY IdleType
<1>2. /\ row \in [Calendars -> {"none", "live", "deleted"}]
      /\ rowVersion \in [Calendars -> Version]
      /\ item \in [Calendars -> Content]
  OBVIOUS
<1>3. asked \in 0..MaxVersion /\ foreign \in 0..MaxForeign /\ faults \in 0..MaxFaults
  OBVIOUS
<1>4. shape \in Shape
  OBVIOUS
<1> QED
  BY <1>1, <1>2, <1>3, <1>4 DEF TypeOK, StoreTypeOK

\* and every step keeps them.
LEMMA TypeStep == TypeOK /\ [Next]_vars => TypeOK'
<1> SUFFICES ASSUME TypeOK, [Next]_vars PROVE TypeOK'
  OBVIOUS
<1>1. ASSUME NEW p \in Workers,
             UserRequest(p) \/ PollList(p) \/ Reconcile(p) \/ TaskStep(p) \/ Abort(p)
      PROVE  TypeOK'
  BY <1>1, CreateStepTypes, UpdateStepTypes, DeleteStepTypes, FallbackStepTypes,
     SyncStepTypes, WorkerStepTypes
     DEF UserRequest, TaskStep, EventStep
<1>2. CASE UNCHANGED vars
  BY <1>2 DEF vars, database, exchange, history, TypeOK, StoreTypeOK
<1> QED
  BY <1>1, <1>2, OutlookTypes DEF Next

\* The variables keep their types whatever tasks run at once.
THEOREM TypeCorrect == Spec => []TypeOK
BY InitTypes, TypeStep, PTL DEF Spec

-----------------------------------------------------------------------------
(* The inductive invariant behind the safety properties.                    *)

\* Only one task ever drafts the event, and while it does nothing is committed.
DrafterInv ==
  /\ \A p \in Workers : task[p].pc \in Creating =>
       /\ \A c \in Calendars : row[c] = "none"
       /\ \A q \in Workers : task[q].pc \in Creating => q = p
  /\ asked = 0 =>
       /\ \A p \in Workers : task[p].pc \notin Creating
       /\ \A c \in Calendars : row[c] = "none" /\ item[c] = Gone
  /\ \A c \in Calendars : row[c] # "none" => row[Primary] # "none"

\* What the mirrors show, and what the syncs under way are about to write, has
\* been published.
PublishInv ==
  /\ rowVersion[Primary] \in published \cup {1}
  /\ row[Primary] # "none" => 1 \in published
  /\ \A p \in Workers :
       /\ task[p].pc \in Syncing \cup {"updatePrimary", "updateCommit"} => row[Primary] # "none"
       /\ task[p].pc \in {"syncSelect", "syncMirror"} => task[p].ver \in published \cup {1}
  /\ \A m \in Mirrors :
       /\ rowVersion[m] \in published \cup {1}
       /\ item[m] \in published \cup {1, Foreign, Gone}

\* A copy that is deleted, or about to be, has gone or is known to have leaked.
GoneInv ==
  /\ \A c \in Calendars : row[c] = "deleted" => item[c] = Gone \/ c \in leaked
  /\ \A p \in Workers :
       /\ task[p].pc \in Deleting => row[task[p].target] # "none"
       /\ task[p].pc \in {"deleteItem", "deleteSelect"} => task[p].done = {}
       /\ task[p].pc \in {"deleteSelect", "deleteMirror"} =>
            item[task[p].target] = Gone \/ task[p].target \in leaked
       /\ task[p].pc = "deleteMirror" =>
            \A m \in Mirrors :
              /\ m \in task[p].todo \cup task[p].done => row[m] # "none"
              /\ m \in task[p].done => item[m] = Gone \/ m \in leaked

\* A deletion about to commit covers every live mirror.
GroupInv ==
  /\ group = "deleted" => \A m \in Mirrors : row[m] # "live"
  /\ \A p \in Workers : task[p].pc = "deleteMirror" =>
       \A m \in Mirrors : row[m] = "live" =>
         m \in task[p].todo \cup task[p].done \cup {task[p].target}

\* Without failures the draft under way knows every item it has made.
OrphanInv ==
  faults = 0 =>
    /\ \A p \in Workers : task[p].pc = "createPrimary" => \A c \in Calendars : item[c] = Gone
    /\ \A p \in Workers : task[p].pc = "createMirror" =>
         \A c \in Calendars : item[c] # Gone => c = Primary \/ c \in task[p].done
    /\ \A c \in Calendars :
         item[c] # Gone /\ row[c] = "none" => \E p \in Workers : task[p].pc \in Creating

\* The steps, one by one.
LEMMA StepCases ==
  [Next]_vars =>
    \/ \E p \in Workers :
         \/ StartCreate(p) \/ CreatePrimary(p) \/ CreatePrimaryFails(p) \/ CreateCommit(p)
         \/ StartUpdate(p) \/ UpdatePrimary(p) \/ UpdateCommit(p)
         \/ DeleteTarget(p) \/ DeleteSelectMirrors(p) \/ DeleteCommit(p)
         \/ HandleExternalDelete(p) \/ Fallback(p)
         \/ SyncReadPrimary(p) \/ SyncSelectMirrors(p) \/ SyncCommit(p) \/ Repair(p)
         \/ PollList(p) \/ PollSelect(p) \/ PollStoreKey(p) \/ Reconcile(p) \/ Abort(p)
         \/ \E m \in Mirrors : CreateMirror(p, m) \/ DeleteMirror(p, m) \/ SyncMirror(p, m)
         \/ \E t \in Calendars : StartDelete(p, t) \/ DeleteNothing(p, t) \/ StartFallback(p, t)
    \/ \E c \in Calendars : OutlookEdit(c)
    \/ UNCHANGED vars
BY DEF Next, UserRequest, TaskStep, EventStep, SyncStep, PollStep

\* What the steps that only choose what a task does next leave alone.
LEMMA DispatchEffect ==
  ASSUME TypeOK, NEW p \in Workers, HandleExternalDelete(p) \/ Repair(p) \/ PollSelect(p)
  PROVE  /\ UNCHANGED <<database, exchange, shape, asked, foreign, faults, history>>
         /\ task[p].pc \notin Creating
         /\ \A q \in Workers : q # p => task'[q] = task[q]
         /\ \/ task'[p].pc \in {"idle", "pollDeleted"}
            \/ /\ task'[p].pc = "deleteItem" /\ row[Primary] # "none"
               /\ task'[p].target = Primary /\ task'[p].done = {}
            \/ task'[p].pc = "syncPrimary" /\ row[Primary] # "none"
<1> USE DEF TypeOK, StoreTypeOK, At, Finish, Goto, Become, Creating
<1>0. /\ IdleTask.pc = "idle"
      /\ DeleteTask(Primary).pc = "deleteItem" /\ DeleteTask(Primary).target = Primary
      /\ DeleteTask(Primary).done = {}
      /\ SyncTask(0, FALSE).pc = "syncPrimary"
  BY DEF DeleteTask, SyncTask, IdleTask
<1>1. CASE HandleExternalDelete(p)
  BY <1>0, <1>1 DEF HandleExternalDelete
<1>2. CASE Repair(p)
  BY <1>0, <1>2 DEF Repair
<1>3. CASE PollSelect(p)
  <2>1. CASE row[Primary] # "live"
    BY <1>3, <2>1 DEF PollSelect, IdleTask
  <2>2. CASE row[Primary] = "live" /\ task[p].key = 0
    BY <1>3, <2>2 DEF PollSelect, Task
  <2>3. CASE row[Primary] = "live" /\ task[p].key # 0 /\ task[p].key # lastSeen
    BY <1>3, <2>3 DEF PollSelect, SyncTask, IdleTask
  <2>4. CASE row[Primary] = "live" /\ task[p].key # 0 /\ task[p].key = lastSeen
    BY <1>3, <2>4 DEF PollSelect, IdleTask
  <2> QED
    BY <1>3, <2>1, <2>2, <2>3, <2>4
<1> QED
  BY <1>1, <1>2, <1>3

\* One EWS call on one calendar.
LEMMA CallEffect ==
  ASSUME TypeOK, NEW c \in Calendars, NEW x \in Content,
         CallSucceeds(c, x) \/ ConnectionFails(c, x) \/ ItemNotFound(c)
  PROVE  /\ \A d \in Calendars : d # c => item'[d] = item[d]
         /\ item'[c] \in {item[c], x}
         /\ faults' = 0 => faults = 0
         /\ CallSucceeds(c, x) => item'[c] = x
         /\ ConnectionFails(c, x) => faults' # 0
BY Constants DEF TypeOK, StoreTypeOK, CallSucceeds, ConnectionFails, ItemNotFound, Write, exchange

\* One mirror that create_event makes, or fails to make.
LEMMA CreateMirrorEffect ==
  ASSUME TypeOK, NEW p \in Workers, NEW m \in Mirrors, CreateMirror(p, m)
  PROVE  /\ UNCHANGED <<database, shape, asked, foreign, history>>
         /\ task[p].pc = "createMirror" /\ task'[p].pc = "createMirror"
         /\ \A q \in Workers : q # p => task'[q] = task[q]
         /\ \A c \in Calendars : c # m => item'[c] = item[c]
         /\ item'[m] \in {item[m], 1}
         /\ task[p].done \subseteq task'[p].done
         /\ faults' = 0 => faults = 0 /\ m \in task'[p].done
<1> USE Constants DEF TypeOK, StoreTypeOK, At, Become
<1>0. 1 \in Content /\ m \in Calendars /\ task[p] \in Task
  OBVIOUS
<1>1. CASE CreateOk(m, 1) /\ Become(p, [task[p] EXCEPT !.todo = @ \ {m}, !.done = @ \cup {m}])
  BY <1>0, <1>1, CallEffect DEF CreateMirror, CreateOk, Task
<1>2. CASE CreateFails(m, 1) /\ Become(p, [task[p] EXCEPT !.todo = @ \ {m}, !.failed = TRUE])
  BY <1>0, <1>2, CallEffect DEF CreateMirror, CreateFails, Task
<1> QED
  BY <1>1, <1>2 DEF CreateMirror

\* One mirror that a sync updates, or fails to update.
LEMMA SyncMirrorEffect ==
  ASSUME TypeOK, NEW p \in Workers, NEW m \in Mirrors, SyncMirror(p, m)
  PROVE  /\ UNCHANGED <<database, shape, asked, foreign, history>>
         /\ task[p].pc = "syncMirror" /\ task'[p].pc = "syncMirror"
         /\ task'[p].ver = task[p].ver
         /\ \A q \in Workers : q # p => task'[q] = task[q]
         /\ \A c \in Calendars : c # m => item'[c] = item[c]
         /\ item'[m] \in {item[m], task[p].ver}
         /\ item[m] = Gone => item'[m] = Gone
         /\ faults' = 0 => faults = 0
<1> USE Constants DEF TypeOK, StoreTypeOK, At, Become
<1>0. task[p].ver \in Content /\ m \in Calendars /\ task[p] \in Task
  BY DEF Task
<1>1. CASE UpdateOk(m, task[p].ver)
           /\ Become(p, [task[p] EXCEPT !.todo = @ \ {m}, !.done = @ \cup {m}])
  BY <1>0, <1>1, CallEffect DEF SyncMirror, UpdateOk, Task
<1>2. CASE UpdateFails(m, task[p].ver)
           /\ Become(p, [task[p] EXCEPT !.todo = @ \ {m}, !.failed = TRUE])
  <2>1. item[m] = Gone => item'[m] = Gone
    BY <1>2 DEF UpdateFails, ItemNotFound, exchange
  <2> QED
    BY <1>0, <1>2, <2>1, CallEffect DEF SyncMirror, UpdateFails, Task
<1> QED
  BY <1>1, <1>2 DEF SyncMirror

\* Every step preserves the parts of the invariant.
LEMMA DrafterInvStep ==
  ASSUME TypeOK, DrafterInv, GoneInv, [Next]_vars
  PROVE  DrafterInv'
<1> USE Constants DEF TypeOK, StoreTypeOK, Task, IdleTask, Idle, At, Become, Finish, Goto, SyncTask, DeleteTask, Creating, Write, CallSucceeds, ConnectionFails, ItemNotFound, CreateOk, CreateFails, UpdateOk, UpdateFails, DeleteItem, database, exchange, history, Gone, Foreign, Version, DrafterInv, GoneInv, Deleting
<1>1. ASSUME NEW p \in Workers, StartCreate(p) PROVE DrafterInv'
  BY <1>1 DEF StartCreate
<1>2. ASSUME NEW p \in Workers, CreatePrimary(p) PROVE DrafterInv'
  BY <1>2 DEF CreatePrimary
<1>3. ASSUME NEW p \in Workers, CreatePrimaryFails(p) PROVE DrafterInv'
  BY <1>3 DEF CreatePrimaryFails
<1>4. ASSUME NEW p \in Workers, NEW m \in Mirrors, CreateMirror(p, m) PROVE DrafterInv'
  BY <1>4, CreateMirrorEffect
<1>5. ASSUME NEW p \in Workers, CreateCommit(p) PROVE DrafterInv'
  BY <1>5 DEF CreateCommit
<1>6. ASSUME NEW p \in Workers, StartUpdate(p) PROVE DrafterInv'
  BY <1>6 DEF StartUpdate
<1>7. ASSUME NEW p \in Workers, UpdatePrimary(p) PROVE DrafterInv'
  BY <1>7 DEF UpdatePrimary
<1>8. ASSUME NEW p \in Workers, UpdateCommit(p) PROVE DrafterInv'
  BY <1>8 DEF UpdateCommit
<1>9. ASSUME NEW p \in Workers, NEW t \in Calendars, StartDelete(p, t) PROVE DrafterInv'
  BY <1>9 DEF StartDelete
<1>10. ASSUME NEW p \in Workers, NEW t \in Calendars, DeleteNothing(p, t) PROVE DrafterInv'
  BY <1>10 DEF DeleteNothing
<1>11. ASSUME NEW p \in Workers, DeleteTarget(p) PROVE DrafterInv'
  BY <1>11 DEF DeleteTarget
<1>12. ASSUME NEW p \in Workers, DeleteSelectMirrors(p) PROVE DrafterInv'
  BY <1>12 DEF DeleteSelectMirrors
<1>13. ASSUME NEW p \in Workers, NEW m \in Mirrors, DeleteMirror(p, m) PROVE DrafterInv'
  BY <1>13 DEF DeleteMirror
<1>14. ASSUME NEW p \in Workers, DeleteCommit(p) PROVE DrafterInv'
  BY <1>14 DEF DeleteCommit
<1>15. ASSUME NEW p \in Workers, HandleExternalDelete(p) PROVE DrafterInv'
  BY <1>15, DispatchEffect
<1>16. ASSUME NEW p \in Workers, NEW t \in Calendars, StartFallback(p, t) PROVE DrafterInv'
  BY <1>16 DEF StartFallback
<1>17. ASSUME NEW p \in Workers, Fallback(p) PROVE DrafterInv'
  BY <1>17 DEF Fallback
<1>18. ASSUME NEW p \in Workers, SyncReadPrimary(p) PROVE DrafterInv'
  BY <1>18 DEF SyncReadPrimary
<1>19. ASSUME NEW p \in Workers, SyncSelectMirrors(p) PROVE DrafterInv'
  BY <1>19 DEF SyncSelectMirrors
<1>20. ASSUME NEW p \in Workers, NEW m \in Mirrors, SyncMirror(p, m) PROVE DrafterInv'
  BY <1>20, SyncMirrorEffect
<1>21. ASSUME NEW p \in Workers, SyncCommit(p) PROVE DrafterInv'
  BY <1>21 DEF SyncCommit
<1>22. ASSUME NEW p \in Workers, Repair(p) PROVE DrafterInv'
  BY <1>22, DispatchEffect
<1>23. ASSUME NEW p \in Workers, PollList(p) PROVE DrafterInv'
  BY <1>23 DEF PollList
<1>24. ASSUME NEW p \in Workers, PollSelect(p) PROVE DrafterInv'
  BY <1>24, DispatchEffect
<1>25. ASSUME NEW p \in Workers, PollStoreKey(p) PROVE DrafterInv'
  BY <1>25 DEF PollStoreKey
<1>26. ASSUME NEW p \in Workers, Reconcile(p) PROVE DrafterInv'
  BY <1>26 DEF Reconcile
<1>27. ASSUME NEW p \in Workers, Abort(p) PROVE DrafterInv'
  BY <1>27 DEF Abort
<1>28. ASSUME NEW c \in Calendars, OutlookEdit(c) PROVE DrafterInv'
  BY <1>28 DEF OutlookEdit
<1>29. CASE UNCHANGED vars
  BY <1>29 DEF vars
<1> QED
  BY <1>1, <1>2, <1>3, <1>4, <1>5, <1>6, <1>7, <1>8, <1>9, <1>10, <1>11, <1>12, <1>13, <1>14, <1>15, <1>16, <1>17, <1>18, <1>19, <1>20, <1>21, <1>22, <1>23, <1>24, <1>25, <1>26, <1>27, <1>28, <1>29, StepCases

\* What is shown and about to be shown stays published.
LEMMA PublishInvStep ==
  ASSUME TypeOK, DrafterInv, GoneInv, PublishInv, [Next]_vars
  PROVE  PublishInv'
<1> USE Constants DEF TypeOK, StoreTypeOK, Task, IdleTask, Idle, At, Become, Finish, Goto, SyncTask, DeleteTask, Creating, Write, CallSucceeds, ConnectionFails, ItemNotFound, CreateOk, CreateFails, UpdateOk, UpdateFails, DeleteItem, database, exchange, history, Gone, Foreign, Version, PublishInv, DrafterInv, GoneInv, Syncing, Deleting
<1>1. ASSUME NEW p \in Workers, StartCreate(p) PROVE PublishInv'
  BY <1>1 DEF StartCreate
<1>2. ASSUME NEW p \in Workers, CreatePrimary(p) PROVE PublishInv'
  BY <1>2 DEF CreatePrimary
<1>3. ASSUME NEW p \in Workers, CreatePrimaryFails(p) PROVE PublishInv'
  BY <1>3 DEF CreatePrimaryFails
<1>4. ASSUME NEW p \in Workers, NEW m \in Mirrors, CreateMirror(p, m) PROVE PublishInv'
  <2>1. /\ UNCHANGED <<row, rowVersion, published>>
        /\ task'[p].pc = "createMirror"
        /\ \A q \in Workers : q # p => task'[q] = task[q]
    BY <1>4, CreateMirrorEffect
  <2>2. \A c \in Mirrors : item'[c] \in {item[c], 1}
    BY <1>4, CreateMirrorEffect
  <2> QED
    BY <2>1, <2>2
<1>5. ASSUME NEW p \in Workers, CreateCommit(p) PROVE PublishInv'
  BY <1>5 DEF CreateCommit
<1>6. ASSUME NEW p \in Workers, StartUpdate(p) PROVE PublishInv'
  BY <1>6 DEF StartUpdate
<1>7. ASSUME NEW p \in Workers, UpdatePrimary(p) PROVE PublishInv'
  BY <1>7 DEF UpdatePrimary
<1>8. ASSUME NEW p \in Workers, UpdateCommit(p) PROVE PublishInv'
  BY <1>8 DEF UpdateCommit
<1>9. ASSUME NEW p \in Workers, NEW t \in Calendars, StartDelete(p, t) PROVE PublishInv'
  BY <1>9 DEF StartDelete
<1>10. ASSUME NEW p \in Workers, NEW t \in Calendars, DeleteNothing(p, t) PROVE PublishInv'
  BY <1>10 DEF DeleteNothing
<1>11. ASSUME NEW p \in Workers, DeleteTarget(p) PROVE PublishInv'
  BY <1>11 DEF DeleteTarget
<1>12. ASSUME NEW p \in Workers, DeleteSelectMirrors(p) PROVE PublishInv'
  BY <1>12 DEF DeleteSelectMirrors
<1>13. ASSUME NEW p \in Workers, NEW m \in Mirrors, DeleteMirror(p, m) PROVE PublishInv'
  BY <1>13 DEF DeleteMirror
<1>14. ASSUME NEW p \in Workers, DeleteCommit(p) PROVE PublishInv'
  BY <1>14 DEF DeleteCommit
<1>15. ASSUME NEW p \in Workers, HandleExternalDelete(p) PROVE PublishInv'
  BY <1>15, DispatchEffect
<1>16. ASSUME NEW p \in Workers, NEW t \in Calendars, StartFallback(p, t) PROVE PublishInv'
  BY <1>16 DEF StartFallback
<1>17. ASSUME NEW p \in Workers, Fallback(p) PROVE PublishInv'
  BY <1>17 DEF Fallback
<1>18. ASSUME NEW p \in Workers, SyncReadPrimary(p) PROVE PublishInv'
  BY <1>18 DEF SyncReadPrimary
<1>19. ASSUME NEW p \in Workers, SyncSelectMirrors(p) PROVE PublishInv'
  BY <1>19 DEF SyncSelectMirrors
<1>20. ASSUME NEW p \in Workers, NEW m \in Mirrors, SyncMirror(p, m) PROVE PublishInv'
  BY <1>20, SyncMirrorEffect
<1>21. ASSUME NEW p \in Workers, SyncCommit(p) PROVE PublishInv'
  BY <1>21 DEF SyncCommit
<1>22. ASSUME NEW p \in Workers, Repair(p) PROVE PublishInv'
  BY <1>22, DispatchEffect
<1>23. ASSUME NEW p \in Workers, PollList(p) PROVE PublishInv'
  BY <1>23 DEF PollList
<1>24. ASSUME NEW p \in Workers, PollSelect(p) PROVE PublishInv'
  BY <1>24, DispatchEffect
<1>25. ASSUME NEW p \in Workers, PollStoreKey(p) PROVE PublishInv'
  BY <1>25 DEF PollStoreKey
<1>26. ASSUME NEW p \in Workers, Reconcile(p) PROVE PublishInv'
  BY <1>26 DEF Reconcile
<1>27. ASSUME NEW p \in Workers, Abort(p) PROVE PublishInv'
  BY <1>27 DEF Abort
<1>28. ASSUME NEW c \in Calendars, OutlookEdit(c) PROVE PublishInv'
  BY <1>28 DEF OutlookEdit
<1>29. CASE UNCHANGED vars
  BY <1>29 DEF vars
<1> QED
  BY <1>1, <1>2, <1>3, <1>4, <1>5, <1>6, <1>7, <1>8, <1>9, <1>10, <1>11, <1>12, <1>13, <1>14, <1>15, <1>16, <1>17, <1>18, <1>19, <1>20, <1>21, <1>22, <1>23, <1>24, <1>25, <1>26, <1>27, <1>28, <1>29, StepCases

\* What is deleted stays gone: no step writes an item that has gone and has a row.
LEMMA GoneInvStep ==
  ASSUME TypeOK, DrafterInv, GoneInv, [Next]_vars
  PROVE  GoneInv'
<1> USE Constants DEF TypeOK, StoreTypeOK, Task, IdleTask, Idle, At, Become, Finish, Goto, SyncTask, DeleteTask, Creating, Write, CallSucceeds, ConnectionFails, ItemNotFound, CreateOk, CreateFails, UpdateOk, UpdateFails, DeleteItem, database, exchange, history, Gone, Foreign, Version, GoneInv, DrafterInv, Deleting, LiveMirrors
<1>1. ASSUME NEW p \in Workers, StartCreate(p) PROVE GoneInv'
  BY <1>1 DEF StartCreate
<1>2. ASSUME NEW p \in Workers, CreatePrimary(p) PROVE GoneInv'
  BY <1>2 DEF CreatePrimary
<1>3. ASSUME NEW p \in Workers, CreatePrimaryFails(p) PROVE GoneInv'
  BY <1>3 DEF CreatePrimaryFails
<1>4. ASSUME NEW p \in Workers, NEW m \in Mirrors, CreateMirror(p, m) PROVE GoneInv'
  BY <1>4, CreateMirrorEffect
<1>5. ASSUME NEW p \in Workers, CreateCommit(p) PROVE GoneInv'
  BY <1>5 DEF CreateCommit
<1>6. ASSUME NEW p \in Workers, StartUpdate(p) PROVE GoneInv'
  BY <1>6 DEF StartUpdate
<1>7. ASSUME NEW p \in Workers, UpdatePrimary(p) PROVE GoneInv'
  BY <1>7 DEF UpdatePrimary
<1>8. ASSUME NEW p \in Workers, UpdateCommit(p) PROVE GoneInv'
  BY <1>8 DEF UpdateCommit
<1>9. ASSUME NEW p \in Workers, NEW t \in Calendars, StartDelete(p, t) PROVE GoneInv'
  BY <1>9 DEF StartDelete
<1>10. ASSUME NEW p \in Workers, NEW t \in Calendars, DeleteNothing(p, t) PROVE GoneInv'
  BY <1>10 DEF DeleteNothing
<1>11. ASSUME NEW p \in Workers, DeleteTarget(p) PROVE GoneInv'
  BY <1>11 DEF DeleteTarget
<1>12. ASSUME NEW p \in Workers, DeleteSelectMirrors(p) PROVE GoneInv'
  <2>1. /\ UNCHANGED <<database, exchange, leaked>>
        /\ \A q \in Workers : q # p => task'[q] = task[q]
        /\ task[p].pc = "deleteSelect" /\ task'[p].pc = "deleteMirror"
        /\ task'[p].target = task[p].target /\ task'[p].done = task[p].done
        /\ task'[p].todo = LiveMirrors \ {task[p].target}
    BY <1>12 DEF DeleteSelectMirrors
  <2>2. task[p].done = {}
    BY <2>1
  <2> QED
    BY <2>1, <2>2
<1>13. ASSUME NEW p \in Workers, NEW m \in Mirrors, DeleteMirror(p, m) PROVE GoneInv'
  BY <1>13 DEF DeleteMirror
<1>14. ASSUME NEW p \in Workers, DeleteCommit(p) PROVE GoneInv'
  BY <1>14 DEF DeleteCommit
<1>15. ASSUME NEW p \in Workers, HandleExternalDelete(p) PROVE GoneInv'
  BY <1>15, DispatchEffect
<1>16. ASSUME NEW p \in Workers, NEW t \in Calendars, StartFallback(p, t) PROVE GoneInv'
  BY <1>16 DEF StartFallback
<1>17. ASSUME NEW p \in Workers, Fallback(p) PROVE GoneInv'
  BY <1>17 DEF Fallback
<1>18. ASSUME NEW p \in Workers, SyncReadPrimary(p) PROVE GoneInv'
  BY <1>18 DEF SyncReadPrimary
<1>19. ASSUME NEW p \in Workers, SyncSelectMirrors(p) PROVE GoneInv'
  BY <1>19 DEF SyncSelectMirrors
<1>20. ASSUME NEW p \in Workers, NEW m \in Mirrors, SyncMirror(p, m) PROVE GoneInv'
  BY <1>20, SyncMirrorEffect
<1>21. ASSUME NEW p \in Workers, SyncCommit(p) PROVE GoneInv'
  BY <1>21 DEF SyncCommit
<1>22. ASSUME NEW p \in Workers, Repair(p) PROVE GoneInv'
  BY <1>22, DispatchEffect
<1>23. ASSUME NEW p \in Workers, PollList(p) PROVE GoneInv'
  BY <1>23 DEF PollList
<1>24. ASSUME NEW p \in Workers, PollSelect(p) PROVE GoneInv'
  BY <1>24, DispatchEffect
<1>25. ASSUME NEW p \in Workers, PollStoreKey(p) PROVE GoneInv'
  BY <1>25 DEF PollStoreKey
<1>26. ASSUME NEW p \in Workers, Reconcile(p) PROVE GoneInv'
  BY <1>26 DEF Reconcile
<1>27. ASSUME NEW p \in Workers, Abort(p) PROVE GoneInv'
  BY <1>27 DEF Abort
<1>28. ASSUME NEW c \in Calendars, OutlookEdit(c) PROVE GoneInv'
  BY <1>28 DEF OutlookEdit
<1>29. CASE UNCHANGED vars
  BY <1>29 DEF vars
<1> QED
  BY <1>1, <1>2, <1>3, <1>4, <1>5, <1>6, <1>7, <1>8, <1>9, <1>10, <1>11, <1>12, <1>13, <1>14, <1>15, <1>16, <1>17, <1>18, <1>19, <1>20, <1>21, <1>22, <1>23, <1>24, <1>25, <1>26, <1>27, <1>28, <1>29, StepCases

\* No mirror row appears or stays behind in a deleted group.
LEMMA GroupInvStep ==
  ASSUME TypeOK, DrafterInv, GoneInv, GroupInv, [Next]_vars
  PROVE  GroupInv'
<1> USE Constants DEF TypeOK, StoreTypeOK, Task, IdleTask, Idle, At, Become, Finish, Goto, SyncTask, DeleteTask, Creating, Write, CallSucceeds, ConnectionFails, ItemNotFound, CreateOk, CreateFails, UpdateOk, UpdateFails, DeleteItem, database, exchange, history, Gone, Foreign, Version, GroupInv, GoneInv, DrafterInv, LiveMirrors, Deleting
<1>1. ASSUME NEW p \in Workers, StartCreate(p) PROVE GroupInv'
  BY <1>1 DEF StartCreate
<1>2. ASSUME NEW p \in Workers, CreatePrimary(p) PROVE GroupInv'
  BY <1>2 DEF CreatePrimary
<1>3. ASSUME NEW p \in Workers, CreatePrimaryFails(p) PROVE GroupInv'
  BY <1>3 DEF CreatePrimaryFails
<1>4. ASSUME NEW p \in Workers, NEW m \in Mirrors, CreateMirror(p, m) PROVE GroupInv'
  BY <1>4, CreateMirrorEffect
<1>5. ASSUME NEW p \in Workers, CreateCommit(p) PROVE GroupInv'
  BY <1>5 DEF CreateCommit
<1>6. ASSUME NEW p \in Workers, StartUpdate(p) PROVE GroupInv'
  BY <1>6 DEF StartUpdate
<1>7. ASSUME NEW p \in Workers, UpdatePrimary(p) PROVE GroupInv'
  BY <1>7 DEF UpdatePrimary
<1>8. ASSUME NEW p \in Workers, UpdateCommit(p) PROVE GroupInv'
  BY <1>8 DEF UpdateCommit
<1>9. ASSUME NEW p \in Workers, NEW t \in Calendars, StartDelete(p, t) PROVE GroupInv'
  BY <1>9 DEF StartDelete
<1>10. ASSUME NEW p \in Workers, NEW t \in Calendars, DeleteNothing(p, t) PROVE GroupInv'
  BY <1>10 DEF DeleteNothing
<1>11. ASSUME NEW p \in Workers, DeleteTarget(p) PROVE GroupInv'
  BY <1>11 DEF DeleteTarget
<1>12. ASSUME NEW p \in Workers, DeleteSelectMirrors(p) PROVE GroupInv'
  BY <1>12 DEF DeleteSelectMirrors
<1>13. ASSUME NEW p \in Workers, NEW m \in Mirrors, DeleteMirror(p, m) PROVE GroupInv'
  BY <1>13 DEF DeleteMirror
<1>14. ASSUME NEW p \in Workers, DeleteCommit(p) PROVE GroupInv'
  BY <1>14 DEF DeleteCommit
<1>15. ASSUME NEW p \in Workers, HandleExternalDelete(p) PROVE GroupInv'
  BY <1>15, DispatchEffect
<1>16. ASSUME NEW p \in Workers, NEW t \in Calendars, StartFallback(p, t) PROVE GroupInv'
  BY <1>16 DEF StartFallback
<1>17. ASSUME NEW p \in Workers, Fallback(p) PROVE GroupInv'
  BY <1>17 DEF Fallback
<1>18. ASSUME NEW p \in Workers, SyncReadPrimary(p) PROVE GroupInv'
  BY <1>18 DEF SyncReadPrimary
<1>19. ASSUME NEW p \in Workers, SyncSelectMirrors(p) PROVE GroupInv'
  BY <1>19 DEF SyncSelectMirrors
<1>20. ASSUME NEW p \in Workers, NEW m \in Mirrors, SyncMirror(p, m) PROVE GroupInv'
  BY <1>20, SyncMirrorEffect
<1>21. ASSUME NEW p \in Workers, SyncCommit(p) PROVE GroupInv'
  BY <1>21 DEF SyncCommit
<1>22. ASSUME NEW p \in Workers, Repair(p) PROVE GroupInv'
  BY <1>22, DispatchEffect
<1>23. ASSUME NEW p \in Workers, PollList(p) PROVE GroupInv'
  BY <1>23 DEF PollList
<1>24. ASSUME NEW p \in Workers, PollSelect(p) PROVE GroupInv'
  BY <1>24, DispatchEffect
<1>25. ASSUME NEW p \in Workers, PollStoreKey(p) PROVE GroupInv'
  BY <1>25 DEF PollStoreKey
<1>26. ASSUME NEW p \in Workers, Reconcile(p) PROVE GroupInv'
  BY <1>26 DEF Reconcile
<1>27. ASSUME NEW p \in Workers, Abort(p) PROVE GroupInv'
  BY <1>27 DEF Abort
<1>28. ASSUME NEW c \in Calendars, OutlookEdit(c) PROVE GroupInv'
  BY <1>28 DEF OutlookEdit
<1>29. CASE UNCHANGED vars
  BY <1>29 DEF vars
<1> QED
  BY <1>1, <1>2, <1>3, <1>4, <1>5, <1>6, <1>7, <1>8, <1>9, <1>10, <1>11, <1>12, <1>13, <1>14, <1>15, <1>16, <1>17, <1>18, <1>19, <1>20, <1>21, <1>22, <1>23, <1>24, <1>25, <1>26, <1>27, <1>28, <1>29, StepCases

\* Without failures the draft under way still knows its items.
LEMMA OrphanInvStep ==
  ASSUME TypeOK, DrafterInv, OrphanInv, [Next]_vars
  PROVE  OrphanInv'
<1> USE Constants DEF TypeOK, StoreTypeOK, Task, IdleTask, Idle, At, Become, Finish, Goto, SyncTask, DeleteTask, Creating, Write, CallSucceeds, ConnectionFails, ItemNotFound, CreateOk, CreateFails, UpdateOk, UpdateFails, DeleteItem, database, exchange, history, Gone, Foreign, Version, OrphanInv, DrafterInv
<1>1. ASSUME NEW p \in Workers, StartCreate(p) PROVE OrphanInv'
  BY <1>1 DEF StartCreate
<1>2. ASSUME NEW p \in Workers, CreatePrimary(p) PROVE OrphanInv'
  BY <1>2 DEF CreatePrimary
<1>3. ASSUME NEW p \in Workers, CreatePrimaryFails(p) PROVE OrphanInv'
  BY <1>3 DEF CreatePrimaryFails
<1>4. ASSUME NEW p \in Workers, NEW m \in Mirrors, CreateMirror(p, m) PROVE OrphanInv'
  BY <1>4, CreateMirrorEffect
<1>5. ASSUME NEW p \in Workers, CreateCommit(p) PROVE OrphanInv'
  BY <1>5 DEF CreateCommit
<1>6. ASSUME NEW p \in Workers, StartUpdate(p) PROVE OrphanInv'
  BY <1>6 DEF StartUpdate
<1>7. ASSUME NEW p \in Workers, UpdatePrimary(p) PROVE OrphanInv'
  BY <1>7 DEF UpdatePrimary
<1>8. ASSUME NEW p \in Workers, UpdateCommit(p) PROVE OrphanInv'
  BY <1>8 DEF UpdateCommit
<1>9. ASSUME NEW p \in Workers, NEW t \in Calendars, StartDelete(p, t) PROVE OrphanInv'
  BY <1>9 DEF StartDelete
<1>10. ASSUME NEW p \in Workers, NEW t \in Calendars, DeleteNothing(p, t) PROVE OrphanInv'
  BY <1>10 DEF DeleteNothing
<1>11. ASSUME NEW p \in Workers, DeleteTarget(p) PROVE OrphanInv'
  BY <1>11 DEF DeleteTarget
<1>12. ASSUME NEW p \in Workers, DeleteSelectMirrors(p) PROVE OrphanInv'
  BY <1>12 DEF DeleteSelectMirrors
<1>13. ASSUME NEW p \in Workers, NEW m \in Mirrors, DeleteMirror(p, m) PROVE OrphanInv'
  BY <1>13 DEF DeleteMirror
<1>14. ASSUME NEW p \in Workers, DeleteCommit(p) PROVE OrphanInv'
  BY <1>14 DEF DeleteCommit
<1>15. ASSUME NEW p \in Workers, HandleExternalDelete(p) PROVE OrphanInv'
  BY <1>15, DispatchEffect
<1>16. ASSUME NEW p \in Workers, NEW t \in Calendars, StartFallback(p, t) PROVE OrphanInv'
  BY <1>16 DEF StartFallback
<1>17. ASSUME NEW p \in Workers, Fallback(p) PROVE OrphanInv'
  BY <1>17 DEF Fallback
<1>18. ASSUME NEW p \in Workers, SyncReadPrimary(p) PROVE OrphanInv'
  BY <1>18 DEF SyncReadPrimary
<1>19. ASSUME NEW p \in Workers, SyncSelectMirrors(p) PROVE OrphanInv'
  BY <1>19 DEF SyncSelectMirrors
<1>20. ASSUME NEW p \in Workers, NEW m \in Mirrors, SyncMirror(p, m) PROVE OrphanInv'
  BY <1>20, SyncMirrorEffect
<1>21. ASSUME NEW p \in Workers, SyncCommit(p) PROVE OrphanInv'
  BY <1>21 DEF SyncCommit
<1>22. ASSUME NEW p \in Workers, Repair(p) PROVE OrphanInv'
  BY <1>22, DispatchEffect
<1>23. ASSUME NEW p \in Workers, PollList(p) PROVE OrphanInv'
  BY <1>23 DEF PollList
<1>24. ASSUME NEW p \in Workers, PollSelect(p) PROVE OrphanInv'
  BY <1>24, DispatchEffect
<1>25. ASSUME NEW p \in Workers, PollStoreKey(p) PROVE OrphanInv'
  BY <1>25 DEF PollStoreKey
<1>26. ASSUME NEW p \in Workers, Reconcile(p) PROVE OrphanInv'
  BY <1>26 DEF Reconcile
<1>27. ASSUME NEW p \in Workers, Abort(p) PROVE OrphanInv'
  BY <1>27 DEF Abort
<1>28. ASSUME NEW c \in Calendars, OutlookEdit(c) PROVE OrphanInv'
  BY <1>28 DEF OutlookEdit
<1>29. CASE UNCHANGED vars
  BY <1>29 DEF vars
<1> QED
  BY <1>1, <1>2, <1>3, <1>4, <1>5, <1>6, <1>7, <1>8, <1>9, <1>10, <1>11, <1>12, <1>13, <1>14, <1>15, <1>16, <1>17, <1>18, <1>19, <1>20, <1>21, <1>22, <1>23, <1>24, <1>25, <1>26, <1>27, <1>28, <1>29, StepCases

\* No step takes a confirmed deletion back.
LEMMA ConfirmedStep ==
  ASSUME TypeOK, DrafterInv, ConfirmedIsDeleted, [Next]_vars
  PROVE  ConfirmedIsDeleted'
<1> USE Constants DEF TypeOK, StoreTypeOK, Task, IdleTask, Idle, At, Become, Finish, Goto, SyncTask, DeleteTask, Creating, Write, CallSucceeds, ConnectionFails, ItemNotFound, CreateOk, CreateFails, UpdateOk, UpdateFails, DeleteItem, database, exchange, history, Gone, Foreign, Version, ConfirmedIsDeleted, DrafterInv
<1>1. ASSUME NEW p \in Workers, StartCreate(p) PROVE ConfirmedIsDeleted'
  BY <1>1 DEF StartCreate
<1>2. ASSUME NEW p \in Workers, CreatePrimary(p) PROVE ConfirmedIsDeleted'
  BY <1>2 DEF CreatePrimary
<1>3. ASSUME NEW p \in Workers, CreatePrimaryFails(p) PROVE ConfirmedIsDeleted'
  BY <1>3 DEF CreatePrimaryFails
<1>4. ASSUME NEW p \in Workers, NEW m \in Mirrors, CreateMirror(p, m) PROVE ConfirmedIsDeleted'
  BY <1>4, CreateMirrorEffect
<1>5. ASSUME NEW p \in Workers, CreateCommit(p) PROVE ConfirmedIsDeleted'
  BY <1>5 DEF CreateCommit
<1>6. ASSUME NEW p \in Workers, StartUpdate(p) PROVE ConfirmedIsDeleted'
  BY <1>6 DEF StartUpdate
<1>7. ASSUME NEW p \in Workers, UpdatePrimary(p) PROVE ConfirmedIsDeleted'
  BY <1>7 DEF UpdatePrimary
<1>8. ASSUME NEW p \in Workers, UpdateCommit(p) PROVE ConfirmedIsDeleted'
  BY <1>8 DEF UpdateCommit
<1>9. ASSUME NEW p \in Workers, NEW t \in Calendars, StartDelete(p, t) PROVE ConfirmedIsDeleted'
  BY <1>9 DEF StartDelete
<1>10. ASSUME NEW p \in Workers, NEW t \in Calendars, DeleteNothing(p, t) PROVE ConfirmedIsDeleted'
  BY <1>10 DEF DeleteNothing
<1>11. ASSUME NEW p \in Workers, DeleteTarget(p) PROVE ConfirmedIsDeleted'
  BY <1>11 DEF DeleteTarget
<1>12. ASSUME NEW p \in Workers, DeleteSelectMirrors(p) PROVE ConfirmedIsDeleted'
  BY <1>12 DEF DeleteSelectMirrors
<1>13. ASSUME NEW p \in Workers, NEW m \in Mirrors, DeleteMirror(p, m) PROVE ConfirmedIsDeleted'
  BY <1>13 DEF DeleteMirror
<1>14. ASSUME NEW p \in Workers, DeleteCommit(p) PROVE ConfirmedIsDeleted'
  BY <1>14 DEF DeleteCommit
<1>15. ASSUME NEW p \in Workers, HandleExternalDelete(p) PROVE ConfirmedIsDeleted'
  BY <1>15, DispatchEffect
<1>16. ASSUME NEW p \in Workers, NEW t \in Calendars, StartFallback(p, t) PROVE ConfirmedIsDeleted'
  BY <1>16 DEF StartFallback
<1>17. ASSUME NEW p \in Workers, Fallback(p) PROVE ConfirmedIsDeleted'
  BY <1>17 DEF Fallback
<1>18. ASSUME NEW p \in Workers, SyncReadPrimary(p) PROVE ConfirmedIsDeleted'
  BY <1>18 DEF SyncReadPrimary
<1>19. ASSUME NEW p \in Workers, SyncSelectMirrors(p) PROVE ConfirmedIsDeleted'
  BY <1>19 DEF SyncSelectMirrors
<1>20. ASSUME NEW p \in Workers, NEW m \in Mirrors, SyncMirror(p, m) PROVE ConfirmedIsDeleted'
  BY <1>20, SyncMirrorEffect
<1>21. ASSUME NEW p \in Workers, SyncCommit(p) PROVE ConfirmedIsDeleted'
  BY <1>21 DEF SyncCommit
<1>22. ASSUME NEW p \in Workers, Repair(p) PROVE ConfirmedIsDeleted'
  BY <1>22, DispatchEffect
<1>23. ASSUME NEW p \in Workers, PollList(p) PROVE ConfirmedIsDeleted'
  BY <1>23 DEF PollList
<1>24. ASSUME NEW p \in Workers, PollSelect(p) PROVE ConfirmedIsDeleted'
  BY <1>24, DispatchEffect
<1>25. ASSUME NEW p \in Workers, PollStoreKey(p) PROVE ConfirmedIsDeleted'
  BY <1>25 DEF PollStoreKey
<1>26. ASSUME NEW p \in Workers, Reconcile(p) PROVE ConfirmedIsDeleted'
  BY <1>26 DEF Reconcile
<1>27. ASSUME NEW p \in Workers, Abort(p) PROVE ConfirmedIsDeleted'
  BY <1>27 DEF Abort
<1>28. ASSUME NEW c \in Calendars, OutlookEdit(c) PROVE ConfirmedIsDeleted'
  BY <1>28 DEF OutlookEdit
<1>29. CASE UNCHANGED vars
  BY <1>29 DEF vars
<1> QED
  BY <1>1, <1>2, <1>3, <1>4, <1>5, <1>6, <1>7, <1>8, <1>9, <1>10, <1>11, <1>12, <1>13, <1>14, <1>15, <1>16, <1>17, <1>18, <1>19, <1>20, <1>21, <1>22, <1>23, <1>24, <1>25, <1>26, <1>27, <1>28, <1>29, StepCases

-----------------------------------------------------------------------------
(* The theorems.                                                            *)

\* Every conjunct is preserved with the help of those on its left and of GoneInv.
IInv == /\ TypeOK /\ DrafterInv /\ PublishInv /\ GoneInv
        /\ GroupInv /\ OrphanInv /\ ConfirmedIsDeleted

\* It holds of the initial states.
LEMMA InitIInv == Init => IInv
<1> SUFFICES ASSUME Init PROVE IInv
  OBVIOUS
<1> USE Constants
<1>1. TypeOK
  BY InitTypes
<1>2. /\ \A p \in Workers : task[p].pc = "idle"
      /\ \A c \in Calendars : row[c] = "none" /\ item[c] = Gone /\ rowVersion[c] = 1
      /\ group = "none" /\ confirmed = {}
  BY DEF Init, StoreInit, IdleTask
<1>3. DrafterInv
  BY <1>2 DEF DrafterInv, Creating
<1>4. PublishInv
  BY <1>2 DEF PublishInv, Syncing
<1>5. GoneInv /\ GroupInv
  BY <1>2 DEF GoneInv, GroupInv, Deleting
<1>6. OrphanInv /\ ConfirmedIsDeleted
  BY <1>2 DEF OrphanInv, ConfirmedIsDeleted
<1> QED
  BY <1>1, <1>3, <1>4, <1>5, <1>6 DEF IInv

\* It holds in every reachable state.
THEOREM Inductive == Spec => []IInv
<1>1. Init => IInv
  BY InitIInv
<1>2. IInv /\ [Next]_vars => IInv'
  BY TypeStep, DrafterInvStep, PublishInvStep, GoneInvStep, GroupInvStep,
     OrphanInvStep, ConfirmedStep DEF IInv
<1> QED
  BY <1>1, <1>2, PTL DEF Spec

\* For any number of mirrors and tasks: a copy that the database calls deleted
\* is gone from Exchange unless its EWS deletion failed, whatever races with it.
THEOREM DeletionHolds == Spec => []DeletedRowsAreGone
<1>1. IInv => DeletedRowsAreGone
  BY DEF IInv, GoneInv, DeletedRowsAreGone
<1> QED
  BY <1>1, Inductive, PTL

\* No mirror ever shows a version that was not committed for the primary.
THEOREM NothingUncommitted == Spec => []MirrorsShowCommitted
<1>1. IInv => MirrorsShowCommitted
  BY Constants DEF IInv, PublishInv, MirrorsShowCommitted, Foreign, Gone, TypeOK, StoreTypeOK,
     Version, Content
<1> QED
  BY <1>1, Inductive, PTL

\* A group marked deleted has no live mirror row left.
THEOREM NothingLeftBehind == Spec => []DeletedGroupIsEmpty
<1>1. IInv => DeletedGroupIsEmpty
  BY DEF IInv, GroupInv, DeletedGroupIsEmpty, LiveMirrors
<1> QED
  BY <1>1, Inductive, PTL

\* What a client was told is deleted stays deleted in the database.
THEOREM ConfirmationHolds == Spec => []ConfirmedIsDeleted
<1>1. IInv => ConfirmedIsDeleted
  BY DEF IInv
<1> QED
  BY <1>1, Inductive, PTL

\* Without failures an item without a row belongs to a creation under way.
THEOREM OrphanFree == Spec => []NoOrphans
<1>1. IInv => NoOrphans
  BY DEF IInv, OrphanInv, NoOrphans
<1> QED
  BY <1>1, Inductive, PTL

-----------------------------------------------------------------------------
(* One task at a time: a single worker and an API that is not called while *)
(* it works.  What a task reads then stays true until it writes.           *)

OneWorker == \A p, q \in Workers : p = q

\* The rows and items of the live mirrors show the content of the primary row.
InStep == \A m \in LiveMirrors : /\ rowVersion[m] = rowVersion[Primary]
                                 /\ item[m] \in {rowVersion[m], Foreign, Gone}

\* Before the event is committed only its draft is anywhere.
DraftInv ==
  row[Primary] = "none" =>
    /\ published = {} /\ \A c \in Calendars : rowVersion[c] = 1
    /\ item[Primary] \in {1, Foreign, Gone}

\* The mirrors of an active group are in step unless a sync is under way or has died;
\* a sync under way works for the committed version and knows every live mirror.
MirrorInv ==
  /\ group = "active" /\ ~interrupted /\ (\A p \in Workers : task[p].pc \notin Syncing)
       => InStep
  /\ \A p \in Workers :
       /\ task[p].pc \in {"syncPrimary", "syncSelect"} => task[p].done = {}
       /\ task[p].pc \in {"syncSelect", "syncMirror"} => task[p].ver = rowVersion[Primary]
       /\ task[p].pc = "syncMirror" =>
            /\ ~task[p].failed => LiveMirrors \subseteq task[p].todo \cup task[p].done
            /\ \A m \in task[p].same : rowVersion[m] = task[p].ver
            /\ \A m \in task[p].done : item[m] \in {task[p].ver, Foreign, Gone}
            /\ \A m \in task[p].todo \cup task[p].done : row[m] # "none"

\* Between the EWS call and the commit of an update, and only then, the item of the
\* primary is ahead of its row.
PrimaryInv ==
  row[Primary] = "live" /\ faults = 0 =>
    /\ (\A p \in Workers : task[p].pc # "updateCommit")
         => item[Primary] \in {rowVersion[Primary], Foreign, Gone}
    /\ \A p \in Workers : task[p].pc = "updateCommit" =>
                             item[Primary] \in {task[p].ver, Foreign, Gone}

\* An item has a change key, and the poll that has seen none saw no item.
KeyInv ==
  /\ item[Primary] # Gone => changeKey > 0
  /\ \A p \in Workers : task[p].pc = "pollSelect" /\ shape = "plain" /\ task[p].key = 0
                          => item[Primary] = Gone

\* Where the dispatching steps come from; a sync they start has handled nothing.
LEMMA DispatchFrom ==
  ASSUME TypeOK, NEW p \in Workers, HandleExternalDelete(p) \/ Repair(p) \/ PollSelect(p)
  PROVE  /\ task[p].pc \in {"pollDeleted", "repair", "pollSelect"}
         /\ task'[p].pc = "syncPrimary" => task'[p].done = {}
<1>0. /\ IdleTask.pc = "idle" /\ DeleteTask(Primary).pc = "deleteItem"
  BY DEF DeleteTask, IdleTask
<1> USE DEF TypeOK, StoreTypeOK, At, Finish, Become
<1>1. CASE HandleExternalDelete(p)
  BY <1>0, <1>1 DEF HandleExternalDelete
<1>2. CASE Repair(p)
  <2>1. SyncTask(0, FALSE).pc = "syncPrimary" /\ SyncTask(0, FALSE).done = {}
    BY DEF SyncTask, IdleTask
  <2>2. task[p].pc = "repair"
        /\ (task'[p] = SyncTask(0, FALSE) \/ task'[p] = IdleTask)
    BY <1>2 DEF Repair
  <2> QED
    BY <1>0, <2>1, <2>2
<1>3. CASE PollSelect(p)
  <2>1. task[p].pc = "pollSelect"
    BY <1>3 DEF PollSelect
  <2>2. \/ task' = [task EXCEPT ![p] = IdleTask]
        \/ task' = [task EXCEPT ![p] = [task[p] EXCEPT !.pc = "pollDeleted"]]
        \/ task' = [task EXCEPT ![p] = SyncTask(task[p].key, TRUE)]
    BY <1>3 DEF PollSelect, Goto
  <2>3. [task[p] EXCEPT !.pc = "pollDeleted"].pc = "pollDeleted"
    BY DEF Task
  <2>4. SyncTask(task[p].key, TRUE).done = {}
    BY DEF SyncTask, IdleTask
  <2>5. \/ task'[p] = IdleTask \/ task'[p] = [task[p] EXCEPT !.pc = "pollDeleted"]
        \/ task'[p] = SyncTask(task[p].key, TRUE)
    BY <2>2
  <2> QED
    BY <1>0, <2>1, <2>3, <2>4, <2>5
<1> QED
  BY <1>1, <1>2, <1>3

\* A call on a mirror does not touch the change key of the primary.
LEMMA MirrorCallKey ==
  ASSUME TypeOK, NEW p \in Workers, NEW m \in Mirrors, CreateMirror(p, m) \/ SyncMirror(p, m)
  PROVE  changeKey' = changeKey
BY Constants DEF CreateMirror, SyncMirror, CreateOk, CreateFails, UpdateOk, UpdateFails,
   CallSucceeds, ConnectionFails, ItemNotFound, Write, exchange

\* What a sync notes of one mirror.
LEMMA SyncMirrorNotes ==
  ASSUME TypeOK, NEW p \in Workers, NEW m \in Mirrors, SyncMirror(p, m)
  PROVE  /\ task'[p].same = task[p].same
         /\ m \in task[p].todo /\ task'[p].todo = task[p].todo \ {m}
         /\ \/ /\ task'[p].done = task[p].done \cup {m} /\ task'[p].failed = task[p].failed
               /\ item'[m] = task[p].ver
            \/ task'[p].done = task[p].done /\ task'[p].failed
<1> USE Constants DEF TypeOK, StoreTypeOK, At, Become
<1>0. task[p].ver \in Content /\ m \in Calendars /\ task[p] \in Task
  BY DEF Task
<1>1. CASE UpdateOk(m, task[p].ver)
           /\ Become(p, [task[p] EXCEPT !.todo = @ \ {m}, !.done = @ \cup {m}])
  BY <1>0, <1>1, CallEffect DEF SyncMirror, UpdateOk, Task
<1>2. CASE UpdateFails(m, task[p].ver)
           /\ Become(p, [task[p] EXCEPT !.todo = @ \ {m}, !.failed = TRUE])
  BY <1>0, <1>2 DEF SyncMirror, Task
<1> QED
  BY <1>1, <1>2 DEF SyncMirror

\* Every step preserves these parts, too.
LEMMA DraftInvStep ==
  ASSUME OneWorker, TypeOK, DrafterInv, PublishInv, DraftInv, [Next]_vars
  PROVE  DraftInv'
<1> USE Constants DEF OneWorker, TypeOK, StoreTypeOK, Task, IdleTask, Idle, At, Become, Finish, Goto, SyncTask, DeleteTask, Creating, Write, CallSucceeds, ConnectionFails, ItemNotFound, CreateOk, CreateFails, UpdateOk, UpdateFails, DeleteItem, database, exchange, history, Gone, Foreign, Version, DrafterInv, Syncing, PublishInv, DraftInv
<1>1. ASSUME NEW p \in Workers, StartCreate(p) PROVE DraftInv'
  BY <1>1 DEF StartCreate
<1>2. ASSUME NEW p \in Workers, CreatePrimary(p) PROVE DraftInv'
  BY <1>2 DEF CreatePrimary
<1>3. ASSUME NEW p \in Workers, CreatePrimaryFails(p) PROVE DraftInv'
  BY <1>3 DEF CreatePrimaryFails
<1>4. ASSUME NEW p \in Workers, NEW m \in Mirrors, CreateMirror(p, m) PROVE DraftInv'
  <2>1. UNCHANGED <<row, rowVersion, published>>
    BY <1>4, CreateMirrorEffect
  <2>2. item'[Primary] = item[Primary]
    BY <1>4, CreateMirrorEffect
  <2> QED
    BY <2>1, <2>2
<1>5. ASSUME NEW p \in Workers, CreateCommit(p) PROVE DraftInv'
  BY <1>5 DEF CreateCommit
<1>6. ASSUME NEW p \in Workers, StartUpdate(p) PROVE DraftInv'
  BY <1>6 DEF StartUpdate
<1>7. ASSUME NEW p \in Workers, UpdatePrimary(p) PROVE DraftInv'
  BY <1>7 DEF UpdatePrimary
<1>8. ASSUME NEW p \in Workers, UpdateCommit(p) PROVE DraftInv'
  BY <1>8 DEF UpdateCommit
<1>9. ASSUME NEW p \in Workers, NEW t \in Calendars, StartDelete(p, t) PROVE DraftInv'
  BY <1>9 DEF StartDelete
<1>10. ASSUME NEW p \in Workers, NEW t \in Calendars, DeleteNothing(p, t) PROVE DraftInv'
  BY <1>10 DEF DeleteNothing
<1>11. ASSUME NEW p \in Workers, DeleteTarget(p) PROVE DraftInv'
  BY <1>11 DEF DeleteTarget
<1>12. ASSUME NEW p \in Workers, DeleteSelectMirrors(p) PROVE DraftInv'
  BY <1>12 DEF DeleteSelectMirrors
<1>13. ASSUME NEW p \in Workers, NEW m \in Mirrors, DeleteMirror(p, m) PROVE DraftInv'
  BY <1>13 DEF DeleteMirror
<1>14. ASSUME NEW p \in Workers, DeleteCommit(p) PROVE DraftInv'
  BY <1>14 DEF DeleteCommit
<1>15. ASSUME NEW p \in Workers, HandleExternalDelete(p) PROVE DraftInv'
  BY <1>15, DispatchEffect
<1>16. ASSUME NEW p \in Workers, NEW t \in Calendars, StartFallback(p, t) PROVE DraftInv'
  BY <1>16 DEF StartFallback
<1>17. ASSUME NEW p \in Workers, Fallback(p) PROVE DraftInv'
  BY <1>17 DEF Fallback
<1>18. ASSUME NEW p \in Workers, SyncReadPrimary(p) PROVE DraftInv'
  BY <1>18 DEF SyncReadPrimary
<1>19. ASSUME NEW p \in Workers, SyncSelectMirrors(p) PROVE DraftInv'
  BY <1>19 DEF SyncSelectMirrors
<1>20. ASSUME NEW p \in Workers, NEW m \in Mirrors, SyncMirror(p, m) PROVE DraftInv'
  BY <1>20, SyncMirrorEffect
<1>21. ASSUME NEW p \in Workers, SyncCommit(p) PROVE DraftInv'
  BY <1>21 DEF SyncCommit
<1>22. ASSUME NEW p \in Workers, Repair(p) PROVE DraftInv'
  BY <1>22, DispatchEffect
<1>23. ASSUME NEW p \in Workers, PollList(p) PROVE DraftInv'
  BY <1>23 DEF PollList
<1>24. ASSUME NEW p \in Workers, PollSelect(p) PROVE DraftInv'
  BY <1>24, DispatchEffect
<1>25. ASSUME NEW p \in Workers, PollStoreKey(p) PROVE DraftInv'
  BY <1>25 DEF PollStoreKey
<1>26. ASSUME NEW p \in Workers, Reconcile(p) PROVE DraftInv'
  BY <1>26 DEF Reconcile
<1>27. ASSUME NEW p \in Workers, Abort(p) PROVE DraftInv'
  BY <1>27 DEF Abort
<1>28. ASSUME NEW c \in Calendars, OutlookEdit(c) PROVE DraftInv'
  BY <1>28 DEF OutlookEdit
<1>29. CASE UNCHANGED vars
  BY <1>29 DEF vars
<1> QED
  BY <1>1, <1>2, <1>3, <1>4, <1>5, <1>6, <1>7, <1>8, <1>9, <1>10, <1>11, <1>12, <1>13, <1>14, <1>15, <1>16, <1>17, <1>18, <1>19, <1>20, <1>21, <1>22, <1>23, <1>24, <1>25, <1>26, <1>27, <1>28, <1>29, StepCases

\* The mirrors stay in step.
LEMMA MirrorInvStep ==
  ASSUME OneWorker, TypeOK, DrafterInv, PublishInv, DraftInv, MirrorInv, [Next]_vars
  PROVE  MirrorInv'
<1> USE Constants DEF OneWorker, TypeOK, StoreTypeOK, Task, IdleTask, Idle, At, Become, Finish, Goto, SyncTask, DeleteTask, Creating, Write, CallSucceeds, ConnectionFails, ItemNotFound, CreateOk, CreateFails, UpdateOk, UpdateFails, DeleteItem, database, exchange, history, Gone, Foreign, Version, DrafterInv, Syncing, PublishInv, DraftInv, InStep, LiveMirrors, MirrorInv
<1>1. ASSUME NEW p \in Workers, StartCreate(p) PROVE MirrorInv'
  BY <1>1 DEF StartCreate
<1>2. ASSUME NEW p \in Workers, CreatePrimary(p) PROVE MirrorInv'
  BY <1>2 DEF CreatePrimary
<1>3. ASSUME NEW p \in Workers, CreatePrimaryFails(p) PROVE MirrorInv'
  BY <1>3 DEF CreatePrimaryFails
<1>4. ASSUME NEW p \in Workers, NEW m \in Mirrors, CreateMirror(p, m) PROVE MirrorInv'
  BY <1>4, CreateMirrorEffect
<1>5. ASSUME NEW p \in Workers, CreateCommit(p) PROVE MirrorInv'
  <2>1. /\ \A c \in Calendars : row[c] = "none" /\ rowVersion[c] = 1
        /\ \A m \in Mirrors : item[m] \in {1, Foreign, Gone}
    BY <1>5 DEF CreateCommit
  <2>2. UNCHANGED <<rowVersion, item>>
    BY <1>5 DEF CreateCommit
  <2>3. InStep'
    BY <2>1, <2>2
  <2>4. \A q \in Workers : task'[q].pc = "idle"
    BY <1>5 DEF CreateCommit
  <2> QED
    BY <2>3, <2>4
<1>6. ASSUME NEW p \in Workers, StartUpdate(p) PROVE MirrorInv'
  BY <1>6 DEF StartUpdate
<1>7. ASSUME NEW p \in Workers, UpdatePrimary(p) PROVE MirrorInv'
  BY <1>7 DEF UpdatePrimary
<1>8. ASSUME NEW p \in Workers, UpdateCommit(p) PROVE MirrorInv'
  BY <1>8 DEF UpdateCommit
<1>9. ASSUME NEW p \in Workers, NEW t \in Calendars, StartDelete(p, t) PROVE MirrorInv'
  BY <1>9 DEF StartDelete
<1>10. ASSUME NEW p \in Workers, NEW t \in Calendars, DeleteNothing(p, t) PROVE MirrorInv'
  BY <1>10 DEF DeleteNothing
<1>11. ASSUME NEW p \in Workers, DeleteTarget(p) PROVE MirrorInv'
  BY <1>11 DEF DeleteTarget
<1>12. ASSUME NEW p \in Workers, DeleteSelectMirrors(p) PROVE MirrorInv'
  BY <1>12 DEF DeleteSelectMirrors
<1>13. ASSUME NEW p \in Workers, NEW m \in Mirrors, DeleteMirror(p, m) PROVE MirrorInv'
  BY <1>13 DEF DeleteMirror
<1>14. ASSUME NEW p \in Workers, DeleteCommit(p) PROVE MirrorInv'
  BY <1>14 DEF DeleteCommit
<1>15. ASSUME NEW p \in Workers, HandleExternalDelete(p) PROVE MirrorInv'
  BY <1>15, DispatchEffect, DispatchFrom
<1>16. ASSUME NEW p \in Workers, NEW t \in Calendars, StartFallback(p, t) PROVE MirrorInv'
  BY <1>16 DEF StartFallback
<1>17. ASSUME NEW p \in Workers, Fallback(p) PROVE MirrorInv'
  BY <1>17 DEF Fallback
<1>18. ASSUME NEW p \in Workers, SyncReadPrimary(p) PROVE MirrorInv'
  BY <1>18 DEF SyncReadPrimary
<1>19. ASSUME NEW p \in Workers, SyncSelectMirrors(p) PROVE MirrorInv'
  <2>1. /\ task'[p].pc = "syncMirror" /\ task'[p].ver = task[p].ver
        /\ task'[p].todo = LiveMirrors /\ task'[p].done = task[p].done
        /\ task'[p].same = {m \in LiveMirrors : rowVersion[m] = task[p].ver}
    BY <1>19 DEF SyncSelectMirrors
  <2>2. UNCHANGED <<row, rowVersion, group, item, interrupted>> /\ task[p].pc = "syncSelect"
    BY <1>19 DEF SyncSelectMirrors
  <2> QED
    BY <2>1, <2>2
<1>20. ASSUME NEW p \in Workers, NEW m \in Mirrors, SyncMirror(p, m) PROVE MirrorInv'
  BY <1>20, SyncMirrorEffect, SyncMirrorNotes
<1>21. ASSUME NEW p \in Workers, SyncCommit(p) PROVE MirrorInv'
  BY <1>21 DEF SyncCommit
<1>22. ASSUME NEW p \in Workers, Repair(p) PROVE MirrorInv'
  BY <1>22, DispatchEffect, DispatchFrom
<1>23. ASSUME NEW p \in Workers, PollList(p) PROVE MirrorInv'
  BY <1>23 DEF PollList
<1>24. ASSUME NEW p \in Workers, PollSelect(p) PROVE MirrorInv'
  BY <1>24, DispatchEffect, DispatchFrom
<1>25. ASSUME NEW p \in Workers, PollStoreKey(p) PROVE MirrorInv'
  BY <1>25 DEF PollStoreKey
<1>26. ASSUME NEW p \in Workers, Reconcile(p) PROVE MirrorInv'
  BY <1>26 DEF Reconcile
<1>27. ASSUME NEW p \in Workers, Abort(p) PROVE MirrorInv'
  BY <1>27 DEF Abort
<1>28. ASSUME NEW c \in Calendars, OutlookEdit(c) PROVE MirrorInv'
  BY <1>28 DEF OutlookEdit
<1>29. CASE UNCHANGED vars
  BY <1>29 DEF vars
<1> QED
  BY <1>1, <1>2, <1>3, <1>4, <1>5, <1>6, <1>7, <1>8, <1>9, <1>10, <1>11, <1>12, <1>13, <1>14, <1>15, <1>16, <1>17, <1>18, <1>19, <1>20, <1>21, <1>22, <1>23, <1>24, <1>25, <1>26, <1>27, <1>28, <1>29, StepCases

\* The primary stays ahead of its row for one step at most.
LEMMA PrimaryInvStep ==
  ASSUME OneWorker, TypeOK, DrafterInv, PublishInv, DraftInv, PrimaryInv, [Next]_vars
  PROVE  PrimaryInv'
<1> USE Constants DEF OneWorker, TypeOK, StoreTypeOK, Task, IdleTask, Idle, At, Become, Finish, Goto, SyncTask, DeleteTask, Creating, Write, CallSucceeds, ConnectionFails, ItemNotFound, CreateOk, CreateFails, UpdateOk, UpdateFails, DeleteItem, database, exchange, history, Gone, Foreign, Version, DrafterInv, Syncing, PublishInv, DraftInv, PrimaryInv
<1>1. ASSUME NEW p \in Workers, StartCreate(p) PROVE PrimaryInv'
  BY <1>1 DEF StartCreate
<1>2. ASSUME NEW p \in Workers, CreatePrimary(p) PROVE PrimaryInv'
  BY <1>2 DEF CreatePrimary
<1>3. ASSUME NEW p \in Workers, CreatePrimaryFails(p) PROVE PrimaryInv'
  BY <1>3 DEF CreatePrimaryFails
<1>4. ASSUME NEW p \in Workers, NEW m \in Mirrors, CreateMirror(p, m) PROVE PrimaryInv'
  BY <1>4, CreateMirrorEffect
<1>5. ASSUME NEW p \in Workers, CreateCommit(p) PROVE PrimaryInv'
  BY <1>5 DEF CreateCommit
<1>6. ASSUME NEW p \in Workers, StartUpdate(p) PROVE PrimaryInv'
  BY <1>6 DEF StartUpdate
<1>7. ASSUME NEW p \in Workers, UpdatePrimary(p) PROVE PrimaryInv'
  BY <1>7 DEF UpdatePrimary
<1>8. ASSUME NEW p \in Workers, UpdateCommit(p) PROVE PrimaryInv'
  BY <1>8 DEF UpdateCommit
<1>9. ASSUME NEW p \in Workers, NEW t \in Calendars, StartDelete(p, t) PROVE PrimaryInv'
  BY <1>9 DEF StartDelete
<1>10. ASSUME NEW p \in Workers, NEW t \in Calendars, DeleteNothing(p, t) PROVE PrimaryInv'
  BY <1>10 DEF DeleteNothing
<1>11. ASSUME NEW p \in Workers, DeleteTarget(p) PROVE PrimaryInv'
  BY <1>11 DEF DeleteTarget
<1>12. ASSUME NEW p \in Workers, DeleteSelectMirrors(p) PROVE PrimaryInv'
  BY <1>12 DEF DeleteSelectMirrors
<1>13. ASSUME NEW p \in Workers, NEW m \in Mirrors, DeleteMirror(p, m) PROVE PrimaryInv'
  BY <1>13 DEF DeleteMirror
<1>14. ASSUME NEW p \in Workers, DeleteCommit(p) PROVE PrimaryInv'
  BY <1>14 DEF DeleteCommit
<1>15. ASSUME NEW p \in Workers, HandleExternalDelete(p) PROVE PrimaryInv'
  BY <1>15, DispatchEffect, DispatchFrom
<1>16. ASSUME NEW p \in Workers, NEW t \in Calendars, StartFallback(p, t) PROVE PrimaryInv'
  BY <1>16 DEF StartFallback
<1>17. ASSUME NEW p \in Workers, Fallback(p) PROVE PrimaryInv'
  BY <1>17 DEF Fallback
<1>18. ASSUME NEW p \in Workers, SyncReadPrimary(p) PROVE PrimaryInv'
  BY <1>18 DEF SyncReadPrimary
<1>19. ASSUME NEW p \in Workers, SyncSelectMirrors(p) PROVE PrimaryInv'
  BY <1>19 DEF SyncSelectMirrors
<1>20. ASSUME NEW p \in Workers, NEW m \in Mirrors, SyncMirror(p, m) PROVE PrimaryInv'
  BY <1>20, SyncMirrorEffect
<1>21. ASSUME NEW p \in Workers, SyncCommit(p) PROVE PrimaryInv'
  BY <1>21 DEF SyncCommit
<1>22. ASSUME NEW p \in Workers, Repair(p) PROVE PrimaryInv'
  BY <1>22, DispatchEffect, DispatchFrom
<1>23. ASSUME NEW p \in Workers, PollList(p) PROVE PrimaryInv'
  BY <1>23 DEF PollList
<1>24. ASSUME NEW p \in Workers, PollSelect(p) PROVE PrimaryInv'
  BY <1>24, DispatchEffect, DispatchFrom
<1>25. ASSUME NEW p \in Workers, PollStoreKey(p) PROVE PrimaryInv'
  BY <1>25 DEF PollStoreKey
<1>26. ASSUME NEW p \in Workers, Reconcile(p) PROVE PrimaryInv'
  BY <1>26 DEF Reconcile
<1>27. ASSUME NEW p \in Workers, Abort(p) PROVE PrimaryInv'
  BY <1>27 DEF Abort
<1>28. ASSUME NEW c \in Calendars, OutlookEdit(c) PROVE PrimaryInv'
  BY <1>28 DEF OutlookEdit
<1>29. CASE UNCHANGED vars
  BY <1>29 DEF vars
<1> QED
  BY <1>1, <1>2, <1>3, <1>4, <1>5, <1>6, <1>7, <1>8, <1>9, <1>10, <1>11, <1>12, <1>13, <1>14, <1>15, <1>16, <1>17, <1>18, <1>19, <1>20, <1>21, <1>22, <1>23, <1>24, <1>25, <1>26, <1>27, <1>28, <1>29, StepCases

\* The poll still knows what it saw.
LEMMA KeyInvStep ==
  ASSUME OneWorker, TypeOK, DrafterInv, KeyInv, [Next]_vars
  PROVE  KeyInv'
<1> USE Constants DEF OneWorker, TypeOK, StoreTypeOK, Task, IdleTask, Idle, At, Become, Finish, Goto, SyncTask, DeleteTask, Creating, Write, CallSucceeds, ConnectionFails, ItemNotFound, CreateOk, CreateFails, UpdateOk, UpdateFails, DeleteItem, database, exchange, history, Gone, Foreign, Version, DrafterInv, Syncing, KeyInv
<1>1. ASSUME NEW p \in Workers, StartCreate(p) PROVE KeyInv'
  BY <1>1 DEF StartCreate
<1>2. ASSUME NEW p \in Workers, CreatePrimary(p) PROVE KeyInv'
  BY <1>2 DEF CreatePrimary
<1>3. ASSUME NEW p \in Workers, CreatePrimaryFails(p) PROVE KeyInv'
  BY <1>3 DEF CreatePrimaryFails
<1>4. ASSUME NEW p \in Workers, NEW m \in Mirrors, CreateMirror(p, m) PROVE KeyInv'
  BY <1>4, CreateMirrorEffect, MirrorCallKey
<1>5. ASSUME NEW p \in Workers, CreateCommit(p) PROVE KeyInv'
  BY <1>5 DEF CreateCommit
<1>6. ASSUME NEW p \in Workers, StartUpdate(p) PROVE KeyInv'
  BY <1>6 DEF StartUpdate
<1>7. ASSUME NEW p \in Workers, UpdatePrimary(p) PROVE KeyInv'
  BY <1>7 DEF UpdatePrimary
<1>8. ASSUME NEW p \in Workers, UpdateCommit(p) PROVE KeyInv'
  BY <1>8 DEF UpdateCommit
<1>9. ASSUME NEW p \in Workers, NEW t \in Calendars, StartDelete(p, t) PROVE KeyInv'
  BY <1>9 DEF StartDelete
<1>10. ASSUME NEW p \in Workers, NEW t \in Calendars, DeleteNothing(p, t) PROVE KeyInv'
  BY <1>10 DEF DeleteNothing
<1>11. ASSUME NEW p \in Workers, DeleteTarget(p) PROVE KeyInv'
  BY <1>11 DEF DeleteTarget
<1>12. ASSUME NEW p \in Workers, DeleteSelectMirrors(p) PROVE KeyInv'
  BY <1>12 DEF DeleteSelectMirrors
<1>13. ASSUME NEW p \in Workers, NEW m \in Mirrors, DeleteMirror(p, m) PROVE KeyInv'
  BY <1>13 DEF DeleteMirror
<1>14. ASSUME NEW p \in Workers, DeleteCommit(p) PROVE KeyInv'
  BY <1>14 DEF DeleteCommit
<1>15. ASSUME NEW p \in Workers, HandleExternalDelete(p) PROVE KeyInv'
  BY <1>15, DispatchEffect, DispatchFrom
<1>16. ASSUME NEW p \in Workers, NEW t \in Calendars, StartFallback(p, t) PROVE KeyInv'
  BY <1>16 DEF StartFallback
<1>17. ASSUME NEW p \in Workers, Fallback(p) PROVE KeyInv'
  BY <1>17 DEF Fallback
<1>18. ASSUME NEW p \in Workers, SyncReadPrimary(p) PROVE KeyInv'
  BY <1>18 DEF SyncReadPrimary
<1>19. ASSUME NEW p \in Workers, SyncSelectMirrors(p) PROVE KeyInv'
  BY <1>19 DEF SyncSelectMirrors
<1>20. ASSUME NEW p \in Workers, NEW m \in Mirrors, SyncMirror(p, m) PROVE KeyInv'
  BY <1>20, SyncMirrorEffect, MirrorCallKey
<1>21. ASSUME NEW p \in Workers, SyncCommit(p) PROVE KeyInv'
  BY <1>21 DEF SyncCommit
<1>22. ASSUME NEW p \in Workers, Repair(p) PROVE KeyInv'
  BY <1>22, DispatchEffect, DispatchFrom
<1>23. ASSUME NEW p \in Workers, PollList(p) PROVE KeyInv'
  <2>1. UNCHANGED <<item, changeKey, shape>>
    BY <1>23 DEF PollList
  <2>2. task'[p].key = IF InView THEN changeKey ELSE 0
    BY <1>23 DEF PollList
  <2> QED
    BY <2>1, <2>2 DEF InView
<1>24. ASSUME NEW p \in Workers, PollSelect(p) PROVE KeyInv'
  BY <1>24, DispatchEffect, DispatchFrom
<1>25. ASSUME NEW p \in Workers, PollStoreKey(p) PROVE KeyInv'
  BY <1>25 DEF PollStoreKey
<1>26. ASSUME NEW p \in Workers, Reconcile(p) PROVE KeyInv'
  BY <1>26 DEF Reconcile
<1>27. ASSUME NEW p \in Workers, Abort(p) PROVE KeyInv'
  BY <1>27 DEF Abort
<1>28. ASSUME NEW c \in Calendars, OutlookEdit(c) PROVE KeyInv'
  BY <1>28 DEF OutlookEdit
<1>29. CASE UNCHANGED vars
  BY <1>29 DEF vars
<1> QED
  BY <1>1, <1>2, <1>3, <1>4, <1>5, <1>6, <1>7, <1>8, <1>9, <1>10, <1>11, <1>12, <1>13, <1>14, <1>15, <1>16, <1>17, <1>18, <1>19, <1>20, <1>21, <1>22, <1>23, <1>24, <1>25, <1>26, <1>27, <1>28, <1>29, StepCases

\* The parts together, with the invariant of any number of tasks.
SoloInv == IInv /\ DraftInv /\ MirrorInv /\ PrimaryInv /\ KeyInv

\* With one task at a time they hold in every reachable state.
THEOREM SoloInductive == ASSUME OneWorker PROVE Spec => []SoloInv
<1>1. Init => SoloInv
  <2> SUFFICES ASSUME Init PROVE SoloInv
    OBVIOUS
  <2>1. /\ \A p \in Workers : task[p].pc = "idle"
        /\ \A c \in Calendars : row[c] = "none" /\ item[c] = Gone /\ rowVersion[c] = 1
        /\ group = "none" /\ published = {}
    BY DEF Init, StoreInit, IdleTask
  <2>2. DraftInv /\ PrimaryInv /\ KeyInv
    BY <2>1, Constants DEF DraftInv, PrimaryInv, KeyInv
  <2>3. MirrorInv
    BY <2>1 DEF MirrorInv
  <2> QED
    BY <2>2, <2>3, InitIInv DEF SoloInv
<1>2. SoloInv /\ [Next]_vars => SoloInv'
  <2> SUFFICES ASSUME SoloInv, [Next]_vars PROVE SoloInv'
    OBVIOUS
  <2>1. IInv'
    BY TypeStep, DrafterInvStep, PublishInvStep, GoneInvStep, GroupInvStep,
       OrphanInvStep, ConfirmedStep DEF IInv, SoloInv
  <2> QED
    BY <2>1, DraftInvStep, MirrorInvStep, PrimaryInvStep, KeyInvStep DEF SoloInv, IInv
<1> QED
  BY <1>1, <1>2, PTL DEF Spec

\* Between tasks an active group has the content of the primary row in every live
\* mirror, unless a sync has died since the last complete one.
THEOREM ActiveHolds == ASSUME OneWorker PROVE Spec => []ActiveMeansMirrored
<1>1. SoloInv => ActiveMeansMirrored
  BY DEF SoloInv, MirrorInv, ActiveMeansMirrored, InStep, Idle, IdleTask, Syncing
<1> QED
  BY <1>1, SoloInductive, PTL

\* Between tasks the item of the primary has the content of its row, as long as no
\* call has failed.
THEOREM PrimaryHolds == ASSUME OneWorker PROVE Spec => []PrimaryAgrees
<1>1. SoloInv => PrimaryAgrees
  BY DEF SoloInv, PrimaryInv, PrimaryAgrees, Idle, IdleTask
<1> QED
  BY <1>1, SoloInductive, PTL

\* No other step of the one worker leads from the selection to the deletion.
LEMMA OnlyPollSelect ==
  ASSUME OneWorker, TypeOK, [Next]_vars, NEW p \in Workers,
         task[p].pc = "pollSelect", task'[p].pc = "pollDeleted"
  PROVE  PollSelect(p)
<1>1. /\ \A q \in Workers : q = p
      /\ task' # task
  BY DEF OneWorker
<1>2. ~Abort(p)
  BY DEF Abort, Finish, Become, IdleTask, TypeOK, StoreTypeOK
<1>3. ~Idle(p)
  BY DEF Idle, IdleTask
<1> USE DEF At, vars
<1>4. ~(CreatePrimary(p) \/ CreatePrimaryFails(p) \/ CreateCommit(p) \/ UpdatePrimary(p)
        \/ UpdateCommit(p) \/ DeleteTarget(p) \/ DeleteSelectMirrors(p) \/ DeleteCommit(p)
        \/ HandleExternalDelete(p) \/ Fallback(p))
  BY DEF CreatePrimary, CreatePrimaryFails, CreateCommit, UpdatePrimary, UpdateCommit,
     DeleteTarget, DeleteSelectMirrors, DeleteCommit, HandleExternalDelete, Fallback
<1>5. ~(SyncReadPrimary(p) \/ SyncSelectMirrors(p) \/ SyncCommit(p) \/ Repair(p)
        \/ PollStoreKey(p))
  BY DEF SyncReadPrimary, SyncSelectMirrors, SyncCommit, Repair, PollStoreKey
<1>6. \A m \in Mirrors : ~CreateMirror(p, m) /\ ~DeleteMirror(p, m) /\ ~SyncMirror(p, m)
  BY DEF CreateMirror, DeleteMirror, SyncMirror
<1>7. ~(StartCreate(p) \/ StartUpdate(p) \/ PollList(p) \/ Reconcile(p))
      /\ \A t \in Calendars : ~StartDelete(p, t) /\ ~DeleteNothing(p, t) /\ ~StartFallback(p, t)
  BY <1>3 DEF StartCreate, StartUpdate, PollList, Reconcile, StartDelete, DeleteNothing,
     StartFallback
<1>8. ~(\E c \in Calendars : OutlookEdit(c)) /\ ~UNCHANGED vars
  BY <1>1 DEF OutlookEdit
<1> QED
  BY <1>1, <1>2, <1>4, <1>5, <1>6, <1>7, <1>8, StepCases

\* The poll takes a plain event for deleted only when its item is gone.
THEOREM PollIsRight == ASSUME OneWorker PROVE Spec => PollDeletesOnlyMissing
<1>1. ASSUME SoloInv, [Next]_vars, NEW p \in Workers,
             shape = "plain", At(p, "pollSelect"), task'[p].pc = "pollDeleted"
      PROVE  item[Primary] = Gone
  <2>1. PollSelect(p)
    BY <1>1, OnlyPollSelect DEF SoloInv, IInv, At
  <2>2. row[Primary] = "live" /\ task[p].key = 0
    <3>1. task \in [Workers -> Task]
      BY <1>1 DEF SoloInv, IInv, TypeOK, StoreTypeOK
    <3>2. \/ row[Primary] = "live" /\ task[p].key = 0
          \/ task' = [task EXCEPT ![p] = IdleTask]
          \/ task' = [task EXCEPT ![p] = SyncTask(task[p].key, TRUE)]
      BY <2>1 DEF PollSelect, Finish, Become
    <3>3. IdleTask.pc = "idle" /\ SyncTask(task[p].key, TRUE).pc = "syncPrimary"
      BY DEF SyncTask, IdleTask
    <3> QED
      BY <1>1, <3>1, <3>2, <3>3
  <2> QED
    BY <1>1, <2>2 DEF SoloInv, KeyInv, At
<1>2. SoloInv /\ [Next]_vars =>
        [\A p \in Workers : shape = "plain" /\ At(p, "pollSelect") /\ task'[p].pc = "pollDeleted"
            => item[Primary] = Gone]_vars
  BY <1>1
<1> QED
  BY <1>2, SoloInductive, PTL DEF Spec, PollDeletesOnlyMissing
============================================================================
