---------------------------- MODULE SyncRefinementProofs --------------------
(***************************************************************************)
(* SyncSystem implements MirroredEvent, for any set of mirrors, any number *)
(* of tasks at once and any bounds.                                        *)
(***************************************************************************)
EXTENDS SyncProofs

-----------------------------------------------------------------------------
(* The system implements MirroredEvent.                                     *)

\* The initial states are those of the contract.
LEMMA InitMaps == Init => Contract!Init
BY Constants DEF Init, StoreInit, Contract!Init, Contract!Gone, Gone

\* What one call on one calendar does to what the mirrors show.
LEMMA GoneMaps ==
  ASSUME TypeOK, NEW c \in Calendars, UNCHANGED <<row, published>>,
         \A d \in Calendars : d # c => item'[d] = item[d],
         item'[c] \in {item[c], Gone}
  PROVE  [Contract!Next]_(Contract!vars)
<1> USE Constants DEF TypeOK, StoreTypeOK
<1>1. CASE c = Primary \/ item'[c] = item[c]
  BY <1>1 DEF Contract!vars
<1>2. CASE c \in Mirrors /\ item'[c] = Gone
  <2>1. Contract!Vanish(c)
    BY <1>2 DEF Contract!Vanish, Contract!Gone, Gone
  <2> QED
    BY <1>2, <2>1 DEF Contract!Next
<1> QED
  BY <1>1, <1>2 DEF Calendars

\* A deletion touches one item and leaves it or removes it.
LEMMA DeleteItemEffect ==
  ASSUME TypeOK, NEW c \in Calendars, DeleteItem(c)
  PROVE  /\ \A d \in Calendars : d # c => item'[d] = item[d]
         /\ item'[c] \in {item[c], Gone}
BY Constants, CallEffect DEF DeleteItem

\* Every step is one of the contract or changes nothing it speaks of.
LEMMA StepMaps == IInv /\ [Next]_vars => [Contract!Next]_(Contract!vars)
<1> SUFFICES ASSUME IInv, [Next]_vars PROVE [Contract!Next]_(Contract!vars)
  OBVIOUS
<1> USE Constants DEF IInv, TypeOK, StoreTypeOK
<1>1. ASSUME UNCHANGED <<row, published>>, \A m \in Mirrors : item'[m] = item[m]
      PROVE  UNCHANGED Contract!vars
  BY <1>1 DEF Contract!vars
<1>2. ASSUME NEW p \in Workers, CreatePrimary(p) \/ CreatePrimaryFails(p) \/ UpdatePrimary(p)
      PROVE  UNCHANGED Contract!vars
  <2>1. PICK x \in Content :
          CallSucceeds(Primary, x) \/ ConnectionFails(Primary, x) \/ ItemNotFound(Primary)
    <3>1. task[p].ver \in Content
      BY DEF Task
    <3>2. CASE CreatePrimary(p)
      BY <3>2 DEF CreatePrimary, CreateOk
    <3>3. CASE CreatePrimaryFails(p)
      BY <3>3 DEF CreatePrimaryFails, CreateFails
    <3>4. CASE UpdatePrimary(p)
      BY <3>1, <3>4 DEF UpdatePrimary, UpdateOk, UpdateFails
    <3> QED
      BY <1>2, <3>2, <3>3, <3>4
  <2>2. \A d \in Calendars : d # Primary => item'[d] = item[d]
    BY <2>1, CallEffect
  <2>3. UNCHANGED <<row, published>>
    <3>1. CASE CreatePrimary(p)
      BY <3>1 DEF CreatePrimary, database, history
    <3>2. CASE CreatePrimaryFails(p)
      BY <3>2 DEF CreatePrimaryFails, database, history
    <3>3. CASE UpdatePrimary(p)
      BY <3>3 DEF UpdatePrimary, database, history
    <3> QED
      BY <1>2, <3>1, <3>2, <3>3
  <2> QED
    BY <1>1, <2>2, <2>3
<1>3. ASSUME NEW p \in Workers, NEW m \in Mirrors, CreateMirror(p, m)
      PROVE  [Contract!Next]_(Contract!vars)
  <2>1. row[Primary] = "none" /\ UNCHANGED <<row, published>>
    BY <1>3, CreateMirrorEffect DEF DrafterInv, Creating, database, history
  <2>2. CASE item'[m] = item[m]
    BY <1>1, <1>3, <2>1, <2>2, CreateMirrorEffect
  <2>3. CASE item'[m] = 1
    <3>1. [n \in Mirrors |-> item'[n]] = [[n \in Mirrors |-> item[n]] EXCEPT ![m] = 1]
      BY <1>3, <2>3, CreateMirrorEffect
    <3>2. Contract!Appear(m)
      BY <2>1, <3>1 DEF Contract!Appear, Contract!Draft
    <3> QED
      BY <3>2 DEF Contract!Next
  <2> QED
    BY <1>3, <2>2, <2>3, CreateMirrorEffect
<1>4. ASSUME NEW p \in Workers, CreateCommit(p) PROVE Contract!GoLive
  BY <1>4 DEF CreateCommit, At, DrafterInv, Creating, Contract!GoLive, Contract!Draft, exchange
<1>5. ASSUME NEW p \in Workers, UpdateCommit(p) PROVE Contract!Next
  <2>1. task[p].ver \in Contract!Version /\ row[Primary] # "none"
    BY <1>5 DEF UpdateCommit, At, PublishInv, Task, Version, Contract!Version
  <2>2. Contract!Publish(task[p].ver)
    BY <1>5, <2>1 DEF UpdateCommit, Contract!Publish, exchange
  <2> QED
    BY <2>1, <2>2 DEF Contract!Next
<1>6. ASSUME NEW p \in Workers, NEW m \in Mirrors, SyncMirror(p, m)
      PROVE  [Contract!Next]_(Contract!vars)
  <2>1. task[p].ver \in published /\ UNCHANGED <<row, published>>
    BY <1>6, SyncMirrorEffect DEF PublishInv, Syncing, database, history
  <2>2. CASE item'[m] = item[m]
    BY <1>1, <1>6, <2>1, <2>2, SyncMirrorEffect
  <2>3. CASE item[m] # Gone /\ item'[m] = task[p].ver
    <3>1. [n \in Mirrors |-> item'[n]] = [[n \in Mirrors |-> item[n]] EXCEPT ![m] = task[p].ver]
      BY <1>6, <2>3, SyncMirrorEffect
    <3>2. Contract!Show(m)
      BY <2>1, <2>3, <3>1 DEF Contract!Show, Contract!Gone, Gone
    <3> QED
      BY <3>2 DEF Contract!Next
  <2> QED
    BY <1>6, <2>2, <2>3, SyncMirrorEffect
<1>7. ASSUME NEW p \in Workers, DeleteTarget(p) \/ \E m \in Mirrors : DeleteMirror(p, m)
      PROVE  [Contract!Next]_(Contract!vars)
  <2>1. task[p].target \in Calendars
    BY DEF Task
  <2>2. PICK c \in Calendars : DeleteItem(c) /\ UNCHANGED <<row, published>>
    <3>1. CASE DeleteTarget(p)
      BY <2>1, <3>1 DEF DeleteTarget, database
    <3>2. ASSUME NEW m \in Mirrors, DeleteMirror(p, m)
          PROVE  DeleteItem(m) /\ UNCHANGED <<row, published>>
      BY <3>2 DEF DeleteMirror, database
    <3> QED
      BY <1>7, <3>1, <3>2
  <2> QED
    BY <2>2, DeleteItemEffect, GoneMaps
<1>8. ASSUME NEW p \in Workers, DeleteCommit(p) PROVE [Contract!Next]_(Contract!vars)
  <2>1. UNCHANGED <<published, item>> /\ row' \in [Calendars -> {"none", "live", "deleted"}]
    BY <1>8 DEF DeleteCommit, exchange
  <2>2. task[p].done \subseteq Mirrors
    BY DEF Task
  <2>3. row'[Primary] = IF task[p].target = Primary THEN "deleted" ELSE row[Primary]
    BY <1>8, <2>2 DEF DeleteCommit
  <2>4. task[p].target = Primary => row[Primary] # "none"
    BY <1>8 DEF DeleteCommit, At, GoneInv, Deleting
  <2>5. CASE task[p].target = Primary /\ row[Primary] = "live"
    BY <2>1, <2>3, <2>5 DEF Contract!Delete, Contract!Next
  <2>6. CASE ~(task[p].target = Primary /\ row[Primary] = "live")
    BY <2>1, <2>3, <2>4, <2>6 DEF Contract!vars
  <2> QED
    BY <2>5, <2>6
<1>9. ASSUME NEW p \in Workers, Fallback(p) PROVE [Contract!Next]_(Contract!vars)
  <2>1. task[p].target \in Calendars
    BY DEF Task
  <2>2. /\ \A d \in Calendars : d # task[p].target => item'[d] = item[d]
        /\ item'[task[p].target] \in {item[task[p].target], Gone}
    BY <1>9, <2>1, CallEffect DEF Fallback
  <2> QED
    BY <1>9, <2>1, <2>2, GoneMaps DEF Fallback, database, history
<1>10. ASSUME NEW c \in Calendars, OutlookEdit(c) PROVE [Contract!Next]_(Contract!vars)
  <2>1. UNCHANGED <<row, published>>
    BY <1>10 DEF OutlookEdit, database, history
  <2>2. CASE Write(c, Gone)
    BY <2>1, <2>2, GoneMaps DEF Write
  <2>3. CASE Write(c, Foreign) /\ c = Primary
    BY <1>1, <2>1, <2>3 DEF Write
  <2>4. CASE Write(c, Foreign) /\ c \in Mirrors
    <3>1. Contract!Tamper(c)
      BY <1>10, <2>1, <2>4
         DEF OutlookEdit, Write, Contract!Tamper, Contract!Gone, Contract!Foreign, Gone, Foreign
    <3> QED
      BY <2>4, <3>1 DEF Contract!Next
  <2> QED
    BY <1>10, <2>2, <2>3, <2>4 DEF OutlookEdit, Calendars
<1>11. ASSUME NEW p \in Workers,
              \/ StartCreate(p) \/ StartUpdate(p)
              \/ \E t \in Calendars : StartDelete(p, t) \/ DeleteNothing(p, t) \/ StartFallback(p, t)
       PROVE  UNCHANGED Contract!vars
  <2>1. CASE StartCreate(p) \/ StartUpdate(p)
    BY <1>1, <2>1 DEF StartCreate, StartUpdate, database, exchange, history
  <2>2. ASSUME NEW t \in Calendars, StartDelete(p, t) \/ DeleteNothing(p, t) \/ StartFallback(p, t)
        PROVE  UNCHANGED Contract!vars
    BY <1>1, <2>2 DEF StartDelete, DeleteNothing, StartFallback, database, exchange, history
  <2> QED
    BY <1>11, <2>1, <2>2
<1>12. ASSUME NEW p \in Workers,
              \/ DeleteSelectMirrors(p) \/ HandleExternalDelete(p) \/ Repair(p)
              \/ SyncReadPrimary(p) \/ SyncSelectMirrors(p)
              \/ PollList(p) \/ PollSelect(p) \/ Reconcile(p)
       PROVE  UNCHANGED Contract!vars
  <2>1. /\ UNCHANGED database /\ UNCHANGED exchange /\ UNCHANGED history
    BY <1>12 DEF DeleteSelectMirrors, HandleExternalDelete, Repair, SyncReadPrimary,
                 SyncSelectMirrors, PollList, PollSelect, Reconcile
  <2> QED
    BY <1>1, <2>1 DEF database, exchange, history
<1>13. ASSUME NEW p \in Workers, SyncCommit(p) \/ PollStoreKey(p) \/ Abort(p)
       PROVE  UNCHANGED Contract!vars
  <2>1. UNCHANGED row /\ UNCHANGED exchange /\ UNCHANGED published
    BY <1>13 DEF SyncCommit, PollStoreKey, Abort, database, history
  <2> QED
    BY <1>1, <2>1 DEF exchange
<1>14. CASE UNCHANGED vars
  BY <1>1, <1>14 DEF vars, database, exchange, history
<1> QED
  BY <1>2, <1>3, <1>4, <1>5, <1>6, <1>7, <1>8, <1>9, <1>10, <1>11, <1>12, <1>13, <1>14,
     StepCases DEF Contract!Next

\* The detailed system implements the contract a user relies on, for any number
\* of mirrors, tasks, versions, Outlook edits and failures.
THEOREM Implementation == Spec => ImplementsContract
<1>1. Init => Contract!Init
  BY InitMaps
<1>2. IInv /\ [Next]_vars => [Contract!Next]_(Contract!vars)
  BY StepMaps
<1> QED
  BY <1>1, <1>2, Inductive, PTL DEF Spec, ImplementsContract, Contract!Spec
=============================================================================
