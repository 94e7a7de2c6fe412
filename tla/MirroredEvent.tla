---------------------------- MODULE MirroredEvent ----------------------------
(***************************************************************************)
(* What a user may rely on for one event, without tasks, sessions or calls. *)
(*                                                                         *)
(* The event is drafted, becomes live, may become deleted, and never comes *)
(* back.  While it is drafted its mirrors may appear, with the content of  *)
(* the draft.  From then on the system gives a mirror only content that    *)
(* has been published for the event; people may type something into one;   *)
(* and a mirror that has gone stays away.                                  *)
(***************************************************************************)
EXTENDS Integers

CONSTANTS Mirrors, MaxVersion

Gone == -1
Foreign == 0
Draft == 1
Version == 1..MaxVersion

VARIABLES life,       \* "none", "live" or "deleted"
          published,  \* the versions the event has been published with
          shown       \* what each mirror calendar shows

vars == <<life, published, shown>>

Init ==
  /\ life = "none"
  /\ published = {}
  /\ shown = [m \in Mirrors |-> Gone]

\* A mirror of a draft appears.
Appear(m) ==
  /\ life = "none"
  /\ shown' = [shown EXCEPT ![m] = Draft]
  /\ UNCHANGED <<life, published>>

GoLive ==
  /\ life = "none"
  /\ life' = "live"
  /\ published' = published \cup {Draft}
  /\ UNCHANGED shown

\* An update is committed; it may race with the deletion of the event.
Publish(v) ==
  /\ life # "none"
  /\ published' = published \cup {v}
  /\ UNCHANGED <<life, shown>>

Show(m) ==
  /\ shown[m] # Gone
  /\ \E v \in published : shown' = [shown EXCEPT ![m] = v]
  /\ UNCHANGED <<life, published>>

Tamper(m) ==
  /\ shown[m] # Gone
  /\ shown' = [shown EXCEPT ![m] = Foreign]
  /\ UNCHANGED <<life, published>>

Vanish(m) ==
  /\ shown' = [shown EXCEPT ![m] = Gone]
  /\ UNCHANGED <<life, published>>

Delete ==
  /\ life = "live"
  /\ life' = "deleted"
  /\ UNCHANGED <<published, shown>>

Next ==
  \/ GoLive \/ Delete
  \/ \E v \in Version : Publish(v)
  \/ \E m \in Mirrors : Appear(m) \/ Show(m) \/ Tamper(m) \/ Vanish(m)

Spec == Init /\ [][Next]_vars
=============================================================================
