------------------------------- MODULE BotChat -------------------------------
(***************************************************************************)
(* One chat of the Telegram bot (src/bot): the state and the data that     *)
(* aiogram keeps of it in Redis, and what its handlers do to them.  Each   *)
(* await of a handler is a step of its own: a read of the data, a write of *)
(* the data or of the state, a message that matters, a call of the API.    *)
(* Updates are handled as concurrent tasks, so two handlers of one chat    *)
(* interleave at every step, and a handler may fail at every step.         *)
(*                                                                         *)
(* An answer of the user is represented by the number of the dialog in     *)
(* which it was given; 0 is a key that is not there.                       *)
(***************************************************************************)
EXTENDS Naturals, FiniteSets

CONSTANTS Handlers,     \* tasks that the dispatcher may run at the same time
          MaxDialogs,   \* how many dialogs the user begins
          MaxOverlaps   \* how many updates come while a handler is running

ASSUME ChatAssumption == MaxDialogs \in Nat /\ MaxOverlaps \in Nat

VARIABLES
  fsm,       \* the state of the chat
  data,      \* the data of the chat
  task,      \* per handler: where it is suspended and what it holds
  dialog,    \* how many dialogs were begun
  overlaps,  \* how many updates came while a handler was running
  \* history, which ends when the chat is cleared:
  asked,     \* which question "create this?" stands, none, or one answered by a creation
  shown,     \* what that question showed
  lost,      \* whether the last choice to type a text is not stored
  listed,    \* the dialog whose list of meetings to free a slot was shown
  chosen,    \* what the last meeting that was chosen was chosen for
  cancelled  \* the last dialog that was cancelled; this one stays

chat == <<fsm, data>>
history == <<shown, asked, lost, cancelled, listed, chosen>>
vars == <<fsm, data, task, dialog, overlaps, history>>

-----------------------------------------------------------------------------
(* States (bot/states, contacts.py:12, accounts.py).                        *)

CreateStates ==
  {"choose_mode", "choose_calendar", "choose_date", "choose_time", "choose_duration",
   "choose_attendees", "enter_title", "enter_description", "choose_recurrence",
   "recurrence_frequency", "recurrence_days", "recurrence_end_type",
   "recurrence_end_date", "recurrence_count", "confirm", "conflict"}
SlotStates ==
  {"enter_people", "enter_range", "enter_duration", "review_options", "confirm_create"}
RescheduleStates ==
  {"move_event", "move_mode", "move_date", "move_time", "move_confirm"}
DeleteStates ==
  {"delete_event", "delete_mode", "delete_confirm", "free_slot_confirm"}
AccountStates == {"enter_server", "enter_email", "enter_username", "enter_password"}
OtherStates == AccountStates \cup {"waiting_query"}
States == {"none"} \cup CreateStates \cup SlotStates \cup RescheduleStates
                   \cup DeleteStates \cup OtherStates

\* The handlers of these states take any text, also a command or a menu button
\* whose own router comes later.
TextOfCreate ==
  {"choose_attendees", "enter_title", "enter_description", "recurrence_end_date",
   "recurrence_count"}
TextOfSlots == {"enter_people", "enter_range"}

-----------------------------------------------------------------------------
(* Data.                                                                    *)

Dialogs == 0..MaxDialogs

\* A title and times; slot tells whether the times were picked among offered ones.
Value == [of: Dialogs, slot: BOOLEAN]
NoValue == [of |-> 0, slot |-> FALSE]

DataType ==
  [mode: {"", "text", "step"}, draft: Value, draft_repeats: BOOLEAN,
   when: Value, title: Dialogs,
   calendar_id: BOOLEAN, recurrence: BOOLEAN,
   attendees: {"records", "emails"},          \* those of create, or strings of find_slot
   conflict_slots: BOOLEAN, found_slots: BOOLEAN, chosen_slot: BOOLEAN,
   date_from: {"", "date", "datetime"}, event_id: Dialogs,
   free_slot_event_ids: Dialogs]

Empty ==
  [mode |-> "", draft |-> NoValue, draft_repeats |-> FALSE, when |-> NoValue, title |-> 0,
   calendar_id |-> FALSE, recurrence |-> FALSE, attendees |-> "records",
   conflict_slots |-> FALSE, found_slots |-> FALSE, chosen_slot |-> FALSE,
   date_from |-> "", event_id |-> 0, free_slot_event_ids |-> 0]

\* What _build_confirm_text shows in the question to the user.
Content(d) ==
  IF d.draft.of # 0
    THEN [title |-> d.draft.of, when |-> d.draft, recurrence |-> d.recurrence]
    ELSE [title |-> d.title, when |-> d.when, recurrence |-> d.recurrence]

\* What _build_draft_payload sends to the API, without the calendar.  A recurrence that
\* the model read in the text is in the draft.
Payload(d) ==
  IF d.draft.of # 0
    THEN [title |-> d.draft.of, when |-> d.draft,
          recurrence |-> d.recurrence \/ d.draft_repeats]
    ELSE [title |-> d.title, when |-> d.when, recurrence |-> d.recurrence]

ContentType == [title: Dialogs, when: Value, recurrence: BOOLEAN]
NoContent == [title |-> 0, when |-> NoValue, recurrence |-> FALSE]

\* strptime fails on a missing date.
Complete(d) == d.draft.of # 0 \/ d.when.of # 0

-----------------------------------------------------------------------------
(* Handlers: next is the state that a handler is about to set.              *)

Idle == [pc |-> "idle", of |-> 0, view |-> NoContent, next |-> "none"]

At(h, pc) == task[h].pc = pc
Of(h) == task[h].of

Become(h, t) == task' = [task EXCEPT ![h] = t]
Await(h, pc) == Become(h, [task[h] EXCEPT !.pc = pc])
Done(h) == Become(h, Idle)

Keep == UNCHANGED chat
Rest == UNCHANGED <<dialog, overlaps, history>>

\* state.update_data and state.set_state.
Put(d) == data' = d /\ UNCHANGED fsm
Enter(state) == fsm' = state /\ UNCHANGED data

\* A handler that stores an answer, sets the next state and asks the next question.
Answer(h, name, d, next) ==
  /\ At(h, name)
  /\ Put(d)
  /\ Become(h, [task[h] EXCEPT !.pc = "set_state", !.next = next])
  /\ Rest

set_state(h) ==
  /\ At(h, "set_state")
  /\ Enter(task[h].next)
  /\ Done(h) /\ Rest

\* A handler that sets a state, what it stores being left out.
Ask(h, name, next) == At(h, name) /\ Enter(next) /\ Done(h) /\ Rest

\* state.clear: the state first, then the data; what the handler does after it is in pc.
Clear(h, pc) == Enter("none") /\ Await(h, pc) /\ Rest

\* The handlers of the cancel buttons.
Drop(h, name) == At(h, name) /\ Clear(h, "cancel")

clear(h) ==
  /\ Put(Empty)
  /\ asked' = "no" /\ shown' = NoContent /\ lost' = FALSE /\ listed' = 0
  /\ chosen' = "nothing"
  /\ UNCHANGED <<dialog, overlaps>>
  /\ \/ At(h, "clear") /\ Done(h) /\ UNCHANGED cancelled
     \/ At(h, "cancel") /\ Done(h) /\ cancelled' = dialog
     \/ At(h, "clear_stuck") /\ Await(h, "intent") /\ UNCHANGED cancelled
     \/ At(h, "clear_freed") /\ Await(h, "freeing") /\ UNCHANGED cancelled
=============================================================================
