----------------------------- MODULE BotDialog -----------------------------
(***************************************************************************)
(* The bot as a whole: the dialogs that find a slot, move a meeting,       *)
(* remove meetings and connect an account, the free text that starts any   *)
(* of them, and the dispatcher (src/bot/handlers, src/bot/main.py).        *)
(***************************************************************************)
EXTENDS CreateDialog

(* find_slot.py.                                                            *)

cmd_find_slot(h) == Ask(h, "cmd_find_slot", "enter_people")

\* Nobody but the user, or whom the contacts know.
slot_people_entered(h) ==
  \E found \in {"records", "emails"} :
     Answer(h, "slot_people_entered", [data EXCEPT !.attendees = found], "enter_range")

slot_range_entered(h) ==
  \/ At(h, "slot_range_entered") /\ Keep /\ Done(h) /\ Rest     \* not a range of dates
  \/ Answer(h, "slot_range_entered", [data EXCEPT !.date_from = "date"], "enter_duration")

\* A time is appended to date_from: with a time already there the API refuses it.
slot_duration_picked(h) ==
  \/ /\ At(h, "slot_duration_picked")
     /\ Await(h, CASE data.date_from = "" -> "incomplete"
                    [] data.date_from = "date" -> "find_slots"
                    [] OTHER -> "find_slots_malformed")
     /\ Keep /\ Rest
  \/ /\ At(h, "find_slots") \/ At(h, "find_slots_malformed")
     /\ Clear(h, "clear")                                 \* an error, or no slots
  \/ Answer(h, "find_slots", [data EXCEPT !.found_slots = TRUE], "review_options")

slot_picked(h) ==
  \/ At(h, "slot_picked") /\ Clear(h, "clear")            \* no such slot
  \/ /\ At(h, "slot_picked")
     /\ data.found_slots
     /\ Await(h, "slot_chosen") /\ Keep /\ Rest
  \/ Answer(h, "slot_chosen", [data EXCEPT !.chosen_slot = TRUE], "confirm_create")

\* Into the dialog of create, with the slot as the chosen times and the attendees that
\* were read made records.  The calendar is asked for with the bot's own message.
slot_create(h) ==
  \/ /\ At(h, "slot_create")
     /\ ~data.chosen_slot
     /\ Clear(h, "clear")
  \/ /\ At(h, "slot_create")
     /\ data.chosen_slot
     /\ Await(h, "prefill") /\ Keep /\ Rest
  \/ /\ At(h, "prefill")
     /\ Put([data EXCEPT
          !.mode = "step", !.draft = NoValue, !.draft_repeats = FALSE,
          !.when = [of |-> Of(h), slot |-> TRUE], !.attendees = "records"])
     /\ AskCalendar(h, "bot") /\ Rest

slot_cancel(h) == Drop(h, "slot_cancel")

-----------------------------------------------------------------------------
(* delete.py and reschedule.py.  The list of the day has Exchange ids.      *)

\* cmd_delete and cmd_reschedule: nothing changes when the list is not there.
ListDay(h, name, state) ==
  \/ At(h, name) /\ Keep /\ Done(h) /\ Rest
  \/ Ask(h, name, state)

cmd_delete(h) == ListDay(h, "cmd_delete", "delete_event")
cmd_reschedule(h) == ListDay(h, "cmd_reschedule", "move_event")

\* The meeting that was clicked is stored; a recurring one asks for the mode first.
Choose(h, what, next) ==
  /\ Put([data EXCEPT !.event_id = Of(h)])
  /\ Become(h, [task[h] EXCEPT !.pc = "set_state", !.next = next])
  /\ chosen' = what
  /\ UNCHANGED <<dialog, overlaps, shown, asked, lost, cancelled, listed>>

delete_event_selected(h) ==
  /\ At(h, "delete_event_selected")
  /\ \E next \in {"delete_mode", "delete_confirm"} : Choose(h, "delete", next)

delete_recurrence_mode(h) ==
  \/ Drop(h, "delete_recurrence_mode")
  \/ Ask(h, "delete_recurrence_mode", "delete_confirm")

\* Mutant: the mode is asked for in the state of the other dialog.
reschedule_event_selected_crossed(h) ==
  /\ At(h, "reschedule_event_selected")
  /\ \E next \in {"delete_mode", "move_date"} : Choose(h, "move", next)

reschedule_event_selected(h) ==
  /\ At(h, "reschedule_event_selected")
  /\ \E next \in {"move_mode", "move_date"} : Choose(h, "move", next)

reschedule_recurrence_mode(h) ==
  \/ Drop(h, "reschedule_recurrence_mode")
  \/ Ask(h, "reschedule_recurrence_mode", "move_date")

reschedule_date_picked(h) == Ask(h, "reschedule_date_picked", "move_time")

\* Mutant: a state that no handler asks for.
reschedule_time_picked_lost(h) == Ask(h, "reschedule_time_picked", "move_done")

reschedule_time_picked(h) == Ask(h, "reschedule_time_picked", "move_confirm")

\* delete_confirm and reschedule_confirm: one call with the id that was read, then the
\* chat is cleared, also when the API refuses: its path takes ids of rows.
Confirmed(h, name, calling) ==
  \/ /\ At(h, name)
     /\ Await(h, IF data.event_id = 0 THEN "incomplete" ELSE calling)
     /\ Keep /\ Rest
  \/ At(h, calling) /\ Clear(h, "clear")

delete_confirm(h) == Confirmed(h, "delete_confirm", "deleting")
reschedule_confirm(h) == Confirmed(h, "reschedule_confirm", "moving")
delete_cancel(h) == Drop(h, "delete_cancel")
reschedule_cancel(h) == Drop(h, "reschedule_cancel")

\* The meetings in the slot are listed, with every copy's id, unless there are none.
handle_free_slot_intent(h) ==
  \/ At(h, "free_slot") /\ Keep /\ Done(h) /\ Rest
  \/ /\ UNCHANGED <<dialog, overlaps, shown, asked, lost, cancelled, chosen>>
     /\ \/ /\ At(h, "free_slot")
           /\ Put([data EXCEPT !.free_slot_event_ids = Of(h)])
           /\ listed' = 0
           /\ Await(h, "free_slot_stored")
        \/ /\ At(h, "free_slot_stored")
           /\ Enter("free_slot_confirm")
           /\ Await(h, "free_slot_list") /\ UNCHANGED listed
        \/ /\ At(h, "free_slot_list")
           /\ listed' = Of(h)
           /\ Keep /\ Done(h)

\* The ids are read, the chat is cleared, then the ids are sent.
freeslot_confirm(h) ==
  \/ /\ At(h, "freeslot_confirm")
     /\ Become(h, [task[h] EXCEPT !.pc = "freeslot_read",
                                  !.view.title = data.free_slot_event_ids])
     /\ Keep /\ Rest
  \/ At(h, "freeslot_read") /\ Clear(h, "clear_freed")
  \/ At(h, "freeing") /\ Keep /\ Done(h) /\ Rest

freeslot_cancel(h) == Drop(h, "freeslot_cancel")

-----------------------------------------------------------------------------
(* text_input.py.                                                           *)

\* _handle_find_slot after the contacts: all there, no duration, or no dates.
_handle_find_slot(h) ==
  \/ /\ At(h, "find_slot_intent")
     /\ \E people \in {"records", "emails"} : Put([data EXCEPT !.attendees = people])
     /\ Await(h, "find_slot_people") /\ Rest
  \/ At(h, "find_slot_people") /\ Await(h, "find_slots_by_text") /\ Keep /\ Rest
  \/ Answer(h, "find_slot_people", [data EXCEPT !.date_from = "datetime"], "enter_duration")
  \/ Ask(h, "find_slot_people", "enter_range")

\* An error ends here; an empty answer goes on to the choice.
FoundByText(h) ==
  \/ At(h, "find_slots_by_text") /\ Keep /\ Done(h) /\ Rest
  \/ \E found \in BOOLEAN :
        Answer(h, "find_slots_by_text", [data EXCEPT !.found_slots = found],
               "review_options")

\* The rest of handle_free_text and handle_stuck_state, by the parsed intent:
\* an error, an unknown intent and the two that only show leave it at that.
Intent(h) ==
  /\ At(h, "intent")
  /\ \/ Keep /\ Done(h)
     \/ Put([data EXCEPT !.mode = "text"]) /\ Await(h, "process_llm_draft")
     \/ /\ \E next \in {"cmd_delete", "cmd_reschedule", "free_slot", "find_slot_intent"} :
              Await(h, next)
        /\ Keep
  /\ Rest

handle_free_text(h) == At(h, "handle_free_text") /\ Await(h, "intent") /\ Keep /\ Rest
handle_stuck_state(h) == At(h, "handle_stuck_state") /\ Clear(h, "clear_stuck")

-----------------------------------------------------------------------------
(* start.py, contacts.py and accounts.py.                                   *)

cmd_cancel(h) == Drop(h, "cmd_cancel")

cmd_contacts(h) == Ask(h, "cmd_contacts", "waiting_query")
contacts_search(h) == At(h, "contacts_search") /\ Clear(h, "clear")

connect_account_start(h) == Ask(h, "connect_account_start", "enter_server")
account_server_entered(h) == Ask(h, "account_server_entered", "enter_email")
account_email_entered(h) == Ask(h, "account_email_entered", "enter_username")
account_username_entered(h) == Ask(h, "account_username_entered", "enter_password")

\* The chat is cleared before the account is sent.
account_password_entered(h) == At(h, "account_password_entered") /\ Clear(h, "clear")

-----------------------------------------------------------------------------
(* The dispatcher.                                                          *)

TextStates == TextOfCreate \cup TextOfSlots \cup OtherStates \cup {"none"}

\* The states in which a handler gets an update, in the order of the routers.
Filter ==
  [cmd_create |-> States, cmd_cancel |-> States, confirm_cancel |-> States,
   slot_cancel |-> States, delete_cancel |-> States, reschedule_cancel |-> States,
   connect_account_start |-> States,
   cmd_reschedule |-> States \ TextOfCreate, cmd_delete |-> States \ TextOfCreate,
   cmd_find_slot |-> States \ TextOfCreate,
   cmd_contacts |-> States \ (TextOfCreate \cup TextOfSlots \cup AccountStates),
   create_text_mode |-> {"choose_mode"}, create_step_mode |-> {"choose_mode"},
   handle_text_input |-> {"enter_title"}, calendar_selected |-> {"choose_calendar"},
   date_picked |-> {"choose_date"}, time_picked |-> {"choose_time"},
   duration_picked |-> {"choose_duration"}, skip_attendees |-> {"choose_attendees"},
   attendees_entered |-> {"choose_attendees"},
   description_entered |-> {"enter_description"},
   recurrence_chosen |-> {"choose_recurrence"}, recurrence_custom |-> {"choose_recurrence"},
   recurrence_freq_selected |-> {"recurrence_frequency"},
   day_toggle |-> {"recurrence_days"}, recurrence_end_type |-> {"recurrence_end_type"},
   recurrence_end_date |-> {"recurrence_end_date"},
   recurrence_count |-> {"recurrence_count"},
   confirm_create |-> {"confirm"}, conflict_proceed |-> {"conflict"},
   conflict_show_slots |-> {"conflict"}, conflict_slot_picked |-> {"conflict"},
   slot_people_entered |-> {"enter_people"}, slot_range_entered |-> {"enter_range"},
   slot_duration_picked |-> {"enter_duration"}, slot_picked |-> {"review_options"},
   slot_create |-> {"confirm_create"},
   delete_event_selected |-> {"delete_event"}, delete_recurrence_mode |-> {"delete_mode"},
   delete_confirm |-> {"delete_confirm"},
   freeslot_confirm |-> {"free_slot_confirm"}, freeslot_cancel |-> {"free_slot_confirm"},
   reschedule_event_selected |-> {"move_event"}, reschedule_recurrence_mode |-> {"move_mode"},
   reschedule_date_picked |-> {"move_date"}, reschedule_time_picked |-> {"move_time"},
   reschedule_confirm |-> {"move_confirm"},
   contacts_search |-> {"waiting_query"},
   account_server_entered |-> {"enter_server"}, account_email_entered |-> {"enter_email"},
   account_username_entered |-> {"enter_username"},
   account_password_entered |-> {"enter_password"},
   handle_free_text |-> {"none"}, handle_stuck_state |-> States \ TextStates]

\* These begin a dialog of their own.
Entries ==
  {"cmd_create", "cmd_find_slot", "cmd_delete", "cmd_reschedule", "handle_free_text",
   "handle_stuck_state"}

Busy == \E h \in Handlers : ~At(h, "idle")

\* An update becomes a task; the filter reads the state before the handler runs.
Dispatch(h, f) ==
  /\ At(h, "idle")
  /\ fsm \in Filter[f]
  /\ IF Busy THEN overlaps < MaxOverlaps /\ overlaps' = overlaps + 1
             ELSE UNCHANGED overlaps
  /\ IF f \in Entries THEN dialog < MaxDialogs /\ dialog' = dialog + 1
                      ELSE UNCHANGED dialog
  /\ Become(h, [Idle EXCEPT !.pc = f, !.of = dialog'])
  /\ Keep
  /\ UNCHANGED history

\* error_handler: an exception is logged and answered, whatever the handler has still to
\* do.  Besides those that the code raises, any call of Redis or of Telegram may fail.
error_handler(h) == ~At(h, "idle") /\ Done(h) /\ Keep /\ Rest

\* The bot is started again: what ran is lost, Redis is not.
Restart ==
  /\ Busy
  /\ task' = [h \in Handlers |-> Idle]
  /\ Keep /\ Rest

-----------------------------------------------------------------------------

Init ==
  /\ fsm = "none" /\ data = Empty
  /\ task = [h \in Handlers |-> Idle]
  /\ dialog = 0 /\ overlaps = 0
  /\ shown = NoContent /\ asked = "no" /\ lost = FALSE
  /\ cancelled = 0 /\ listed = 0 /\ chosen = "nothing"

EditStep(h) ==
  \/ cmd_delete(h) \/ delete_event_selected(h) \/ delete_recurrence_mode(h)
  \/ delete_confirm(h) \/ delete_cancel(h) \/ handle_free_slot_intent(h)
  \/ freeslot_confirm(h) \/ freeslot_cancel(h)
  \/ cmd_reschedule(h) \/ reschedule_event_selected(h) \/ reschedule_recurrence_mode(h)
  \/ reschedule_date_picked(h) \/ reschedule_time_picked(h) \/ reschedule_confirm(h)
  \/ reschedule_cancel(h)

SlotStep(h) ==
  \/ cmd_find_slot(h) \/ slot_people_entered(h) \/ slot_range_entered(h)
  \/ slot_duration_picked(h) \/ slot_picked(h) \/ slot_create(h) \/ slot_cancel(h)
  \/ _handle_find_slot(h) \/ FoundByText(h)

OtherStep(h) ==
  \/ handle_free_text(h) \/ handle_stuck_state(h) \/ Intent(h)
  \/ cmd_cancel(h) \/ cmd_contacts(h) \/ contacts_search(h)
  \/ connect_account_start(h) \/ account_server_entered(h) \/ account_email_entered(h)
  \/ account_username_entered(h) \/ account_password_entered(h) \/ error_handler(h)

Step(h) == CreateStep(h) \/ EditStep(h) \/ SlotStep(h) \/ OtherStep(h)

Next ==
  \/ \E h \in Handlers : Step(h) \/ \E f \in DOMAIN Filter : Dispatch(h, f)
  \/ Restart

Spec == Init /\ [][Next]_vars

-----------------------------------------------------------------------------
(* Properties.                                                              *)

Handled == DOMAIN Filter \cup
  {"idle", "set_state", "clear", "cancel", "clear_stuck", "clear_freed", "incomplete",
   "unreadable", "ask_calendar", "ask_calendar_as_bot", "show_confirm", "check_availability",
   "confirm_question", "conflict_question", "mode_text", "mode_step", "title_typed",
   "process_llm_draft", "ask_title", "calendar_stored", "recurrence_stored",
   "announcing", "creating", "conflict_find_slots", "slot_into_draft", "slot_into_times",
   "slot_stored", "slot_confirm", "find_slots", "find_slots_malformed", "slot_chosen",
   "prefill", "deleting", "moving", "free_slot", "free_slot_stored",
   "free_slot_list", "freeslot_read", "freeing", "find_slot_intent", "find_slot_people",
   "find_slots_by_text", "intent"}

\* The variables have their types.
TypeOK ==
  /\ fsm \in States
  /\ data \in DataType
  /\ task \in [Handlers -> [pc: Handled, of: Dialogs, view: ContentType, next: States]]
  /\ dialog \in Dialogs /\ overlaps \in 0..MaxOverlaps
  /\ shown \in ContentType /\ asked \in {"no", "confirm", "conflict", "answered"}
  /\ lost \in BOOLEAN /\ cancelled \in Dialogs /\ listed \in Dialogs
  /\ chosen \in {"nothing", "delete", "move"}

\* Whoever waits for each answer never meets a dialog with answers missing, wherever
\* handlers before it have failed: each way to the confirmation goes through the times, and
\* each call finds what was stored for it (create.py:398-410, delete.py:99,
\* find_slot.py:121).  The one exception is a dialog whose way of input was lost, because
\* create_text_mode failed between its two writes (create.py:74-75).
NothingMissing ==
  overlaps = 0 => \A h \in Handlers :
    At(h, "incomplete") => lost

\* A handler goes from one await to the next: the API is called.
Goes(h, from, to) == At(h, from) /\ task'[h].pc = to

Creating(h) == Goes(h, "announcing", "creating")

\* The meeting that is sent to the API is the one the last question showed,
\* although the text and the payload are built by different functions at
\* different times (create.py:413-437, 508-529), if each answer was awaited and that
\* question was sent, after the state was set for it.  Only the recurrence may be one that
\* was not shown: the question with conflicts has none (create.py:485-490), and one that was
\* read in the text is shown in the preview, before the calendar is chosen (create.py:417).
CreatesWhatWasShown ==
  [][overlaps = 0 /\ asked \in {"confirm", "conflict"} => \A h \in Handlers : Creating(h) =>
       LET sent == task[h].view IN
       /\ sent.title = shown.title /\ sent.when = shown.when
       /\ shown.recurrence => sent.recurrence
       /\ sent.recurrence =>
            shown.recurrence \/ asked = "conflict" \/ data.draft_repeats]_vars

\* Nothing of a dialog that was cancelled is ever created, by whatever buttons and
\* dialogs the user comes back to a confirmation and whichever handlers fail on the way
\* (create.py:681, start.py:39).
CancelledIsNotCreated ==
  [][overlaps = 0 => \A h \in Handlers :
       Creating(h) => task[h].view.title > cancelled
                      /\ task[h].view.when.of > cancelled]_vars

\* What is removed or moved was chosen for it, if each answer was awaited: the ids that free
\* a slot are those of the last list that was shown, although they are stored before it
\* (delete.py:210-212, 221), unless a list failed after its ids were stored, and a meeting that is deleted or moved was chosen for just
\* that, although both dialogs store it under the same key (delete.py:50, 99;
\* reschedule.py:64, 152).
ChangesWhatWasChosen ==
  [][overlaps = 0 => \A h \in Handlers :
       /\ Goes(h, "clear_freed", "freeing") /\ listed # 0 => task[h].view.title = listed
       /\ Goes(h, "delete_confirm", "deleting") => chosen = "delete"
       /\ Goes(h, "reschedule_confirm", "moving") => chosen = "move"]_vars

\* One confirmation, one meeting: docs/prd.md:324 asks for idempotent creation.
OneEventPerConfirmation == [][\A h \in Handlers : Creating(h) => asked # "answered"]_vars
=============================================================================
