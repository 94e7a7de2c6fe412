---------------------------- MODULE CreateDialog ----------------------------
(***************************************************************************)
(* The dialog that creates a meeting: bot/handlers/create.py and           *)
(* create_recurrence.py.  Each action has the name of its handler.         *)
(***************************************************************************)
EXTENDS BotChat

(* Questions that other dialogs ask too.                                    *)

\* _ask_calendar, called with the user's message or with a message of the bot.
AskCalendar(h, of) == Await(h, IF of = "user" THEN "ask_calendar" ELSE "ask_calendar_as_bot")

\* With the sender of the user's message the API answers the user's calendars;
\* with the sender of the bot's own message, those of the bot, which has none.
_ask_calendar(h) ==
  \/ Ask(h, "ask_calendar", "choose_calendar")
  \/ /\ At(h, "ask_calendar") \/ At(h, "ask_calendar_as_bot")     \* an error, or none
     /\ Clear(h, "clear")

\* The attendees are read as records; a slot search left strings.
Readable(d) == d.attendees = "records"

\* The data is read and a question is built from it, or an exception raised.
ReadQuestion(h, pc) ==
  /\ IF ~Complete(data) THEN Await(h, "incomplete")
     ELSE \/ (data.draft.of # 0 \/ Readable(data))  \* a draft may name its own attendees
             /\ Become(h, [task[h] EXCEPT !.pc = pc, !.view = Content(data)])
          \/ ~Readable(data) /\ Await(h, "unreadable")
  /\ Keep /\ Rest

\* The question that was asked is over: answered, or not about what the chat holds.
Over(how) ==
  /\ asked' = how /\ shown' = NoContent
  /\ UNCHANGED <<dialog, overlaps, lost, cancelled, listed, chosen>>

\* A state of confirmation is set before its question is sent.
Confirming(h, state, pc) == Enter(state) /\ Await(h, pc) /\ Over("no")

\* An error of the check counts as no conflicts.
_show_confirm(h) ==
  \/ At(h, "show_confirm") /\ ReadQuestion(h, "check_availability")
  \/ /\ At(h, "check_availability")
     /\ \E answer \in {"error", "free", "conflicts"} :
          IF answer = "conflicts" THEN Confirming(h, "conflict", "conflict_question")
                                  ELSE Confirming(h, "confirm", "confirm_question")

\* The question with conflicts shows the title and the times only.
Question(h) ==
  /\ \/ /\ At(h, "confirm_question")
        /\ asked' = "confirm" /\ shown' = task[h].view
     \/ /\ At(h, "conflict_question")
        /\ asked' = "conflict" /\ shown' = [task[h].view EXCEPT !.recurrence = FALSE]
  /\ Keep /\ Done(h)
  /\ UNCHANGED <<dialog, overlaps, lost, cancelled, listed, chosen>>

-----------------------------------------------------------------------------
(* create.py.                                                               *)

cmd_create(h) == Ask(h, "cmd_create", "choose_mode")

\* The state is set before the mode.
create_text_mode(h) ==
  \/ /\ At(h, "create_text_mode")
     /\ Enter("enter_title") /\ lost' = TRUE /\ Await(h, "mode_text")
     /\ UNCHANGED <<dialog, overlaps, shown, asked, cancelled, listed, chosen>>
  \/ /\ At(h, "mode_text")
     /\ Put([data EXCEPT !.mode = "text"]) /\ lost' = FALSE /\ Done(h)
     /\ UNCHANGED <<dialog, overlaps, shown, asked, cancelled, listed, chosen>>

\* Mutant: the steps begin after the date.
create_step_mode_late(h) ==
  Answer(h, "create_step_mode", [data EXCEPT !.mode = "step"], "choose_attendees")

create_step_mode(h) ==
  Answer(h, "create_step_mode", [data EXCEPT !.mode = "step"], "choose_date")

\* The text of a meeting is parsed, or is the title of one put together by steps.
handle_text_input(h) ==
  \/ /\ At(h, "handle_text_input")
     /\ Await(h, IF data.mode = "text" THEN "process_llm_draft" ELSE "title_typed")
     /\ Keep /\ Rest
  \/ Answer(h, "title_typed", [data EXCEPT !.title = Of(h)], "enter_description")

\* The draft, its attendees looked up in the contacts, is stored as it comes.
_process_llm_draft(h) ==
  /\ At(h, "process_llm_draft")
  /\ \/ Clear(h, "clear")                                \* error, or no draft
     \/ \E repeats \in BOOLEAN :
          /\ Put([data EXCEPT !.draft = [of |-> Of(h), slot |-> FALSE],
                              !.draft_repeats = repeats])
          /\ AskCalendar(h, "user") /\ Rest

\* The title is asked for, after the attendees or after the calendar of a slot: the
\* state is set before the mode.
AskTitle(h) ==
  \/ At(h, "ask_title") /\ Enter("enter_title") /\ Await(h, "mode_step") /\ Rest
  \/ At(h, "mode_step") /\ Put([data EXCEPT !.mode = "step"]) /\ Done(h) /\ Rest

calendar_selected(h) ==
  \/ /\ At(h, "calendar_selected")
     /\ Put([data EXCEPT !.calendar_id = TRUE])
     /\ Await(h, "calendar_stored") /\ Rest
  \/ /\ At(h, "calendar_stored")
     /\ Await(h, IF data.draft.of # 0 \/ data.title # 0 THEN "show_confirm" ELSE "ask_title")
     /\ Keep /\ Rest

date_picked(h) ==
  Answer(h, "date_picked", [data EXCEPT !.when = [of |-> Of(h), slot |-> FALSE]],
         "choose_time")
time_picked(h) == Ask(h, "time_picked", "choose_duration")
duration_picked(h) == Ask(h, "duration_picked", "choose_attendees")

skip_attendees(h) ==
  /\ At(h, "skip_attendees")
  /\ Put([data EXCEPT !.attendees = "records"])
  /\ Await(h, "ask_title") /\ Rest

\* The names are looked up before anything is stored.
attendees_entered(h) ==
  /\ At(h, "attendees_entered")
  /\ Put([data EXCEPT !.attendees = "records"])
  /\ Await(h, "ask_title") /\ Rest

description_entered(h) == Ask(h, "description_entered", "choose_recurrence")

\* recurrence_none and recurrence_simple.
recurrence_chosen(h) ==
  \/ /\ At(h, "recurrence_chosen")
     /\ \E repeats \in BOOLEAN : Put([data EXCEPT !.recurrence = repeats])
     /\ Await(h, "recurrence_stored") /\ Rest
  \/ /\ At(h, "recurrence_stored")
     /\ IF data.calendar_id THEN Await(h, "show_confirm") ELSE AskCalendar(h, "bot")
     /\ Keep /\ Rest

-----------------------------------------------------------------------------
(* create_recurrence.py.                                                    *)

recurrence_custom(h) == Ask(h, "recurrence_custom", "recurrence_frequency")

recurrence_freq_selected(h) ==
  \E next \in {"recurrence_days", "recurrence_end_type"} :
     Ask(h, "recurrence_freq_selected", next)

\* Which days are ticked is left out: a tick stores them and changes nothing else.
day_toggle(h) ==
  \/ Ask(h, "day_toggle", "recurrence_end_type")
  \/ At(h, "day_toggle") /\ Keep /\ Done(h) /\ Rest

\* _finalize_recurrence: no calendar is asked for.
Finalize(h) ==
  Put([data EXCEPT !.recurrence = TRUE]) /\ Await(h, "show_confirm") /\ Rest

recurrence_end_type(h) ==
  \/ At(h, "recurrence_end_type") /\ Finalize(h)
  \/ \E next \in {"recurrence_end_date", "recurrence_count"} :
        Ask(h, "recurrence_end_type", next)

recurrence_end_date(h) == At(h, "recurrence_end_date") /\ Finalize(h)

\* A text that is no number is asked for again.
recurrence_count(h) ==
  /\ At(h, "recurrence_count")
  /\ Finalize(h) \/ (Keep /\ Done(h) /\ Rest)

-----------------------------------------------------------------------------
(* create.py: confirmation, conflict and creation.                          *)

\* Called by confirm_create and conflict_proceed: the payload is built, the user told,
\* and the payload sent.  Whatever the API answered is shown, then the chat is cleared.
_do_create(h) ==
  \/ /\ At(h, "confirm_create") \/ At(h, "conflict_proceed")
     /\ IF Complete(data)
          THEN Become(h, [task[h] EXCEPT !.pc = "announcing", !.view = Payload(data)])
          ELSE Await(h, "incomplete")
     /\ Keep /\ Rest
  \/ /\ At(h, "announcing")
     /\ Await(h, "creating") /\ Keep /\ Over("answered")
  \/ At(h, "creating") /\ Clear(h, "clear")

\* An error or no slots leave the data as it was.
conflict_show_slots(h) ==
  \/ /\ At(h, "conflict_show_slots")
     /\ Await(h, IF Complete(data) THEN "conflict_find_slots" ELSE "incomplete")
     /\ Keep /\ Rest
  \/ /\ At(h, "conflict_find_slots")
     /\ \E d \in {data, [data EXCEPT !.conflict_slots = TRUE]} : Put(d)
     /\ Done(h) /\ Rest

\* The slot replaces the times of the draft that was read, or the chosen ones.
PutSlot(h) ==
  LET picked == [of |-> Of(h), slot |-> TRUE] IN
  /\ \/ /\ At(h, "slot_into_draft")
        /\ Put([data EXCEPT !.draft = [picked EXCEPT !.of = task[h].view.title]])
     \/ /\ At(h, "slot_into_times")
        /\ Put([data EXCEPT !.when = picked])
  /\ Await(h, "slot_stored") /\ Over("no")

\* Mutant: the question is built from the data read before the slot was stored.
ConfirmSlotEarly(h) ==
  \/ At(h, "slot_stored") /\ Await(h, "slot_confirm") /\ Keep /\ Rest
  \/ At(h, "slot_confirm") /\ Confirming(h, "confirm", "confirm_question")

\* It is confirmed without another check.
ConfirmSlot(h) ==
  \/ At(h, "slot_stored") /\ ReadQuestion(h, "slot_confirm")
  \/ At(h, "slot_confirm") /\ Confirming(h, "confirm", "confirm_question")

\* An index out of range clears the chat.
conflict_slot_picked(h) ==
  \/ At(h, "conflict_slot_picked") /\ Clear(h, "clear")
  \/ /\ At(h, "conflict_slot_picked")
     /\ data.conflict_slots
     /\ Become(h, [task[h] EXCEPT
          !.pc = IF data.draft.of # 0 THEN "slot_into_draft" ELSE "slot_into_times",
          !.view = Content(data)])
     /\ Keep /\ Rest
  \/ PutSlot(h) \/ ConfirmSlot(h)

\* Mutant: the message says that it is cancelled, the chat is not cleared.
confirm_cancel_said(h) ==
  /\ At(h, "confirm_cancel")
  /\ Keep
  /\ cancelled' = dialog
  /\ Done(h)
  /\ UNCHANGED <<dialog, overlaps, shown, asked, lost, listed, chosen>>

confirm_cancel(h) == Drop(h, "confirm_cancel")

CreateStep(h) ==
  \/ set_state(h) \/ clear(h) \/ _ask_calendar(h) \/ _show_confirm(h) \/ Question(h)
  \/ cmd_create(h) \/ create_text_mode(h) \/ create_step_mode(h)
  \/ handle_text_input(h) \/ _process_llm_draft(h) \/ AskTitle(h) \/ calendar_selected(h)
  \/ date_picked(h) \/ time_picked(h) \/ duration_picked(h)
  \/ skip_attendees(h) \/ attendees_entered(h) \/ description_entered(h)
  \/ recurrence_chosen(h) \/ recurrence_custom(h) \/ recurrence_freq_selected(h)
  \/ day_toggle(h) \/ recurrence_end_type(h) \/ recurrence_end_date(h)
  \/ recurrence_count(h) \/ _do_create(h)
  \/ conflict_show_slots(h) \/ conflict_slot_picked(h) \/ confirm_cancel(h)
=============================================================================
