------------------------------ MODULE BotProofs ------------------------------
(***************************************************************************)
(* Proofs about one chat of the bot, for any number of handlers, dialogs   *)
(* and overlaps.  While no update has come in the middle of a handler, the *)
(* state of the chat tells which answers its data holds (Good), and a      *)
(* suspended handler still finds what it was started for (Fits), also      *)
(* after handlers that failed at any await and after restarts.             *)
(***************************************************************************)
EXTENDS BotDialog, TLAPS

\* The states that no dialog of the user's is behind.
Neutral == {"none"} \cup OtherStates

\* Where a handler waits that runs in these states, or in any.
NeutralPcs ==
  {"cmd_cancel", "confirm_cancel", "slot_cancel", "delete_cancel", "reschedule_cancel",
   "connect_account_start", "cmd_contacts", "contacts_search", "account_server_entered",
   "account_email_entered", "account_username_entered", "account_password_entered",
   "clear", "cancel"}

\* From these states on the question has a title; in these and the ones before
\* them, once a date was picked, it has its times.
Titled ==
  {"enter_description", "choose_recurrence", "recurrence_frequency", "recurrence_days",
   "recurrence_end_type", "recurrence_end_date", "recurrence_count", "confirm", "conflict"}
Timed == Titled \cup
  {"choose_calendar", "choose_time", "choose_duration", "choose_attendees"}
DeleteChosen == {"delete_mode", "delete_confirm"}
MoveChosen == {"move_mode", "move_date", "move_time", "move_confirm"}

Named(d) == d.draft.of # 0 \/ d.title # 0
Timely(d) == Complete(d) \/ lost

\* What a question shows of the content it is built from.
Showing(how, content) ==
  IF how = "conflict" THEN [content EXCEPT !.recurrence = FALSE] ELSE content

\* What the state s of the chat says of the data d and of the history.
Good(s, d) ==
  /\ s \notin Neutral => cancelled < dialog
  /\ s \in Timed => Timely(d)
  /\ s = "enter_title" => d.mode = "text" \/ Timely(d)
  /\ s \in Titled => Named(d)
  /\ s \in DeleteChosen => d.event_id # 0 /\ chosen = "delete"
  /\ s \in MoveChosen => d.event_id # 0 /\ chosen = "move"
  /\ s = "enter_duration" => d.date_from # ""
  /\ s \in {"confirm", "conflict"} /\ asked \in {"confirm", "conflict"}
       => shown = Showing(asked, Content(d))

\* No answer of a cancelled dialog is left, and the stored ids are those that were listed.
Fresh(d) ==
  /\ d.draft.of = 0 \/ cancelled < d.draft.of
  /\ d.when.of = 0 \/ cancelled < d.when.of
  /\ d.title = 0 \/ cancelled < d.title
  /\ listed = 0 \/ d.free_slot_event_ids = listed

\* What a handler whose task is t and that runs alone relies on.
Fits(t, s, d) ==
  /\ t.of = dialog
  /\ t.pc \notin NeutralPcs => cancelled < dialog
  /\ t.pc \in DOMAIN Filter => s \in Filter[t.pc]
  /\ t.pc = "set_state" => Good(t.next, d)
  /\ t.pc \in {"clear", "cancel", "clear_stuck", "clear_freed", "intent"} => s = "none"
  /\ t.pc = "prefill" => s = "confirm_create"
  /\ t.pc = "process_llm_draft" => s \in {"none", "enter_title"}
  /\ t.pc \in {"mode_text", "mode_step", "title_typed"} => s = "enter_title"
  /\ t.pc \in {"ask_calendar", "ask_calendar_as_bot", "ask_title", "mode_step", "title_typed",
               "calendar_stored"} => Timely(d)
  /\ t.pc \in {"show_confirm", "recurrence_stored", "slot_stored", "check_availability",
               "slot_confirm"} => Timely(d) /\ Named(d)
  /\ t.pc \in {"check_availability", "slot_confirm", "confirm_question", "conflict_question"}
       => t.view = Content(d)
  /\ t.pc = "confirm_question" => s = "confirm"
  /\ t.pc = "conflict_question" => s = "conflict"
  /\ t.pc \in {"slot_into_draft", "slot_into_times"} => s = "conflict" /\ Named(d)
  /\ t.pc = "slot_into_draft" => d.draft.of # 0 /\ t.view.title = d.draft.of
  /\ t.pc = "slot_into_times" => d.draft.of = 0
  /\ t.pc = "announcing" =>
       s \in {"confirm", "conflict"} /\ Complete(d) /\ Named(d) /\ t.view = Payload(d)
  /\ t.pc \in {"free_slot_stored", "free_slot_list"} => d.free_slot_event_ids = t.of
  /\ t.pc \in {"freeslot_read", "clear_freed"} => t.view.title = d.free_slot_event_ids
  /\ t.pc = "incomplete" => lost

Alone == \A g, h \in Handlers : At(g, "idle") \/ At(h, "idle") \/ g = h

Solo ==
  overlaps = 0 => /\ Good(fsm, data) /\ Fresh(data) /\ Alone
                  /\ \A h \in Handlers : At(h, "idle") \/ Fits(task[h], fsm, data)

Inv == TypeOK /\ cancelled <= dialog /\ Solo
-----------------------------------------------------------------------------
(* Types of the parts.                                                      *)

Tasks == [pc: Handled, of: Dialogs, view: ContentType, next: States]

\* The names of the handlers that the dispatcher starts.
LEMMA Names ==
  DOMAIN Filter =
    {"cmd_create", "cmd_cancel", "confirm_cancel", "slot_cancel", "delete_cancel",
     "reschedule_cancel", "connect_account_start", "cmd_reschedule", "cmd_delete",
     "cmd_find_slot", "cmd_contacts", "create_text_mode", "create_step_mode",
     "handle_text_input", "calendar_selected", "date_picked", "time_picked",
     "duration_picked", "skip_attendees", "attendees_entered", "description_entered",
     "recurrence_chosen", "recurrence_custom", "recurrence_freq_selected", "day_toggle",
     "recurrence_end_type", "recurrence_end_date", "recurrence_count", "confirm_create",
     "conflict_proceed", "conflict_show_slots", "conflict_slot_picked",
     "slot_people_entered", "slot_range_entered", "slot_duration_picked", "slot_picked",
     "slot_create", "delete_event_selected", "delete_recurrence_mode", "delete_confirm",
     "freeslot_confirm", "freeslot_cancel", "reschedule_event_selected",
     "reschedule_recurrence_mode", "reschedule_date_picked", "reschedule_time_picked",
     "reschedule_confirm", "contacts_search", "account_server_entered",
     "account_email_entered", "account_username_entered", "account_password_entered",
     "handle_free_text", "handle_stuck_state"}
BY DEF Filter

LEMMA EmptyIsTyped ==
  /\ Empty \in DataType /\ NoContent \in ContentType /\ Idle \in Tasks
  /\ Empty.draft.of = 0 /\ Empty.when.of = 0 /\ Empty.title = 0
  /\ Empty.free_slot_event_ids = 0 /\ Idle.pc = "idle"
<1>1. 0 \in Dialogs
  BY ChatAssumption DEF Dialogs
<1>2. NoValue \in Value /\ NoValue.of = 0
  BY <1>1 DEF NoValue, Value
<1>3. NoContent \in ContentType
  BY <1>1, <1>2 DEF NoContent, ContentType
<1>4. Empty \in DataType
  BY <1>1, <1>2 DEF Empty, DataType
<1>5. Idle \in Tasks
  BY <1>1, <1>3 DEF Idle, Tasks, Handled, States
<1> QED
  BY <1>2, <1>3, <1>4, <1>5 DEF Empty, Idle

\* What is shown, and what is sent, has the type of a question.
LEMMA ContentIsTyped ==
  ASSUME NEW d \in DataType
  PROVE  Content(d) \in ContentType /\ Payload(d) \in ContentType
<1>1. d.draft \in Value /\ d.when \in Value /\ d.draft.of \in Dialogs /\ d.title \in Dialogs
  BY DEF DataType, Value
<1>2. d.recurrence \in BOOLEAN /\ d.draft_repeats \in BOOLEAN
  BY DEF DataType
<1> QED
  BY <1>1, <1>2 DEF Content, Payload, ContentType

\* A task that moves on keeps what it holds.
LEMMA NextTask ==
  ASSUME NEW u \in Tasks, NEW pc \in Handled
  PROVE  LET t == [u EXCEPT !.pc = pc] IN
         /\ t \in Tasks /\ t.pc = pc /\ t.of = u.of /\ t.view = u.view /\ t.next = u.next
BY DEF Tasks

LEMMA HistoryIsTyped ==
  ASSUME Inv
  PROVE  /\ dialog \in Dialogs /\ cancelled \in Dialogs /\ fsm \in States
         /\ data \in DataType /\ Dialogs \subseteq Nat
         /\ \A h \in Handlers : task[h] \in Tasks
         /\ cancelled < dialog => dialog # 0
<1>1. Dialogs \subseteq Nat
  BY ChatAssumption DEF Dialogs
<1>2. dialog \in Dialogs /\ cancelled \in Dialogs /\ cancelled <= dialog
  BY DEF Inv, TypeOK
<1> QED
  BY <1>1, <1>2 DEF Inv, TypeOK, Tasks

-----------------------------------------------------------------------------
(* Steps of one handler, by what they do to the chat and to the task.       *)

\* A handler that runs while nothing overlapped.
LEMMA RunsAlone ==
  ASSUME Inv, NEW h \in Handlers, ~At(h, "idle"), overlaps = 0
  PROVE  /\ Good(fsm, data) /\ Fresh(data) /\ Fits(task[h], fsm, data)
         /\ \A g \in Handlers \ {h} : At(g, "idle")
BY DEF Inv, Solo, Alone

\* What such a handler knows, whatever it waits for.
LEMMA Knows ==
  ASSUME Inv, NEW h \in Handlers, ~At(h, "idle"), overlaps = 0
  PROVE  /\ Of(h) = dialog
         /\ task[h].pc \notin NeutralPcs => cancelled < dialog /\ Of(h) # 0
<1>1. Fits(task[h], fsm, data)
  BY RunsAlone
<1> QED
  BY <1>1, HistoryIsTyped DEF Fits, Of

\* The dispatcher read the state that the handler finds.
LEMMA FindsItsState ==
  ASSUME Inv, NEW f \in DOMAIN Filter, NEW h \in Handlers, At(h, f), overlaps = 0
  PROVE  fsm \in Filter[f]
<1>1. ~At(h, "idle")
  BY Names DEF At
<1>2. Fits(task[h], fsm, data)
  BY <1>1, RunsAlone
<1> QED
  BY <1>2 DEF Fits, At

\* The other handlers do not move.
LEMMA StepKeeps ==
  ASSUME Inv, NEW h \in Handlers, ~At(h, "idle"), NEW t \in Tasks, Become(h, t),
         UNCHANGED <<dialog, overlaps>>,
         fsm' \in States, data' \in DataType,
         shown' \in ContentType, asked' \in {"no", "confirm", "conflict", "answered"},
         lost' \in BOOLEAN, cancelled' \in {cancelled, dialog}, listed' \in Dialogs,
         chosen' \in {"nothing", "delete", "move"},
         overlaps = 0 => /\ Good(fsm, data)' /\ Fresh(data)'
                         /\ t.pc = "idle" \/ Fits(t, fsm, data)'
  PROVE  Inv'
<1>1. task' = [task EXCEPT ![h] = t] /\ task'[h] = t /\ task' \in [Handlers -> Tasks]
  BY DEF Become, Inv, TypeOK, Tasks
<1>2. TypeOK'
  BY <1>1 DEF Inv, TypeOK, Tasks
<1>3. (cancelled <= dialog)'
  BY HistoryIsTyped DEF Inv
<1>4. ASSUME overlaps' = 0
      PROVE  Solo'
  <2>1. \A g \in Handlers \ {h} : At(g, "idle")'
    BY <1>1, <1>4, RunsAlone DEF At, Inv, TypeOK
  <2>2. Alone'
    BY <2>1 DEF Alone
  <2>3. (At(h, "idle") \/ Fits(task[h], fsm, data))'
    BY <1>1, <1>4 DEF At
  <2> QED
    BY <1>4, <2>1, <2>2, <2>3 DEF Solo
<1> QED
  BY <1>2, <1>3, <1>4 DEF Inv, Solo

\* Most steps leave the history alone.
LEMMA MoveKeeps ==
  ASSUME Inv, NEW h \in Handlers, ~At(h, "idle"), NEW t \in Tasks, Become(h, t),
         NEW s \in States, NEW d \in DataType, fsm' = s, data' = d, Rest,
         overlaps = 0 => /\ Good(s, d) /\ Fresh(d)
                         /\ t.pc = "idle" \/ Fits(t, s, d)
  PROVE  Inv'
<1>1. /\ UNCHANGED <<dialog, overlaps>>
      /\ UNCHANGED <<shown, asked, lost, cancelled, listed, chosen>>
  BY DEF Rest, history
<1>2. \A e : Timely(e)' <=> Timely(e)
  BY <1>1 DEF Timely
<1>3. \A r : Good(r, d) => Good(r, d)'
  BY <1>1, <1>2 DEF Good
<1>4. Fresh(d) => Fresh(d)'
  BY <1>1 DEF Fresh
<1>5. Fits(t, s, d) => Fits(t, s, d)'
  BY <1>1, <1>2, <1>3 DEF Fits
<1>6. overlaps = 0 => Good(fsm, data)' /\ Fresh(data)' /\ (t.pc = "idle" \/ Fits(t, fsm, data)')
  BY <1>3, <1>4, <1>5
<1>7. /\ shown' \in ContentType /\ asked' \in {"no", "confirm", "conflict", "answered"}
      /\ lost' \in BOOLEAN /\ cancelled' \in {cancelled, dialog} /\ listed' \in Dialogs
      /\ chosen' \in {"nothing", "delete", "move"}
  BY <1>1 DEF Inv, TypeOK
<1> QED
  BY <1>1, <1>6, <1>7, StepKeeps

\* The handler goes to its next await.
LEMMA AwaitKeeps ==
  ASSUME Inv, NEW h \in Handlers, ~At(h, "idle"), NEW pc \in Handled, Await(h, pc),
         NEW s \in States, NEW d \in DataType, fsm' = s, data' = d, Rest,
         overlaps = 0 => /\ Good(s, d) /\ Fresh(d)
                         /\ \A t \in Tasks : /\ t.pc = pc /\ t.of = Of(h)
                                             /\ t.view = task[h].view
                                             => Fits(t, s, d)
  PROVE  Inv'
<1> DEFINE t == [task[h] EXCEPT !.pc = pc]
<1>1. t \in Tasks /\ t.pc = pc /\ t.of = Of(h) /\ t.view = task[h].view
  BY HistoryIsTyped, NextTask DEF Of
<1>2. Become(h, t)
  BY DEF Await
<1> HIDE DEF t
<1> QED
  BY <1>1, <1>2, MoveKeeps

\* The handler ends.
LEMMA EndKeeps ==
  ASSUME Inv, NEW h \in Handlers, ~At(h, "idle"), Done(h),
         NEW s \in States, NEW d \in DataType, fsm' = s, data' = d, Rest,
         overlaps = 0 => Good(s, d) /\ Fresh(d)
  PROVE  Inv'
BY EmptyIsTyped, MoveKeeps DEF Done

LEMMA EndAsItIs ==
  ASSUME Inv, NEW h \in Handlers, ~At(h, "idle"), Keep, Done(h), Rest
  PROVE  Inv'
BY HistoryIsTyped, RunsAlone, EndKeeps DEF Keep, chat

LEMMA AskKeeps ==
  ASSUME Inv, NEW h \in Handlers, NEW name, name # "idle", NEW next \in States,
         Ask(h, name, next), overlaps = 0 => Good(next, data)
  PROVE  Inv'
BY HistoryIsTyped, RunsAlone, EndKeeps DEF Ask, Enter, At

\* The answer is stored; its state is set later.
LEMMA AnswerKeeps ==
  ASSUME Inv, NEW h \in Handlers, NEW name, name \notin NeutralPcs \cup {"idle"},
         NEW next \in States, NEW d \in DataType, Answer(h, name, d, next),
         overlaps = 0 => Good(fsm, d) /\ Fresh(d) /\ Good(next, d)
  PROVE  Inv'
<1> DEFINE t == [task[h] EXCEPT !.pc = "set_state", !.next = next]
<1>1. t \in Tasks /\ t.pc = "set_state" /\ t.of = Of(h) /\ t.next = next
  <2>1. task[h] \in Tasks /\ "set_state" \in Handled
    BY HistoryIsTyped DEF Handled
  <2> QED
    BY <2>1 DEF Tasks, Of
<1>2. Become(h, t)
  BY DEF Answer
<1> HIDE DEF t
<1>3. overlaps = 0 => Fits(t, fsm, d)
  <2>1. overlaps = 0 => Of(h) = dialog /\ cancelled < dialog
    BY Knows DEF Answer, At
  <2>2. "set_state" \notin DOMAIN Filter
    BY Names
  <2> QED
    BY <1>1, <2>1, <2>2 DEF Fits
<1> QED
  BY <1>1, <1>2, <1>3, MoveKeeps, HistoryIsTyped DEF Answer, Put, At

\* The state is cleared; the data is cleared later.
LEMMA ClearKeeps ==
  ASSUME Inv, NEW h \in Handlers, ~At(h, "idle"), NEW pc \in {"clear", "cancel"},
         Clear(h, pc)
  PROVE  Inv'
<1>1. pc \in Handled /\ "none" \in States
  BY DEF Handled, States
<1>2. Good("none", data)
  BY DEF Good, Neutral, Timed, Titled, DeleteChosen, MoveChosen
<1>3. overlaps = 0 => Fresh(data) /\ Of(h) = dialog
  BY RunsAlone, Knows
<1>4. \A t : t.pc = pc /\ t.of = dialog => Fits(t, "none", data)
  BY Names DEF Fits, NeutralPcs
<1> QED
  BY <1>1, <1>2, <1>3, <1>4, AwaitKeeps, HistoryIsTyped DEF Clear, Enter

LEMMA DropKeeps ==
  ASSUME Inv, NEW h \in Handlers, NEW name, name # "idle", Drop(h, name)
  PROVE  Inv'
BY ClearKeeps DEF Drop, At
-----------------------------------------------------------------------------
(* Answers on which little depends.                                         *)

LEMMA NeutralIsGood ==
  ASSUME NEW s \in Neutral, NEW d
  PROVE  s \in States /\ Good(s, d)
<1>1. /\ s \in States /\ s \notin Timed \cup Titled \cup DeleteChosen \cup MoveChosen
      /\ s \notin {"enter_title", "enter_duration", "confirm", "conflict"}
  BY DEF Neutral, OtherStates, AccountStates, States, Timed, Titled, DeleteChosen, MoveChosen
<1> QED
  BY <1>1 DEF Good

\* The states whose data is not looked at yet.
Plain ==
  {"choose_mode", "choose_date", "enter_people", "enter_range", "review_options",
   "confirm_create", "move_event", "delete_event", "free_slot_confirm"}

LEMMA PlainIsGood ==
  ASSUME NEW s \in Plain, NEW d, cancelled < dialog
  PROVE  s \in States /\ Good(s, d)
<1>1. /\ s \notin Timed \cup Titled \cup DeleteChosen \cup MoveChosen
      /\ s \notin {"enter_title", "enter_duration", "confirm", "conflict"}
  BY DEF Plain, Timed, Titled, DeleteChosen, MoveChosen
<1>2. s \in States
  BY DEF Plain, States, CreateStates, SlotStates, RescheduleStates, DeleteStates
<1> QED
  BY <1>1, <1>2 DEF Good

LEMMA AskPlain ==
  ASSUME Inv, NEW h \in Handlers, NEW name, name \notin NeutralPcs \cup {"idle"},
         NEW next \in Plain, Ask(h, name, next)
  PROVE  Inv'
<1>1. overlaps = 0 => cancelled < dialog
  BY Knows DEF Ask, At
<1>2. next \in States
  BY DEF Plain, States, CreateStates, SlotStates, RescheduleStates, DeleteStates
<1> QED
  BY <1>1, <1>2, PlainIsGood, AskKeeps

LEMMA AskNeutral ==
  ASSUME Inv, NEW h \in Handlers, NEW name, name # "idle", NEW next \in Neutral,
         Ask(h, name, next)
  PROVE  Inv'
BY NeutralIsGood, AskKeeps

\* The awaits on which nothing but the dialog depends.
Waits ==
  {"unreadable", "creating", "conflict_find_slots", "find_slots", "find_slots_malformed",
   "slot_chosen", "deleting", "moving", "free_slot", "find_slot_intent",
   "find_slot_people", "find_slots_by_text"}

LEMMA WaitKeeps ==
  ASSUME Inv, NEW h \in Handlers, ~At(h, "idle"), task[h].pc \notin NeutralPcs,
         NEW pc \in Waits, Await(h, pc),
         NEW s \in States, NEW d \in DataType, fsm' = s, data' = d, Rest,
         overlaps = 0 => Good(s, d) /\ Fresh(d)
  PROVE  Inv'
<1>1. pc \in Handled
  BY DEF Waits, Handled
<1>2. overlaps = 0 => Of(h) = dialog /\ cancelled < dialog
  BY Knows
<1>3. pc \notin DOMAIN Filter
  BY Names DEF Waits
<1>4. ASSUME cancelled < dialog, NEW t \in Tasks, t.pc = pc, t.of = dialog
      PROVE  Fits(t, s, d)
  BY <1>3, <1>4 DEF Fits, Waits
<1> QED
  BY <1>1, <1>2, <1>4, AwaitKeeps

LEMMA WaitAsItIs ==
  ASSUME Inv, NEW h \in Handlers, ~At(h, "idle"), task[h].pc \notin NeutralPcs,
         NEW pc \in Waits, Await(h, pc), Keep, Rest
  PROVE  Inv'
BY HistoryIsTyped, RunsAlone, WaitKeeps DEF Keep, chat

\* Data that no state looks at.
SameAnswers(d, e) ==
  /\ e.draft = d.draft /\ e.when = d.when /\ e.title = d.title
  /\ e.free_slot_event_ids = d.free_slot_event_ids

SameOtherwise(d, e) ==
  /\ e.recurrence = d.recurrence /\ e.event_id = d.event_id
  /\ e.mode = d.mode /\ e.date_from = d.date_from

LEMMA SameIsGood ==
  ASSUME NEW s, NEW d, NEW e, SameAnswers(d, e), SameOtherwise(d, e), Good(s, d)
  PROVE  Good(s, e)
<1>1. Complete(e) = Complete(d) /\ Named(e) = Named(d) /\ Content(e) = Content(d)
  BY DEF SameAnswers, SameOtherwise, Complete, Named, Content
<1> QED
  BY <1>1 DEF Good, SameAnswers, SameOtherwise, Timely

LEMMA SameIsFresh ==
  ASSUME NEW d, NEW e, SameAnswers(d, e), Fresh(d)
  PROVE  Fresh(e)
BY DEF Fresh, SameAnswers

\* What the question shows may change as long as it is not asked.
LEMMA LaterIsGood ==
  ASSUME NEW s, NEW d, NEW e, SameAnswers(d, e), Good(s, d), s \notin {"confirm", "conflict"},
         e.event_id = d.event_id, e.date_from = d.date_from, e.mode = d.mode
  PROVE  Good(s, e)
<1>1. Complete(e) = Complete(d) /\ Named(e) = Named(d)
  BY DEF SameAnswers, Complete, Named
<1> QED
  BY <1>1 DEF Good, SameAnswers, Timely

-----------------------------------------------------------------------------
(* create.py and create_recurrence.py.                                      *)

LEMMA SetState ==
  ASSUME Inv, NEW h \in Handlers, set_state(h)
  PROVE  Inv'
<1>1. At(h, "set_state") /\ Enter(task[h].next) /\ Done(h) /\ Rest
  BY DEF set_state
<1>2. ~At(h, "idle") /\ task[h].next \in States
  BY <1>1, HistoryIsTyped DEF At, Tasks
<1>3. overlaps = 0 => Good(task[h].next, data) /\ Fresh(data)
  BY <1>1, <1>2, RunsAlone DEF Fits, At
<1> QED
  BY <1>1, <1>2, <1>3, EndKeeps, HistoryIsTyped DEF Enter

LEMMA ClearStep ==
  ASSUME Inv, NEW h \in Handlers, clear(h)
  PROVE  Inv'
<1>1. task[h].pc \in {"clear", "cancel", "clear_stuck", "clear_freed"} /\ ~At(h, "idle")
  BY DEF clear, At
<1>2. /\ UNCHANGED <<fsm, dialog, overlaps>> /\ data' = Empty
      /\ asked' = "no" /\ shown' = NoContent /\ lost' = FALSE /\ listed' = 0
      /\ chosen' = "nothing" /\ cancelled' \in {cancelled, dialog}
  BY DEF clear, Put
<1>3. /\ fsm' \in States /\ data' \in DataType /\ shown' \in ContentType /\ 0 \in Dialogs
  BY <1>2, EmptyIsTyped, HistoryIsTyped, ChatAssumption DEF Dialogs
<1>4. overlaps = 0 => fsm = "none"
  BY <1>1, RunsAlone DEF Fits
<1>5. overlaps = 0 => Good(fsm, data)' /\ Fresh(data)'
  <2>1. Fresh(data)'
    BY <1>2, EmptyIsTyped DEF Fresh
  <2>2. fsm' = "none" => Good(fsm, data)'
    BY DEF Good, Neutral, Timed, Titled, DeleteChosen, MoveChosen
  <2> QED
    BY <1>2, <1>4, <2>1, <2>2
<1>6. PICK t \in Tasks :
        /\ Become(h, t)
        /\ \/ t.pc = "idle"
           \/ /\ t.pc \in {"intent", "freeing"} /\ t.of = Of(h)
              /\ task[h].pc \notin NeutralPcs /\ cancelled' = cancelled
  <2>1. CASE Done(h)
    BY <2>1, EmptyIsTyped DEF Done
  <2>2. ASSUME NEW pc \in {"intent", "freeing"}, Await(h, pc),
               task[h].pc \notin NeutralPcs, cancelled' = cancelled
        PROVE  \E t \in Tasks :
                 /\ Become(h, t)
                 /\ \/ t.pc = "idle"
                    \/ /\ t.pc \in {"intent", "freeing"} /\ t.of = Of(h)
                       /\ task[h].pc \notin NeutralPcs /\ cancelled' = cancelled
    <3> DEFINE t == [task[h] EXCEPT !.pc = pc]
    <3>1. pc \in Handled
      BY DEF Handled
    <3>2. t \in Tasks /\ t.pc = pc /\ t.of = Of(h)
      BY <3>1, HistoryIsTyped, NextTask DEF Of
    <3>3. Become(h, t)
      BY <2>2 DEF Await
    <3> HIDE DEF t
    <3> QED
      BY <2>2, <3>2, <3>3
  <2> QED
    BY <2>1, <2>2 DEF clear, At, NeutralPcs
<1>7. overlaps = 0 => t.pc = "idle" \/ Fits(t, fsm, data)'
  <2>1. ASSUME overlaps = 0, t.pc # "idle"
        PROVE  Fits(t, fsm, data)'
    <3>1. t.of = dialog' /\ cancelled' < dialog' /\ fsm' = "none"
      BY <1>1, <1>2, <1>4, <1>6, <2>1, Knows
    <3>2. t.pc \in {"intent", "freeing"} /\ t.pc \notin DOMAIN Filter
      BY <1>6, <2>1, Names
    <3> QED
      BY <3>1, <3>2 DEF Fits
  <2> QED
    BY <2>1
<1> QED
  BY <1>1, <1>2, <1>3, <1>5, <1>6, <1>7, StepKeeps
LEMMA AskCalendarStep ==
  ASSUME Inv, NEW h \in Handlers, _ask_calendar(h)
  PROVE  Inv'
<1>1. CASE Ask(h, "ask_calendar", "choose_calendar")
  <2>1. ASSUME overlaps = 0
        PROVE  Good("choose_calendar", data)
    <3>1. At(h, "ask_calendar") /\ ~At(h, "idle")
      BY <1>1 DEF Ask, At
    <3>2. Fits(task[h], fsm, data) /\ cancelled < dialog
      BY <2>1, <3>1, RunsAlone, Knows DEF At, NeutralPcs
    <3>3. Timely(data)
      BY <3>1, <3>2 DEF Fits, At
    <3> QED
      BY <3>2, <3>3 DEF Good, Titled, DeleteChosen, MoveChosen
  <2>2. "choose_calendar" \in States
    BY DEF States, CreateStates
  <2> QED
    BY <1>1, <2>1, <2>2, AskKeeps
<1>2. CASE (At(h, "ask_calendar") \/ At(h, "ask_calendar_as_bot")) /\ Clear(h, "clear")
  BY <1>2, ClearKeeps DEF At
<1> QED
  BY <1>1, <1>2 DEF _ask_calendar

\* With times, the calendars can be asked for.
LEMMA AskCalendarKeeps ==
  ASSUME Inv, NEW h \in Handlers, ~At(h, "idle"), task[h].pc \notin NeutralPcs,
         NEW of \in {"user", "bot"}, AskCalendar(h, of),
         NEW s \in States, NEW d \in DataType, fsm' = s, data' = d, Rest,
         overlaps = 0 => Good(s, d) /\ Fresh(d) /\ Timely(d)
  PROVE  Inv'
<1>1. PICK pc \in {"ask_calendar", "ask_calendar_as_bot"} : Await(h, pc)
  BY DEF AskCalendar
<1>2. pc \in Handled /\ pc \notin DOMAIN Filter
  BY Names DEF Handled
<1>3. overlaps = 0 => Of(h) = dialog /\ cancelled < dialog
  BY Knows
<1>4. ASSUME cancelled < dialog, Timely(d), NEW t \in Tasks, t.pc = pc, t.of = dialog
      PROVE  Fits(t, s, d)
  BY <1>2, <1>4 DEF Fits
<1> QED
  BY <1>1, <1>2, <1>3, <1>4, AwaitKeeps

LEMMA ReadKeeps ==
  ASSUME Inv, NEW h \in Handlers, task[h].pc \in {"show_confirm", "slot_stored"},
         NEW pc \in {"check_availability", "slot_confirm"}, ReadQuestion(h, pc)
  PROVE  Inv'
<1>1. ~At(h, "idle") /\ task[h].pc \notin NeutralPcs
  BY DEF At, NeutralPcs
<1>2. Keep /\ Rest /\ fsm' = fsm /\ data' = data
  BY DEF ReadQuestion, Keep, chat
<1>3. overlaps = 0 => /\ Good(fsm, data) /\ Fresh(data) /\ Timely(data) /\ Named(data)
                      /\ Of(h) = dialog /\ cancelled < dialog
  BY <1>1, RunsAlone, Knows DEF Fits
<1>4. CASE ~Complete(data) /\ Await(h, "incomplete")
  <2>1. "incomplete" \in Handled /\ "incomplete" \notin DOMAIN Filter
    BY Names DEF Handled
  <2>2. ASSUME cancelled < dialog, Timely(data), NEW t \in Tasks,
               t.pc = "incomplete", t.of = dialog
        PROVE  Fits(t, fsm, data)
    BY <1>4, <2>1, <2>2 DEF Fits, Timely
  <2> QED
    BY <1>1, <1>2, <1>3, <1>4, <2>1, <2>2, AwaitKeeps, HistoryIsTyped
<1>5. CASE Become(h, [task[h] EXCEPT !.pc = pc, !.view = Content(data)])
  <2> DEFINE t == [task[h] EXCEPT !.pc = pc, !.view = Content(data)]
  <2>1. t \in Tasks /\ t.pc = pc /\ t.of = Of(h) /\ t.view = Content(data)
    BY HistoryIsTyped, ContentIsTyped DEF Tasks, Handled, Of
  <2>2. Become(h, t)
    BY <1>5
  <2> HIDE DEF t
  <2>3. pc \notin DOMAIN Filter
    BY Names
  <2>4. overlaps = 0 => Fits(t, fsm, data)
    BY <1>3, <2>1, <2>3 DEF Fits
  <2> QED
    BY <1>1, <1>2, <1>3, <2>1, <2>2, <2>4, MoveKeeps, HistoryIsTyped
<1>6. CASE Await(h, "unreadable")
  BY <1>1, <1>2, <1>6, WaitAsItIs DEF Waits
<1> QED
  BY <1>4, <1>5, <1>6 DEF ReadQuestion

LEMMA ConfirmingKeeps ==
  ASSUME Inv, NEW h \in Handlers, task[h].pc \in {"check_availability", "slot_confirm"},
         NEW state, NEW pc,
         \/ state = "confirm" /\ pc = "confirm_question"
         \/ state = "conflict" /\ pc = "conflict_question",
         Confirming(h, state, pc)
  PROVE  Inv'
<1>1. ~At(h, "idle") /\ task[h].pc \notin NeutralPcs
  BY DEF At, NeutralPcs
<1>2. PICK t \in Tasks :
        /\ t.pc = pc /\ t.of = Of(h) /\ t.view = task[h].view
        /\ Become(h, t)
  <2>1. pc \in Handled
    BY DEF Handled
  <2> QED
    BY <2>1, HistoryIsTyped, NextTask DEF Of, Confirming, Await
<1>4. /\ fsm' = state /\ data' = data /\ asked' = "no" /\ shown' = NoContent
      /\ UNCHANGED <<dialog, overlaps, lost, cancelled, listed, chosen>>
  BY DEF Confirming, Enter, Over
<1>5. state \in States
  BY DEF States, CreateStates
<1>6. ASSUME overlaps = 0
      PROVE  Good(fsm, data)' /\ Fresh(data)' /\ Fits(t, fsm, data)'
  <2>1. /\ Fresh(data) /\ Timely(data) /\ Named(data) /\ Of(h) = dialog
        /\ task[h].view = Content(data) /\ cancelled < dialog
    BY <1>1, <1>6, RunsAlone, Knows DEF Fits
  <2>2. Timely(data)' /\ Named(data)' /\ (cancelled < dialog)' /\ Fresh(data)'
    BY <1>4, <2>1 DEF Timely, Complete, Named, Fresh
  <2>3. Good(fsm, data)'
    BY <1>4, <2>2 DEF Good, DeleteChosen, MoveChosen
  <2>4. pc \notin DOMAIN Filter
    BY Names
  <2>5. t.view = Content(data)' /\ t.of = dialog'
    BY <1>2, <1>4, <2>1
  <2>6. Fits(t, fsm, data)'
    BY <1>2, <1>4, <2>2, <2>4, <2>5 DEF Fits
  <2> QED
    BY <2>2, <2>3, <2>6
<1>7. /\ fsm' \in States /\ data' \in DataType /\ shown' \in ContentType
      /\ UNCHANGED <<dialog, overlaps>>
      /\ asked' \in {"no", "confirm", "conflict", "answered"} /\ lost' \in BOOLEAN
      /\ cancelled' \in {cancelled, dialog} /\ listed' \in Dialogs
      /\ chosen' \in {"nothing", "delete", "move"}
  BY <1>4, <1>5, EmptyIsTyped DEF Inv, TypeOK
<1> QED
  BY <1>1, <1>2, <1>6, <1>7, StepKeeps

LEMMA ShowSteps ==
  ASSUME Inv, NEW h \in Handlers, _show_confirm(h) \/ ConfirmSlot(h)
  PROVE  Inv'
<1>1. CASE _show_confirm(h)
  BY <1>1, ReadKeeps, ConfirmingKeeps DEF _show_confirm, At
<1>2. CASE ConfirmSlot(h)
  BY <1>2, ReadKeeps, ConfirmingKeeps DEF ConfirmSlot, At
<1> QED
  BY <1>1, <1>2

LEMMA QuestionStep ==
  ASSUME Inv, NEW h \in Handlers, Question(h)
  PROVE  Inv'
<1>1. PICK how \in {"confirm", "conflict"} :
        /\ task[h].pc = IF how = "confirm" THEN "confirm_question" ELSE "conflict_question"
        /\ asked' = how /\ shown' = Showing(how, task[h].view)
  BY DEF Question, At, Showing
<1>2. /\ UNCHANGED <<fsm, data, dialog, overlaps, lost, cancelled, listed, chosen>>
      /\ Become(h, Idle)
  BY DEF Question, Keep, chat, Done
<1>3. ~At(h, "idle") /\ task[h].pc \notin NeutralPcs
  BY <1>1 DEF At, NeutralPcs
<1>4. shown' \in ContentType
  <2>1. task[h].view \in ContentType
    BY HistoryIsTyped DEF Tasks
  <2> QED
    BY <1>1, <2>1 DEF Showing, ContentType
<1>5. ASSUME overlaps = 0
      PROVE  Good(fsm, data)' /\ Fresh(data)'
  <2>1. /\ Good(fsm, data) /\ Fresh(data) /\ fsm = how /\ task[h].view = Content(data)
    BY <1>1, <1>3, <1>5, RunsAlone DEF Fits
  <2>2. Fresh(data)' /\ (Timely(data) => Timely(data)')
    BY <1>2, <2>1 DEF Fresh, Timely, Complete
  <2>3. shown' = Showing(asked', Content(data')) /\ fsm' = how /\ data' = data
    BY <1>1, <1>2, <2>1
  <2> QED
    BY <1>2, <2>1, <2>2, <2>3 DEF Good, Named, DeleteChosen, MoveChosen
<1>6. /\ fsm' \in States /\ data' \in DataType
      /\ UNCHANGED <<dialog, overlaps>>
      /\ asked' \in {"no", "confirm", "conflict", "answered"} /\ lost' \in BOOLEAN
      /\ cancelled' \in {cancelled, dialog} /\ listed' \in Dialogs
      /\ chosen' \in {"nothing", "delete", "move"}
  BY <1>1, <1>2 DEF Inv, TypeOK
<1> QED
  BY <1>2, <1>3, <1>4, <1>5, <1>6, StepKeeps, EmptyIsTyped

LEMMA ModeSteps ==
  ASSUME Inv, NEW h \in Handlers, cmd_create(h) \/ create_step_mode(h)
  PROVE  Inv'
<1>1. CASE cmd_create(h)
  BY <1>1, AskPlain DEF cmd_create, Plain, NeutralPcs
<1>2. CASE create_step_mode(h)
  <2> DEFINE d == [data EXCEPT !.mode = "step"]
  <2>1. d \in DataType /\ SameAnswers(data, d)
    BY HistoryIsTyped DEF DataType, SameAnswers
  <2>2. Answer(h, "create_step_mode", d, "choose_date")
    BY <1>2 DEF create_step_mode
  <2> HIDE DEF d
  <2>3. /\ "create_step_mode" \in DOMAIN Filter
        /\ Filter["create_step_mode"] = {"choose_mode"}
    BY DEF Filter
  <2>4. At(h, "create_step_mode") /\ ~At(h, "idle") /\ "create_step_mode" \notin NeutralPcs
    BY <2>2 DEF Answer, At, NeutralPcs
  <2>5. overlaps = 0 => fsm = "choose_mode" /\ cancelled < dialog /\ Fresh(data)
    BY <2>3, <2>4, FindsItsState, Knows, RunsAlone DEF At
  <2>6. "choose_date" \in Plain /\ "choose_mode" \in Plain
    BY DEF Plain
  <2>7. overlaps = 0 => Good(fsm, d) /\ Good("choose_date", d) /\ Fresh(d)
    BY <2>1, <2>5, <2>6, PlainIsGood, SameIsFresh
  <2>8. "choose_date" \in States
    BY DEF States, CreateStates
  <2> QED
    BY <2>1, <2>2, <2>4, <2>7, <2>8, AnswerKeeps
<1> QED
  BY <1>1, <1>2
\* The way of input is lost between the two writes, and only there.
LEMMA TextMode ==
  ASSUME Inv, NEW h \in Handlers, create_text_mode(h)
  PROVE  Inv'
<1>1. task[h].pc \in {"create_text_mode", "mode_text"} /\ ~At(h, "idle")
  BY DEF create_text_mode, At
<1>2. task[h].pc \notin NeutralPcs
  BY <1>1 DEF NeutralPcs
<1>3. overlaps = 0 => /\ Fresh(data) /\ Of(h) = dialog /\ cancelled < dialog
                      /\ task[h].pc = "mode_text" => fsm = "enter_title"
  BY <1>1, <1>2, RunsAlone, Knows DEF Fits
<1>4. /\ UNCHANGED <<dialog, overlaps, shown, asked, cancelled, listed, chosen>>
      /\ lost' \in BOOLEAN
  BY DEF create_text_mode
<1>5. /\ data' \in DataType /\ fsm' \in States
      /\ overlaps = 0 => /\ fsm' = "enter_title" /\ Fresh(data')
                         /\ lost' \/ data'.mode = "text"
  <2>1. CASE At(h, "create_text_mode")
    BY <1>3, <2>1, HistoryIsTyped DEF create_text_mode, Enter, At, States, CreateStates
  <2>2. CASE At(h, "mode_text")
    <3> DEFINE d == [data EXCEPT !.mode = "text"]
    <3>1. d \in DataType /\ SameAnswers(data, d) /\ d.mode = "text"
      BY HistoryIsTyped DEF DataType, SameAnswers
    <3>2. fsm' = fsm /\ data' = d
      BY <2>2 DEF create_text_mode, Put, At
    <3> HIDE DEF d
    <3> QED
      BY <1>3, <2>2, <3>1, <3>2, HistoryIsTyped, SameIsFresh DEF At
  <2> QED
    BY <1>1, <2>1, <2>2 DEF At
<1>6. overlaps = 0 => Good(fsm, data)' /\ Fresh(data)'
  <2>1. Fresh(data') => Fresh(data)'
    BY <1>4 DEF Fresh
  <2>2. fsm' = "enter_title" /\ (lost' \/ data'.mode = "text") /\ cancelled' < dialog'
          => Good(fsm, data)'
    BY DEF Good, Timely, Timed, Titled, DeleteChosen, MoveChosen
  <2> QED
    BY <1>3, <1>4, <1>5, <2>1, <2>2
<1>7. PICK t \in Tasks :
        /\ Become(h, t)
        /\ t.pc = "idle" \/ (t.pc = "mode_text" /\ t.of = Of(h))
  <2>1. CASE Done(h)
    BY <2>1, EmptyIsTyped DEF Done
  <2>2. CASE Await(h, "mode_text")
    <3>1. "mode_text" \in Handled
      BY DEF Handled
    <3> QED
      BY <2>2, <3>1, HistoryIsTyped, NextTask DEF Of, Await
  <2> QED
    BY <2>1, <2>2 DEF create_text_mode
<1>8. ASSUME overlaps = 0, t.pc # "idle"
      PROVE  Fits(t, fsm, data)'
  <2>1. /\ t.pc = "mode_text" /\ t.of = dialog' /\ cancelled' < dialog'
        /\ fsm' = "enter_title"
    BY <1>3, <1>4, <1>5, <1>7, <1>8
  <2>2. "mode_text" \notin DOMAIN Filter
    BY Names
  <2> QED
    BY <2>1, <2>2 DEF Fits
<1>9. /\ shown' \in ContentType /\ asked' \in {"no", "confirm", "conflict", "answered"}
      /\ cancelled' \in {cancelled, dialog} /\ listed' \in Dialogs
      /\ chosen' \in {"nothing", "delete", "move"}
  BY <1>4 DEF Inv, TypeOK
<1> QED
  BY <1>1, <1>4, <1>5, <1>6, <1>7, <1>8, <1>9, StepKeeps

LEMMA TextInput ==
  ASSUME Inv, NEW h \in Handlers, handle_text_input(h)
  PROVE  Inv'
<1>1. task[h].pc \in {"handle_text_input", "title_typed"} /\ ~At(h, "idle")
  BY DEF handle_text_input, Answer, At
<1>2. task[h].pc \notin NeutralPcs
  BY <1>1 DEF NeutralPcs
<1>3. overlaps = 0 => /\ Good(fsm, data) /\ Fresh(data) /\ Of(h) = dialog
                      /\ cancelled < dialog /\ Of(h) # 0
  BY <1>1, <1>2, RunsAlone, Knows
<1>4. CASE At(h, "handle_text_input")
  <2>1. PICK pc \in {"process_llm_draft", "title_typed"} :
          /\ Await(h, pc)
          /\ pc = "title_typed" => data.mode # "text"
    BY <1>4 DEF handle_text_input, Answer, At
  <2>2. Keep /\ Rest
    BY <1>4 DEF handle_text_input, Answer, At
  <2>3. /\ "handle_text_input" \in DOMAIN Filter
        /\ Filter["handle_text_input"] = {"enter_title"}
    BY DEF Filter
  <2>4. overlaps = 0 => fsm = "enter_title"
    BY <1>4, <2>3, FindsItsState
  <2>5. overlaps = 0 /\ pc = "title_typed" => Timely(data)
    BY <1>3, <2>1, <2>4 DEF Good
  <2>6. pc \in Handled /\ pc \notin DOMAIN Filter
    BY Names DEF Handled
  <2>7. ASSUME overlaps = 0, NEW t \in Tasks, t.pc = pc, t.of = dialog
        PROVE  Fits(t, fsm, data)
    BY <1>3, <2>4, <2>5, <2>6, <2>7 DEF Fits
  <2> QED
    BY <1>1, <1>3, <2>1, <2>2, <2>6, <2>7, AwaitKeeps, HistoryIsTyped DEF Keep, chat
<1>5. CASE At(h, "title_typed")
  <2> DEFINE d == [data EXCEPT !.title = Of(h)]
  <2>1. Answer(h, "title_typed", d, "enter_description")
    BY <1>5 DEF handle_text_input, At
  <2>2. /\ d \in DataType /\ d.title = Of(h) /\ d.draft = data.draft /\ d.when = data.when
        /\ d.free_slot_event_ids = data.free_slot_event_ids
    BY HistoryIsTyped DEF DataType, Tasks, Of
  <2> HIDE DEF d
  <2>3. overlaps = 0 => fsm = "enter_title" /\ Timely(data)
    BY <1>1, <1>5, RunsAlone DEF Fits, At
  <2>4. overlaps = 0 => Timely(d) /\ Named(d) /\ Fresh(d)
    BY <1>3, <2>2, <2>3 DEF Timely, Complete, Named, Fresh
  <2>5. overlaps = 0 => Good(fsm, d) /\ Good("enter_description", d)
    BY <1>3, <2>3, <2>4 DEF Good, Timed, Titled, DeleteChosen, MoveChosen
  <2>6. "enter_description" \in States /\ "title_typed" \notin NeutralPcs \cup {"idle"}
    BY DEF States, CreateStates, NeutralPcs
  <2> QED
    BY <2>1, <2>2, <2>4, <2>5, <2>6, AnswerKeeps
<1> QED
  BY <1>1, <1>4, <1>5 DEF At

LEMMA DraftStep ==
  ASSUME Inv, NEW h \in Handlers, _process_llm_draft(h)
  PROVE  Inv'
<1>1. At(h, "process_llm_draft") /\ ~At(h, "idle") /\ task[h].pc \notin NeutralPcs
  BY DEF _process_llm_draft, At, NeutralPcs
<1>2. CASE Clear(h, "clear")
  BY <1>1, <1>2, ClearKeeps
<1>3. ASSUME NEW repeats \in BOOLEAN,
             Put([data EXCEPT !.draft = [of |-> Of(h), slot |-> FALSE],
                              !.draft_repeats = repeats]),
             AskCalendar(h, "user"), Rest
      PROVE  Inv'
  <2> DEFINE d == [data EXCEPT !.draft = [of |-> Of(h), slot |-> FALSE],
                               !.draft_repeats = repeats]
  <2>1. Of(h) \in Dialogs
    BY HistoryIsTyped DEF Tasks, Of
  <2>2. /\ d \in DataType /\ d.draft.of = Of(h) /\ d.when = data.when
        /\ d.title = data.title /\ d.free_slot_event_ids = data.free_slot_event_ids
    BY <2>1, HistoryIsTyped DEF DataType, Value
  <2>3. fsm' = fsm /\ data' = d
    BY <1>3 DEF Put
  <2> HIDE DEF d
  <2>4. overlaps = 0 => /\ Fresh(data) /\ Of(h) = dialog /\ cancelled < dialog
                        /\ Of(h) # 0 /\ fsm \in {"none", "enter_title"}
    BY <1>1, RunsAlone, Knows DEF Fits, At
  <2>5. overlaps = 0 => Timely(d) /\ Fresh(d)
    BY <2>2, <2>4 DEF Timely, Complete, Fresh
  <2>6. overlaps = 0 => Good(fsm, d)
    BY <2>4, <2>5 DEF Good, Timed, Titled, DeleteChosen, MoveChosen
  <2> QED
    BY <1>1, <1>3, <2>2, <2>3, <2>5, <2>6, AskCalendarKeeps, HistoryIsTyped
<1> QED
  BY <1>2, <1>3 DEF _process_llm_draft

\* With times, the title can be asked for.
LEMMA ToTitle ==
  ASSUME Inv, NEW h \in Handlers, ~At(h, "idle"), task[h].pc \notin NeutralPcs,
         Await(h, "ask_title"),
         NEW s \in States, NEW d \in DataType, fsm' = s, data' = d, Rest,
         overlaps = 0 => Good(s, d) /\ Fresh(d) /\ Timely(d)
  PROVE  Inv'
<1>1. "ask_title" \in Handled /\ "ask_title" \notin DOMAIN Filter
  BY Names DEF Handled
<1>2. overlaps = 0 => Of(h) = dialog /\ cancelled < dialog
  BY Knows
<1>3. ASSUME cancelled < dialog, Timely(d), NEW t \in Tasks,
             t.pc = "ask_title", t.of = dialog
      PROVE  Fits(t, s, d)
  BY <1>1, <1>3 DEF Fits
<1> QED
  BY <1>1, <1>2, <1>3, AwaitKeeps

LEMMA TitleSteps ==
  ASSUME Inv, NEW h \in Handlers, AskTitle(h)
  PROVE  Inv'
<1>1. /\ task[h].pc \in {"ask_title", "mode_step"} /\ ~At(h, "idle")
      /\ task[h].pc \notin NeutralPcs /\ Rest
  BY DEF AskTitle, At, NeutralPcs
<1>2. overlaps = 0 => /\ Fresh(data) /\ Timely(data) /\ Of(h) = dialog /\ cancelled < dialog
                      /\ task[h].pc = "mode_step" => fsm = "enter_title"
  BY <1>1, RunsAlone, Knows DEF Fits
<1>3. ASSUME cancelled < dialog, NEW d, Timely(d)
      PROVE  Good("enter_title", d)
  BY <1>3 DEF Good, Timed, Titled, DeleteChosen, MoveChosen
<1>4. CASE At(h, "ask_title")
  <2>1. Enter("enter_title") /\ Await(h, "mode_step")
    BY <1>4 DEF AskTitle, At
  <2>2. "mode_step" \in Handled /\ "mode_step" \notin DOMAIN Filter /\ "enter_title" \in States
    BY Names DEF Handled, States, CreateStates
  <2>3. ASSUME cancelled < dialog, Timely(data), NEW t \in Tasks,
               t.pc = "mode_step", t.of = dialog
        PROVE  Fits(t, "enter_title", data)
    BY <2>2, <2>3 DEF Fits
  <2> QED
    BY <1>1, <1>2, <1>3, <2>1, <2>2, <2>3, AwaitKeeps, HistoryIsTyped DEF Enter
<1>5. CASE At(h, "mode_step")
  <2> DEFINE d == [data EXCEPT !.mode = "step"]
  <2>1. d \in DataType /\ SameAnswers(data, d) /\ Complete(d) = Complete(data)
    BY HistoryIsTyped DEF DataType, SameAnswers, Complete
  <2>2. fsm' = fsm /\ data' = d /\ Done(h)
    BY <1>5 DEF AskTitle, At, Put
  <2> HIDE DEF d
  <2>3. overlaps = 0 => Good(fsm, d) /\ Fresh(d)
    BY <1>2, <1>3, <1>5, <2>1, SameIsFresh DEF At, Timely
  <2> QED
    BY <1>1, <2>1, <2>2, <2>3, EndKeeps, HistoryIsTyped
<1> QED
  BY <1>1, <1>4, <1>5 DEF At
\* To the question, or to the state before it, with times, and a title where it has one.
LEMMA ToQuestion ==
  ASSUME Inv, NEW h \in Handlers, ~At(h, "idle"), task[h].pc \notin NeutralPcs,
         NEW pc \in {"show_confirm", "recurrence_stored", "slot_stored", "calendar_stored"},
         Await(h, pc),
         NEW s \in States, NEW d \in DataType, fsm' = s, data' = d, Rest,
         overlaps = 0 => Good(s, d) /\ Fresh(d) /\ Timely(d)
                         /\ (pc = "calendar_stored" \/ Named(d))
  PROVE  Inv'
<1>1. pc \in Handled /\ pc \notin DOMAIN Filter
  BY Names DEF Handled
<1>2. overlaps = 0 => Of(h) = dialog /\ cancelled < dialog
  BY Knows
<1>3. ASSUME cancelled < dialog, Timely(d), pc = "calendar_stored" \/ Named(d),
             NEW t \in Tasks, t.pc = pc, t.of = dialog
      PROVE  Fits(t, s, d)
  BY <1>1, <1>3 DEF Fits
<1> QED
  BY <1>1, <1>2, <1>3, AwaitKeeps

LEMMA CalendarSelected ==
  ASSUME Inv, NEW h \in Handlers, calendar_selected(h)
  PROVE  Inv'
<1>1. /\ task[h].pc \in {"calendar_selected", "calendar_stored"} /\ ~At(h, "idle")
      /\ task[h].pc \notin NeutralPcs /\ Rest
  BY DEF calendar_selected, At, NeutralPcs
<1>2. overlaps = 0 => Good(fsm, data) /\ Fresh(data) /\ Of(h) = dialog /\ cancelled < dialog
  BY <1>1, RunsAlone, Knows
<1>3. CASE At(h, "calendar_selected")
  <2> DEFINE d == [data EXCEPT !.calendar_id = TRUE]
  <2>1. d \in DataType /\ SameAnswers(data, d) /\ SameOtherwise(data, d)
    BY HistoryIsTyped DEF DataType, SameAnswers, SameOtherwise
  <2>2. fsm' = fsm /\ data' = d /\ Await(h, "calendar_stored")
    BY <1>3 DEF calendar_selected, At, Put
  <2> HIDE DEF d
  <2>3. /\ "calendar_selected" \in DOMAIN Filter
        /\ Filter["calendar_selected"] = {"choose_calendar"}
    BY DEF Filter
  <2>4. overlaps = 0 => fsm = "choose_calendar"
    BY <1>3, <2>3, FindsItsState
  <2>5. overlaps = 0 => Good(fsm, d) /\ Fresh(d)
    BY <1>2, <2>1, SameIsGood, SameIsFresh
  <2>6. overlaps = 0 => Timely(d)
    BY <2>4, <2>5 DEF Good, Timed
  <2> QED
    BY <1>1, <2>1, <2>2, <2>5, <2>6, ToQuestion, HistoryIsTyped
<1>4. CASE At(h, "calendar_stored")
  <2>1. /\ fsm' = fsm /\ data' = data
        /\ \/ Await(h, "show_confirm") /\ Named(data)
           \/ Await(h, "ask_title")
    BY <1>4 DEF calendar_selected, At, Keep, chat, Named
  <2>2. overlaps = 0 => Timely(data)
    BY <1>1, <1>4, RunsAlone DEF Fits, At
  <2> QED
    BY <1>1, <1>2, <2>1, <2>2, ToQuestion, ToTitle, HistoryIsTyped
<1> QED
  BY <1>1, <1>3, <1>4 DEF At

\* From one question of a meeting to the next one, with times, and then a title.
LEMMA NextQuestion ==
  ASSUME Inv, NEW f \in DOMAIN Filter, NEW h \in Handlers, NEW s \in Timed,
         Filter[f] = {s}, NEW next \in Timed, next \notin {"confirm", "conflict"},
         next \in Titled => s \in Titled, Ask(h, f, next)
  PROVE  Inv'
<1>1. next \in States /\ f # "idle" /\ At(h, f)
  BY Names DEF States, CreateStates, Timed, Titled, Ask
<1>2. ASSUME overlaps = 0
      PROVE  Good(next, data)
  <2>1. Good(fsm, data) /\ fsm = s
    BY <1>1, <1>2, FindsItsState, RunsAlone DEF At
  <2>2. s \notin Neutral
    BY DEF Timed, Titled, Neutral, OtherStates, AccountStates
  <2>3. next \notin DeleteChosen \cup MoveChosen \cup {"enter_duration", "enter_title"}
    BY DEF Timed, Titled, DeleteChosen, MoveChosen
  <2> QED
    BY <2>1, <2>2, <2>3 DEF Good
<1> QED
  BY <1>1, <1>2, AskKeeps

LEMMA TimeSteps ==
  ASSUME Inv, NEW h \in Handlers,
         date_picked(h) \/ time_picked(h) \/ duration_picked(h) \/ description_entered(h)
  PROVE  Inv'
<1>1. CASE date_picked(h)
  <2> DEFINE d == [data EXCEPT !.when = [of |-> Of(h), slot |-> FALSE]]
  <2>1. Of(h) \in Dialogs
    BY HistoryIsTyped DEF Tasks, Of
  <2>2. /\ d \in DataType /\ d.draft = data.draft /\ d.title = data.title
        /\ d.when.of = Of(h) /\ d.free_slot_event_ids = data.free_slot_event_ids
    BY <2>1, HistoryIsTyped DEF DataType, Value
  <2>3. Answer(h, "date_picked", d, "choose_time")
    BY <1>1 DEF date_picked
  <2> HIDE DEF d
  <2>4. /\ "date_picked" \in DOMAIN Filter /\ Filter["date_picked"] = {"choose_date"}
        /\ "date_picked" \notin NeutralPcs \cup {"idle"}
    BY DEF Filter, NeutralPcs
  <2>5. overlaps = 0 => /\ Fresh(data) /\ Of(h) = dialog /\ cancelled < dialog
                        /\ Of(h) # 0 /\ fsm = "choose_date"
    BY <2>3, <2>4, FindsItsState, RunsAlone, Knows DEF Answer, At
  <2>6. overlaps = 0 => Fresh(d) /\ Timely(d)
    BY <2>2, <2>5 DEF Fresh, Timely, Complete
  <2>7. overlaps = 0 => Good(fsm, d)
    BY <2>5, PlainIsGood DEF Plain
  <2>8. overlaps = 0 => Good("choose_time", d)
    BY <2>5, <2>6 DEF Good, Titled, DeleteChosen, MoveChosen
  <2>9. "choose_time" \in States
    BY DEF States, CreateStates
  <2> QED
    BY <2>2, <2>3, <2>4, <2>6, <2>7, <2>8, <2>9, AnswerKeeps
<1>2. CASE time_picked(h)
  <2>1. "time_picked" \in DOMAIN Filter /\ Filter["time_picked"] = {"choose_time"}
    BY DEF Filter
  <2> QED
    BY <1>2, <2>1, NextQuestion DEF time_picked, Timed, Titled
<1>3. CASE duration_picked(h)
  <2>1. "duration_picked" \in DOMAIN Filter /\ Filter["duration_picked"] = {"choose_duration"}
    BY DEF Filter
  <2> QED
    BY <1>3, <2>1, NextQuestion DEF duration_picked, Timed, Titled
<1>4. CASE description_entered(h)
  <2>1. /\ "description_entered" \in DOMAIN Filter
        /\ Filter["description_entered"] = {"enter_description"}
    BY DEF Filter
  <2> QED
    BY <1>4, <2>1, NextQuestion DEF description_entered, Timed, Titled
<1> QED
  BY <1>1, <1>2, <1>3, <1>4

LEMMA AttendeeSteps ==
  ASSUME Inv, NEW h \in Handlers, skip_attendees(h) \/ attendees_entered(h)
  PROVE  Inv'
<1> DEFINE d == [data EXCEPT !.attendees = "records"]
<1>1. PICK f \in {"skip_attendees", "attendees_entered"} : At(h, f)
  BY DEF skip_attendees, attendees_entered
<1>2. d \in DataType /\ SameAnswers(data, d) /\ SameOtherwise(data, d)
  BY HistoryIsTyped DEF DataType, SameAnswers, SameOtherwise
<1>3. fsm' = fsm /\ data' = d /\ Await(h, "ask_title") /\ Rest
  BY DEF skip_attendees, attendees_entered, Put
<1> HIDE DEF d
<1>4. /\ f \in DOMAIN Filter /\ Filter[f] = {"choose_attendees"}
      /\ f \notin NeutralPcs \cup {"idle"}
  BY DEF Filter, NeutralPcs
<1>5. ~At(h, "idle") /\ task[h].pc \notin NeutralPcs
  BY <1>1, <1>4 DEF At
<1>6. overlaps = 0 => /\ Good(fsm, data) /\ Fresh(data) /\ fsm = "choose_attendees"
  BY <1>1, <1>4, <1>5, RunsAlone, FindsItsState
<1>7. overlaps = 0 => Good(fsm, d) /\ Fresh(d)
  BY <1>2, <1>6, SameIsGood, SameIsFresh
<1>8. overlaps = 0 => Timely(d)
  BY <1>6, <1>7 DEF Good, Timed
<1> QED
  BY <1>2, <1>3, <1>5, <1>7, <1>8, ToTitle, HistoryIsTyped

LEMMA RecurrenceSteps ==
  ASSUME Inv, NEW h \in Handlers,
         recurrence_custom(h) \/ recurrence_freq_selected(h) \/ day_toggle(h)
  PROVE  Inv'
<1>1. CASE recurrence_custom(h)
  <2>1. /\ "recurrence_custom" \in DOMAIN Filter
        /\ Filter["recurrence_custom"] = {"choose_recurrence"}
    BY DEF Filter
  <2> QED
    BY <1>1, <2>1, NextQuestion DEF recurrence_custom, Timed, Titled
<1>2. CASE recurrence_freq_selected(h)
  <2>1. /\ "recurrence_freq_selected" \in DOMAIN Filter
        /\ Filter["recurrence_freq_selected"] = {"recurrence_frequency"}
    BY DEF Filter
  <2> QED
    BY <1>2, <2>1, NextQuestion DEF recurrence_freq_selected, Timed, Titled
<1>3. CASE Ask(h, "day_toggle", "recurrence_end_type")
  <2>1. "day_toggle" \in DOMAIN Filter /\ Filter["day_toggle"] = {"recurrence_days"}
    BY DEF Filter
  <2> QED
    BY <1>3, <2>1, NextQuestion DEF Timed, Titled
<1>4. CASE At(h, "day_toggle") /\ Keep /\ Done(h) /\ Rest
  BY <1>4, EndAsItIs DEF At
<1> QED
  BY <1>1, <1>2, <1>3, <1>4 DEF day_toggle

\* The recurrence is stored in the states after the title, before the question.
LEMMA RecurrenceStored ==
  ASSUME Inv, NEW f \in DOMAIN Filter, NEW h \in Handlers, At(h, f),
         NEW s \in Titled, s \notin {"confirm", "conflict"}, Filter[f] = {s},
         f \notin NeutralPcs \cup {"idle"}, NEW repeats \in BOOLEAN,
         Put([data EXCEPT !.recurrence = repeats]), Rest,
         NEW pc \in {"show_confirm", "recurrence_stored"}, Await(h, pc)
  PROVE  Inv'
<1> DEFINE d == [data EXCEPT !.recurrence = repeats]
<1>1. /\ d \in DataType /\ SameAnswers(data, d) /\ d.event_id = data.event_id
      /\ d.mode = data.mode /\ d.date_from = data.date_from
  BY HistoryIsTyped DEF DataType, SameAnswers
<1>2. fsm' = fsm /\ data' = d
  BY DEF Put
<1> HIDE DEF d
<1>3. ~At(h, "idle") /\ task[h].pc \notin NeutralPcs
  BY DEF At
<1>4. overlaps = 0 => Good(fsm, data) /\ Fresh(data) /\ fsm = s
  BY <1>3, RunsAlone, FindsItsState
<1>5. overlaps = 0 => Good(fsm, d) /\ Fresh(d)
  BY <1>1, <1>4, LaterIsGood, SameIsFresh
<1>6. overlaps = 0 => Timely(d) /\ Named(d)
  BY <1>4, <1>5 DEF Good, Timed
<1> QED
  BY <1>1, <1>2, <1>3, <1>5, <1>6, ToQuestion, HistoryIsTyped

LEMMA RecurrenceChosen ==
  ASSUME Inv, NEW h \in Handlers, recurrence_chosen(h)
  PROVE  Inv'
<1>1. CASE At(h, "recurrence_chosen")
  <2>1. PICK repeats \in BOOLEAN : Put([data EXCEPT !.recurrence = repeats])
    BY <1>1 DEF recurrence_chosen, At
  <2>2. /\ "recurrence_chosen" \in DOMAIN Filter
        /\ Filter["recurrence_chosen"] = {"choose_recurrence"}
        /\ "recurrence_chosen" \notin NeutralPcs \cup {"idle"}
        /\ "choose_recurrence" \in Titled
    BY DEF Filter, NeutralPcs, Titled
  <2>3. Await(h, "recurrence_stored") /\ Rest
    BY <1>1 DEF recurrence_chosen, At
  <2> QED
    BY <1>1, <2>1, <2>2, <2>3, RecurrenceStored
<1>2. CASE At(h, "recurrence_stored")
  <2>1. ~At(h, "idle") /\ task[h].pc \notin NeutralPcs
    BY <1>2 DEF At, NeutralPcs
  <2>2. /\ fsm' = fsm /\ data' = data /\ Rest
        /\ Await(h, "show_confirm") \/ AskCalendar(h, "bot")
    BY <1>2 DEF recurrence_chosen, At, Keep, chat
  <2>3. overlaps = 0 => /\ Good(fsm, data) /\ Fresh(data)
                        /\ Timely(data) /\ Named(data)
    BY <1>2, <2>1, RunsAlone DEF Fits, At
  <2> QED
    BY <2>1, <2>2, <2>3, ToQuestion, AskCalendarKeeps, HistoryIsTyped
<1> QED
  BY <1>1, <1>2 DEF recurrence_chosen

LEMMA LastSteps ==
  ASSUME Inv, NEW h \in Handlers,
         recurrence_end_type(h) \/ recurrence_end_date(h) \/ recurrence_count(h)
  PROVE  Inv'
<1>1. /\ "recurrence_end_type" \in DOMAIN Filter
      /\ Filter["recurrence_end_type"] = {"recurrence_end_type"}
      /\ "recurrence_end_date" \in DOMAIN Filter
      /\ Filter["recurrence_end_date"] = {"recurrence_end_date"}
      /\ "recurrence_count" \in DOMAIN Filter
      /\ Filter["recurrence_count"] = {"recurrence_count"}
  BY DEF Filter
<1>2. {"recurrence_end_type", "recurrence_end_date", "recurrence_count"} \subseteq Titled
  BY DEF Titled
<1>3. ASSUME NEW f \in {"recurrence_end_type", "recurrence_end_date", "recurrence_count"},
             At(h, f), Finalize(h)
      PROVE  Inv'
  <2>1. f \in DOMAIN Filter /\ Filter[f] = {f} /\ f \in Titled
    BY <1>1, <1>2
  <2>2. f \notin {"confirm", "conflict"} /\ f \notin NeutralPcs \cup {"idle"}
    BY DEF NeutralPcs
  <2> QED
    BY <1>3, <2>1, <2>2, RecurrenceStored DEF Finalize
<1>4. ASSUME NEW next \in {"recurrence_end_date", "recurrence_count"},
             Ask(h, "recurrence_end_type", next)
      PROVE  Inv'
  BY <1>1, <1>4, NextQuestion DEF Timed, Titled
<1>5. CASE At(h, "recurrence_count") /\ Keep /\ Done(h) /\ Rest
  BY <1>5, EndAsItIs DEF At
<1> QED
  BY <1>3, <1>4, <1>5 DEF recurrence_end_type, recurrence_end_date, recurrence_count
\* Steps after which no question stands; the rest of the history is left alone.
LEMMA OverKeeps ==
  ASSUME Inv, NEW h \in Handlers, ~At(h, "idle"), NEW t \in Tasks, Become(h, t),
         NEW how \in {"no", "answered"}, Over(how),
         NEW d \in DataType, fsm' = fsm, data' = d,
         overlaps = 0 => /\ Fresh(d) /\ t.of = dialog
                         /\ fsm \in {"confirm", "conflict"} /\ Timely(d) /\ Named(d)
                         /\ t.pc \in {"slot_stored", "creating"}
  PROVE  Inv'
<1>1. /\ asked' = how /\ shown' = NoContent
      /\ UNCHANGED <<dialog, overlaps, lost, cancelled, listed, chosen>>
  BY DEF Over
<1>2. ASSUME overlaps = 0
      PROVE  Good(fsm, data)' /\ Fresh(data)' /\ Fits(t, fsm, data)'
  <2>1. Timely(data)' /\ Named(data)' /\ Fresh(data)'
    BY <1>1, <1>2 DEF Timely, Fresh
  <2>2. (cancelled < dialog)'
    BY <1>1, <1>2, RunsAlone
    DEF Good, Neutral, OtherStates, AccountStates
  <2>3. Good(fsm, data)'
    BY <1>1, <1>2, <2>1, <2>2 DEF Good, DeleteChosen, MoveChosen
  <2>4. t.pc \notin DOMAIN Filter /\ t.pc \in {"slot_stored", "creating"} /\ t.of = dialog'
    BY <1>1, <1>2, Names
  <2>5. Fits(t, fsm, data)'
    BY <2>1, <2>2, <2>4 DEF Fits
  <2> QED
    BY <2>1, <2>3, <2>5
<1>3. /\ fsm' \in States /\ data' \in DataType /\ shown' \in ContentType
      /\ asked' \in {"no", "confirm", "conflict", "answered"} /\ lost' \in BOOLEAN
      /\ cancelled' \in {cancelled, dialog} /\ listed' \in Dialogs
      /\ chosen' \in {"nothing", "delete", "move"}
  BY <1>1, EmptyIsTyped, HistoryIsTyped DEF Inv, TypeOK
<1> QED
  BY <1>1, <1>2, <1>3, StepKeeps

\* Where a question is answered, times and title are known.
LEMMA AtQuestion ==
  ASSUME Inv, NEW f \in DOMAIN Filter, NEW h \in Handlers, At(h, f),
         Filter[f] \subseteq {"confirm", "conflict"}, overlaps = 0
  PROVE  /\ fsm \in {"confirm", "conflict"} /\ Timely(data) /\ Named(data)
         /\ Of(h) = dialog /\ cancelled < dialog
<1>1. ~At(h, "idle")
  BY Names DEF At
<1>2. Good(fsm, data) /\ fsm \in {"confirm", "conflict"} /\ Of(h) = dialog
  BY <1>1, RunsAlone, FindsItsState, Knows
<1> QED
  BY <1>2 DEF Good, Timed, Titled, Neutral, OtherStates, AccountStates

\* Only a lost way of input leads here without times.
LEMMA IncompleteKeeps ==
  ASSUME Inv, NEW h \in Handlers, ~At(h, "idle"), task[h].pc \notin NeutralPcs,
         Await(h, "incomplete"), Keep, Rest, overlaps = 0 => lost
  PROVE  Inv'
<1>1. "incomplete" \in Handled /\ "incomplete" \notin DOMAIN Filter
  BY Names DEF Handled
<1>2. overlaps = 0 => /\ Good(fsm, data) /\ Fresh(data)
                      /\ Of(h) = dialog /\ cancelled < dialog
  BY Knows, RunsAlone
<1>3. ASSUME cancelled < dialog, lost, NEW t \in Tasks, t.pc = "incomplete", t.of = dialog
      PROVE  Fits(t, fsm, data)
  BY <1>1, <1>3 DEF Fits
<1> QED
  BY <1>1, <1>2, <1>3, AwaitKeeps, HistoryIsTyped DEF Keep, chat

LEMMA DoCreate ==
  ASSUME Inv, NEW h \in Handlers, _do_create(h)
  PROVE  Inv'
<1>1. /\ task[h].pc \in {"confirm_create", "conflict_proceed", "announcing", "creating"}
      /\ ~At(h, "idle") /\ task[h].pc \notin NeutralPcs
  BY DEF _do_create, At, NeutralPcs
<1>2. ASSUME NEW f \in {"confirm_create", "conflict_proceed"}, At(h, f)
      PROVE  Inv'
  <2>1. f \in DOMAIN Filter /\ Filter[f] \subseteq {"confirm", "conflict"}
    BY DEF Filter
  <2>2. overlaps = 0 => /\ fsm \in {"confirm", "conflict"} /\ Timely(data) /\ Named(data)
                        /\ Of(h) = dialog /\ cancelled < dialog
    BY <1>2, <2>1, AtQuestion
  <2>3. Keep /\ Rest
    BY <1>2 DEF _do_create, At
  <2>4. CASE ~Complete(data) /\ Await(h, "incomplete")
    BY <1>1, <2>2, <2>3, <2>4, IncompleteKeeps DEF Timely
  <2>5. CASE /\ Complete(data)
             /\ Become(h, [task[h] EXCEPT !.pc = "announcing", !.view = Payload(data)])
    <3> DEFINE t == [task[h] EXCEPT !.pc = "announcing", !.view = Payload(data)]
    <3>1. t \in Tasks /\ t.pc = "announcing" /\ t.of = Of(h) /\ t.view = Payload(data)
      BY HistoryIsTyped, ContentIsTyped DEF Tasks, Handled, Of
    <3>2. Become(h, t)
      BY <2>5
    <3> HIDE DEF t
    <3>3. "announcing" \notin DOMAIN Filter
      BY Names
    <3>4. overlaps = 0 => Fits(t, fsm, data)
      BY <2>2, <2>5, <3>1, <3>3 DEF Fits
    <3>5. overlaps = 0 => Good(fsm, data) /\ Fresh(data)
      BY <1>1, RunsAlone
    <3> QED
      BY <1>1, <2>3, <3>1, <3>2, <3>4, <3>5, MoveKeeps, HistoryIsTyped DEF Keep, chat
  <2> QED
    BY <1>2, <2>4, <2>5 DEF _do_create, At
<1>3. CASE At(h, "announcing")
  <2>1. Await(h, "creating") /\ Over("answered") /\ fsm' = fsm /\ data' = data
    BY <1>3 DEF _do_create, At, Keep, chat
  <2>2. "creating" \in Handled
    BY DEF Handled
  <2>3. PICK t \in Tasks : Become(h, t) /\ t.pc = "creating" /\ t.of = Of(h)
    BY <2>1, <2>2, HistoryIsTyped, NextTask DEF Of, Await
  <2>4. overlaps = 0 => /\ fsm \in {"confirm", "conflict"} /\ Timely(data) /\ Named(data)
                        /\ Fresh(data) /\ Of(h) = dialog
    BY <1>1, <1>3, RunsAlone, Knows DEF Fits, At, Timely
  <2> QED
    BY <1>1, <2>1, <2>3, <2>4, OverKeeps, HistoryIsTyped
<1>4. CASE At(h, "creating")
  BY <1>1, <1>4, ClearKeeps DEF _do_create, At
<1> QED
  BY <1>1, <1>2, <1>3, <1>4 DEF At

LEMMA ShowSlots ==
  ASSUME Inv, NEW h \in Handlers, conflict_show_slots(h)
  PROVE  Inv'
<1>1. /\ task[h].pc \in {"conflict_show_slots", "conflict_find_slots"}
      /\ ~At(h, "idle") /\ task[h].pc \notin NeutralPcs
  BY DEF conflict_show_slots, At, NeutralPcs
<1>2. CASE At(h, "conflict_show_slots")
  <2>1. /\ "conflict_show_slots" \in DOMAIN Filter
        /\ Filter["conflict_show_slots"] = {"conflict"}
    BY DEF Filter
  <2>2. overlaps = 0 => Timely(data)
    BY <1>2, <2>1, AtQuestion
  <2>3. /\ Keep /\ Rest
        /\ \/ Await(h, "conflict_find_slots")
           \/ ~Complete(data) /\ Await(h, "incomplete")
    BY <1>2 DEF conflict_show_slots, At
  <2> QED
    BY <1>1, <2>2, <2>3, WaitAsItIs, IncompleteKeeps DEF Waits, Timely
<1>3. CASE At(h, "conflict_find_slots")
  <2>1. PICK d \in {data, [data EXCEPT !.conflict_slots = TRUE]} : Put(d)
    BY <1>3 DEF conflict_show_slots, At
  <2>2. Done(h) /\ Rest
    BY <1>3 DEF conflict_show_slots, At
  <2>3. d \in DataType /\ SameAnswers(data, d) /\ SameOtherwise(data, d)
    BY <2>1, HistoryIsTyped DEF DataType, SameAnswers, SameOtherwise
  <2>4. overlaps = 0 => Good(fsm, d) /\ Fresh(d)
    BY <1>1, <2>3, RunsAlone, SameIsGood, SameIsFresh
  <2> QED
    BY <1>1, <2>1, <2>2, <2>3, <2>4, EndKeeps, HistoryIsTyped DEF Put
<1> QED
  BY <1>1, <1>2, <1>3 DEF At

LEMMA SlotStored ==
  ASSUME Inv, NEW h \in Handlers, PutSlot(h)
  PROVE  Inv'
<1>1. /\ task[h].pc \in {"slot_into_draft", "slot_into_times"}
      /\ ~At(h, "idle") /\ task[h].pc \notin NeutralPcs
  BY DEF PutSlot, At, NeutralPcs
<1>2. Of(h) \in Dialogs /\ task[h].view.title \in Dialogs
  BY HistoryIsTyped DEF Tasks, Of, ContentType
<1>3. overlaps = 0 => /\ fsm = "conflict" /\ Named(data) /\ Fresh(data)
                      /\ Of(h) = dialog /\ cancelled < dialog /\ Of(h) # 0
  BY <1>1, RunsAlone, Knows DEF Fits
<1>4. /\ fsm' = fsm /\ data' \in DataType
      /\ overlaps = 0 => Fresh(data') /\ Timely(data') /\ Named(data')
  <2>1. CASE At(h, "slot_into_draft")
    <3> DEFINE d == [data EXCEPT !.draft = [of |-> task[h].view.title, slot |-> TRUE]]
    <3>1. /\ d \in DataType /\ d.draft.of = task[h].view.title /\ d.when = data.when
          /\ d.title = data.title /\ d.free_slot_event_ids = data.free_slot_event_ids
      BY <1>2, HistoryIsTyped DEF DataType, Value
    <3>2. fsm' = fsm /\ data' = d
      BY <2>1 DEF PutSlot, Put, At
    <3> HIDE DEF d
    <3>3. overlaps = 0 => data.draft.of # 0 /\ task[h].view.title = data.draft.of
      BY <1>1, <2>1, RunsAlone DEF Fits, At
    <3> QED
      BY <1>3, <3>1, <3>2, <3>3 DEF Fresh, Timely, Complete, Named
  <2>2. CASE At(h, "slot_into_times")
    <3> DEFINE d == [data EXCEPT !.when = [of |-> Of(h), slot |-> TRUE]]
    <3>1. /\ d \in DataType /\ d.draft = data.draft /\ d.when.of = Of(h)
          /\ d.title = data.title /\ d.free_slot_event_ids = data.free_slot_event_ids
      BY <1>2, HistoryIsTyped DEF DataType, Value
    <3>2. fsm' = fsm /\ data' = d
      BY <2>2 DEF PutSlot, Put, At
    <3> HIDE DEF d
    <3> QED
      BY <1>3, <3>1, <3>2 DEF Fresh, Timely, Complete, Named
  <2> QED
    BY <1>1, <2>1, <2>2 DEF At
<1>5. Await(h, "slot_stored") /\ Over("no")
  BY DEF PutSlot
<1>6. "slot_stored" \in Handled
  BY DEF Handled
<1>7. PICK t \in Tasks : Become(h, t) /\ t.pc = "slot_stored" /\ t.of = Of(h)
  BY <1>5, <1>6, HistoryIsTyped, NextTask DEF Of, Await
<1>8. PICK d \in DataType : data' = d
  BY <1>4
<1> QED
  BY <1>1, <1>3, <1>4, <1>5, <1>7, <1>8, OverKeeps

LEMMA SlotPicked ==
  ASSUME Inv, NEW h \in Handlers, conflict_slot_picked(h)
  PROVE  Inv'
<1>1. CASE At(h, "conflict_slot_picked") /\ Clear(h, "clear")
  BY <1>1, ClearKeeps DEF At
<1>2. CASE /\ At(h, "conflict_slot_picked")
           /\ Become(h, [task[h] EXCEPT
                !.pc = IF data.draft.of # 0 THEN "slot_into_draft" ELSE "slot_into_times",
                !.view = Content(data)])
           /\ Keep /\ Rest
  <2> DEFINE pc == IF data.draft.of # 0 THEN "slot_into_draft" ELSE "slot_into_times"
             t == [task[h] EXCEPT !.pc = pc, !.view = Content(data)]
  <2>1. t \in Tasks /\ t.pc = pc /\ t.of = Of(h) /\ t.view = Content(data)
    BY HistoryIsTyped, ContentIsTyped DEF Tasks, Handled, Of
  <2>2. Become(h, t)
    BY <1>2
  <2>3. /\ pc \in {"slot_into_draft", "slot_into_times"}
        /\ pc = "slot_into_draft" <=> data.draft.of # 0
    OBVIOUS
  <2> HIDE DEF t, pc
  <2>4. /\ "conflict_slot_picked" \in DOMAIN Filter
        /\ Filter["conflict_slot_picked"] = {"conflict"}
    BY DEF Filter
  <2>5. overlaps = 0 => Named(data) /\ fsm = "conflict" /\ Of(h) = dialog /\ cancelled < dialog
    BY <1>2, <2>4, AtQuestion, FindsItsState
  <2>6. pc \notin DOMAIN Filter
    BY <2>3, Names
  <2>7. data.draft.of # 0 => Content(data).title = data.draft.of
    BY DEF Content
  <2>8. overlaps = 0 => Fits(t, fsm, data)
    BY <2>1, <2>3, <2>5, <2>6, <2>7 DEF Fits
  <2>9. ~At(h, "idle")
    BY <1>2 DEF At
  <2> QED
    BY <1>2, <2>1, <2>2, <2>8, <2>9, RunsAlone, MoveKeeps, HistoryIsTyped DEF Keep, chat
<1> QED
  BY <1>1, <1>2, SlotStored, ShowSteps DEF conflict_slot_picked

LEMMA CreateSteps ==
  ASSUME Inv, NEW h \in Handlers, CreateStep(h)
  PROVE  Inv'
<1>1. CASE confirm_cancel(h)
  BY <1>1, DropKeeps DEF confirm_cancel
<1> QED
  BY <1>1, SetState, ClearStep, AskCalendarStep, ShowSteps, QuestionStep, ModeSteps,
     TextMode, TextInput, DraftStep, TitleSteps, CalendarSelected, TimeSteps,
     AttendeeSteps, RecurrenceSteps, RecurrenceChosen, LastSteps, DoCreate, ShowSlots,
     SlotPicked
  DEF CreateStep
-----------------------------------------------------------------------------
(* delete.py and reschedule.py.                                             *)

LEMMA ListSteps ==
  ASSUME Inv, NEW h \in Handlers, cmd_delete(h) \/ cmd_reschedule(h)
  PROVE  Inv'
<1>1. ASSUME NEW name \in {"cmd_delete", "cmd_reschedule"},
             NEW next \in {"delete_event", "move_event"}, ListDay(h, name, next)
      PROVE  Inv'
  <2>1. CASE At(h, name) /\ Keep /\ Done(h) /\ Rest
    BY <1>1, <2>1, EndAsItIs DEF At
  <2>2. CASE Ask(h, name, next)
    BY <1>1, <2>2, AskPlain DEF Plain, NeutralPcs
  <2> QED
    BY <1>1, <2>1, <2>2 DEF ListDay
<1> QED
  BY <1>1 DEF cmd_delete, cmd_reschedule

\* The meeting is stored with what it was chosen for, the state follows.
LEMMA ChooseKeeps ==
  ASSUME Inv, NEW h \in Handlers, NEW f \in DOMAIN Filter, At(h, f),
         f \notin NeutralPcs \cup {"idle"},
         NEW s \in {"delete_event", "move_event"}, Filter[f] = {s},
         NEW what, NEW next, Choose(h, what, next),
         \/ what = "delete" /\ next \in DeleteChosen
         \/ what = "move" /\ next \in MoveChosen
  PROVE  Inv'
<1> DEFINE d == [data EXCEPT !.event_id = Of(h)]
           u == [task[h] EXCEPT !.pc = "set_state", !.next = next]
<1>1. next \in States
  BY DEF DeleteChosen, MoveChosen, States, DeleteStates, RescheduleStates
<1>2. d \in DataType /\ d.event_id = Of(h) /\ SameAnswers(data, d)
  BY HistoryIsTyped DEF DataType, SameAnswers, Tasks, Of
<1>3. u \in Tasks /\ u.pc = "set_state" /\ u.of = Of(h) /\ u.next = next
  BY <1>1, HistoryIsTyped DEF Tasks, Handled, Of
<1>4. /\ fsm' = fsm /\ data' = d /\ Become(h, u) /\ chosen' = what
      /\ UNCHANGED <<dialog, overlaps, shown, asked, lost, cancelled, listed>>
  BY DEF Choose, Put
<1>5. PICK t \in Tasks : t = u
  BY <1>3
<1> HIDE DEF d, u
<1>6. ~At(h, "idle") /\ task[h].pc \notin NeutralPcs
  BY DEF At
<1>7. ASSUME overlaps = 0
      PROVE  Good(fsm, data)' /\ Fresh(data)' /\ Fits(t, fsm, data)'
  <2>1. /\ Fresh(data) /\ fsm = s /\ Of(h) = dialog /\ cancelled < dialog /\ Of(h) # 0
    BY <1>6, <1>7, RunsAlone, Knows, FindsItsState
  <2>2. Fresh(data)'
    BY <1>2, <1>4, <2>1 DEF Fresh, SameAnswers
  <2>3. (cancelled < dialog)' /\ data'.event_id # 0
    BY <1>2, <1>4, <2>1
  <2>4. Good(fsm, data)'
    BY <1>4, <2>1, <2>3 DEF Good, Timed, Titled, DeleteChosen, MoveChosen
  <2>5. Good(next, data)'
    BY <1>4, <2>3 DEF Good, Timed, Titled, DeleteChosen, MoveChosen
  <2>6. "set_state" \notin DOMAIN Filter
    BY Names
  <2>7. t.pc = "set_state" /\ t.of = dialog' /\ t.next = next
    BY <1>3, <1>4, <1>5, <2>1
  <2>8. Fits(t, fsm, data)'
    BY <2>3, <2>5, <2>6, <2>7 DEF Fits
  <2> QED
    BY <2>2, <2>4, <2>8
<1>8. /\ fsm' \in States /\ data' \in DataType /\ shown' \in ContentType
      /\ asked' \in {"no", "confirm", "conflict", "answered"} /\ lost' \in BOOLEAN
      /\ cancelled' \in {cancelled, dialog} /\ listed' \in Dialogs
      /\ chosen' \in {"nothing", "delete", "move"}
  BY <1>2, <1>4, HistoryIsTyped DEF Inv, TypeOK
<1> QED
  BY <1>4, <1>5, <1>6, <1>7, <1>8, StepKeeps

LEMMA ChooseSteps ==
  ASSUME Inv, NEW h \in Handlers,
         delete_event_selected(h) \/ reschedule_event_selected(h)
  PROVE  Inv'
<1>1. CASE delete_event_selected(h)
  <2>1. /\ "delete_event_selected" \in DOMAIN Filter
        /\ Filter["delete_event_selected"] = {"delete_event"}
        /\ "delete_event_selected" \notin NeutralPcs \cup {"idle"}
    BY DEF Filter, NeutralPcs
  <2> QED
    BY <1>1, <2>1, ChooseKeeps DEF delete_event_selected, DeleteChosen
<1>2. CASE reschedule_event_selected(h)
  <2>1. /\ "reschedule_event_selected" \in DOMAIN Filter
        /\ Filter["reschedule_event_selected"] = {"move_event"}
        /\ "reschedule_event_selected" \notin NeutralPcs \cup {"idle"}
    BY DEF Filter, NeutralPcs
  <2> QED
    BY <1>2, <2>1, ChooseKeeps DEF reschedule_event_selected, MoveChosen
<1> QED
  BY <1>1, <1>2

\* From one question about a meeting that was chosen to the next one.
LEMMA NextOfEdit ==
  ASSUME Inv, NEW f \in DOMAIN Filter, NEW h \in Handlers, NEW s, Filter[f] = {s}, NEW next,
         \/ s = "delete_mode" /\ next = "delete_confirm"
         \/ s \in MoveChosen /\ next \in MoveChosen,
         Ask(h, f, next)
  PROVE  Inv'
<1>1. f # "idle" /\ next \in States /\ At(h, f)
  BY Names DEF States, DeleteStates, RescheduleStates, MoveChosen, Ask
<1>2. overlaps = 0 => Good(fsm, data) /\ fsm = s
  BY <1>1, FindsItsState, RunsAlone DEF At
<1>3. overlaps = 0 => Good(next, data)
  BY <1>2 DEF Good, Timed, Titled, DeleteChosen, MoveChosen, Neutral, OtherStates,
              AccountStates
<1> QED
  BY <1>1, <1>3, AskKeeps

LEMMA MoveSteps ==
  ASSUME Inv, NEW h \in Handlers,
         \/ reschedule_recurrence_mode(h) \/ reschedule_date_picked(h)
         \/ reschedule_time_picked(h) \/ delete_recurrence_mode(h)
  PROVE  Inv'
<1>1. CASE Drop(h, "reschedule_recurrence_mode") \/ Drop(h, "delete_recurrence_mode")
  BY <1>1, DropKeeps
<1>2. CASE Ask(h, "reschedule_recurrence_mode", "move_date")
  <2>1. /\ "reschedule_recurrence_mode" \in DOMAIN Filter
        /\ Filter["reschedule_recurrence_mode"] = {"move_mode"}
    BY DEF Filter
  <2> QED
    BY <1>2, <2>1, NextOfEdit DEF MoveChosen
<1>3. CASE reschedule_date_picked(h)
  <2>1. /\ "reschedule_date_picked" \in DOMAIN Filter
        /\ Filter["reschedule_date_picked"] = {"move_date"}
    BY DEF Filter
  <2> QED
    BY <1>3, <2>1, NextOfEdit DEF reschedule_date_picked, MoveChosen
<1>4. CASE reschedule_time_picked(h)
  <2>1. /\ "reschedule_time_picked" \in DOMAIN Filter
        /\ Filter["reschedule_time_picked"] = {"move_time"}
    BY DEF Filter
  <2> QED
    BY <1>4, <2>1, NextOfEdit DEF reschedule_time_picked, MoveChosen
<1>5. CASE Ask(h, "delete_recurrence_mode", "delete_confirm")
  <2>1. /\ "delete_recurrence_mode" \in DOMAIN Filter
        /\ Filter["delete_recurrence_mode"] = {"delete_mode"}
    BY DEF Filter
  <2> QED
    BY <1>5, <2>1, NextOfEdit
<1> QED
  BY <1>1, <1>2, <1>3, <1>4, <1>5 DEF reschedule_recurrence_mode, delete_recurrence_mode

LEMMA ConfirmedSteps ==
  ASSUME Inv, NEW h \in Handlers, delete_confirm(h) \/ reschedule_confirm(h)
  PROVE  Inv'
<1>1. ASSUME NEW calling \in {"deleting", "moving"}, At(h, calling), Clear(h, "clear")
      PROVE  Inv'
  BY <1>1, ClearKeeps DEF At
<1>2. ASSUME NEW f \in {"delete_confirm", "reschedule_confirm"},
             NEW calling \in {"deleting", "moving"}, At(h, f), Keep, Rest,
             Await(h, IF data.event_id = 0 THEN "incomplete" ELSE calling)
      PROVE  Inv'
  <2>1. f \in DOMAIN Filter /\ Filter[f] \subseteq DeleteChosen \cup MoveChosen
    BY DEF Filter, DeleteChosen, MoveChosen
  <2>2. ~At(h, "idle") /\ task[h].pc \notin NeutralPcs
    BY <1>2 DEF At, NeutralPcs
  <2>3. overlaps = 0 => data.event_id # 0
    BY <1>2, <2>1, <2>2, RunsAlone, FindsItsState DEF Good
  <2>4. CASE data.event_id = 0
    BY <1>2, <2>2, <2>3, <2>4, IncompleteKeeps
  <2>5. CASE data.event_id # 0
    BY <1>2, <2>2, <2>5, WaitAsItIs DEF Waits
  <2> QED
    BY <2>4, <2>5
<1> QED
  BY <1>1, <1>2 DEF delete_confirm, reschedule_confirm, Confirmed

LEMMA FreeSlotSteps ==
  ASSUME Inv, NEW h \in Handlers, handle_free_slot_intent(h)
  PROVE  Inv'
<1>1. CASE At(h, "free_slot") /\ Keep /\ Done(h) /\ Rest
  BY <1>1, EndAsItIs DEF At
<1>2. CASE ~(At(h, "free_slot") /\ Keep /\ Done(h) /\ Rest)
  <2>1. /\ task[h].pc \in {"free_slot", "free_slot_stored", "free_slot_list"}
        /\ ~At(h, "idle") /\ task[h].pc \notin NeutralPcs
    BY <1>2 DEF handle_free_slot_intent, At, NeutralPcs
  <2>2. UNCHANGED <<dialog, overlaps, shown, asked, lost, cancelled, chosen>>
    BY <1>2 DEF handle_free_slot_intent
  <2>3. Of(h) \in Dialogs /\ 0 \in Dialogs
    BY HistoryIsTyped, ChatAssumption DEF Tasks, Of, Dialogs
  <2>4. overlaps = 0 => /\ Good(fsm, data) /\ Fresh(data) /\ Of(h) = dialog
                        /\ cancelled < dialog
                        /\ ~At(h, "free_slot") => data.free_slot_event_ids = Of(h)
    BY <2>1, RunsAlone, Knows DEF Fits, At, Of
  <2>5. /\ fsm' \in States /\ data' \in DataType /\ listed' \in Dialogs
        /\ data'.draft = data.draft /\ data'.when = data.when /\ data'.title = data.title
        /\ overlaps = 0 => /\ Good(fsm', data') /\ data'.free_slot_event_ids = Of(h)
                           /\ listed' \in {0, Of(h)}
    <3>1. CASE At(h, "free_slot")
      <4> DEFINE d == [data EXCEPT !.free_slot_event_ids = Of(h)]
      <4>1. /\ d \in DataType /\ d.free_slot_event_ids = Of(h) /\ d.draft = data.draft
            /\ d.when = data.when /\ d.title = data.title /\ SameOtherwise(data, d)
        BY <2>3, HistoryIsTyped DEF DataType, SameOtherwise
      <4>2. fsm' = fsm /\ data' = d /\ listed' = 0
        BY <1>2, <3>1 DEF handle_free_slot_intent, Put, At
      <4> HIDE DEF d
      <4>3. Complete(d) = Complete(data) /\ Named(d) = Named(data) /\ Content(d) = Content(data)
        BY <4>1 DEF Complete, Named, Content, SameOtherwise
      <4>4. overlaps = 0 => Good(fsm, d)
        BY <2>4, <4>1, <4>3 DEF Good, Timely, SameOtherwise
      <4> QED
        BY <2>3, <2>4, <4>1, <4>2, <4>4, HistoryIsTyped
    <3>2. CASE At(h, "free_slot_stored")
      <4>1. fsm' = "free_slot_confirm" /\ data' = data /\ listed' = listed
        BY <1>2, <3>2 DEF handle_free_slot_intent, Enter, At
      <4>2. "free_slot_confirm" \in States /\ listed \in Dialogs
        BY DEF States, DeleteStates, Inv, TypeOK
      <4>3. overlaps = 0 => Good("free_slot_confirm", data)
        BY <2>4, PlainIsGood DEF Plain
      <4>4. overlaps = 0 => listed \in {0, Of(h)} /\ data.free_slot_event_ids = Of(h)
        BY <2>4, <3>2 DEF Fresh, At
      <4> QED
        BY <4>1, <4>2, <4>3, <4>4, HistoryIsTyped
    <3>3. CASE At(h, "free_slot_list")
      <4>1. fsm' = fsm /\ data' = data /\ listed' = Of(h)
        BY <1>2, <3>3 DEF handle_free_slot_intent, Keep, chat, At
      <4> QED
        BY <2>3, <2>4, <3>3, <4>1, HistoryIsTyped DEF At
    <3> QED
      BY <2>1, <3>1, <3>2, <3>3 DEF At
  <2>6. PICK t \in Tasks :
          /\ Become(h, t)
          /\ \/ t.pc = "idle"
             \/ t.pc \in {"free_slot_stored", "free_slot_list"} /\ t.of = Of(h)
    <3>1. CASE Done(h)
      BY <3>1, EmptyIsTyped DEF Done
    <3>2. ASSUME NEW pc \in {"free_slot_stored", "free_slot_list"}, Await(h, pc)
          PROVE  \E t \in Tasks :
                   /\ Become(h, t)
                   /\ \/ t.pc = "idle"
                      \/ t.pc \in {"free_slot_stored", "free_slot_list"} /\ t.of = Of(h)
      <4>1. pc \in Handled
        BY DEF Handled
      <4> QED
        BY <3>2, <4>1, HistoryIsTyped, NextTask DEF Of, Await
    <3> QED
      BY <1>2, <3>1, <3>2 DEF handle_free_slot_intent
  <2>7. ASSUME overlaps = 0
        PROVE  /\ Good(fsm, data)' /\ Fresh(data)'
               /\ t.pc = "idle" \/ Fits(t, fsm, data)'
    <3>1. Good(fsm', data') => Good(fsm, data)'
      BY <2>2 DEF Good, Timely
    <3>2. Fresh(data)'
      BY <2>2, <2>4, <2>5, <2>7 DEF Fresh
    <3>3. /\ t.pc # "idle" => t.pc \notin DOMAIN Filter
          /\ (cancelled < dialog)' /\ Of(h) = dialog'
      BY <2>2, <2>4, <2>6, <2>7, Names
    <3>4. t.pc # "idle" => Fits(t, fsm, data)'
      BY <2>5, <2>6, <2>7, <3>3 DEF Fits
    <3> QED
      BY <2>5, <2>7, <3>1, <3>2, <3>4
  <2>8. /\ shown' \in ContentType /\ asked' \in {"no", "confirm", "conflict", "answered"}
        /\ lost' \in BOOLEAN /\ cancelled' \in {cancelled, dialog}
        /\ chosen' \in {"nothing", "delete", "move"}
    BY <2>2 DEF Inv, TypeOK
  <2> QED
    BY <2>1, <2>2, <2>5, <2>6, <2>7, <2>8, StepKeeps
<1> QED
  BY <1>1, <1>2

LEMMA FreeSlotConfirmed ==
  ASSUME Inv, NEW h \in Handlers, freeslot_confirm(h)
  PROVE  Inv'
<1>1. CASE At(h, "freeing") /\ Keep /\ Done(h) /\ Rest
  BY <1>1, EndAsItIs DEF At
<1>2. CASE At(h, "freeslot_confirm") /\ Keep /\ Rest
           /\ Become(h, [task[h] EXCEPT !.pc = "freeslot_read",
                                        !.view.title = data.free_slot_event_ids])
  <2> DEFINE t == [task[h] EXCEPT !.pc = "freeslot_read",
                                  !.view.title = data.free_slot_event_ids]
  <2>1. task[h] \in Tasks /\ data.free_slot_event_ids \in Dialogs
    BY HistoryIsTyped DEF DataType
  <2>2. /\ t \in Tasks /\ t.pc = "freeslot_read" /\ t.of = Of(h)
        /\ t.view.title = data.free_slot_event_ids
    BY <2>1 DEF Tasks, Handled, Of, ContentType
  <2>3. Become(h, t)
    BY <1>2
  <2> HIDE DEF t
  <2>4. ~At(h, "idle") /\ task[h].pc \notin NeutralPcs
    BY <1>2 DEF At, NeutralPcs
  <2>5. overlaps = 0 => /\ Good(fsm, data) /\ Fresh(data) /\ Of(h) = dialog
                        /\ cancelled < dialog
    BY <2>4, RunsAlone, Knows
  <2>6. "freeslot_read" \notin DOMAIN Filter
    BY Names
  <2>7. overlaps = 0 => Fits(t, fsm, data)
    BY <2>2, <2>5, <2>6 DEF Fits
  <2> QED
    BY <1>2, <2>2, <2>3, <2>4, <2>5, <2>7, MoveKeeps, HistoryIsTyped DEF Keep, chat
<1>3. CASE At(h, "freeslot_read") /\ Clear(h, "clear_freed")
  <2>1. ~At(h, "idle") /\ task[h].pc \notin NeutralPcs
    BY <1>3 DEF At, NeutralPcs
  <2>2. overlaps = 0 => /\ Fresh(data) /\ Of(h) = dialog /\ cancelled < dialog
                        /\ task[h].view.title = data.free_slot_event_ids
    BY <1>3, <2>1, RunsAlone, Knows DEF Fits, At
  <2>3. "clear_freed" \notin DOMAIN Filter /\ "clear_freed" \in Handled
    BY Names DEF Handled
  <2>4. "none" \in States /\ Good("none", data)
    BY NeutralIsGood DEF Neutral
  <2>5. ASSUME cancelled < dialog, NEW t \in Tasks, t.pc = "clear_freed", t.of = dialog,
               t.view.title = data.free_slot_event_ids
        PROVE  Fits(t, "none", data)
    BY <2>3, <2>5 DEF Fits
  <2> QED
    BY <1>3, <2>1, <2>2, <2>3, <2>4, <2>5, AwaitKeeps, HistoryIsTyped DEF Clear, Enter
<1> QED
  BY <1>1, <1>2, <1>3 DEF freeslot_confirm

LEMMA EditSteps ==
  ASSUME Inv, NEW h \in Handlers, EditStep(h)
  PROVE  Inv'
<1>1. CASE delete_cancel(h) \/ freeslot_cancel(h) \/ reschedule_cancel(h)
  BY <1>1, DropKeeps DEF delete_cancel, freeslot_cancel, reschedule_cancel
<1> QED
  BY <1>1, ListSteps, ChooseSteps, MoveSteps, ConfirmedSteps, FreeSlotSteps,
     FreeSlotConfirmed
  DEF EditStep
-----------------------------------------------------------------------------
(* find_slot.py and the rest of the bot.                                    *)

\* An answer that no state looks at leads to a state that asks for nothing.
LEMMA PlainAnswer ==
  ASSUME Inv, NEW h \in Handlers, NEW name, name \notin NeutralPcs \cup {"idle"},
         NEW next \in Plain, NEW d \in DataType, SameAnswers(data, d),
         SameOtherwise(data, d), Answer(h, name, d, next)
  PROVE  Inv'
<1>1. ~At(h, "idle") /\ task[h].pc \notin NeutralPcs
  BY DEF Answer, At
<1>2. overlaps = 0 => Good(fsm, data) /\ Fresh(data) /\ cancelled < dialog
  BY <1>1, RunsAlone, Knows
<1>3. overlaps = 0 => Good(fsm, d) /\ Fresh(d) /\ Good(next, d)
  BY <1>2, SameIsGood, SameIsFresh, PlainIsGood
<1>4. next \in States
  BY DEF Plain, States, CreateStates, SlotStates, RescheduleStates, DeleteStates
<1> QED
  BY <1>3, <1>4, AnswerKeeps

\* The dates of a search, with or without a time.
LEMMA DatesAnswer ==
  ASSUME Inv, NEW h \in Handlers, NEW name, name \notin NeutralPcs \cup {"idle"},
         NEW dates \in {"date", "datetime"},
         Answer(h, name, [data EXCEPT !.date_from = dates], "enter_duration")
  PROVE  Inv'
<1> DEFINE d == [data EXCEPT !.date_from = dates]
<1>1. /\ d \in DataType /\ SameAnswers(data, d) /\ d.date_from # ""
      /\ d.event_id = data.event_id /\ d.mode = data.mode /\ d.recurrence = data.recurrence
  BY HistoryIsTyped DEF DataType, SameAnswers
<1>2. Answer(h, name, d, "enter_duration")
  OBVIOUS
<1> HIDE DEF d
<1>3. ~At(h, "idle") /\ task[h].pc \notin NeutralPcs
  BY <1>2 DEF Answer, At
<1>4. overlaps = 0 => Good(fsm, data) /\ Fresh(data) /\ cancelled < dialog
  BY <1>3, RunsAlone, Knows
<1>5. Complete(d) = Complete(data) /\ Named(d) = Named(data) /\ Content(d) = Content(data)
  BY <1>1 DEF SameAnswers, Complete, Named, Content
<1>6. overlaps = 0 => Good(fsm, d) /\ Fresh(d)
  BY <1>1, <1>4, <1>5, SameIsFresh DEF Good, Timely
<1>7. overlaps = 0 => Good("enter_duration", d)
  BY <1>1, <1>4 DEF Good, Timed, Titled, DeleteChosen, MoveChosen
<1>8. "enter_duration" \in States
  BY DEF States, SlotStates
<1> QED
  BY <1>1, <1>2, <1>6, <1>7, <1>8, AnswerKeeps

LEMMA PeopleSteps ==
  ASSUME Inv, NEW h \in Handlers,
         cmd_find_slot(h) \/ slot_people_entered(h) \/ slot_range_entered(h)
  PROVE  Inv'
<1>1. CASE cmd_find_slot(h)
  BY <1>1, AskPlain DEF cmd_find_slot, Plain, NeutralPcs
<1>2. CASE slot_people_entered(h)
  <2>1. PICK found \in {"records", "emails"} :
          Answer(h, "slot_people_entered", [data EXCEPT !.attendees = found], "enter_range")
    BY <1>2 DEF slot_people_entered
  <2> DEFINE d == [data EXCEPT !.attendees = found]
  <2>2. d \in DataType /\ SameAnswers(data, d) /\ SameOtherwise(data, d)
    BY HistoryIsTyped DEF DataType, SameAnswers, SameOtherwise
  <2>3. Answer(h, "slot_people_entered", d, "enter_range")
    BY <2>1
  <2> HIDE DEF d
  <2> QED
    BY <2>2, <2>3, PlainAnswer DEF Plain, NeutralPcs
<1>3. CASE At(h, "slot_range_entered") /\ Keep /\ Done(h) /\ Rest
  BY <1>3, EndAsItIs DEF At
<1>4. CASE Answer(h, "slot_range_entered", [data EXCEPT !.date_from = "date"],
                  "enter_duration")
  BY <1>4, DatesAnswer DEF NeutralPcs
<1> QED
  BY <1>1, <1>2, <1>3, <1>4 DEF slot_range_entered

LEMMA DurationStep ==
  ASSUME Inv, NEW h \in Handlers, slot_duration_picked(h)
  PROVE  Inv'
<1>1. CASE At(h, "slot_duration_picked") /\ Keep /\ Rest
           /\ \/ data.date_from = "" /\ Await(h, "incomplete")
              \/ Await(h, "find_slots") \/ Await(h, "find_slots_malformed")
  <2>1. /\ "slot_duration_picked" \in DOMAIN Filter
        /\ Filter["slot_duration_picked"] = {"enter_duration"}
    BY DEF Filter
  <2>2. ~At(h, "idle") /\ task[h].pc \notin NeutralPcs
    BY <1>1 DEF At, NeutralPcs
  <2>3. overlaps = 0 => data.date_from # ""
    BY <1>1, <2>1, <2>2, RunsAlone, FindsItsState DEF Good
  <2> QED
    BY <1>1, <2>2, <2>3, IncompleteKeeps, WaitAsItIs DEF Waits
<1>2. CASE At(h, "slot_duration_picked") /\ ~Answer(h, "find_slots",
             [data EXCEPT !.found_slots = TRUE], "review_options")
  BY <1>1, <1>2 DEF slot_duration_picked, At
<1>3. CASE (At(h, "find_slots") \/ At(h, "find_slots_malformed")) /\ Clear(h, "clear")
  BY <1>3, ClearKeeps DEF At
<1>4. CASE Answer(h, "find_slots", [data EXCEPT !.found_slots = TRUE], "review_options")
  <2> DEFINE d == [data EXCEPT !.found_slots = TRUE]
  <2>1. d \in DataType /\ SameAnswers(data, d) /\ SameOtherwise(data, d)
    BY HistoryIsTyped DEF DataType, SameAnswers, SameOtherwise
  <2>2. Answer(h, "find_slots", d, "review_options")
    BY <1>4
  <2> HIDE DEF d
  <2> QED
    BY <2>1, <2>2, PlainAnswer DEF Plain, NeutralPcs
<1> QED
  BY <1>2, <1>3, <1>4 DEF slot_duration_picked

LEMMA OfferedSteps ==
  ASSUME Inv, NEW h \in Handlers, slot_picked(h)
  PROVE  Inv'
<1>1. CASE At(h, "slot_picked") /\ Clear(h, "clear")
  BY <1>1, ClearKeeps DEF At
<1>2. CASE At(h, "slot_picked") /\ Await(h, "slot_chosen") /\ Keep /\ Rest
  BY <1>2, WaitAsItIs DEF At, NeutralPcs, Waits
<1>3. CASE Answer(h, "slot_chosen", [data EXCEPT !.chosen_slot = TRUE], "confirm_create")
  <2> DEFINE d == [data EXCEPT !.chosen_slot = TRUE]
  <2>1. d \in DataType /\ SameAnswers(data, d) /\ SameOtherwise(data, d)
    BY HistoryIsTyped DEF DataType, SameAnswers, SameOtherwise
  <2>2. Answer(h, "slot_chosen", d, "confirm_create")
    BY <1>3
  <2> HIDE DEF d
  <2> QED
    BY <2>1, <2>2, PlainAnswer DEF Plain, NeutralPcs
<1> QED
  BY <1>1, <1>2, <1>3 DEF slot_picked
LEMMA SlotCreate ==
  ASSUME Inv, NEW h \in Handlers, slot_create(h)
  PROVE  Inv'
<1>1. /\ task[h].pc \in {"slot_create", "prefill"}
      /\ ~At(h, "idle") /\ task[h].pc \notin NeutralPcs
  BY DEF slot_create, At, NeutralPcs
<1>2. overlaps = 0 => /\ Good(fsm, data) /\ Fresh(data) /\ Of(h) = dialog
                      /\ cancelled < dialog /\ Of(h) # 0
  BY <1>1, RunsAlone, Knows
<1>3. CASE Clear(h, "clear")
  BY <1>1, <1>3, ClearKeeps
<1>4. CASE At(h, "slot_create") /\ Await(h, "prefill") /\ Keep /\ Rest
  <2>1. "slot_create" \in DOMAIN Filter /\ Filter["slot_create"] = {"confirm_create"}
    BY DEF Filter
  <2>2. overlaps = 0 => fsm = "confirm_create"
    BY <1>4, <2>1, FindsItsState
  <2>3. "prefill" \in Handled /\ "prefill" \notin DOMAIN Filter
    BY Names DEF Handled
  <2>4. ASSUME cancelled < dialog, fsm = "confirm_create",
               NEW t \in Tasks, t.pc = "prefill", t.of = dialog
        PROVE  Fits(t, fsm, data)
    BY <2>3, <2>4 DEF Fits
  <2> QED
    BY <1>1, <1>2, <1>4, <2>2, <2>3, <2>4, AwaitKeeps, HistoryIsTyped DEF Keep, chat
<1>5. CASE At(h, "prefill") /\ ~Clear(h, "clear")
  <2> DEFINE d == [data EXCEPT
                     !.mode = "step", !.draft = NoValue, !.draft_repeats = FALSE,
                     !.when = [of |-> Of(h), slot |-> TRUE], !.attendees = "records"]
  <2>1. Of(h) \in Dialogs
    BY HistoryIsTyped DEF Tasks, Of
  <2>2. NoValue \in Value /\ NoValue.of = 0
    BY ChatAssumption DEF NoValue, Value, Dialogs
  <2>3. /\ d \in DataType /\ d.draft = NoValue /\ d.when.of = Of(h)
        /\ d.title = data.title /\ d.free_slot_event_ids = data.free_slot_event_ids
    BY <2>1, <2>2, HistoryIsTyped DEF DataType, Value
  <2>4. fsm' = fsm /\ data' = d /\ AskCalendar(h, "bot") /\ Rest
    BY <1>5 DEF slot_create, Put, At
  <2> HIDE DEF d
  <2>5. overlaps = 0 => fsm = "confirm_create"
    BY <1>1, <1>5, RunsAlone DEF Fits, At
  <2>6. overlaps = 0 => Good(fsm, d)
    BY <1>2, <2>5, PlainIsGood DEF Plain
  <2>7. overlaps = 0 => Fresh(d) /\ Timely(d)
    BY <1>2, <2>2, <2>3 DEF Fresh, Timely, Complete
  <2> QED
    BY <1>1, <2>3, <2>4, <2>6, <2>7, AskCalendarKeeps, HistoryIsTyped
<1> QED
  BY <1>1, <1>3, <1>4, <1>5 DEF slot_create, At

LEMMA FindByText ==
  ASSUME Inv, NEW h \in Handlers, _handle_find_slot(h) \/ FoundByText(h)
  PROVE  Inv'
<1>1. ASSUME NEW people \in {"records", "emails"}, At(h, "find_slot_intent"),
             Put([data EXCEPT !.attendees = people]), Await(h, "find_slot_people"), Rest
      PROVE  Inv'
  <2> DEFINE d == [data EXCEPT !.attendees = people]
  <2>1. d \in DataType /\ SameAnswers(data, d) /\ SameOtherwise(data, d)
    BY HistoryIsTyped DEF DataType, SameAnswers, SameOtherwise
  <2>2. fsm' = fsm /\ data' = d
    BY <1>1 DEF Put
  <2> HIDE DEF d
  <2>3. ~At(h, "idle") /\ task[h].pc \notin NeutralPcs
    BY <1>1 DEF At, NeutralPcs
  <2>4. overlaps = 0 => Good(fsm, d) /\ Fresh(d)
    BY <2>1, <2>3, RunsAlone, SameIsGood, SameIsFresh
  <2> QED
    BY <1>1, <2>1, <2>2, <2>3, <2>4, WaitKeeps, HistoryIsTyped DEF Waits
<1>2. CASE At(h, "find_slot_people") /\ Await(h, "find_slots_by_text") /\ Keep /\ Rest
  BY <1>2, WaitAsItIs DEF At, NeutralPcs, Waits
<1>3. CASE Answer(h, "find_slot_people", [data EXCEPT !.date_from = "datetime"],
                  "enter_duration")
  BY <1>3, DatesAnswer DEF NeutralPcs
<1>4. CASE Ask(h, "find_slot_people", "enter_range")
  BY <1>4, AskPlain DEF Plain, NeutralPcs
<1>5. CASE At(h, "find_slots_by_text") /\ Keep /\ Done(h) /\ Rest
  BY <1>5, EndAsItIs DEF At
<1>6. ASSUME NEW found \in BOOLEAN,
             Answer(h, "find_slots_by_text", [data EXCEPT !.found_slots = found],
                    "review_options")
      PROVE  Inv'
  <2> DEFINE d == [data EXCEPT !.found_slots = found]
  <2>1. d \in DataType /\ SameAnswers(data, d) /\ SameOtherwise(data, d)
    BY HistoryIsTyped DEF DataType, SameAnswers, SameOtherwise
  <2>2. Answer(h, "find_slots_by_text", d, "review_options")
    BY <1>6
  <2> HIDE DEF d
  <2> QED
    BY <2>1, <2>2, PlainAnswer DEF Plain, NeutralPcs
<1> QED
  BY <1>1, <1>2, <1>3, <1>4, <1>5, <1>6 DEF _handle_find_slot, FoundByText

LEMMA SlotSteps ==
  ASSUME Inv, NEW h \in Handlers, SlotStep(h)
  PROVE  Inv'
<1>1. CASE slot_cancel(h)
  BY <1>1, DropKeeps DEF slot_cancel
<1> QED
  BY <1>1, PeopleSteps, DurationStep, OfferedSteps, SlotCreate, FindByText DEF SlotStep

LEMMA TextArrives ==
  ASSUME Inv, NEW h \in Handlers, handle_free_text(h) \/ handle_stuck_state(h)
  PROVE  Inv'
<1>1. ~At(h, "idle") /\ task[h].pc \notin NeutralPcs
  BY DEF handle_free_text, handle_stuck_state, At, NeutralPcs
<1>2. PICK pc \in {"intent", "clear_stuck"} : Await(h, pc) /\ Rest /\ data' = data
        /\ \/ handle_free_text(h) /\ fsm' = fsm
           \/ handle_stuck_state(h) /\ fsm' = "none"
  BY DEF handle_free_text, handle_stuck_state, Clear, Enter, Keep, chat
<1>3. /\ "handle_free_text" \in DOMAIN Filter /\ Filter["handle_free_text"] = {"none"}
  BY DEF Filter
<1>4. overlaps = 0 => fsm' = "none"
  BY <1>2, <1>3, FindsItsState DEF handle_free_text
<1>5. pc \in Handled /\ pc \notin DOMAIN Filter
  BY Names DEF Handled
<1>6. overlaps = 0 => Fresh(data) /\ Of(h) = dialog /\ cancelled < dialog
  BY <1>1, RunsAlone, Knows
<1>7. fsm' \in States /\ Good("none", data)
  BY <1>2, NeutralIsGood, HistoryIsTyped DEF Neutral, States
<1>8. ASSUME cancelled < dialog, NEW t \in Tasks, t.pc = pc, t.of = dialog
      PROVE  Fits(t, "none", data)
  BY <1>5, <1>8 DEF Fits
<1>9. PICK s \in States : fsm' = s
  BY <1>7
<1> QED
  BY <1>1, <1>2, <1>4, <1>5, <1>6, <1>7, <1>8, <1>9, AwaitKeeps, HistoryIsTyped

LEMMA IntentStep ==
  ASSUME Inv, NEW h \in Handlers, Intent(h)
  PROVE  Inv'
<1>1. At(h, "intent") /\ ~At(h, "idle") /\ task[h].pc \notin NeutralPcs /\ Rest
  BY DEF Intent, At, NeutralPcs
<1>2. overlaps = 0 => /\ fsm = "none" /\ Fresh(data)
                      /\ Of(h) = dialog /\ cancelled < dialog
  BY <1>1, RunsAlone, Knows DEF Fits, At
<1>3. \A d : Good("none", d)
  BY NeutralIsGood DEF Neutral
<1>4. CASE Keep /\ Done(h)
  BY <1>1, <1>4, EndAsItIs
<1>5. CASE Put([data EXCEPT !.mode = "text"]) /\ Await(h, "process_llm_draft")
  <2> DEFINE d == [data EXCEPT !.mode = "text"]
  <2>1. d \in DataType /\ SameAnswers(data, d)
    BY HistoryIsTyped DEF DataType, SameAnswers
  <2>2. fsm' = fsm /\ data' = d
    BY <1>5 DEF Put
  <2> HIDE DEF d
  <2>3. "process_llm_draft" \in Handled /\ "process_llm_draft" \notin DOMAIN Filter
    BY Names DEF Handled
  <2>4. ASSUME cancelled < dialog, fsm = "none", NEW t \in Tasks,
               t.pc = "process_llm_draft", t.of = dialog
        PROVE  Fits(t, fsm, d)
    BY <2>3, <2>4 DEF Fits
  <2>5. overlaps = 0 => Fresh(d)
    BY <1>2, <2>1, SameIsFresh
  <2> QED
    BY <1>1, <1>2, <1>3, <1>5, <2>1, <2>2, <2>3, <2>4, <2>5, AwaitKeeps, HistoryIsTyped
<1>6. ASSUME NEW next \in {"free_slot", "find_slot_intent"}, Await(h, next), Keep
      PROVE  Inv'
  BY <1>1, <1>6, WaitAsItIs DEF Waits
<1>7. ASSUME NEW next \in {"cmd_delete", "cmd_reschedule"}, Await(h, next), Keep
      PROVE  Inv'
  <2>1. next \in Handled /\ next \in DOMAIN Filter /\ "none" \in Filter[next]
    <3>1. next \in DOMAIN Filter /\ Filter[next] = States \ TextOfCreate
      BY DEF Filter
    <3>2. "none" \in States \ TextOfCreate
      BY DEF States, TextOfCreate
    <3> QED
      BY <3>1, <3>2 DEF Handled
  <2>2. ASSUME cancelled < dialog, fsm = "none", NEW t \in Tasks, t.pc = next, t.of = dialog
        PROVE  Fits(t, fsm, data)
    BY <2>1, <2>2 DEF Fits
  <2> QED
    BY <1>1, <1>2, <1>3, <1>7, <2>1, <2>2, AwaitKeeps, HistoryIsTyped DEF Keep, chat
<1> QED
  BY <1>4, <1>5, <1>6, <1>7 DEF Intent

LEMMA OtherSteps ==
  ASSUME Inv, NEW h \in Handlers, OtherStep(h)
  PROVE  Inv'
<1>1. CASE cmd_cancel(h)
  BY <1>1, DropKeeps DEF cmd_cancel
<1>2. CASE contacts_search(h) \/ account_password_entered(h)
  BY <1>2, ClearKeeps DEF contacts_search, account_password_entered, At
<1>3. CASE \/ cmd_contacts(h) \/ connect_account_start(h) \/ account_server_entered(h)
           \/ account_email_entered(h) \/ account_username_entered(h)
  BY <1>3, AskNeutral
  DEF cmd_contacts, connect_account_start, account_server_entered, account_email_entered,
      account_username_entered, Neutral, OtherStates, AccountStates
<1>4. CASE error_handler(h)
  BY <1>4, EndAsItIs DEF error_handler
<1> QED
  BY <1>1, <1>2, <1>3, <1>4, TextArrives, IntentStep DEF OtherStep
-----------------------------------------------------------------------------
(* The dispatcher.                                                          *)

\* A handler that neither begins a dialog nor belongs to no dialog is started in
\* the state that asks for it.
LEMMA AskedFor ==
  ASSUME NEW f \in DOMAIN Filter, f \notin Entries, f \notin NeutralPcs
  PROVE  Filter[f] \cap Neutral = {}
<1>1. Neutral = {"none", "enter_server", "enter_email", "enter_username",
                 "enter_password", "waiting_query"}
  BY DEF Neutral, OtherStates, AccountStates
<1>2. CASE f \in {"create_text_mode", "create_step_mode", "handle_text_input",
                  "calendar_selected", "date_picked", "time_picked", "duration_picked",
                  "skip_attendees", "attendees_entered", "description_entered",
                  "recurrence_chosen", "recurrence_custom", "recurrence_freq_selected",
                  "day_toggle", "recurrence_end_type", "recurrence_end_date",
                  "recurrence_count", "confirm_create", "conflict_proceed",
                  "conflict_show_slots", "conflict_slot_picked"}
  BY <1>1, <1>2 DEF Filter
<1>3. CASE f \in {"slot_people_entered", "slot_range_entered", "slot_duration_picked",
                  "slot_picked", "slot_create", "delete_event_selected",
                  "delete_recurrence_mode", "delete_confirm", "freeslot_confirm",
                  "freeslot_cancel", "reschedule_event_selected",
                  "reschedule_recurrence_mode", "reschedule_date_picked",
                  "reschedule_time_picked", "reschedule_confirm"}
  BY <1>1, <1>3 DEF Filter
<1> QED
  BY <1>2, <1>3, Names DEF Entries, NeutralPcs

LEMMA DispatchStep ==
  ASSUME Inv, NEW h \in Handlers, NEW f \in DOMAIN Filter, Dispatch(h, f)
  PROVE  Inv'
<1>1. dialog' \in Dialogs /\ dialog' >= dialog /\ (f \in Entries => dialog' > dialog)
  BY ChatAssumption DEF Dispatch, Inv, TypeOK, Dialogs
<1>2. PICK t \in Tasks : t.pc = f /\ t.of = dialog' /\ Become(h, t)
  <2> DEFINE u == [Idle EXCEPT !.pc = f, !.of = dialog']
  <2>1. f \in Handled
    BY DEF Handled
  <2>2. u \in Tasks /\ u.pc = f /\ u.of = dialog'
    BY <1>1, <2>1, EmptyIsTyped DEF Tasks
  <2>3. Become(h, u)
    BY DEF Dispatch
  <2> HIDE DEF u
  <2> QED
    BY <2>2, <2>3
<1>3. /\ fsm \in Filter[f]
      /\ UNCHANGED <<fsm, data, shown, asked, lost, cancelled, listed, chosen>>
  BY DEF Dispatch, Keep, chat, history
<1>4. task' = [task EXCEPT ![h] = t] /\ task'[h] = t /\ task' \in [Handlers -> Tasks]
  BY <1>2 DEF Become, Inv, TypeOK, Tasks
<1>5. overlaps' \in 0..MaxOverlaps /\ (overlaps' = 0 => ~Busy /\ overlaps = 0)
  BY ChatAssumption DEF Dispatch, Inv, TypeOK
<1>6. TypeOK'
  BY <1>1, <1>3, <1>4, <1>5 DEF Inv, TypeOK, Tasks
<1>7. (cancelled <= dialog)'
  BY <1>1, <1>3, ChatAssumption DEF Inv, TypeOK, Dialogs
<1>8. ASSUME overlaps' = 0
      PROVE  Solo'
  <2>1. Good(fsm, data) /\ Fresh(data) /\ \A g \in Handlers : At(g, "idle")
    BY <1>5, <1>8 DEF Inv, Solo, Busy
  <2>2. \A g \in Handlers : g # h => At(g, "idle")'
    BY <1>4, <2>1 DEF At, Inv, TypeOK
  <2>3. (fsm \notin Neutral => cancelled < dialog)'
    <3>1. fsm \notin Neutral => cancelled < dialog
      BY <2>1 DEF Good
    <3>2. cancelled \in Nat /\ dialog \in Nat /\ dialog' \in Nat
      BY <1>1, ChatAssumption DEF Inv, TypeOK, Dialogs
    <3>3. cancelled < dialog => cancelled < dialog'
      BY <1>1, <3>2
    <3> QED
      BY <1>3, <3>1, <3>3
  <2>4. Good(fsm, data)'
    BY <1>3, <2>1, <2>3 DEF Good, Timely
  <2>5. Fresh(data)'
    BY <1>3, <2>1 DEF Fresh
  <2>6. f \notin NeutralPcs => cancelled < dialog'
    <3>1. CASE f \in Entries
      BY <1>1, <3>1, ChatAssumption DEF Inv, TypeOK, Dialogs
    <3>2. CASE f \notin Entries
      BY <1>3, <2>3, <3>2, AskedFor
    <3> QED
      BY <3>1, <3>2
  <2>7. Fits(t, fsm, data)'
    BY <1>2, <1>3, <2>6, Names DEF Fits
  <2> QED
    BY <1>4, <2>2, <2>4, <2>5, <2>7 DEF Solo, Alone
<1> QED
  BY <1>6, <1>7, <1>8 DEF Inv, Solo

\* The same chat and history with nobody at work.
LEMMA RestartStep ==
  ASSUME Inv, Restart
  PROVE  Inv'
<1>1. /\ task' = [h \in Handlers |-> Idle]
      /\ UNCHANGED <<fsm, data, dialog, overlaps, shown, asked, lost, cancelled, listed,
                     chosen>>
  BY DEF Restart, Keep, chat, Rest, history
<1>2. task' \in [Handlers -> Tasks] /\ \A h \in Handlers : At(h, "idle")'
  BY <1>1, EmptyIsTyped DEF At
<1>3. TypeOK' /\ (cancelled <= dialog)'
  BY <1>1, <1>2 DEF Inv, TypeOK, Tasks
<1>4. Solo'
  BY <1>1, <1>2 DEF Inv, Solo, Good, Timely, Fresh, Alone
<1> QED
  BY <1>3, <1>4 DEF Inv

-----------------------------------------------------------------------------
(* The invariant.                                                           *)

LEMMA Initially == Init => Inv
<1> SUFFICES ASSUME Init PROVE Inv
  OBVIOUS
<1>1. task \in [Handlers -> Tasks] /\ \A h \in Handlers : At(h, "idle")
  BY EmptyIsTyped DEF Init, At
<1>2. 0 \in Dialogs /\ 0 \in 0..MaxOverlaps
  BY ChatAssumption DEF Dialogs
<1>3. TypeOK
  BY <1>1, <1>2, EmptyIsTyped DEF Init, TypeOK, Tasks, States
<1>4. Good(fsm, data) /\ Fresh(data)
  <2>1. Good("none", data)
    BY NeutralIsGood DEF Neutral
  <2> QED
    BY <2>1, EmptyIsTyped DEF Init, Fresh
<1>5. cancelled <= dialog
  BY DEF Init
<1> QED
  BY <1>1, <1>3, <1>4, <1>5 DEF Inv, Solo, Alone

LEMMA Inductive == Inv /\ [Next]_vars => Inv'
<1> SUFFICES ASSUME Inv, [Next]_vars PROVE Inv'
  OBVIOUS
<1>1. ASSUME NEW h \in Handlers, Step(h)
      PROVE  Inv'
  BY <1>1, CreateSteps, EditSteps, SlotSteps, OtherSteps DEF Step
<1>2. CASE UNCHANGED vars
  <2>1. /\ UNCHANGED <<fsm, data, task, dialog, overlaps>>
        /\ UNCHANGED <<shown, asked, lost, cancelled, listed, chosen>>
    BY <1>2 DEF vars, history
  <2>2. TypeOK' /\ (cancelled <= dialog)'
    BY <2>1 DEF Inv, TypeOK
  <2>3. \A s, d : Good(s, d) => Good(s, d)'
    <3>1. \A d : Timely(d)' <=> Timely(d)
      BY <2>1 DEF Timely
    <3> SUFFICES ASSUME NEW s, NEW d, Good(s, d) PROVE Good(s, d)'
      OBVIOUS
    <3> QED
      BY <2>1, <3>1 DEF Good
  <2>4. (Fresh(data) => Fresh(data)') /\ (Alone => Alone')
    BY <2>1 DEF Fresh, Alone, At
  <2>5. \A h \in Handlers : /\ At(h, "idle") => At(h, "idle")'
                            /\ Fits(task[h], fsm, data) => Fits(task[h], fsm, data)'
    BY <2>1, <2>3 DEF Fits, At, Timely
  <2>6. Good(fsm, data) => Good(fsm, data)'
    BY <2>1, <2>3
  <2> QED
    BY <2>1, <2>2, <2>4, <2>5, <2>6 DEF Inv, Solo
<1> QED
  BY <1>1, <1>2, DispatchStep, RestartStep DEF Next

\* The invariant holds in every reachable state.
THEOREM Invariance == Spec => []Inv
BY Initially, Inductive, PTL DEF Spec

\* The state, the data and the tasks of the chat keep their types.
THEOREM TypeCorrect == Spec => []TypeOK
<1>1. Inv => TypeOK
  BY DEF Inv
<1> QED
  BY <1>1, Invariance, PTL

\* Whoever waits for each answer never meets a dialog with answers missing, unless the way
\* of input was lost between two writes (create.py:74-75).
THEOREM Answered == Spec => []NothingMissing
<1>1. ASSUME Inv, overlaps = 0, NEW h \in Handlers, At(h, "incomplete")
      PROVE  lost
  <2>1. ~At(h, "idle")
    BY <1>1 DEF At
  <2> QED
    BY <1>1, <2>1, RunsAlone DEF Fits, At
<1>2. Inv => NothingMissing
  BY <1>1 DEF NothingMissing
<1> QED
  BY <1>2, Invariance, PTL

\* Where the API is called to create a meeting, the payload is that of the data.
LEMMA WhatIsCreated ==
  ASSUME Inv, overlaps = 0, NEW h \in Handlers, Creating(h)
  PROVE  /\ task[h].view = Payload(data) /\ Good(fsm, data) /\ Fresh(data)
         /\ fsm \in {"confirm", "conflict"} /\ Complete(data) /\ Named(data)
<1>1. ~At(h, "idle") /\ task[h].pc = "announcing"
  BY DEF Creating, Goes, At
<1> QED
  BY <1>1, RunsAlone DEF Fits

\* The meeting that is sent is the one the question showed that was sent last, up to a
\* recurrence that the question does not show (create.py:413-437, 485-490, 508-529).
THEOREM CreatesShown == Spec => CreatesWhatWasShown
<1>1. ASSUME Inv, overlaps = 0, asked \in {"confirm", "conflict"},
             NEW h \in Handlers, Creating(h)
      PROVE  LET sent == task[h].view IN
             /\ sent.title = shown.title /\ sent.when = shown.when
             /\ shown.recurrence => sent.recurrence
             /\ sent.recurrence =>
                  shown.recurrence \/ asked = "conflict" \/ data.draft_repeats
  <2>1. task[h].view = Payload(data) /\ shown = Showing(asked, Content(data))
    BY <1>1, WhatIsCreated DEF Good
  <2>2. /\ data \in DataType /\ data.draft_repeats \in BOOLEAN /\ data.recurrence \in BOOLEAN
        /\ Content(data) \in ContentType
    BY <1>1, HistoryIsTyped, ContentIsTyped DEF DataType
  <2>3. /\ Payload(data).title = Content(data).title
        /\ Payload(data).when = Content(data).when
        /\ Content(data).recurrence = data.recurrence
        /\ Payload(data).recurrence => data.recurrence \/ data.draft_repeats
        /\ data.recurrence => Payload(data).recurrence
    <3>1. CASE data.draft.of # 0
      BY <3>1 DEF Payload, Content
    <3>2. CASE data.draft.of = 0
      BY <3>2 DEF Payload, Content
    <3> QED
      BY <3>1, <3>2, <2>2 DEF DataType, Value, Dialogs
  <2>4. /\ shown.title = Content(data).title /\ shown.when = Content(data).when
        /\ asked = "confirm" => shown.recurrence = Content(data).recurrence
        /\ asked = "conflict" => ~shown.recurrence
    BY <1>1, <2>1, <2>2 DEF Showing, ContentType
  <2> QED
    BY <1>1, <2>1, <2>2, <2>3, <2>4
<1>2. ASSUME Inv, [Next]_vars
      PROVE  [overlaps = 0 /\ asked \in {"confirm", "conflict"} =>
                \A h \in Handlers : Creating(h) =>
                LET sent == task[h].view IN
                /\ sent.title = shown.title /\ sent.when = shown.when
                /\ shown.recurrence => sent.recurrence
                /\ sent.recurrence =>
                     shown.recurrence \/ asked = "conflict" \/ data.draft_repeats]_vars
  BY <1>1, <1>2
<1> QED
  BY <1>2, Invariance, PTL DEF Spec, CreatesWhatWasShown

\* What is created was answered after the last dialog that was cancelled.
THEOREM CancelledStays == Spec => CancelledIsNotCreated
<1>1. ASSUME Inv, overlaps = 0, NEW h \in Handlers, Creating(h)
      PROVE  task[h].view.title > cancelled /\ task[h].view.when.of > cancelled
  <2>1. /\ task[h].view = Payload(data)
        /\ Fresh(data) /\ Complete(data) /\ Named(data)
    BY <1>1, WhatIsCreated
  <2>2. CASE data.draft.of # 0
    BY <2>1, <2>2 DEF Payload, Fresh
  <2>3. CASE data.draft.of = 0
    BY <2>1, <2>3 DEF Payload, Fresh, Complete, Named
  <2> QED
    BY <2>2, <2>3
<1>2. ASSUME Inv, [Next]_vars
      PROVE  [overlaps = 0 => \A h \in Handlers :
                Creating(h) => task[h].view.title > cancelled
                               /\ task[h].view.when.of > cancelled]_vars
  BY <1>1, <1>2
<1> QED
  BY <1>2, Invariance, PTL DEF Spec, CancelledIsNotCreated

\* What is removed was listed last, and what is deleted or moved was chosen for that.
THEOREM ChangesChosen == Spec => ChangesWhatWasChosen
<1>1. ASSUME Inv, overlaps = 0, NEW h \in Handlers
      PROVE  /\ Goes(h, "clear_freed", "freeing") /\ listed # 0
                  => task[h].view.title = listed
             /\ Goes(h, "delete_confirm", "deleting") => chosen = "delete"
             /\ Goes(h, "reschedule_confirm", "moving") => chosen = "move"
  <2>1. ASSUME At(h, "clear_freed"), listed # 0
        PROVE  task[h].view.title = listed
    <3>1. ~At(h, "idle")
      BY <2>1 DEF At
    <3> QED
      BY <1>1, <2>1, <3>1, RunsAlone DEF Fits, Fresh, At
  <2>2. ASSUME NEW f \in {"delete_confirm", "reschedule_confirm"}, At(h, f)
        PROVE  /\ f = "delete_confirm" => chosen = "delete"
               /\ f = "reschedule_confirm" => chosen = "move"
    <3>1. /\ f \in DOMAIN Filter
          /\ f = "delete_confirm" => Filter[f] \subseteq DeleteChosen
          /\ f = "reschedule_confirm" => Filter[f] \subseteq MoveChosen
      BY DEF Filter, DeleteChosen, MoveChosen
    <3>2. ~At(h, "idle")
      BY <2>2 DEF At
    <3> QED
      BY <1>1, <2>2, <3>1, <3>2, RunsAlone, FindsItsState DEF Good
  <2> QED
    BY <2>1, <2>2 DEF Goes
<1>2. ASSUME Inv, [Next]_vars
      PROVE  [overlaps = 0 => \A h \in Handlers :
                /\ Goes(h, "clear_freed", "freeing") /\ listed # 0
                     => task[h].view.title = listed
                /\ Goes(h, "delete_confirm", "deleting") => chosen = "delete"
                /\ Goes(h, "reschedule_confirm", "moving") => chosen = "move"]_vars
  BY <1>1, <1>2
<1> QED
  BY <1>2, Invariance, PTL DEF Spec, ChangesWhatWasChosen
=============================================================================
