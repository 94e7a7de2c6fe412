# A verification project for calendar-agent

calendar-agent is a Telegram bot with a FastAPI back end and Celery workers. It
keeps a user's meetings in one calendar of an on-premises Exchange server and
*mirrors* every meeting into the user's other calendars, so that each of them
shows the time as taken. This directory holds TLA+ models of the code, the TLC
runs that check them on small instances and proofs checked by TLAPS.

## 1. The system

| Component | State | Operations | Talks to |
|---|---|---|---|
| Event service, `api/services/events/event_service.py` and `api/routers/events.py` | rows of `events` and `sync_groups` | create, update, delete, handle_external_delete, delete-by-exchange-ids | Exchange, PostgreSQL, mirror service, Redis lock |
| Mirror service, `mirror_service.py` | the same rows | `sync_mirror_to_primary`, `repair_sync_group` | Exchange, PostgreSQL |
| Poll, `worker/tasks/subscription_tasks.py` | `last_seen_change_key` | every five minutes: list, compare, delete or sync | Exchange, event and mirror service |
| Reconciliation, `reconciliation_tasks.py` | none | nightly: repair active and degraded groups | mirror service |
| EWS client, `api/services/ews/` | none; the state is Exchange | one request per call, in a thread | Exchange |
| Redis lock, `api/utils/redis_lock.py` | one key with a TTL | an `async with` around create_event | Redis |
| Availability and slots, `api/services/availability/` | none | `check_slot`, `find_slots` | Exchange free/busy |
| Accounts, calendars, contacts, `api/routers/`, `calendar_sync.py`, `contact_sync.py`, `sync_tasks.py` | their tables | check-then-insert upserts, verification, deletion | Exchange, PostgreSQL |
| LLM parser, `api/services/llm/parser.py` | `llm_sessions` | a session per user, a window of turns | OpenRouter, PostgreSQL |
| Bot, `bot/handlers/` | aiogram FSM state and data of each chat | dialogs for create, recurrence, move, delete, slots, accounts | the API, over HTTP |
| Recurrence mapper and cache | none | pure conversions that no live path calls | |
| Graph, OAuth, webhooks | none | left over from another version; not called | |

What is hard in it:

- Only `create_event` takes the lock. Updates, deletions, syncs, polls and
  reconciliations of one event run at the same time, each with a database
  session of its own that commits once at its end, and each is suspended at
  every EWS call.
- Exchange and PostgreSQL have no common transaction. A call may fail before or
  after the server has carried it out, and a killed task leaves behind what it
  did in Exchange and nothing of what it did in the database.
- Repairs come from periodic tasks which may overlap each other and read the
  world at one moment and act on it later.
- The lock expires, is deleted by name, and is held over calls to Exchange.
- A loop over accounts, calendars, rows or groups meets an exception at one of them.
- The upserts read and then insert, in tables without a unique key.
- aiogram runs the updates of one chat as concurrent tasks; state and data of the chat
  outlive a restart, a dialog and a cancelled question.

What makes each component correct:

- *Lock*: one client in the body as long as no owner outlives its key; nobody
  deletes somebody else's key; every waiter leaves, also after a crash of the owner.
- *Event and mirror service*: an event never comes back; what the database calls
  deleted is gone from Exchange; mirrors show only committed content; a deleted
  group keeps no mirror; a confirmed deletion lasts; an active group means that
  its mirrors agree; in the end they agree in any case.
- *Poll*: it deletes only what has disappeared; what has disappeared is deleted.
- *Poll and reconciliation over many events*: one account, group or event never keeps
  the others from being reached.
- *Slots*: a slot offered is in working hours and free, as many are offered as there
  are, and the check before the creation agrees with the search.
- *Accounts, calendars, sessions*: one row per key unless two operations raced; nothing
  outlives its account; a setting is changed by its user only; the copy of a mailbox
  catches up with it.
- *Dialogs*: what is created is what the question showed, what is moved or removed is what
  was chosen for it; no answer is taken from a dialog that was cancelled; one confirmation
  is one event.

`PROJECT.json` lists the hazards one by one with their lines.

## 2. Modules

| Module | Models | How |
|---|---|---|
| `RedisLock` | `redis_lock.py` | one action per Redis command and outcome; time in retry intervals |
| `SyncStore` | the tables, Exchange, the tasks | variables, types and the outcomes of one EWS call |
| `MirrorService` | `mirror_service.py` | `SyncReadPrimary`, `SyncSelectMirrors`, `SyncMirror`, `SyncCommit`, `Repair` |
| `EventService` | `event_service.py` and the endpoints over it | `Create...`, `Update...`, `Delete...`, `HandleExternalDelete`, `Fallback` |
| `SyncSystem` | all of these with the poll, the reconciliation, Outlook users, killed tasks | `Init`, `Next`, `Fairness`, properties |
| `MirroredEvent` | the contract of one event, without tasks or calls | abstract specification |
| `PollLoop` | the loops of `subscription_tasks.py` and `reconciliation_tasks.py` | one action per turn of a loop; a sync or deletion is one step |
| `BotChat` | state and data of one chat, handlers as tasks | variables, types, what is shown and what is sent |
| `CreateDialog` | `bot/handlers/create.py`, `create_recurrence.py`, the drafts of `text_input.py` | one action per handler, split at its awaits |
| `BotDialog` | the other dialogs, the dispatcher, restarts | `Dispatch` with the filters in the order of the routers |
| `SlotFinder` | `slot_finder.py`, `availability_service.py`, `ews/availability.py` | one action per turn of the loop |
| `AccountStore` | the tables of a user and their keys, `get_or_create_user` | variables, how a transaction ends |
| `AccountRequests` | `routers/accounts.py`, `routers/calendars.py` | select, call and commit as actions of their own |
| `MailboxSync` | `calendar_sync.py`, the sync of `contact_sync.py`, the retries of `sync_tasks.py` | select, list, upsert, one commit |
| `TextParser` | the sessions of `llm/parser.py` | select, insert, ask, save |
| `UserData` | the four above at the same time | `Init`, `Next`, `Fairness`, properties |
| `MCSync`, `MCBot`, `MCSlots`, `MCPoll` | | symmetry, meetings, accounts and calendars for TLC |
| `RedisLockProofs` | | types and exclusion of the lock |
| `SyncProofs`, `SyncRefinementProofs` | | the safety of one event, with any tasks and with one at a time; the refinement |
| `PollLoopProofs` | | types and limit of the periodic tasks, what the poll deletes |
| `BotProofs` | | the dialogs |
| `SlotFinderProofs` | | the search for slots |
| `UserDataProofs`, `UpsertProofs` | | the rows of a user; duplicates and settings |

`SyncSystem` extends `EventService`, `MirrorService` and `SyncStore`, each the next;
`BotDialog` extends `CreateDialog`, which extends `BotChat`; `UserData` extends
`AccountRequests`, `MailboxSync` and `TextParser`, which share `AccountStore`. A module
holds next to some actions a mutated form (its comment begins with *Mutant*): a
plausible bug, which violates the property that `PROJECT.json` pairs it with. No
specification uses them.

### One event: `SyncSystem`

The model follows **one event** through the system; events share nothing but the loops,
which `PollLoop` treats. `row[c]` is the row of its copy in calendar `c` (`"deleted"`
is a non-null `deleted_at`), `rowVersion[c]` its title, description and times as one
version number, `lastSeen` the primary's `last_seen_change_key`, `group` the
`sync_groups.state`. `item[c]` and `changeKey` are Exchange. `task[p]` is one coroutine:
`pc` is the await it is suspended at, the other fields are the local variables and ORM
objects it has loaded.

- A step of a task is the code between two awaits. What an SQLAlchemy session
  has changed is not visible to others before its commit, so it is kept in the
  task and written by the `...Commit` action. A session opened in `async with`
  reads committed data at each query (PostgreSQL's default level).
- SQLAlchemy writes only the columns whose value differs from the one loaded:
  `same` remembers the mirror rows that a sync will not write.
- An EWS call succeeds, raises because the item does not exist, or raises
  because the connection failed, with or without an effect on the server.
- `Abort` is a killed process, or a database error: the session is rolled back.
  It also stands for a transaction that PostgreSQL cancels as a deadlock victim.
- `create_event` holds the lock `sync_group:<user>`. One draft makes one group, so
  nothing in this model depends on the lock, and it is modelled on its own.

Left out: the content of an event is one number, so two PATCHes of different fields count
as two contents. A PATCH addressed to a mirror row: the API never gives the id of a mirror
row to a client (a deletion can address one, because delete-by-exchange-ids looks rows up
by their Exchange id, and is modelled). Time does not pass: an event does not move out of
the window of the poll. Mirrors whose calendar row has been deleted. Exchange items are
deleted or edited by people at any time, never created by them.

### All events: `PollLoop`

`poll` holds what is left of the nested loops: accounts, calendars, rows, and the list
that was read. `NextAccount` is the `except` around an account. A synchronisation or a
deletion is one step here, which succeeds, or raises when the mirror is gone or the call
fails; `SyncSystem` has it in detail. `key` and `seen` are the change key and the one
stored. `groups` is what the reconciliation took, any `Limit` of the live ones, since its
query has no order. Events are created at any time, also between the list of their calendar
and the query after it (`late` remembers those), and those in `Unlisted` are not in the
view: they lie beyond its end, or are masters of a recurrence. Calendars and accounts do
not change. `MissingIsRemoved` says that these two kinds are the only events in Exchange
which the poll takes for removed; that it takes them is what `sync_far_events` and
`sync_poll_race` show.

### The chat: `BotDialog`

`fsm` and `data` are what aiogram keeps in Redis. `task[h]` is a handler: `pc` where it is
suspended, `view` what it has read, `next` the state it is about to set. **Each await is a
step**: a read of the data, `update_data` (`Put`), `set_state` (`Enter`), a message that
matters, a call of the API; `clear` is two, since aiogram's FSMContext clears the state
and then the data (`bot/pyproject.toml` pins aiogram 3.6). Between any two the handler may
fail (`error_handler`), the bot be started again (`Restart` loses the tasks and keeps
Redis) and another handler run. What is not a step of its own: the read inside
`update_data`, messages that only repeat what was stored, and writes of answers that the
model does not keep (a duration, a description).

**An answer is the number of the dialog it was given in**, so that a stale one can be told
from a new one; 0 is a missing key. `asked`, `shown`, `lost`, `listed`, `chosen` and
`cancelled` are history: which question stands, what its message showed, and what the user
chose. `shown` is written when the message of the question is sent, and not with the
state that was set before it; the question about a conflict shows no recurrence.
Attendees and descriptions do not count as content. `draft_repeats` is a recurrence that
the model has read in a text. The dispatcher reads the state before the handler runs, and
a second update may be dispatched while a handler is suspended: `overlaps` counts those.
Each update may be any button ever shown, because old messages keep their buttons.

### Slots: `SlotFinder`

Times are ticks. `Ask` is the call of Exchange for the requested range, `NextDay` and
`TrySlot` are the turns of the loop, `Finish` sorts and cuts. A meeting is in a mailbox,
and `answered` is the set of mailboxes that Exchange has read: `get_schedule` answers the
others like mailboxes without meetings, and a failed call like none at all, so any set is
possible and none is told from "free". `check_slot` is the test before a creation, with an
overlap test and a list of statuses of its own. One time zone is used throughout;
conversions of time zones and of malformed times are left out.

### A user's rows: `UserData`

`proc[p]` is one request or task with its session; its writes are made by the action that
commits. Autoflush does not change what can be committed: a flush that fails ends in
the same rollback as a commit that fails, and one that succeeds only makes others wait.
Modelled from the code and the migrations:

- only `users.telegram_user_id` is unique; accounts, calendars, contacts and sessions
  are upserted by a select and an insert, and `scalar_one_or_none` raises on two rows;
- foreign keys with `ON DELETE CASCADE`; an insert whose account is gone, or an update
  whose row is gone, fails the commit with everything in it;
- an update writes the columns that differ from those read;
- an endpoint's exception rolls its session back (`session.py:22-24`);
- `_get_or_create_session` commits in a session of its own, which does not see a user that
  the request has inserted and not committed;
- `_save_turn` changes the loaded list in place, so that SQLAlchemy finds nothing to write:
  the turns stay empty, only `expires_at` moves on.

`raced` is history: the classes of rows of which two inserting operations have run at once.

## 3. Runs

| Run | Instance | Shows |
|---|---|---|
| `lock_ttl` | 3 clients, TTL 3, 2 tries | all lock properties, with crashes and lost connections |
| `sync_concurrent` | 2 tasks, 2 mirrors, 2 versions, 1 failure | the contract and the safety properties under concurrency |
| `sync_one_task` | 1 task, 2 mirrors, 2 versions, 1 failure, 1 Outlook edit, all shapes | the meaning of *active*, the poll's deletions, both repairs |
| `sync_live` | 2 tasks, 1 mirror, 3 versions | stale syncs are repaired in the end |
| `poll_loop` | 2 accounts, 3 calendars with an event each, one of them unlisted, limit 2, 3 changes, 1 failure | what is taken for removed; no account or group keeps the others from being reached |
| `bot_dialog` | 2 handlers, 2 dialogs, 1 overlap, failures at every await | what is created, moved or removed is what was shown and chosen |
| `slots` | 3 days of 16 ticks, every set of 5 meetings in 2 mailboxes, every set of mailboxes read, 5 durations | slots are free as far as was read, in hours, enough, and accepted by the check |
| `user_data` | 2 processes, 2 requests, 1 failure, 1 renaming | duplicates come from races only; nothing outlives its account; the copy catches up |
| `bot_double_create` | 2 handlers, 1 dialog | a double click creates two events |
| `sync_far_events` | 1 task, a far event | the poll deletes it |
| `sync_poll_race` | 2 tasks, a plain event | the poll deletes an event that has just been created |
| `sync_outlook_edit` | 1 task, 1 Outlook edit | the edit does not reach the mirror |

### Bounds

`Ttl` and `MaxRetries` are 3 and 2 rather than 300 and 100: what counts is
that a waiter can run out of tries before or after the key expires, and both
happen. With three clients a late DEL can remove the key of a second and let a
third in. Two tasks are enough for every pairwise race; two mirrors for one that
succeeds and one that fails; two versions for an update that races with another
task, and `sync_live` has three so that two updates race. One failure and one
Outlook edit at any moment cover each single failure; more would repeat it. The
proofs need none of these bounds. `MaxVersion`, `MaxForeign` and `MaxFaults` bound
what users and failures do in total.

`poll_loop`: two calendars in one account and one in another tell what an exception ends;
three groups and a limit of two make the reconciliation leave one out; three changes
are what it takes to remove a mirror, change its primary and remove another event
(`MaxChanges`, `MaxFailures`), or to create an event and change another. `bot_dialog`: two dialogs are what a stale answer needs,
and one overlapping update (`MaxOverlaps`) what a race between two handlers needs; the
buttons are all enabled in every state whose filter admits them. Its `View` forgets the
history once an update has overlapped: no action reads it, and of such executions only
`TypeOK` says anything, which is also proved. `slots`: a working day of
six ticks with a slot every second tick, so that durations fit on the grid, beside it, fill
the day, and pass midnight; the meetings touch, overlap, lie on and off the grid, and pass
midnight. `MaxSlots` is 2, so that the stop after `3 * MaxSlots` and the cut happen.
`user_data`: two of anything race; the requests that *have* raced are also among the
initial states, so that the two requests of the run can meet two rows. It checks
calendars; a sync of contacts is the same action without the excluded name and the settings.

Polls, restarts and ticks recur for ever, so deadlock is checked, except in `slots`, where
a search ends, and in `user_data`, where nothing is left to do when a user without
an account has spent the requests.

### Fairness

`RedisLock`: time passes, and the event loop resumes a coroutine that is ready to
try again. Nothing is assumed of the body. `SyncSystem`: a task that is running
goes on to its end (weak fairness of each task's steps: every call has a
timeout); the poll and the reconciliation get a worker again and again (strong
fairness: Celery Beat sends them by `worker/celery_config.py:28-38`, the queue is
first come first served, and with all workers taken they are only sometimes
possible). `PollLoop`: weak fairness of the poll and of the reconciliation, for the
same reasons; a killed one is sent again. `UserData`: weak fairness of each running
request or task, strong fairness of the two syncs that Beat sends. `SlotFinder`: the
loop goes on. `BotDialog` has none: its properties are about safety. Users, Outlook and
failures have no fairness, and are bounded, so liveness says what happens after they
have stopped.

### Findings

1. `bot_double_create`: `create.py:555-557` clears the chat after the API has answered,
   so a second click on *Create* passes the filter and creates the meeting again.
2. `sync_far_events`: the poll lists 30 days but compares with all future rows.
   An event created for later than that is deleted, with its mirrors, at the next
   poll. The same happens to recurrence masters, which a view does not list.
3. `sync_poll_race`: the poll lists the items before it selects the rows, so an event
   whose creation commits in between is taken for deleted, and is deleted.
   (With one task at a time this cannot happen: `PollDeletesOnlyMissing`.)
4. `sync_outlook_edit`: the poll sees that the primary was edited in Outlook but
   pushes the old row to the mirrors; nothing reads the edit.

What the models show without a run of their own, as an exception in a property or
in the way an action is written:

- The lock is not exclusive once its TTL of 30 s has passed, and nothing renews it; its owner
  creates one item per calendar over the network meanwhile (`MutexUnlessOverrun` excepts it).
- `create_event` that dies before its commit leaves items in Exchange without a row
  (`NoOrphans` is stated for executions without failures). A deletion whose EWS call
  fails still marks the row deleted, and no task ever tries again (`leaked`), although
  `docs/tech_spec.md:588` says that the deletion of the primary deletes the mirrors.
- `mirror_service.py:113` sets DEGRADED whatever the state is, also over DELETED; the
  reconciliation then keeps picking the group.
- A mirror removed in Outlook and a changed primary stop the poll of the account for ever:
  the sync raises at every poll before the key is stored (`Stuck` in `PollLoop`).
- More groups than 100 may leave some out every night (`GroupsAreRepaired`).
- Two rows with one key end the syncs of their account for ever (`Spoilt` in
  `UserData`). A text as the first request of a user fails. The
  status `error` that `accounts.py:145` sets is rolled back by the exception that reports it
  (`verify`), although `docs/prd.md:164` wants the status to be marked. The model never gets
  earlier turns.
- A recurrence read in a text is created and not asked about (`draft_repeats`), and the
  question about a conflict shows no recurrence at all (`create.py:485-490`).
- `create.py:74-75` sets the state before the mode: after a failure between the two, the
  text becomes a title and the dialog may come to the confirmation without a time
  (`lost`). The states of confirmation are set before their questions are sent, so that
  after a message that failed an old button confirms what was never shown (`asked`).
- `create.py:223` asks for the calendars of the bot when the question comes from a button
  (`ask_calendar_as_bot`), which ends that dialog. `delete.py:104` sends an
  Exchange id where the API wants its own, and is refused: `Confirmed` clears the chat whatever
  is answered.
- `docs/tech_spec.md` 7.5 (236-243) says that an event whose slot is not available is not
  created. The code asks, and `conflict_proceed` (`create.py:566`) creates it when the user
  says so; a check that failed counts as no conflict (`create.py:477`). The model has both,
  and no property claims that what is created is at a free time.
- A mailbox that Exchange could not read counts as free (`ews/availability.py:65`), and all
  of them do when the call fails (line 80): `answered` in `SlotFinder`. `docs/prd.md:257`
  wants slots to rest on the busy times of everybody who is invited.
- A slot that passes midnight is in working hours for `slot_finder.py:105`, which looks at
  the hour of the end only (excepted in `SlotsInHours` and `EnoughSlots`).
- A first time before nine on a later day loses that day (excepted in `EnoughSlots`).

## 4. Theorems

For any number of clients, TTL and tries (`RedisLockProofs`): the types, the
exclusion `MutexUnlessOverrun` and the action property `DeletesOwnKey`. Neither is
inductive. `LeaseInv` adds what the code relies on without saying so: while nobody
has overrun, an owner's key is still there, was set by the owner, and has at least
as long to live as the owner has left.

For any set of mirrors, any workers and any bounds (`SyncProofs`):
the types and `DeletedRowsAreGone`, `MirrorsShowCommitted`, `DeletedGroupIsEmpty`,
`ConfirmedIsDeleted` and `NoOrphans`. They follow from one inductive invariant in
parts:

- `DrafterInv`: one task at most drafts the event, and nothing is committed
  meanwhile. Without it a commit of a creation could revive a deleted row.
- `PublishInv`: what a sync has read and will write was published.
- `GoneInv`: what a deletion has handled has gone *and stays gone*, because no step
  creates an item once the rows are there; an update of a missing item fails.
- `GroupInv`: a deletion about to commit covers every live mirror, since no mirror
  row becomes live after the creation.
- `OrphanInv`: without failures the draft under way knows each item it has made.

Each part is preserved by every action, one proof step per action. All five were
checked by TLC before they were proved. `SyncRefinementProofs` proves that
`SyncSystem` implements `MirroredEvent` under the mapping `life <- row[Primary]`,
`shown <- item` restricted to the mirrors: the steps of creation map to `Appear`
and `GoLive`, the commit of an update to `Publish`, a sync to `Show`, deletions to
`Vanish` and `Delete`, Outlook to `Tamper` and `Vanish`, and all others to stutters.

With one worker (`OneWorker`: any two are the same one), and still any mirrors and
bounds, `SyncProofs` proves `ActiveMeansMirrored`, `PrimaryAgrees` and
`PollDeletesOnlyMissing`. They speak of the moments between tasks, so the invariant has
to say what holds in the middle of one (`SoloInv`, checked by TLC on the instance of
`sync_one_task` before it was proved):

- `DraftInv`: before the commit of the creation there is only the draft.
- `MirrorInv`: a sync under way works for the version of the row, and knows each live
  mirror as handled, to be handled or failed; rows it will not write hold that version
  already. Outside a sync an active group is in step, because a failure makes it degraded
  and nothing makes it active again.
- `PrimaryInv`: only between the call and the commit of an update is the item ahead.
- `KeyInv`: an item has a change key, so a poll that has seen none saw no item.

That `OneWorker` is needed is what `sync_poll_race` shows for the third of them.

For any accounts, calendars, events and bounds (`PollLoopProofs`): the types of `PollLoop`,
with the limit of the reconciliation, and `MissingIsRemoved`. The invariant adds what a
list that is still held says: each event of its calendar that is there is in it, or is not
listed, or was created since (`Missing`). It stays true because items otherwise only
disappear, because what the poll holds was created before and is not created again
(`Created`), and because an exception throws the list away.

For any number of handlers, dialogs and overlaps (`BotProofs`): the types of the chat,
`NothingMissing`, `CreatesWhatWasShown`, `CancelledIsNotCreated` and
`ChangesWhatWasChosen`. The code nowhere says which data a state of the chat stands
for; the invariant has to, also in the middle of each handler and after a failure there
(`Inv`, checked by TLC on the instance of `bot_dialog` before it was proved):

- `Good`: which answers are there in which state, also when the handler that set it failed
  at its next await, and that in the states of the confirmation a question that was sent
  showed what the data says.
- `Fresh`: no answer is left of a dialog that was cancelled, and the ids that free a slot are
  those of the last list that was shown, or that list failed after its ids were stored.
- `Alone` and `Fits`: one handler runs, in a state that its filter admits, and at each of
  its awaits what it has read and is about to write still fits the data.

The properties, and all parts but the types, are claimed as long as no update was
dispatched in the middle of a handler (`overlaps = 0`); `bot_double_create` shows why.

For any length of day, hours, interval, range, duration and calendars
(`SlotFinderProofs`): the types with the limit of slots, `SlotsInHours`, `SlotsAreFree`,
`CheckAgrees` and `EnoughSlots`, for whatever mailboxes Exchange has read. The first ones follow from `SlotInv`: every start found
was tested when the loop was there, against what Exchange answered for the range; a slot
that overlaps a meeting of a mailbox that was read lies in the range, so the meeting was in
the answer. `EnoughSlots`
needs two more things:

- `Searched`: the loop stands on the grid of the half hours, and every time that the
  request allows and that it has passed was found. A jump passes over closed hours only:
  the time from the end of work, or from the first start that ends late, to nine o'clock.
- `Places`: the sort is a total order, so the places of the slots found are the numbers
  from 0 on, each taken once (a bijection), and the cut to `MaxSlots` leaves exactly
  `MaxSlots` or all of them.

For any number of requests and tasks at once, any mailboxes, calendars *and* contacts
(`UserDataProofs`, `UpsertProofs`): the types, `RowsHaveAnAccount`, `OnlyPatchChooses`
and `OneRowUnlessRace`. The first two
follow from `RowsInv`: ids are handed out in turn, where each operation may be, and
that a request whose user is not committed holds the user itself. `OnlyPatchChooses`
needs of it that an id is never used twice, so that a sync which read a row before a
PATCH writes the name of that row and nothing else. `OneRowUnlessRace` follows from
`KeysInv`, in parts:

- `OneAtATime`: of the operations that may insert the same, one runs at a time unless
  `raced` holds the kind.
- `AccountsInv`, `SessionsInv`, `ItemsInv`: what such an operation has read ("there is
  no row", "this row") is then still so when it writes.
- `GatheredInv`: one sync gathers each calendar of an account once, since an account
  that has been listed is not among those still to list.

Assumptions: `LockAssumption` (TTL and tries are positive), `StoreAssumption`
(the primary calendar is no mirror, the bounds are natural numbers),
`ShapesAssumption`, `SlotAssumption` (work ends at least an interval before midnight, and
intervals divide the day and the time before work: 9:00, 18:00 and half hours,
`slot_finder.py:14-17`; what is asked for are natural numbers), `LoopAssumption` (there are
finitely many events, and the limits are natural numbers), `ChatAssumption` (the bounds of
the dialogs are natural numbers), `AccountAssumption` (a mailbox holds
calendars and perhaps contacts, the bounds are natural numbers). TLC evaluates them in the runs.

Only model-checked: liveness (`WaiterLeaves`, `EventuallyMirrored`,
`DisappearanceFollowed`, `SearchEnds`, `RowsFollowMailbox` and the three of `PollLoop`),
which the prover cannot treat under fairness, and the four violations. Every invariant and
every action property that a passing run checks is also a theorem.

## 5. Plan

Done: the lock; one event with its mirrors, poll and reconciliation; the contract; the
loops over all events; the chat; the search for slots; a user's rows; the proofs above.
Left, in this order:

1. The steps towards liveness that are safety: a sync of the poll stores no key that is
   newer than what it has listed (`PollLoop`), a waiter's tries only go down (`RedisLock`).
2. A contract of a user's rows (one row per key, no row without its account) that
   `UserData` implements, as `MirroredEvent` is one of an event.
3. `PollLoop` with calendars that are switched off or deleted between two polls.

Not modelled: the recurrence mapper and service and the Graph and OAuth code (nothing
calls them), the settings dialog (`settings.py` switches one calendar by the PATCH that
`UserData` models), the views of today and the week, contact search and
`resolve_names` (they only read), keyboards, texts, the HTTP client, encryption of
passwords, logging, the migrations other than the keys they define.
