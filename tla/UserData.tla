------------------------------ MODULE UserData ------------------------------
(***************************************************************************)
(* All requests and tasks that read a row and then insert it, update it or *)
(* delete it, for one user: the endpoints of the accounts, the copy of the *)
(* mailboxes and the sessions of the language model, run at the same time  *)
(* by the API and the worker.                                              *)
(***************************************************************************)
EXTENDS AccountRequests, MailboxSync, TextParser

\* An operation begins.  It is a race when another that may insert the same is running.
Enter(p, op, kind, pc) ==
  /\ proc[p].pc = "idle"
  /\ proc' = [proc EXCEPT ![p] = [Idle EXCEPT !.op = op, !.kind = kind, !.pc = pc]]
  /\ raced' = raced \cup (Classes(op, kind) \cap Running)
  /\ UNCHANGED <<tables, mailbox, failures, renames>>

\* A request of the user, or the task for one user.
Request(p) ==
  /\ requests < MaxRequests
  /\ requests' = requests + 1
  /\ \E op \in Operations :
       \/ op \in {"add_account", "verify", "delete", "patch", "parse", "list"}
          /\ Enter(p, op, "calendar", "select_user")
       \/ op = "sync" /\ \E k \in Kinds : Enter(p, op, k, "select_user")
       \/ op = "sync_task" /\ registered /\ \E k \in Kinds : Enter(p, op, k, "select_accounts")

\* The tasks that beat starts twice a day, for calendars and for contacts, for every
\* user there is.
sync_all(p, kind) ==
  /\ registered
  /\ Enter(p, "sync_all", kind, "select_accounts")
  /\ UNCHANGED requests

Endpoint(p) ==
  \/ check_credentials(p) \/ select_email(p) \/ write_account(p)
  \/ select_account(p) \/ verify(p) \/ delete(p)
  \/ select_calendar(p) \/ patch_calendar(p)
Sync(p) ==
  select_accounts(p) \/ list_mailbox(p) \/ upsert_item(p) \/ commit_sync(p) \/ rollback_sync(p)
Parse(p) ==
  select_session(p) \/ insert_session(p) \/ ask_model(p) \/ save_turn(p)
User(p) == select_user(p) \/ insert_user(p) \/ respond(p)

Step(p) == User(p) \/ Endpoint(p) \/ Sync(p) \/ Parse(p)

\* Somebody renames a calendar or contact in Exchange.
Rename ==
  /\ renames < MaxRenames
  /\ renames' = renames + 1
  /\ \E e \in Emails : \E i \in mailbox[e] :
       mailbox' = [mailbox EXCEPT ![e] = (@ \ {i}) \cup {[i EXCEPT !.name = renames + 2]}]
  /\ UNCHANGED <<tables, proc, requests, failures, raced>>

Spent(r, f, n) == requests = r /\ failures = f /\ renames = n
Account(id, e) == [id |-> id, email |-> e, status |-> "active"]

\* A new user, one without an account, one who has added an account, or one whose
\* two requests have raced and left two accounts or two sessions.
Init ==
  /\ \/ registered \in BOOLEAN /\ accounts = {} /\ llm_sessions = {}
        /\ next_id = 1 /\ raced = {} /\ Spent(0, 0, 0)
     \/ /\ registered = TRUE /\ \E e \in Emails : accounts = {Account(1, e)}
        /\ llm_sessions = {} /\ next_id = 2 /\ raced = {} /\ Spent(0, 0, 0)
     \/ /\ registered = TRUE /\ \E e \in Emails : accounts = {Account(1, e), Account(2, e)}
        /\ llm_sessions = {} /\ next_id = 3 /\ raced = {"add_account"}
        /\ Spent(1, MaxFailures, MaxRenames)
     \/ /\ registered = TRUE /\ accounts = {}
        /\ llm_sessions = {[id |-> i, live |-> TRUE, turns |-> 0] : i \in {1, 2}}
        /\ next_id = 3 /\ raced = {"parse"} /\ Spent(1, 0, 0)
  /\ items = {}
  /\ \E names \in [Externals -> {Birthdays, 1}] :
       mailbox = [e \in Emails |-> {[external |-> x, name |-> names[x]] : x \in Externals}]
  /\ proc = [p \in Procs |-> Idle]

Next ==
  \/ \E p \in Procs : Request(p) \/ Step(p)
  \/ \E p \in Procs, k \in Kinds : sync_all(p, k)
  \/ \E s \in llm_sessions : expire(s)
  \/ Rename

Fairness ==
  /\ \A p \in Procs : WF_vars(Step(p))
  /\ \A k \in Kinds : SF_vars(\E p \in Procs : sync_all(p, k))

Spec == Init /\ [][Next]_vars /\ Fairness

-----------------------------------------------------------------------------
(* Properties.                                                              *)

\* The variables have their types, and ids are not used twice.
TypeOK ==
  /\ registered \in BOOLEAN
  /\ \A a \in accounts : a.id \in 1..(next_id - 1) /\ a.email \in Emails
  /\ \A i \in items : /\ i.id \in 1..(next_id - 1) /\ i.kind \in Kinds
                      /\ i.external \in Externals /\ i.flags \in [Flags -> BOOLEAN]
  /\ \A i, j \in items : i.id = j.id => i = j
  /\ \A a, b \in accounts : a.id = b.id => a = b
  /\ \A s \in llm_sessions : s.live \in BOOLEAN /\ s.turns \in 0..(MAX_CONTEXT_TURNS * 2)
  /\ registered \/ (accounts = {} /\ llm_sessions = {})

\* Two rows with one key - an e-mail, a calendar or contact of an account, a live
\* session - come only from operations of one kind that ran at the same time: no
\* sequence of requests, renames, failures, deletions and retries makes them
\* (accounts.py:63-92, calendar_sync.py:38-57, contact_sync.py:54-82, parser.py:36-54).
SameKey(i, j) == i.kind = j.kind /\ i.account = j.account /\ i.external = j.external
OneRowUnlessRace ==
  /\ "add_account" \in raced \/ \A a, b \in accounts : a.email = b.email => a = b
  /\ \A i, j \in items : SameKey(i, j) => i = j \/ i.kind \in raced
  /\ "parse" \in raced \/ \A s, t \in llm_sessions : s.live /\ t.live => s = t

\* A deleted account leaves nothing behind and gets nothing any more, also from a sync
\* that listed it before (accounts.py:167, calendar_sync.py:73, contact_sync.py:98).
RowsHaveAnAccount == \A i \in items : \E a \in accounts : a.id = i.account

\* Whether a calendar takes part is the user's choice: only a PATCH changes it, and a
\* sync that read the row before the choice does not take it back
\* (calendar_sync.py:46-48, calendars.py:53-57).
OnlyPatchChooses ==
  [][\A i \in items, j \in items' :
       i.id = j.id /\ i.flags # j.flags =>
         \E p \in Procs : proc[p].pc = "patch" /\ proc[p].found = i.id /\ proc'[p] = Idle]_vars

\* In the end every account that stays has a row with the current name for each of its
\* calendars and contacts, whatever failed, raced or was renamed before; unless the
\* account has two rows with one key, which ends its syncs for ever
\* (calendar_sync.py:44, 66).
Spoilt(a, k) == \E i, j \in items : i # j /\ SameKey(i, j) /\ i.account = a.id /\ i.kind = k
Followed(a, k) ==
  \A m \in mailbox[a.email] :
    \/ k = "calendar" /\ m.name = Birthdays
    \/ \E i \in RowsOf(k, a.id, m.external) : i.name = m.name
RowsFollowMailbox ==
  <>[](\A a \in accounts, k \in Kinds : Spoilt(a, k) \/ Followed(a, k))
=============================================================================
