---------------------------- MODULE AccountStore ----------------------------
(***************************************************************************)
(* What the database keeps of one user - the user, the Exchange accounts,  *)
(* the calendars and contacts of their mailboxes, the sessions with the    *)
(* language model (src/api/models) - and the requests and tasks that work  *)
(* on it, each in a transaction of its own.                                *)
(*                                                                         *)
(* PostgreSQL shows a transaction what others have committed, and its own  *)
(* writes to nobody before its commit.  Only users.telegram_user_id is     *)
(* unique; foreign keys delete what belongs to a deleted account.          *)
(***************************************************************************)
EXTENDS Naturals, FiniteSets

CONSTANTS Procs,        \* requests and tasks that may run at the same time
          Emails,       \* mailboxes that the user may add
          Externals,    \* Exchange ids of calendars or contacts in a mailbox
          Kinds,        \* of what a mailbox holds: "calendar", also "contact"
          Operations,   \* bound: the operations the user asks for
          MaxRequests,  \* bound: how many
          MaxFailures,  \* bound: calls of Exchange or of the model that fail
          MaxRenames    \* bound: changes of a name in a mailbox

ASSUME AccountAssumption ==
  /\ Kinds \subseteq {"calendar", "contact"} /\ "calendar" \in Kinds
  /\ MaxRequests \in Nat /\ MaxFailures \in Nat /\ MaxRenames \in Nat

VARIABLES
  registered,   \* whether the row of the user is committed
  accounts,     \* exchange_accounts: [id, email, status]
  items,        \* calendars and contacts: [id, kind, account, external, name, flags]
  llm_sessions, \* [id, live, turns]
  next_id,      \* the next id of a row
  mailbox,      \* Exchange: the name of every calendar and contact
  proc,         \* per process: the operation, where it is and what it holds
  requests, failures, renames,   \* what the bounds count
  raced         \* history: the operations of which two ran at the same time

tables == <<registered, accounts, items, llm_sessions, next_id>>
bounds == <<requests, failures, renames>>
vars == <<tables, mailbox, proc, bounds, raced>>

Flags == {"is_active", "is_mirror_enabled"}
NewFlags == [f \in Flags |-> TRUE]
MAX_CONTEXT_TURNS == 4
max_retries == 3

\* The name of a calendar that both readers of the list leave out.
Birthdays == 0

Idle == [op |-> "none", kind |-> "calendar", pc |-> "idle", new_user |-> FALSE,
         email |-> "", found |-> 0, patch |-> {}, todo |-> {}, account |-> 0,
         listing |-> {}, pending |-> {}, retries |-> 0, extended |-> FALSE]

-----------------------------------------------------------------------------
(* Requests.                                                                *)

\* What an operation may insert.
Classes(op, kind) ==
  CASE op = "add_account" -> {op, "calendar"}
    [] op \in {"sync", "sync_task", "sync_all"} -> {kind}
    [] op = "parse" -> {op}
    [] OTHER -> {}
Running == UNION {Classes(proc[p].op, proc[p].kind) : p \in Procs}

Goto(p, pc) == proc' = [proc EXCEPT ![p].pc = pc]

\* The end of a request whose transaction is committed: a user that it inserted is there.
Succeed(p) ==
  /\ proc' = [proc EXCEPT ![p] = Idle]
  /\ registered' = (registered \/ proc[p].new_user)

\* The end of a request with an exception: the session rolls back (session.py:22-24).
Fail(p) ==
  /\ proc' = [proc EXCEPT ![p] = Idle]
  /\ UNCHANGED registered

\* A call of Exchange or of the model fails.
CallFails ==
  /\ failures < MaxFailures
  /\ failures' = failures + 1

-----------------------------------------------------------------------------
(* Every endpoint begins with get_or_create_user.                           *)

\* Where an operation goes on when its user is known.
Continue(op) ==
  CASE op = "add_account" -> "check_credentials"
    [] op = "verify" -> "select_account"
    [] op = "delete" -> "select_account"
    [] op = "patch" -> "select_calendar"
    [] op = "sync" -> "select_accounts"
    [] op = "parse" -> "select_session"
    [] op = "list" -> "respond"

select_user(p) ==
  /\ proc[p].pc = "select_user"
  /\ Goto(p, IF registered THEN Continue(proc[p].op) ELSE "insert_user")
  /\ UNCHANGED <<tables, mailbox, bounds, raced>>

\* The insert waits for another that is not committed; after its commit the unique
\* telegram_user_id is an error.
insert_user(p) ==
  /\ proc[p].pc = "insert_user"
  /\ \A q \in Procs : ~proc[q].new_user
  /\ IF registered
       THEN proc' = [proc EXCEPT ![p] = Idle]
       ELSE proc' = [proc EXCEPT ![p].new_user = TRUE, ![p].pc = Continue(proc[p].op)]
  /\ UNCHANGED <<tables, mailbox, bounds, raced>>

\* Endpoints that only read.
respond(p) ==
  /\ proc[p].pc = "respond"
  /\ Succeed(p)
  /\ UNCHANGED <<accounts, items, llm_sessions, next_id, mailbox, bounds, raced>>
=============================================================================
