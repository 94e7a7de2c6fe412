----------------------------- MODULE MailboxSync -----------------------------
(***************************************************************************)
(* The copy of the calendars and contacts of the user's mailboxes in the   *)
(* database (api/services/calendar_sync.py, contact_sync.py), which the    *)
(* endpoints, add_account and the tasks of worker/tasks/sync_tasks.py      *)
(* call.  A call has one session and one commit for all accounts.          *)
(***************************************************************************)
EXTENDS AccountStore

SyncsCalendars(p) == proc[p].kind = "calendar"

select_accounts(p) ==
  /\ proc[p].pc = "select_accounts"
  /\ proc' = [proc EXCEPT ![p].todo = {a \in accounts : a.status = "active"},
                          ![p].pc = "list_mailbox"]
  /\ UNCHANGED <<tables, mailbox, bounds, raced>>

\* The next account; one that cannot be listed is passed over.
list_mailbox(p) ==
  /\ proc[p].pc = "list_mailbox"
  /\ proc[p].listing = {}
  /\ \E a \in proc[p].todo :
       \/ /\ proc' = [proc EXCEPT
                        ![p].todo = @ \ {a}, ![p].account = a.id,
                        ![p].listing = {i \in mailbox[a.email] :
                                          ~(SyncsCalendars(p) /\ i.name = Birthdays)}]
          /\ UNCHANGED failures
       \/ /\ CallFails
          /\ proc' = [proc EXCEPT ![p].todo = @ \ {a}]
  /\ UNCHANGED <<tables, mailbox, requests, renames, raced>>

RowsOf(kind, account, external) ==
  {i \in items : i.kind = kind /\ i.account = account /\ i.external = external}

\* Mutant: a row that is there is left as it is.
upsert_item_once(p) ==
  /\ proc[p].pc = "list_mailbox"
  /\ \E i \in proc[p].listing :
       LET rows == RowsOf(proc[p].kind, proc[p].account, i.external) IN
       proc' = [proc EXCEPT
                  ![p].listing = @ \ {i},
                  ![p].pending = IF rows # {} THEN @ ELSE
                    @ \cup {[id |-> 0, account |-> proc[p].account,
                             external |-> i.external, name |-> i.name]}]
  /\ UNCHANGED <<tables, mailbox, bounds, raced>>

\* One listed calendar or contact: its row is updated or a new one added.  Two rows
\* are an error (scalar_one_or_none) that ends the account, not the call.
upsert_item(p) ==
  /\ proc[p].pc = "list_mailbox"
  /\ \E i \in proc[p].listing :
       LET rows == RowsOf(proc[p].kind, proc[p].account, i.external) IN
       \/ /\ Cardinality(rows) > 1
          /\ proc' = [proc EXCEPT ![p].listing = {}]
       \/ /\ Cardinality(rows) <= 1
          /\ \E id \in (IF rows = {} THEN {0} ELSE {r.id : r \in rows}) :
               proc' = [proc EXCEPT
                          ![p].listing = @ \ {i},
                          ![p].pending = @ \cup {[id |-> id, account |-> proc[p].account,
                                                  external |-> i.external, name |-> i.name]}]
  /\ UNCHANGED <<tables, mailbox, bounds, raced>>

-----------------------------------------------------------------------------
(* The commit.                                                              *)

\* Mutant: nothing ties a row to its account.
CanCommitUntied(pending) == \A w \in pending : w.id = 0 \/ \E i \in items : i.id = w.id

\* An update whose row is gone and an insert whose account is gone are errors.
CanCommit(pending) ==
  \A w \in pending : IF w.id = 0 THEN \E a \in accounts : a.id = w.account
                                 ELSE \E i \in items : i.id = w.id

Inserts(pending) == {w \in pending : w.id = 0}

\* Mutant: the update writes the defaults of a new row, too.
UpdatedAnew(i, pending) ==
  IF \E w \in pending : w.id = i.id
    THEN [i EXCEPT !.name = (CHOOSE w \in pending : w.id = i.id).name, !.flags = NewFlags]
    ELSE i

\* The update writes the name only.
Updated(i, pending) ==
  IF \E w \in pending : w.id = i.id
    THEN [i EXCEPT !.name = (CHOOSE w \in pending : w.id = i.id).name]
    ELSE i

\* New rows get ids in any order.
Write(p) ==
  LET new == Inserts(proc[p].pending)
      n == Cardinality(new)
  IN /\ \E id \in [new -> next_id..(next_id + n - 1)] :
          /\ \A v, w \in new : v # w => id[v] # id[w]
          /\ items' = {Updated(i, proc[p].pending) : i \in items} \cup
                      {[id |-> id[w], kind |-> proc[p].kind, account |-> w.account,
                        external |-> w.external, name |-> w.name, flags |-> NewFlags]
                       : w \in new}
     /\ next_id' = next_id + n

AllListed(p) ==
  proc[p].pc = "list_mailbox" /\ proc[p].listing = {} /\ proc[p].todo = {}

commit_sync(p) ==
  /\ AllListed(p)
  /\ CanCommit(proc[p].pending)
  /\ Write(p)
  /\ Succeed(p)
  /\ UNCHANGED <<accounts, llm_sessions, mailbox, bounds, raced>>

\* With an error nothing of the call is written.  The task of one user is tried again;
\* add_account and the tasks of all users log it.
rollback_sync(p) ==
  /\ AllListed(p)
  /\ ~CanCommit(proc[p].pending)
  /\ \/ /\ proc[p].op = "sync_task" /\ proc[p].retries < max_retries
        /\ proc' = [proc EXCEPT ![p] = [Idle EXCEPT !.op = "sync_task", !.kind = proc[p].kind,
                                                    !.pc = "select_accounts",
                                                    !.retries = proc[p].retries + 1]]
     \/ /\ proc[p].op # "sync_task" \/ proc[p].retries = max_retries
        /\ proc' = [proc EXCEPT ![p] = Idle]
  /\ UNCHANGED <<tables, mailbox, bounds, raced>>
=============================================================================
