--------------------------- MODULE AccountRequests ---------------------------
(***************************************************************************)
(* The endpoints of the accounts and of a calendar's settings              *)
(* (api/routers/accounts.py, api/routers/calendars.py).                    *)
(***************************************************************************)
EXTENDS AccountStore

-----------------------------------------------------------------------------
(* add_account.                                                             *)

check_credentials(p) ==
  /\ proc[p].pc = "check_credentials"
  /\ \/ \E e \in Emails :
          proc' = [proc EXCEPT ![p].email = e, ![p].pc = "select_email"]
        /\ UNCHANGED <<registered, failures>>
     \/ CallFails /\ Fail(p)
  /\ UNCHANGED <<accounts, items, llm_sessions, next_id, mailbox, requests, renames, raced>>

\* scalar_one_or_none raises when there are two rows.
select_email(p) ==
  /\ proc[p].pc = "select_email"
  /\ LET rows == {a.id : a \in {b \in accounts : b.email = proc[p].email}} IN
       \/ Cardinality(rows) > 1 /\ Fail(p)
       \/ /\ Cardinality(rows) <= 1
          /\ \E id \in (IF rows = {} THEN {0} ELSE rows) :
               proc' = [proc EXCEPT ![p].found = id, ![p].pc = "write_account"]
          /\ UNCHANGED registered
  /\ UNCHANGED <<accounts, items, llm_sessions, next_id, mailbox, bounds, raced>>

\* The row is updated, when it is still there, or inserted; after the commit the
\* calendars are synchronised.
write_account(p) ==
  /\ proc[p].pc = "write_account"
  /\ LET id == proc[p].found
         gone == id # 0 /\ \A a \in accounts : a.id # id
     IN \/ gone /\ Fail(p) /\ UNCHANGED <<accounts, next_id>>
        \/ /\ ~gone
           /\ accounts' = {a \in accounts : a.id # id} \cup
                          {[id |-> IF id = 0 THEN next_id ELSE id,
                            email |-> proc[p].email, status |-> "active"]}
           /\ next_id' = IF id = 0 THEN next_id + 1 ELSE next_id
           /\ registered' = (registered \/ proc[p].new_user)
           /\ proc' = [proc EXCEPT ![p].new_user = FALSE, ![p].found = 0, ![p].email = "",
                                   ![p].pc = "select_accounts"]
  /\ UNCHANGED <<items, llm_sessions, mailbox, bounds, raced>>

-----------------------------------------------------------------------------
(* verify_account and delete_account: of an account that the user has seen. *)

select_account(p) ==
  /\ proc[p].pc = "select_account"
  /\ \/ \E a \in accounts :
          proc' = [proc EXCEPT ![p].found = a.id, ![p].pc = proc[p].op]
        /\ UNCHANGED registered
     \/ Fail(p)   \* 404
  /\ UNCHANGED <<accounts, items, llm_sessions, next_id, mailbox, bounds, raced>>

SetStatus(id, status) ==
  accounts' = {IF a.id = id THEN [a EXCEPT !.status = status] ELSE a : a \in accounts}

\* A failure sets the status to error and raises, so the session rolls it back.
verify(p) ==
  /\ proc[p].pc = "verify"
  /\ \/ SetStatus(proc[p].found, "active") /\ Succeed(p) /\ UNCHANGED failures
     \/ CallFails /\ Fail(p) /\ UNCHANGED accounts
  /\ UNCHANGED <<items, llm_sessions, next_id, mailbox, requests, renames, raced>>

\* The rows that point to the account go with it.
delete(p) ==
  /\ proc[p].pc = "delete"
  /\ accounts' = {a \in accounts : a.id # proc[p].found}
  /\ items' = {i \in items : i.account # proc[p].found}
  /\ Succeed(p)
  /\ UNCHANGED <<llm_sessions, next_id, mailbox, bounds, raced>>

-----------------------------------------------------------------------------
(* patch_calendar: SQLAlchemy writes the columns that differ from the row it read. *)

select_calendar(p) ==
  /\ proc[p].pc = "select_calendar"
  /\ \/ \E i \in {j \in items : j.kind = "calendar"}, changed \in SUBSET Flags :
          proc' = [proc EXCEPT ![p].found = i.id, ![p].pc = "patch",
                               ![p].patch = {<<f, ~i.flags[f]>> : f \in changed}]
        /\ UNCHANGED registered
     \/ Fail(p)   \* 404
  /\ UNCHANGED <<accounts, items, llm_sessions, next_id, mailbox, bounds, raced>>

Patched(flags, patch) == [f \in Flags |-> IF <<f, TRUE>> \in patch THEN TRUE
                                          ELSE flags[f] /\ <<f, FALSE>> \notin patch]

\* The commit; a row that is gone is an error.
patch_calendar(p) ==
  /\ proc[p].pc = "patch"
  /\ LET id == proc[p].found IN
       \/ /\ \E i \in items : i.id = id
          /\ items' = {IF i.id = id THEN [i EXCEPT !.flags = Patched(@, proc[p].patch)] ELSE i
                       : i \in items}
          /\ Succeed(p)
       \/ /\ \A i \in items : i.id # id
          /\ Fail(p) /\ UNCHANGED items
  /\ UNCHANGED <<accounts, llm_sessions, next_id, mailbox, bounds, raced>>
=============================================================================
