---------------------------- MODULE UpsertProofs ----------------------------
(***************************************************************************)
(* Only a PATCH changes a setting of a calendar, and two rows with one key *)
(* come only from operations that ran at the same time.                    *)
(***************************************************************************)
EXTENDS UserDataProofs

-----------------------------------------------------------------------------
(* Settings.                                                                *)

\* What a PATCH alone may do.
Chosen ==
  \A i \in items, j \in items' :
    i.id = j.id /\ i.flags # j.flags =>
      \E p \in Procs : proc[p].pc = "patch" /\ proc[p].found = i.id /\ proc'[p] = Idle

LEMMA FewerChosen ==
  ASSUME RowsInv, items' \subseteq items
  PROVE  Chosen
BY DEF Chosen, RowsInv, IdsUnique

LEMMA PatchChosen ==
  ASSUME RowsInv, NEW p \in Procs, patch_calendar(p)
  PROVE  Chosen
<1> DEFINE id == proc[p].found
           set(i) == IF i.id = id THEN [i EXCEPT !.flags = Patched(@, proc[p].patch)] ELSE i
<1>1. CASE items' = {set(i) : i \in items} /\ Succeed(p)
  <2>1. \A i \in items : set(i).id = i.id /\ (i.id # id => set(i) = i)
    BY DEF RowsInv, TablesTyped, ItemRow
  <2>2. proc[p].pc = "patch" /\ proc'[p] = Idle
    BY <1>1 DEF patch_calendar, Succeed, RowsInv, ProcTyped
  <2>3. \A j \in items' : \E i \in items : j = set(i)
    BY <1>1
  <2> HIDE DEF set
  <2> QED
    BY <2>1, <2>2, <2>3 DEF Chosen, RowsInv, IdsUnique
<1>2. CASE UNCHANGED items
  BY <1>2, FewerChosen
<1> QED
  BY <1>1, <1>2 DEF patch_calendar

LEMMA CommitChosen ==
  ASSUME RowsInv, NEW p \in Procs, commit_sync(p)
  PROVE  Chosen
<1> DEFINE new == Inserts(proc[p].pending)
           n == Cardinality(new)
           set(i) == Updated(i, proc[p].pending)
<1>1. PICK id \in [new -> next_id..(next_id + n - 1)] :
        items' = {set(i) : i \in items} \cup
                     {[id |-> id[w], kind |-> proc[p].kind, account |-> w.account,
                       external |-> w.external, name |-> w.name, flags |-> NewFlags] : w \in new}
  BY DEF commit_sync, Write
<1>2. \A i \in items : set(i).id = i.id /\ set(i).flags = i.flags
  BY UpdatedRow
<1>3. \A i \in items : i.id \in Ids /\ i.id < next_id /\ next_id \in Ids
  BY DEF RowsInv, IdsBelow, TablesTyped, ItemRow
<1>4. \A w \in new : id[w] \in Ids /\ next_id <= id[w]
  BY <1>1, NewIds
<1>5. \A j \in items' : (\E i \in items : j = set(i)) \/ (\E w \in new : j.id = id[w])
  BY <1>1
<1> HIDE DEF set, new, n
<1>6. \A i \in items, w \in new : i.id # id[w]
  BY <1>3, <1>4 DEF Ids
<1> QED
  BY <1>2, <1>5, <1>6 DEF Chosen, RowsInv, IdsUnique

LEMMA NextChosen ==
  ASSUME RowsInv, Next
  PROVE  Chosen
<1>1. ASSUME NEW p \in Procs, Request(p) \/ User(p) PROVE Chosen
  BY <1>1, FewerChosen
  DEF Request, Enter, User, select_user, insert_user, respond, tables
<1>2. ASSUME NEW p \in Procs, Endpoint(p) PROVE Chosen
  <2>1. CASE patch_calendar(p)
    BY <2>1, PatchChosen
  <2>2. CASE delete(p)
    BY <2>2, FewerChosen DEF delete
  <2>3. CASE \/ check_credentials(p) \/ select_email(p) \/ write_account(p)
             \/ select_account(p) \/ verify(p) \/ select_calendar(p)
    BY <2>3, FewerChosen
    DEF check_credentials, select_email, write_account, select_account, verify, select_calendar
  <2> QED
    BY <1>2, <2>1, <2>2, <2>3 DEF Endpoint
<1>3. ASSUME NEW p \in Procs, Sync(p) PROVE Chosen
  <2>1. CASE commit_sync(p)
    BY <2>1, CommitChosen
  <2>2. CASE select_accounts(p) \/ list_mailbox(p) \/ upsert_item(p) \/ rollback_sync(p)
    BY <2>2, FewerChosen DEF select_accounts, list_mailbox, upsert_item, rollback_sync, tables
  <2> QED
    BY <1>3, <2>1, <2>2 DEF Sync
<1>4. ASSUME NEW p \in Procs, Parse(p) PROVE Chosen
  BY <1>4, FewerChosen DEF Parse, select_session, insert_session, ask_model, save_turn
<1>5. ASSUME NEW p \in Procs, NEW k \in Kinds, sync_all(p, k) PROVE Chosen
  BY <1>5, FewerChosen DEF sync_all, Enter, tables
<1>6. ASSUME NEW s \in llm_sessions, expire(s) PROVE Chosen
  BY <1>6, FewerChosen DEF expire
<1>7. CASE Rename
  BY <1>7, FewerChosen DEF Rename, tables
<1> QED
  BY <1>1, <1>2, <1>3, <1>4, <1>5, <1>6, <1>7 DEF Next, Step

\* Only a PATCH changes whether a calendar takes part, whatever syncs have read the row
\* before it (calendar_sync.py:46-48, calendars.py:53-57).
THEOREM ChoiceHolds == Spec => OnlyPatchChooses
<1>1. RowsInv /\ [Next]_vars =>
        [\A i \in items, j \in items' :
           i.id = j.id /\ i.flags # j.flags =>
             \E p \in Procs : proc[p].pc = "patch" /\ proc[p].found = i.id /\ proc'[p] = Idle]_vars
  BY NextChosen DEF Chosen
<1> QED
  BY <1>1, RowsInvHolds, PTL DEF Spec, OnlyPatchChooses

-----------------------------------------------------------------------------
(* Keys.                                                                    *)

\* A mailbox lists each calendar once.
MailboxUnique ==
  \A e \in Emails : \A l, m \in mailbox[e] : l.external = m.external => l = m

\* What a sync has gathered: nothing of what it has still to list, each key once.
Gathered(t) ==
  /\ t.pc # "list_mailbox" => t.pending = {} /\ t.listing = {}
  /\ \A v, w \in t.pending : v.account = w.account /\ v.external = w.external => v = w
  /\ \A w \in t.pending, l \in t.listing :
        w.account = t.account => w.external # l.external
  /\ \A l, m \in t.listing : l.external = m.external => l = m
  /\ \A a, b \in t.todo : a.id = b.id => a = b
  /\ \A w \in t.pending, a \in t.todo : w.account # a.id
  /\ t.listing # {} => \A a \in t.todo : a.id # t.account
  /\ t.op = "add_account" => t.kind = "calendar"
GatheredInv == MailboxUnique /\ \A p \in Procs : Gathered(proc[p])

\* Of operations that have not raced there is one at a time that may insert c.
Inserting(t, c) == c \in Classes(t.op, t.kind)
OneAtATime == \A c \in Kinds \cup {"add_account", "parse"} :
  c \in raced \/ \A p, q \in Procs : Inserting(proc[p], c) /\ Inserting(proc[q], c) => p = q

\* What was read about the accounts, the sessions and the items is still so.
ReadAccounts(t) ==
  t.pc = "write_account" => \A a \in accounts : a.email = t.email => a.id = t.found
AccountsInv ==
  "add_account" \in raced \/
    /\ \A a, b \in accounts : a.email = b.email => a = b
    /\ \A p \in Procs : ReadAccounts(proc[p])
ReadSessions(t) ==
  \A s \in llm_sessions : s.live =>
    /\ t.pc # "insert_session"
    /\ t.pc \in {"ask_model", "save_user", "save_assistant"} => s.id = t.found
SessionsInv ==
  "parse" \in raced \/
    /\ \A s, t \in llm_sessions : s.live /\ t.live => s = t
    /\ \A p \in Procs : ReadSessions(proc[p])
ReadItems(t) ==
  t.kind \in raced \/
    \A w \in t.pending, i \in items :
      w.id = 0 /\ i.kind = t.kind /\ i.account = w.account => i.external # w.external
ItemsInv ==
  /\ \A i, j \in items : SameKey(i, j) => i = j \/ i.kind \in raced
  /\ \A p \in Procs : ReadItems(proc[p])

KeysInv == GatheredInv /\ OneAtATime /\ AccountsInv /\ SessionsInv /\ ItemsInv

LEMMA KeysAreUnique == KeysInv => OneRowUnlessRace
BY DEF KeysInv, OneRowUnlessRace, AccountsInv, SessionsInv, ItemsInv

\* A process that goes on as t: with what it has been doing, or with nothing.
Keeps(p, t) ==
  /\ proc' = [proc EXCEPT ![p] = t]
  /\ (t.op = proc[p].op /\ t.kind = proc[p].kind) \/ t.op = "none"
  /\ Gathered(t)
  /\ UNCHANGED <<raced, mailbox>>

LEMMA KeepsInv ==
  ASSUME RowsInv, KeysInv, NEW p \in Procs, NEW t, Keeps(p, t)
  PROVE  GatheredInv' /\ OneAtATime'
<1>1. proc \in [Procs -> Process]
  BY DEF RowsInv, ProcTyped
<1>2. \A q \in Procs : proc'[q] = IF q = p THEN t ELSE proc[q]
  BY <1>1 DEF Keeps
<1>3. GatheredInv'
  BY <1>2 DEF Keeps, KeysInv, GatheredInv, MailboxUnique, Gathered
<1>4. \A c : Inserting(t, c) => Inserting(proc[p], c)
  BY DEF Keeps, Inserting, Classes
<1>5. \A q \in Procs, c \in Kinds \cup {"add_account", "parse"} :
        Inserting(proc'[q], c) => Inserting(proc[q], c)
  BY <1>2, <1>4
<1>6. OneAtATime'
  BY <1>5 DEF Keeps, KeysInv, OneAtATime, Inserting
<1> QED
  BY <1>3, <1>6

\* A step that adds no row.
LEMMA NoRow ==
  ASSUME RowsInv, KeysInv, NEW p \in Procs, NEW t, Keeps(p, t),
         accounts' \subseteq accounts, items' \subseteq items, UNCHANGED llm_sessions,
         "add_account" \in raced \/ ReadAccounts(t),
         "parse" \in raced \/ ReadSessions(t),
         ReadItems(t)
  PROVE  KeysInv'
<1>1. proc \in [Procs -> Process]
  BY DEF RowsInv, ProcTyped
<1>2. \A q \in Procs : proc'[q] = IF q = p THEN t ELSE proc[q]
  BY <1>1 DEF Keeps
<1>3. raced' = raced
  BY DEF Keeps
<1>4. AccountsInv'
  BY <1>2, <1>3 DEF KeysInv, AccountsInv, ReadAccounts
<1>5. SessionsInv'
  BY <1>2, <1>3 DEF KeysInv, SessionsInv, ReadSessions
<1>6. ItemsInv'
  BY <1>2, <1>3 DEF KeysInv, ItemsInv, ReadItems, SameKey
<1> QED
  BY <1>4, <1>5, <1>6, KeepsInv DEF KeysInv

\* A process that ends.
LEMMA IdleKeeps ==
  ASSUME NEW p \in Procs, proc' = [proc EXCEPT ![p] = Idle], UNCHANGED <<raced, mailbox>>
  PROVE  Keeps(p, Idle) /\ ReadAccounts(Idle) /\ ReadSessions(Idle) /\ ReadItems(Idle)
BY DEF Keeps, Idle, Gathered, ReadAccounts, ReadSessions, ReadItems

LEMMA EndKeys ==
  ASSUME RowsInv, KeysInv, NEW p \in Procs, proc' = [proc EXCEPT ![p] = Idle],
         UNCHANGED <<raced, mailbox, llm_sessions>>,
         accounts' \subseteq accounts, items' \subseteq items
  PROVE  KeysInv'
BY IdleKeeps, NoRow

\* A process that goes to another place with what it has gathered, which is nothing.
OutsideSync(t) == t.pc # "list_mailbox"
Same(p, t) ==
  /\ t.op = proc[p].op /\ t.kind = proc[p].kind /\ t.todo = proc[p].todo
  /\ t.listing = proc[p].listing /\ t.pending = proc[p].pending /\ t.account = proc[p].account

LEMMA SameKeeps ==
  ASSUME KeysInv, NEW p \in Procs, NEW t, Same(p, t), OutsideSync(proc[p]), OutsideSync(t),
         proc' = [proc EXCEPT ![p] = t], UNCHANGED <<raced, mailbox>>
  PROVE  Keeps(p, t) /\ ReadItems(t)
BY DEF KeysInv, GatheredInv, Keeps, Gathered, Same, OutsideSync, ReadItems

Checked == {"write_account", "insert_session", "ask_model", "save_user", "save_assistant"}

LEMMA GoKeys ==
  ASSUME RowsInv, KeysInv, NEW p \in Procs, NEW t, Same(p, t), OutsideSync(proc[p]),
         OutsideSync(t), t.pc \notin Checked, proc' = [proc EXCEPT ![p] = t],
         UNCHANGED <<raced, mailbox, accounts, items, llm_sessions>>
  PROVE  KeysInv'
<1>1. ReadAccounts(t) /\ ReadSessions(t)
  BY DEF ReadAccounts, ReadSessions, Checked
<1> QED
  BY <1>1, SameKeeps, NoRow

-----------------------------------------------------------------------------
(* Every step keeps the keys.                                               *)

LEMMA UserKeys ==
  ASSUME RowsInv, KeysInv, NEW p \in Procs, User(p)
  PROVE  KeysInv'
<1>1. proc[p] \in Process /\ proc[p].op \in OpsAt(proc[p].pc)
  BY Known DEF Legal
<1>2. CASE select_user(p)
  <2> DEFINE place == IF registered THEN Continue(proc[p].op) ELSE "insert_user"
             t == [proc[p] EXCEPT !.pc = place]
  <2>1. proc[p].op \in Ops \ {"none", "sync_task", "sync_all"} /\ OutsideSync(proc[p])
    BY <1>1, <1>2 DEF select_user, OpsAt, OutsideSync
  <2>2. place # "list_mailbox" /\ place \notin Checked
    BY <2>1 DEF Continue, Ops, Checked
  <2> HIDE DEF place
  <2>3. Same(p, t) /\ t.pc = place
    BY <1>1 DEF Process, Same
  <2>4. proc' = [proc EXCEPT ![p] = t]
    BY <1>2 DEF select_user, Goto, place
  <2> HIDE DEF t
  <2> QED
    BY <1>2, <2>1, <2>2, <2>3, <2>4, GoKeys DEF select_user, tables, OutsideSync
<1>3. CASE insert_user(p)
  <2>1. CASE registered
    BY <1>3, <2>1, EndKeys DEF insert_user, tables
  <2>2. CASE ~registered
    <3> DEFINE place == Continue(proc[p].op)
               t == [proc[p] EXCEPT !.new_user = TRUE, !.pc = place]
    <3>1. proc[p].op \in Ops \ {"none", "sync_task", "sync_all"} /\ OutsideSync(proc[p])
      BY <1>1, <1>3 DEF insert_user, OpsAt, OutsideSync
    <3>2. place # "list_mailbox" /\ place \notin Checked
      BY <3>1 DEF Continue, Ops, Checked
    <3> HIDE DEF place
    <3>3. Same(p, t) /\ t.pc = place
      BY <1>1 DEF Process, Same
    <3>4. proc' = [proc EXCEPT ![p] = t]
      BY <1>3, <2>2 DEF insert_user, place
    <3> HIDE DEF t
    <3> QED
      BY <1>3, <3>1, <3>2, <3>3, <3>4, GoKeys DEF insert_user, tables, OutsideSync
  <2> QED
    BY <2>1, <2>2
<1>4. CASE respond(p)
  BY <1>4, EndKeys DEF respond, Succeed
<1> QED
  BY <1>2, <1>3, <1>4 DEF User

LEMMA EnterKeys ==
  ASSUME RowsInv, KeysInv, NEW p \in Procs, NEW op \in Ops, NEW kind \in Kinds, NEW place,
         Enter(p, op, kind, place), place \in {"select_user", "select_accounts"},
         op = "add_account" => kind = "calendar"
  PROVE  KeysInv'
<1> DEFINE t == [Idle EXCEPT !.op = op, !.kind = kind, !.pc = place]
<1>1. /\ t.op = op /\ t.kind = kind /\ t.pc = place /\ t.pending = {} /\ t.listing = {}
      /\ t.todo = {}
  BY DEF Idle
<1>2. proc \in [Procs -> Process] /\ proc' = [proc EXCEPT ![p] = t]
  BY DEF RowsInv, ProcTyped, Enter
<1>3. /\ raced' = raced \cup (Classes(op, kind) \cap Running)
      /\ UNCHANGED <<mailbox, accounts, items, llm_sessions>>
  BY DEF Enter, tables
<1> HIDE DEF t
<1>4. \A q \in Procs : proc'[q] = IF q = p THEN t ELSE proc[q]
  BY <1>2
<1>5. GatheredInv'
  BY <1>1, <1>3, <1>4 DEF KeysInv, GatheredInv, MailboxUnique, Gathered
<1>6. OneAtATime'
  <2>1. \A q \in Procs : \A c : Inserting(proc[q], c) => c \in Running
    BY DEF Inserting, Running
  <2>2. \A c : Inserting(t, c) => c \in Classes(op, kind)
    BY <1>1 DEF Inserting
  <2> QED
    BY <1>3, <1>4, <2>1, <2>2 DEF KeysInv, OneAtATime, Inserting
<1>7. AccountsInv'
  BY <1>1, <1>3, <1>4 DEF KeysInv, AccountsInv, ReadAccounts
<1>8. SessionsInv'
  BY <1>1, <1>3, <1>4 DEF KeysInv, SessionsInv, ReadSessions
<1>9. ItemsInv'
  BY <1>1, <1>3, <1>4 DEF KeysInv, ItemsInv, ReadItems, SameKey
<1> QED
  BY <1>5, <1>6, <1>7, <1>8, <1>9 DEF KeysInv

LEMMA RequestKeys ==
  ASSUME RowsInv, KeysInv, NEW p \in Procs, Request(p)
  PROVE  KeysInv'
<1>1. PICK op \in Operations :
        \/ /\ op \in {"add_account", "verify", "delete", "patch", "parse", "list"}
           /\ Enter(p, op, "calendar", "select_user")
        \/ op = "sync" /\ \E k \in Kinds : Enter(p, op, k, "select_user")
        \/ op = "sync_task" /\ registered /\ \E k \in Kinds : Enter(p, op, k, "select_accounts")
  BY DEF Request
<1>2. op \in Ops
  BY <1>1 DEF Ops
<1> QED
  BY <1>1, <1>2, EnterKeys, Constants

LEMMA SyncAllKeys ==
  ASSUME RowsInv, KeysInv, NEW p \in Procs, NEW kind \in Kinds, sync_all(p, kind)
  PROVE  KeysInv'
<1>1. "sync_all" \in Ops
  BY DEF Ops
<1> QED
  BY <1>1, EnterKeys DEF sync_all

\* Alone where accounts or sessions are inserted, unless it has raced.
LEMMA Alone ==
  ASSUME RowsInv, KeysInv, NEW p \in Procs, NEW q \in Procs
  PROVE  /\ proc[p].pc = "write_account" /\ proc[q].pc = "write_account" =>
              "add_account" \in raced \/ p = q
         /\ proc[p].op = "parse" /\ proc[q].op = "parse" => "parse" \in raced \/ p = q
<1>1. \A r \in Procs : proc[r].op = "add_account" => Inserting(proc[r], "add_account")
  BY DEF Inserting, Classes
<1>2. \A r \in Procs : proc[r].op = "parse" => Inserting(proc[r], "parse")
  BY DEF Inserting, Classes
<1>3. \A r \in Procs : proc[r].pc = "write_account" => proc[r].op = "add_account"
  BY Known DEF Legal, OpsAt
<1> QED
  BY <1>1, <1>2, <1>3 DEF KeysInv, OneAtATime

LEMMA SelectEmailKeys ==
  ASSUME RowsInv, KeysInv, NEW p \in Procs, select_email(p)
  PROVE  KeysInv'
<1> DEFINE rows == {a.id : a \in {b \in accounts : b.email = proc[p].email}}
<1>1. CASE Fail(p)
  BY <1>1, EndKeys DEF select_email, Fail
<1>2. ASSUME NEW id \in (IF rows = {} THEN {0} ELSE rows),
             proc' = [proc EXCEPT ![p].found = id, ![p].pc = "write_account"]
      PROVE  KeysInv'
  <2> DEFINE t == [proc[p] EXCEPT !.found = id, !.pc = "write_account"]
  <2>1. proc[p] \in Process /\ OutsideSync(proc[p])
    BY Known DEF select_email, OutsideSync
  <2>2. /\ Same(p, t) /\ OutsideSync(t) /\ t.pc = "write_account"
        /\ t.email = proc[p].email /\ t.found = id
    BY <2>1 DEF Process, Same, OutsideSync
  <2>3. proc' = [proc EXCEPT ![p] = t]
    BY <1>2
  <2> HIDE DEF t
  <2>4. "add_account" \in raced \/ ReadAccounts(t)
    BY <1>2, <2>2 DEF KeysInv, AccountsInv, ReadAccounts
  <2>5. ReadSessions(t)
    BY <2>2 DEF ReadSessions
  <2> QED
    BY <2>1, <2>2, <2>3, <2>4, <2>5, SameKeeps, NoRow DEF select_email
<1> QED
  BY <1>1, <1>2 DEF select_email

LEMMA WriteAccountKeys ==
  ASSUME RowsInv, KeysInv, NEW p \in Procs, write_account(p)
  PROVE  KeysInv'
<1> DEFINE id == proc[p].found
           gone == id # 0 /\ \A a \in accounts : a.id # id
           row == [id |-> IF id = 0 THEN next_id ELSE id,
                   email |-> proc[p].email, status |-> "active"]
           t == [proc[p] EXCEPT !.new_user = FALSE, !.found = 0, !.email = "",
                                !.pc = "select_accounts"]
<1>1. CASE Fail(p) /\ UNCHANGED <<accounts, next_id>>
  BY <1>1, EndKeys DEF write_account, Fail
<1>2. CASE /\ accounts' = {a \in accounts : a.id # id} \cup {row}
           /\ proc' = [proc EXCEPT ![p].new_user = FALSE, ![p].found = 0, ![p].email = "",
                                   ![p].pc = "select_accounts"]
  <2>1. proc[p] \in Process /\ OutsideSync(proc[p]) /\ proc \in [Procs -> Process]
    BY Known DEF write_account, OutsideSync, RowsInv, ProcTyped
  <2>2. Same(p, t) /\ OutsideSync(t) /\ t.pc = "select_accounts"
    BY <2>1 DEF Process, Same, OutsideSync
  <2>3. proc' = [proc EXCEPT ![p] = t]
    BY <1>2
  <2>4. UNCHANGED <<raced, mailbox, items, llm_sessions>>
    BY DEF write_account
  <2>5. row.email = proc[p].email
    OBVIOUS
  <2>6. \A a \in accounts : a.id # 0
    BY DEF RowsInv, TablesTyped, AccountRow, Ids
  <2> HIDE DEF t, row
  <2>7. Keeps(p, t) /\ ReadItems(t)
    BY <2>1, <2>2, <2>3, <2>4, SameKeeps
  <2>8. \A q \in Procs : proc'[q] = IF q = p THEN t ELSE proc[q]
    BY <2>1, <2>3
  <2>9. AccountsInv'
    <3>1. SUFFICES ASSUME "add_account" \notin raced
          PROVE  /\ \A a, b \in accounts' : a.email = b.email => a = b
                 /\ (\A q \in Procs : ReadAccounts(proc[q]))'
      BY <2>4 DEF AccountsInv
    <3>2. \A a \in accounts : a.email = proc[p].email => a.id = id
      BY <3>1 DEF write_account, KeysInv, AccountsInv, ReadAccounts
    <3>3. \A a \in accounts' : a = row \/ (a \in accounts /\ a.email # row.email)
      BY <1>2, <2>5, <3>2
    <3>4. \A a, b \in accounts' : a.email = b.email => a = b
      BY <3>1, <3>3 DEF KeysInv, AccountsInv
    <3>5. \A q \in Procs : proc'[q].pc # "write_account"
      BY <2>2, <2>8, <3>1, Alone DEF write_account
    <3> QED
      BY <3>4, <3>5 DEF ReadAccounts
  <2>10. SessionsInv'
    BY <2>2, <2>4, <2>8 DEF KeysInv, SessionsInv, ReadSessions
  <2>11. ItemsInv'
    BY <2>4, <2>7, <2>8 DEF KeysInv, ItemsInv, ReadItems, SameKey
  <2> QED
    BY <2>7, <2>9, <2>10, <2>11, KeepsInv DEF KeysInv
<1> QED
  BY <1>1, <1>2 DEF write_account

LEMMA EndpointKeys ==
  ASSUME RowsInv, KeysInv, NEW p \in Procs, Endpoint(p)
  PROVE  KeysInv'
<1>1. proc[p] \in Process /\ proc[p].op \in OpsAt(proc[p].pc)
  BY Known DEF Legal
<1>2. CASE check_credentials(p)
  <2>1. CASE Fail(p)
    BY <1>2, <2>1, EndKeys DEF check_credentials, Fail
  <2>2. ASSUME NEW e \in Emails,
               proc' = [proc EXCEPT ![p].email = e, ![p].pc = "select_email"]
        PROVE  KeysInv'
    <3> DEFINE t == [proc[p] EXCEPT !.email = e, !.pc = "select_email"]
    <3>1. Same(p, t) /\ t.pc = "select_email"
      BY <1>1 DEF Process, Same
    <3>2. proc' = [proc EXCEPT ![p] = t]
      BY <2>2
    <3> HIDE DEF t
    <3> QED
      BY <1>2, <3>1, <3>2, GoKeys DEF check_credentials, OutsideSync, Checked
  <2> QED
    BY <1>2, <2>1, <2>2 DEF check_credentials
<1>3. CASE select_account(p)
  <2>1. CASE Fail(p)
    BY <1>3, <2>1, EndKeys DEF select_account, Fail
  <2>2. ASSUME NEW a \in accounts,
               proc' = [proc EXCEPT ![p].found = a.id, ![p].pc = proc[p].op]
        PROVE  KeysInv'
    <3> DEFINE t == [proc[p] EXCEPT !.found = a.id, !.pc = proc[p].op]
    <3>1. Same(p, t) /\ t.pc = proc[p].op /\ proc[p].op \in {"verify", "delete"}
      BY <1>1, <1>3 DEF Process, Same, select_account, OpsAt
    <3>2. proc' = [proc EXCEPT ![p] = t]
      BY <2>2
    <3> HIDE DEF t
    <3> QED
      BY <1>3, <3>1, <3>2, GoKeys DEF select_account, OutsideSync, Checked
  <2> QED
    BY <1>3, <2>1, <2>2 DEF select_account
<1>4. CASE select_calendar(p)
  <2>1. CASE Fail(p)
    BY <1>4, <2>1, EndKeys DEF select_calendar, Fail
  <2>2. ASSUME NEW i \in items, NEW patch,
               proc' = [proc EXCEPT ![p].found = i.id, ![p].pc = "patch", ![p].patch = patch]
        PROVE  KeysInv'
    <3> DEFINE t == [proc[p] EXCEPT !.found = i.id, !.pc = "patch", !.patch = patch]
    <3>1. Same(p, t) /\ t.pc = "patch"
      BY <1>1 DEF Process, Same
    <3>2. proc' = [proc EXCEPT ![p] = t]
      BY <2>2
    <3> HIDE DEF t
    <3> QED
      BY <1>4, <3>1, <3>2, GoKeys DEF select_calendar, OutsideSync, Checked
  <2> QED
    BY <1>4, <2>1, <2>2 DEF select_calendar
<1>5. CASE verify(p)
  <2>1. SetStatus(proc[p].found, "active") => accounts' \subseteq accounts
    BY DEF SetStatus, RowsInv, TablesTyped, AccountRow
  <2> QED
    BY <1>5, <2>1, EndKeys DEF verify, Succeed, Fail
<1>6. CASE delete(p)
  BY <1>6, EndKeys DEF delete, Succeed
<1>7. CASE patch_calendar(p)
  <2> DEFINE id == proc[p].found
             set(i) == IF i.id = id THEN [i EXCEPT !.flags = Patched(@, proc[p].patch)] ELSE i
  <2>1. CASE items' = {set(i) : i \in items} /\ Succeed(p)
    <3>1. \A i \in items : /\ set(i).kind = i.kind /\ set(i).account = i.account
                            /\ set(i).external = i.external
      BY DEF RowsInv, TablesTyped, ItemRow
    <3>2. \A j \in items' : \E i \in items : j = set(i)
      BY <2>1
    <3>3. UNCHANGED <<raced, mailbox, accounts, llm_sessions>>
      BY <1>7 DEF patch_calendar
    <3>4. proc \in [Procs -> Process] /\ proc' = [proc EXCEPT ![p] = Idle]
      BY <2>1 DEF Succeed, RowsInv, ProcTyped
    <3>5. \A q \in Procs : proc'[q] = IF q = p THEN Idle ELSE proc[q]
      BY <3>4
    <3>6. Keeps(p, Idle) /\ ReadAccounts(Idle) /\ ReadSessions(Idle) /\ Idle.pending = {}
      BY <3>3, <3>4, IdleKeeps DEF Idle
    <3> HIDE DEF set, id
    <3>7. AccountsInv' /\ SessionsInv'
      BY <3>3, <3>5, <3>6
      DEF KeysInv, AccountsInv, SessionsInv, ReadAccounts, ReadSessions
    <3>8. ItemsInv'
      BY <3>1, <3>2, <3>3, <3>5, <3>6 DEF KeysInv, ItemsInv, ReadItems, SameKey
    <3> QED
      BY <3>6, <3>7, <3>8, KeepsInv DEF KeysInv
  <2>2. CASE UNCHANGED items /\ Fail(p)
    BY <1>7, <2>2, EndKeys DEF patch_calendar, Fail
  <2> QED
    BY <1>7, <2>1, <2>2 DEF patch_calendar
<1> QED
  BY <1>2, <1>3, <1>4, <1>5, <1>6, <1>7, SelectEmailKeys, WriteAccountKeys DEF Endpoint

-----------------------------------------------------------------------------

LEMMA SelectAccountsKeys ==
  ASSUME RowsInv, KeysInv, NEW p \in Procs, select_accounts(p)
  PROVE  KeysInv'
<1> DEFINE t == [proc[p] EXCEPT !.todo = {a \in accounts : a.status = "active"},
                                !.pc = "list_mailbox"]
<1>1. proc[p] \in Process /\ Gathered(proc[p])
  BY Known DEF KeysInv, GatheredInv
<1>2. /\ t.pc = "list_mailbox" /\ t.todo \subseteq accounts /\ t.pending = {} /\ t.listing = {}
      /\ t.op = proc[p].op /\ t.kind = proc[p].kind
  BY <1>1 DEF Process, Gathered, select_accounts
<1>3. proc' = [proc EXCEPT ![p] = t]
  BY DEF select_accounts
<1> HIDE DEF t
<1>4. Gathered(t)
  BY <1>1, <1>2 DEF Gathered, RowsInv, IdsUnique
<1>5. Keeps(p, t)
  BY <1>2, <1>3, <1>4 DEF Keeps, select_accounts
<1>6. ReadAccounts(t) /\ ReadSessions(t) /\ ReadItems(t)
  BY <1>2 DEF ReadAccounts, ReadSessions, ReadItems
<1> QED
  BY <1>5, <1>6, NoRow DEF select_accounts, tables

LEMMA ListMailboxKeys ==
  ASSUME RowsInv, KeysInv, NEW p \in Procs, list_mailbox(p)
  PROVE  KeysInv'
<1> DEFINE kept(a) == {i \in mailbox[a.email] : ~(SyncsCalendars(p) /\ i.name = Birthdays)}
<1>1. PICK a \in proc[p].todo :
        \/ proc' = [proc EXCEPT ![p].todo = @ \ {a}, ![p].account = a.id, ![p].listing = kept(a)]
        \/ proc' = [proc EXCEPT ![p].todo = @ \ {a}]
  BY DEF list_mailbox
<1>2. /\ proc[p] \in Process /\ Gathered(proc[p]) /\ a \in AccountRow
      /\ proc[p].pc = "list_mailbox" /\ proc[p].listing = {}
  BY Known DEF KeysInv, GatheredInv, list_mailbox, Process
<1>3. kept(a) \subseteq mailbox[a.email] /\ a.email \in Emails
  BY <1>2 DEF AccountRow
<1> HIDE DEF kept
<1>4. ASSUME NEW account, NEW listing, \/ account = a.id /\ listing = kept(a)
                                       \/ account = proc[p].account /\ listing = {},
             proc' = [proc EXCEPT ![p].todo = @ \ {a}, ![p].account = account,
                                  ![p].listing = listing]
      PROVE  KeysInv'
  <2> DEFINE t == [proc[p] EXCEPT !.todo = @ \ {a}, !.account = account, !.listing = listing]
  <2>1. /\ t.pc = "list_mailbox" /\ t.todo = proc[p].todo \ {a} /\ t.listing = listing
        /\ t.pending = proc[p].pending /\ t.account = account
        /\ t.op = proc[p].op /\ t.kind = proc[p].kind
    BY <1>2 DEF Process
  <2>2. proc' = [proc EXCEPT ![p] = t]
    BY <1>4
  <2> HIDE DEF t
  <2>3. \A l, m \in listing : l.external = m.external => l = m
    BY <1>3, <1>4 DEF KeysInv, GatheredInv, MailboxUnique
  <2>4. Gathered(t)
    BY <1>1, <1>2, <1>4, <2>1, <2>3 DEF Gathered
  <2>5. Keeps(p, t)
    BY <2>1, <2>2, <2>4 DEF Keeps, list_mailbox
  <2>6. ReadAccounts(t) /\ ReadSessions(t) /\ ReadItems(t)
    BY <2>1 DEF ReadAccounts, ReadSessions, KeysInv, ItemsInv, ReadItems
  <2> QED
    BY <2>5, <2>6, NoRow DEF list_mailbox, tables
<1>5. CASE proc' = [proc EXCEPT ![p].todo = @ \ {a}]
  <2>1. proc' = [proc EXCEPT ![p].todo = @ \ {a}, ![p].account = proc[p].account,
                             ![p].listing = {}]
    BY <1>2, <1>5 DEF RowsInv, ProcTyped, Process
  <2> QED
    BY <1>4, <2>1
<1> QED
  BY <1>1, <1>4, <1>5

LEMMA UpsertItemKeys ==
  ASSUME RowsInv, KeysInv, NEW p \in Procs, upsert_item(p)
  PROVE  KeysInv'
<1> DEFINE rows(i) == RowsOf(proc[p].kind, proc[p].account, i.external)
           gather(i, id) == [id |-> id, account |-> proc[p].account,
                             external |-> i.external, name |-> i.name]
<1>1. PICK i \in proc[p].listing :
        \/ proc' = [proc EXCEPT ![p].listing = {}]
        \/ \E id \in (IF rows(i) = {} THEN {0} ELSE {r.id : r \in rows(i)}) :
             proc' = [proc EXCEPT ![p].listing = @ \ {i}, ![p].pending = @ \cup {gather(i, id)}]
  BY DEF upsert_item
<1>2. /\ proc[p] \in Process /\ Gathered(proc[p]) /\ proc[p].pc = "list_mailbox"
      /\ ReadItems(proc[p])
  BY Known DEF KeysInv, GatheredInv, upsert_item, ItemsInv
<1>3. UNCHANGED <<tables, mailbox, raced>>
  BY DEF upsert_item
<1>4. CASE proc' = [proc EXCEPT ![p].listing = {}]
  <2> DEFINE t == [proc[p] EXCEPT !.listing = {}]
  <2>1. /\ t.pc = "list_mailbox" /\ t.todo = proc[p].todo /\ t.listing = {}
        /\ t.pending = proc[p].pending /\ t.account = proc[p].account
        /\ t.op = proc[p].op /\ t.kind = proc[p].kind
    BY <1>2 DEF Process
  <2>2. proc' = [proc EXCEPT ![p] = t]
    BY <1>4
  <2> HIDE DEF t
  <2>3. Keeps(p, t)
    BY <1>2, <1>3, <2>1, <2>2 DEF Keeps, Gathered
  <2>4. ReadAccounts(t) /\ ReadSessions(t) /\ ReadItems(t)
    BY <1>2, <2>1 DEF ReadAccounts, ReadSessions, ReadItems
  <2> QED
    BY <1>3, <2>3, <2>4, NoRow DEF tables
<1>5. ASSUME NEW id \in (IF rows(i) = {} THEN {0} ELSE {r.id : r \in rows(i)}),
             proc' = [proc EXCEPT ![p].listing = @ \ {i}, ![p].pending = @ \cup {gather(i, id)}]
      PROVE  KeysInv'
  <2> DEFINE w == gather(i, id)
             t == [proc[p] EXCEPT !.listing = @ \ {i}, !.pending = @ \cup {w}]
  <2>1. /\ t.pc = "list_mailbox" /\ t.todo = proc[p].todo /\ t.account = proc[p].account
        /\ t.listing = proc[p].listing \ {i} /\ t.pending = proc[p].pending \cup {w}
        /\ t.op = proc[p].op /\ t.kind = proc[p].kind
    BY <1>2 DEF Process
  <2>2. proc' = [proc EXCEPT ![p] = t]
    BY <1>5
  <2>3. w.account = proc[p].account /\ w.external = i.external /\ w.id = id
    OBVIOUS
  <2>4. id = 0 => rows(i) = {}
    BY <1>5 DEF RowsOf, RowsInv, TablesTyped, ItemRow, Ids
  <2> HIDE DEF t, w, gather
  <2>5. Gathered(t)
    <3>1. /\ \A v \in proc[p].pending :
               v.account = w.account => v.external # w.external
          /\ \A l \in proc[p].listing : l.external = w.external => l = i
          /\ \A a \in proc[p].todo : w.account # a.id
      BY <1>2, <2>3 DEF Gathered
    <3> QED
      BY <1>2, <2>1, <2>3, <3>1 DEF Gathered
  <2>6. Keeps(p, t)
    BY <1>3, <2>1, <2>2, <2>5 DEF Keeps
  <2>7. ReadAccounts(t) /\ ReadSessions(t)
    BY <2>1 DEF ReadAccounts, ReadSessions
  <2>8. ReadItems(t)
    BY <1>2, <2>1, <2>3, <2>4 DEF ReadItems, RowsOf
  <2> QED
    BY <1>3, <2>6, <2>7, <2>8, NoRow DEF tables
<1> QED
  BY <1>1, <1>4, <1>5

LEMMA CommitSyncKeys ==
  ASSUME RowsInv, KeysInv, NEW p \in Procs, commit_sync(p)
  PROVE  KeysInv'
<1> DEFINE pending == proc[p].pending
           kind == proc[p].kind
           new == Inserts(pending)
           n == Cardinality(new)
           set(i) == Updated(i, pending)
           row(w, id) == [id |-> id, kind |-> kind, account |-> w.account,
                          external |-> w.external, name |-> w.name, flags |-> NewFlags]
<1>1. PICK id \in [new -> next_id..(next_id + n - 1)] :
        items' = {set(i) : i \in items} \cup {row(w, id[w]) : w \in new}
  BY DEF commit_sync, Write
<1>2. \A i \in items : /\ set(i).kind = i.kind /\ set(i).account = i.account
                        /\ set(i).external = i.external
  BY UpdatedRow
<1>3. \A w \in new : \A x :
        /\ row(w, x).kind = kind /\ row(w, x).account = w.account
        /\ row(w, x).external = w.external
  OBVIOUS
<1>4. \A w \in new : w \in pending /\ w.id = 0
  BY DEF Inserts
<1>5. \A j \in items' : \/ \E i \in items : j = set(i)
                        \/ \E w \in new : j = row(w, id[w])
  BY <1>1
<1>6. /\ UNCHANGED <<raced, mailbox, accounts, llm_sessions>>
      /\ proc \in [Procs -> Process] /\ proc' = [proc EXCEPT ![p] = Idle]
  BY DEF commit_sync, Succeed, RowsInv, ProcTyped
<1>7. \A q \in Procs : proc'[q] = IF q = p THEN Idle ELSE proc[q]
  BY <1>6
<1>8. Keeps(p, Idle) /\ ReadAccounts(Idle) /\ ReadSessions(Idle) /\ Idle.pending = {}
  BY <1>6, IdleKeeps DEF Idle
<1>9. Gathered(proc[p]) /\ ReadItems(proc[p]) /\ kind \in Kinds
  BY Known DEF KeysInv, GatheredInv, ItemsInv, Process
<1>10. \A q \in Procs : q # p /\ proc[q].kind = kind => kind \in raced \/ proc[q].pending = {}
  <2>1. \A q \in Procs : proc[q].pc = "list_mailbox" => Inserting(proc[q], proc[q].kind)
    <3> SUFFICES ASSUME NEW q \in Procs, proc[q].pc = "list_mailbox"
                 PROVE  Inserting(proc[q], proc[q].kind)
      OBVIOUS
    <3>1. proc[q].op \in {"add_account", "sync", "sync_task", "sync_all"}
      BY Known DEF Legal, OpsAt
    <3>2. proc[q].op = "add_account" => proc[q].kind = "calendar"
      BY DEF KeysInv, GatheredInv, Gathered
    <3> QED
      BY <3>1, <3>2 DEF Inserting, Classes
  <2>2. proc[p].pc = "list_mailbox"
    BY DEF commit_sync, AllListed
  <2>3. \A q \in Procs : proc[q].pc # "list_mailbox" => proc[q].pending = {}
    BY DEF KeysInv, GatheredInv, Gathered
  <2> QED
    BY <1>9, <2>1, <2>2, <2>3 DEF KeysInv, OneAtATime
<1> HIDE DEF set, row
<1>11. AccountsInv' /\ SessionsInv'
  BY <1>6, <1>7, <1>8 DEF KeysInv, AccountsInv, SessionsInv, ReadAccounts, ReadSessions
<1>12. \A i, j \in items' : SameKey(i, j) => i = j \/ i.kind \in raced
  <2> SUFFICES ASSUME NEW i \in items', NEW j \in items', SameKey(i, j), i.kind \notin raced
               PROVE  i = j
    OBVIOUS
  <2>1. ASSUME NEW v \in items, NEW w \in new, kind \notin raced
        PROVE  ~(v.kind = kind /\ v.account = w.account /\ v.external = w.external)
    BY <1>4, <1>9, <2>1 DEF ReadItems
  <2>2. CASE \E v, w \in items : i = set(v) /\ j = set(w)
    BY <1>2, <2>2 DEF SameKey, KeysInv, ItemsInv
  <2>3. CASE \E v, w \in new : i = row(v, id[v]) /\ j = row(w, id[w])
    BY <1>3, <1>4, <1>9, <2>3 DEF SameKey, Gathered
  <2>4. ASSUME NEW v \in items, NEW w \in new,
               \/ i = set(v) /\ j = row(w, id[w])
               \/ j = set(v) /\ i = row(w, id[w])
        PROVE  FALSE
    BY <1>2, <1>3, <2>1, <2>4 DEF SameKey
  <2> QED
    BY <1>5, <2>2, <2>3, <2>4
<1>13. \A q \in Procs : ReadItems(proc[q])'
  <2> SUFFICES ASSUME NEW q \in Procs, q # p, proc[q].kind \notin raced,
                      NEW w \in proc[q].pending, NEW i \in items',
                      w.id = 0, i.kind = proc[q].kind, i.account = w.account
               PROVE  i.external # w.external
    BY <1>6, <1>7, <1>8 DEF ReadItems
  <2>1. CASE \E v \in items : i = set(v)
    BY <1>2, <2>1 DEF KeysInv, ItemsInv, ReadItems
  <2>2. CASE \E v \in new : i = row(v, id[v])
    BY <1>3, <1>10, <2>2
  <2> QED
    BY <1>5, <2>1, <2>2
<1>14. ItemsInv'
  BY <1>6, <1>12, <1>13 DEF ItemsInv, SameKey
<1> QED
  BY <1>8, <1>11, <1>14, KeepsInv DEF KeysInv

LEMMA RollbackKeys ==
  ASSUME RowsInv, KeysInv, NEW p \in Procs, rollback_sync(p)
  PROVE  KeysInv'
<1>1. UNCHANGED <<raced, mailbox, accounts, items, llm_sessions>>
  BY DEF rollback_sync, tables
<1>2. CASE proc' = [proc EXCEPT ![p] = Idle]
  BY <1>1, <1>2, EndKeys
<1>3. CASE /\ proc[p].op = "sync_task"
           /\ proc' = [proc EXCEPT ![p] = [Idle EXCEPT !.op = "sync_task",
                                                       !.kind = proc[p].kind,
                                                       !.pc = "select_accounts",
                                                       !.retries = proc[p].retries + 1]]
  <2> DEFINE t == [Idle EXCEPT !.op = "sync_task", !.kind = proc[p].kind,
                               !.pc = "select_accounts", !.retries = proc[p].retries + 1]
  <2>1. /\ t.op = "sync_task" /\ t.kind = proc[p].kind /\ t.pc = "select_accounts"
        /\ t.pending = {} /\ t.listing = {} /\ t.todo = {}
    BY DEF Idle
  <2>2. proc' = [proc EXCEPT ![p] = t]
    BY <1>3
  <2> HIDE DEF t
  <2>3. Keeps(p, t)
    BY <1>1, <1>3, <2>1, <2>2 DEF Keeps, Gathered
  <2>4. ReadAccounts(t) /\ ReadSessions(t) /\ ReadItems(t)
    BY <2>1 DEF ReadAccounts, ReadSessions, ReadItems
  <2> QED
    BY <1>1, <2>3, <2>4, NoRow
<1> QED
  BY <1>2, <1>3 DEF rollback_sync

-----------------------------------------------------------------------------

\* A step that changes a session, by the only process that may.
LEMMA SessionKeys ==
  ASSUME RowsInv, KeysInv, NEW p \in Procs, NEW t, Keeps(p, t),
         UNCHANGED <<accounts, items>>, proc[p].op = "parse",
         ReadAccounts(t), ReadItems(t),
         "parse" \in raced \/
           /\ \A s, u \in llm_sessions' : s.live /\ u.live => s = u
           /\ \A s \in llm_sessions' : s.live =>
                t.pc # "insert_session" /\ (t.pc \in Checked => s.id = t.found)
  PROVE  KeysInv'
<1>1. proc \in [Procs -> Process] /\ raced' = raced
  BY DEF RowsInv, ProcTyped, Keeps
<1>2. \A q \in Procs : proc'[q] = IF q = p THEN t ELSE proc[q]
  BY <1>1 DEF Keeps
<1>3. AccountsInv' /\ ItemsInv'
  BY <1>1, <1>2 DEF KeysInv, AccountsInv, ReadAccounts, ItemsInv, ReadItems, SameKey
<1>4. ASSUME NEW q \in Procs, q # p, "parse" \notin raced
      PROVE  proc[q].pc \notin Checked \ {"write_account"}
  <2>1. proc[q].op # "parse"
    BY <1>4, Alone
  <2> QED
    BY <2>1, Known DEF Legal, OpsAt, Checked
<1>5. SessionsInv'
  BY <1>1, <1>2, <1>4 DEF SessionsInv, ReadSessions, Checked
<1> QED
  BY <1>3, <1>5, KeepsInv DEF KeysInv

LEMMA ParseKeys ==
  ASSUME RowsInv, KeysInv, NEW p \in Procs, Parse(p)
  PROVE  KeysInv'
<1>1. /\ proc[p] \in Process /\ proc[p].op = "parse" /\ OutsideSync(proc[p])
      /\ UNCHANGED <<raced, mailbox, accounts, items>>
  BY Known DEF Parse, select_session, insert_session, ask_model, save_turn, Legal, OpsAt,
     OutsideSync
<1>2. CASE proc' = [proc EXCEPT ![p] = Idle] /\ UNCHANGED llm_sessions
  BY <1>1, <1>2, EndKeys
<1>3. ASSUME NEW t, Same(p, t), OutsideSync(t), t.pc # "write_account",
             proc' = [proc EXCEPT ![p] = t]
      PROVE  Keeps(p, t) /\ ReadItems(t) /\ ReadAccounts(t)
  BY <1>1, <1>3, SameKeeps DEF ReadAccounts
<1>4. CASE select_session(p)
  <2> DEFINE live == {s.id : s \in {u \in llm_sessions : u.live}}
  <2>1. CASE live = {} /\ Goto(p, "insert_session")
    <3> DEFINE t == [proc[p] EXCEPT !.pc = "insert_session"]
    <3>1. Same(p, t) /\ t.pc = "insert_session" /\ proc' = [proc EXCEPT ![p] = t]
      BY <1>1, <2>1 DEF Process, Same, Goto
    <3> HIDE DEF t
    <3>2. ReadSessions(t)
      BY <2>1 DEF ReadSessions
    <3> QED
      BY <1>1, <1>3, <1>4, <3>1, <3>2, NoRow DEF OutsideSync, select_session
  <2>2. ASSUME NEW id \in live,
               proc' = [proc EXCEPT ![p].found = id, ![p].pc = "ask_model"]
        PROVE  KeysInv'
    <3> DEFINE t == [proc[p] EXCEPT !.found = id, !.pc = "ask_model"]
    <3>1. Same(p, t) /\ t.pc = "ask_model" /\ t.found = id
      BY <1>1 DEF Process, Same
    <3>2. proc' = [proc EXCEPT ![p] = t]
      BY <2>2
    <3> HIDE DEF t
    <3>3. "parse" \in raced \/ ReadSessions(t)
      BY <2>2, <3>1 DEF KeysInv, SessionsInv, ReadSessions
    <3> QED
      BY <1>1, <1>3, <1>4, <3>1, <3>2, <3>3, NoRow DEF OutsideSync, select_session
  <2>3. Cardinality(live) = 1 => (CHOOSE id \in live : TRUE) \in live
    BY FS_EmptySet
  <2> QED
    BY <1>2, <1>4, <2>1, <2>2, <2>3 DEF select_session, Fail
<1>5. CASE insert_session(p)
  <2> DEFINE row == [id |-> next_id, live |-> TRUE, turns |-> 0]
             t == [proc[p] EXCEPT !.found = next_id, !.extended = TRUE, !.pc = "ask_model"]
  <2>1. CASE /\ llm_sessions' = llm_sessions \cup {row}
             /\ proc' = [proc EXCEPT ![p].found = next_id, ![p].extended = TRUE,
                                     ![p].pc = "ask_model"]
    <3>1. Same(p, t) /\ t.pc = "ask_model" /\ t.found = next_id
      BY <1>1 DEF Process, Same
    <3>2. proc' = [proc EXCEPT ![p] = t] /\ row.id = next_id
      BY <2>1
    <3> HIDE DEF t, row
    <3>3. "parse" \in raced \/ \A s \in llm_sessions : ~s.live
      BY <1>5 DEF insert_session, KeysInv, SessionsInv, ReadSessions
    <3> QED
      BY <1>1, <1>3, <2>1, <3>1, <3>2, <3>3, SessionKeys DEF OutsideSync
  <2> QED
    BY <1>2, <1>5, <2>1 DEF insert_session, Fail
<1>6. CASE ask_model(p)
  <2>1. CASE Goto(p, "save_user")
    <3> DEFINE t == [proc[p] EXCEPT !.pc = "save_user"]
    <3>1. /\ Same(p, t) /\ t.pc = "save_user" /\ t.found = proc[p].found
          /\ proc' = [proc EXCEPT ![p] = t]
      BY <1>1, <2>1 DEF Process, Same, Goto
    <3> HIDE DEF t
    <3>2. "parse" \in raced \/ ReadSessions(t)
      BY <1>6, <3>1 DEF ask_model, KeysInv, SessionsInv, ReadSessions
    <3> QED
      BY <1>1, <1>3, <1>6, <3>1, <3>2, NoRow DEF OutsideSync, ask_model
  <2> QED
    BY <1>2, <1>6, <2>1 DEF ask_model, Fail
<1>7. CASE save_turn(p)
  <2>1. PICK s \in llm_sessions :
          /\ s.id = proc[p].found
          /\ llm_sessions' = (llm_sessions \ {s}) \cup
                               {[s EXCEPT !.live = TRUE, !.turns = TurnsWritten(@)]}
    BY <1>7 DEF save_turn
  <2> DEFINE u == [s EXCEPT !.live = TRUE, !.turns = TurnsWritten(@)]
  <2>2. u.id = s.id
    BY SessionsKnown DEF SessionRow
  <2> HIDE DEF u
  <2>3. llm_sessions' = (llm_sessions \ {s}) \cup {u}
    BY <2>1 DEF u
  <2>4. "parse" \in raced \/ \A v \in llm_sessions : v.live => v = s
    BY <1>7, <2>1, SessionsKnown DEF save_turn, KeysInv, SessionsInv, ReadSessions
  <2>5. "parse" \in raced \/ \A v \in llm_sessions' : v.live => v = u
    BY <2>3, <2>4
  <2>6. CASE proc[p].pc = "save_user"
    <3> DEFINE t == [proc[p] EXCEPT !.pc = "save_assistant", !.extended = TRUE]
    <3>1. Same(p, t) /\ t.pc = "save_assistant" /\ t.found = proc[p].found
      BY <1>1 DEF Process, Same
    <3>2. proc' = [proc EXCEPT ![p] = t]
      BY <1>7, <2>6 DEF save_turn
    <3> HIDE DEF t
    <3> QED
      BY <1>1, <1>3, <2>1, <2>2, <2>5, <3>1, <3>2, SessionKeys DEF OutsideSync
  <2>7. CASE proc' = [proc EXCEPT ![p] = Idle]
    <3>1. Keeps(p, Idle) /\ ReadAccounts(Idle) /\ ReadItems(Idle) /\ Idle.pc = "idle"
      BY <1>1, <2>7, IdleKeeps DEF Idle
    <3> QED
      BY <1>1, <2>5, <3>1, SessionKeys DEF Checked
  <2> QED
    BY <1>7, <2>6, <2>7 DEF save_turn, Succeed
<1> QED
  BY <1>4, <1>5, <1>6, <1>7 DEF Parse

LEMMA ExpireKeys ==
  ASSUME RowsInv, KeysInv, NEW s \in llm_sessions, expire(s)
  PROVE  KeysInv'
<1> DEFINE u == [s EXCEPT !.live = FALSE]
<1>1. ~u.live
  BY SessionsKnown DEF SessionRow
<1>2. llm_sessions' = (llm_sessions \ {s}) \cup {u}
  BY DEF expire
<1> HIDE DEF u
<1>3. UNCHANGED <<accounts, items, mailbox, proc, raced>>
  BY DEF expire
<1>4. SessionsInv'
  BY <1>1, <1>2, <1>3 DEF KeysInv, SessionsInv, ReadSessions
<1> QED
  BY <1>3, <1>4
  DEF KeysInv, GatheredInv, MailboxUnique, OneAtATime, AccountsInv, ReadAccounts, ItemsInv,
      ReadItems, SameKey

LEMMA RenameKeys ==
  ASSUME RowsInv, KeysInv, Rename
  PROVE  KeysInv'
<1>1. PICK e \in Emails : \E i \in mailbox[e] :
        mailbox' = [mailbox EXCEPT ![e] = (@ \ {i}) \cup {[i EXCEPT !.name = renames + 2]}]
  BY DEF Rename
<1>2. PICK i \in mailbox[e] :
        mailbox' = [mailbox EXCEPT ![e] = (@ \ {i}) \cup {[i EXCEPT !.name = renames + 2]}]
  BY <1>1
<1> DEFINE j == [i EXCEPT !.name = renames + 2]
<1>3. mailbox \in [Emails -> SUBSET Listed]
  BY DEF RowsInv, MailboxTyped
<1>4. j.external = i.external
  BY <1>3 DEF Listed
<1> HIDE DEF j
<1>5. \A f \in Emails : mailbox'[f] = IF f = e THEN (mailbox[e] \ {i}) \cup {j} ELSE mailbox[f]
  BY <1>2, <1>3 DEF j
<1>6. MailboxUnique'
  BY <1>4, <1>5 DEF KeysInv, GatheredInv, MailboxUnique
<1>7. UNCHANGED <<tables, proc, raced>>
  BY DEF Rename
<1> QED
  BY <1>6, <1>7
  DEF KeysInv, GatheredInv, Gathered, OneAtATime, AccountsInv, ReadAccounts, SessionsInv,
      ReadSessions, ItemsInv, ReadItems, SameKey, tables

-----------------------------------------------------------------------------

LEMMA KeysInvInit == Init => KeysInv
<1> SUFFICES ASSUME Init PROVE KeysInv
  OBVIOUS
<1>1. \A p \in Procs : proc[p] = Idle
  BY DEF Init
<1>2. MailboxUnique
  BY DEF Init, MailboxUnique
<1>3. Gathered(Idle)
  BY DEF Idle, Gathered
<1>4. \A c : ~Inserting(Idle, c)
  BY DEF Idle, Inserting, Classes
<1>5. /\ \A p \in Procs : ReadAccounts(proc[p]) /\ ReadSessions(proc[p])
      /\ \A p \in Procs : ReadItems(proc[p])
  <2>1. Idle.pc = "idle" /\ Idle.pending = {}
    BY DEF Idle
  <2> QED
    BY <1>1, <2>1 DEF ReadAccounts, ReadSessions, ReadItems
<1>6. "add_account" \in raced \/ \A a, b \in accounts : a.email = b.email => a = b
  BY DEF Init
<1>7. "parse" \in raced \/ \A s, t \in llm_sessions : s.live /\ t.live => s = t
  BY DEF Init
<1>8. items = {}
  BY DEF Init
<1> QED
  BY <1>1, <1>2, <1>3, <1>4, <1>5, <1>6, <1>7, <1>8
  DEF KeysInv, GatheredInv, OneAtATime, AccountsInv, SessionsInv, ItemsInv

LEMMA KeysInvStep == RowsInv /\ KeysInv /\ [Next]_vars => KeysInv'
<1> SUFFICES ASSUME RowsInv, KeysInv, [Next]_vars PROVE KeysInv'
  OBVIOUS
<1>1. ASSUME NEW p \in Procs, Request(p) \/ User(p) PROVE KeysInv'
  BY <1>1, RequestKeys, UserKeys
<1>2. ASSUME NEW p \in Procs, Endpoint(p) PROVE KeysInv'
  BY <1>2, EndpointKeys
<1>3. ASSUME NEW p \in Procs, Sync(p) PROVE KeysInv'
  BY <1>3, SelectAccountsKeys, ListMailboxKeys, UpsertItemKeys, CommitSyncKeys, RollbackKeys
  DEF Sync
<1>4. ASSUME NEW p \in Procs, Parse(p) PROVE KeysInv'
  BY <1>4, ParseKeys
<1>5. ASSUME NEW p \in Procs, NEW k \in Kinds, sync_all(p, k) PROVE KeysInv'
  BY <1>5, SyncAllKeys
<1>6. ASSUME NEW s \in llm_sessions, expire(s) PROVE KeysInv'
  BY <1>6, ExpireKeys
<1>7. CASE Rename
  BY <1>7, RenameKeys
<1>8. CASE UNCHANGED vars
  BY <1>8
  DEF vars, tables, KeysInv, GatheredInv, MailboxUnique, Gathered, OneAtATime, AccountsInv,
      ReadAccounts, SessionsInv, ReadSessions, ItemsInv, ReadItems, SameKey
<1> QED
  BY <1>1, <1>2, <1>3, <1>4, <1>5, <1>6, <1>7, <1>8 DEF Next, Step

\* Without a race each e-mail has one account, each calendar and contact of an account one
\* row, and the user one live session (accounts.py:63-92, calendar_sync.py:38-57,
\* contact_sync.py:54-82, parser.py:36-54).
THEOREM OneRow == Spec => []OneRowUnlessRace
<1> QED
  BY KeysInvInit, KeysInvStep, KeysAreUnique, RowsInvHolds, PTL DEF Spec
=============================================================================
