--------------------------- MODULE UserDataProofs ---------------------------
(***************************************************************************)
(* The rows of a user, for any number of requests and tasks at once and    *)
(* any mailboxes: ids are used once, and nothing is left of a deleted      *)
(* account.  UpsertProofs goes on from here.                               *)
(***************************************************************************)
EXTENDS UserData, FiniteSetTheorems, TLAPS

Ids == Nat \ {0}
AccountRow == [id: Ids, email: Emails, status: {"active"}]
ItemRow == [id: Ids, kind: Kinds, account: Ids, external: Externals, name: Nat,
            flags: [Flags -> BOOLEAN]]
SessionRow == [id: Ids, live: BOOLEAN, turns: 0..(MAX_CONTEXT_TURNS * 2)]
Listed == [external: Externals, name: Nat]
PendingRow == [id: Nat, account: Nat, external: Externals, name: Nat]
Ops == {"none", "add_account", "verify", "delete", "patch", "sync", "sync_task", "sync_all",
        "parse", "list"}
Places == {"idle", "select_user", "insert_user", "check_credentials", "select_email",
           "write_account", "select_account", "verify", "delete", "select_calendar", "patch",
           "select_accounts", "list_mailbox", "select_session", "insert_session",
           "ask_model", "save_user", "save_assistant", "respond"}
Process ==
  [op: Ops, kind: Kinds, pc: Places, new_user: BOOLEAN, email: Emails \cup {""},
   found: Nat, patch: SUBSET (Flags \X BOOLEAN), todo: SUBSET AccountRow, account: Nat,
   listing: SUBSET Listed, pending: SUBSET PendingRow, retries: Nat, extended: BOOLEAN]

\* Where an operation may be.
OpsAt(place) ==
  CASE place = "idle" -> {"none"}
    [] place \in {"select_user", "insert_user"} -> Ops \ {"none", "sync_task", "sync_all"}
    [] place \in {"check_credentials", "select_email", "write_account"} -> {"add_account"}
    [] place = "select_account" -> {"verify", "delete"}
    [] place = "verify" -> {"verify"}
    [] place = "delete" -> {"delete"}
    [] place \in {"select_calendar", "patch"} -> {"patch"}
    [] place \in {"select_accounts", "list_mailbox"}
         -> {"add_account", "sync", "sync_task", "sync_all"}
    [] place = "respond" -> {"list"}
    [] OTHER -> {"parse"}

Legal(t) ==
  /\ t \in Process /\ IsFiniteSet(t.pending)
  /\ t.op \in OpsAt(t.pc)
  /\ t.op \in {"sync_task", "sync_all"} => ~t.new_user
  /\ t.pc \in {"select_email", "write_account"} => t.email \in Emails
ProcTyped == proc \in [Procs -> Process] /\ \A p \in Procs : Legal(proc[p])

TablesTyped ==
  /\ registered \in BOOLEAN
  /\ next_id \in Ids
  /\ accounts \subseteq AccountRow
  /\ items \subseteq ItemRow
  /\ llm_sessions \subseteq SessionRow

\* Ids are handed out in turn.
IdsBelow ==
  /\ \A a \in accounts : a.id < next_id
  /\ \A i \in items : i.id < next_id
  /\ \A s \in llm_sessions : s.id < next_id
IdsUnique ==
  /\ \A a, b \in accounts : a.id = b.id => a = b
  /\ \A i, j \in items : i.id = j.id => i = j
  /\ \A s, t \in llm_sessions : s.id = t.id => s = t

MailboxTyped == mailbox \in [Emails -> SUBSET Listed] /\ renames \in Nat

Early == {"idle", "select_user", "insert_user"}

\* What a request holds before its user is there.
UserFirst ==
  \/ registered
  \/ /\ accounts = {} /\ llm_sessions = {}
     /\ \A p \in Procs : proc[p].new_user \/ proc[p].pc \in Early

RowsInv ==
  ProcTyped /\ TablesTyped /\ MailboxTyped /\ IdsBelow /\ IdsUnique /\ RowsHaveAnAccount
  /\ UserFirst

-----------------------------------------------------------------------------

LEMMA Constants ==
  /\ Kinds \subseteq {"calendar", "contact"} /\ "calendar" \in Kinds
BY AccountAssumption DEF AccountAssumption

LEMMA IdleLegal == Legal(Idle) /\ Idle.pc \in Early
<1>1. IsFiniteSet({})
  BY FS_EmptySet
<1>2. Idle \in Process
  BY Constants DEF Idle, Process, Ops, Places
<1> QED
  BY <1>1, <1>2 DEF Idle, Legal, OpsAt, Early

\* The invariant holds after a step in which one process goes on, the user may be
\* committed, and no other row changes.
LEMMA QuietStep ==
  ASSUME RowsInv, NEW p \in Procs, NEW t, Legal(t), proc' = [proc EXCEPT ![p] = t],
         UNCHANGED <<accounts, items, llm_sessions, next_id, mailbox, renames>>,
         registered' \in BOOLEAN, registered => registered',
         registered' \/ t.new_user \/ t.pc \in Early
  PROVE  RowsInv'
<1>1. ProcTyped'
  BY DEF RowsInv, ProcTyped, Legal
<1>2. TablesTyped' /\ MailboxTyped' /\ IdsBelow' /\ IdsUnique' /\ RowsHaveAnAccount'
  BY DEF RowsInv, TablesTyped, MailboxTyped, IdsBelow, IdsUnique, RowsHaveAnAccount
<1>3. UserFirst'
  BY DEF RowsInv, UserFirst, ProcTyped
<1> QED
  BY <1>1, <1>2, <1>3 DEF RowsInv

\* A process that fails.
LEMMA Failing ==
  ASSUME RowsInv, NEW p \in Procs, Fail(p),
         UNCHANGED <<accounts, items, llm_sessions, next_id, mailbox, renames>>
  PROVE  RowsInv'
<1>1. registered \in BOOLEAN
  BY DEF RowsInv, TablesTyped
<1> QED
  BY <1>1, IdleLegal, QuietStep DEF Fail

\* A process that ends without a row of its own.
LEMMA Succeeding ==
  ASSUME RowsInv, NEW p \in Procs, Succeed(p),
         UNCHANGED <<accounts, items, llm_sessions, next_id, mailbox, renames>>
  PROVE  RowsInv'
<1>1. registered \in BOOLEAN /\ proc[p].new_user \in BOOLEAN
  BY DEF RowsInv, TablesTyped, ProcTyped, Process
<1> QED
  BY <1>1, IdleLegal, QuietStep DEF Succeed

\* What is known of a process.
LEMMA Known ==
  ASSUME RowsInv, NEW p \in Procs
  PROVE  /\ Legal(proc[p]) /\ proc[p] \in Process
         /\ registered \/ proc[p].new_user \/ proc[p].pc \in Early
         /\ registered \in BOOLEAN
BY DEF RowsInv, ProcTyped, UserFirst, TablesTyped

\* A process that goes to another place.
LEMMA Going ==
  ASSUME RowsInv, NEW p \in Procs, NEW place \in Places, Goto(p, place),
         place \notin {"select_email", "write_account"}, proc[p].op \in OpsAt(place),
         registered \/ proc[p].new_user \/ place \in Early,
         UNCHANGED <<tables, mailbox, renames>>
  PROVE  RowsInv'
<1> DEFINE t == [proc[p] EXCEPT !.pc = place]
<1>1. Legal(t) /\ t.pc = place /\ t.new_user = proc[p].new_user
  BY Known DEF Legal, Process
<1>2. proc' = [proc EXCEPT ![p] = t]
  BY DEF Goto
<1>3. registered \in BOOLEAN
  BY Known
<1> HIDE DEF t
<1> QED
  BY <1>1, <1>2, <1>3, QuietStep DEF tables

LEMMA SelectUser ==
  ASSUME RowsInv, NEW p \in Procs, select_user(p)
  PROVE  RowsInv'
<1> DEFINE place == IF registered THEN Continue(proc[p].op) ELSE "insert_user"
<1>1. proc[p].op \in Ops \ {"none", "sync_task", "sync_all"}
  BY Known DEF select_user, Legal, OpsAt
<1>2. /\ place \in Places /\ proc[p].op \in OpsAt(place)
      /\ place \notin {"select_email", "write_account"}
  BY <1>1 DEF Continue, Places, Ops, OpsAt
<1>3. registered \/ place \in Early
  BY DEF Early
<1> HIDE DEF place
<1>4. Goto(p, place)
  BY DEF place, select_user
<1> QED
  BY <1>2, <1>3, <1>4, Going DEF select_user, bounds

LEMMA InsertUser ==
  ASSUME RowsInv, NEW p \in Procs, insert_user(p)
  PROVE  RowsInv'
<1>1. CASE registered
  BY <1>1, Failing DEF insert_user, Fail, tables, bounds
<1>2. CASE ~registered
  <2> DEFINE place == Continue(proc[p].op)
             t == [proc[p] EXCEPT !.new_user = TRUE, !.pc = place]
  <2>1. proc[p].op \in Ops \ {"none", "sync_task", "sync_all"}
    BY Known DEF insert_user, Legal, OpsAt
  <2>2. /\ place \in Places /\ proc[p].op \in OpsAt(place)
        /\ place \notin {"select_email", "write_account"}
    BY <2>1 DEF Continue, Places, Ops, OpsAt
  <2>3. Legal(t) /\ t.new_user
    BY <2>1, <2>2, Known DEF Legal, Process
  <2>4. proc' = [proc EXCEPT ![p] = t]
    BY <1>2 DEF insert_user
  <2> HIDE DEF t
  <2> QED
    BY <2>3, <2>4, Known, QuietStep DEF insert_user, tables, bounds
<1> QED
  BY <1>1, <1>2

LEMMA Respond ==
  ASSUME RowsInv, NEW p \in Procs, respond(p)
  PROVE  RowsInv'
BY Succeeding DEF respond, bounds

\* A request or task begins.
LEMMA Entering ==
  ASSUME RowsInv, NEW p \in Procs, NEW op \in Ops, NEW kind \in Kinds, NEW place \in Places,
         Enter(p, op, kind, place), place \in {"select_user", "select_accounts"}, op \in OpsAt(place), registered \/ place \in Early
  PROVE  RowsInv'
<1> DEFINE t == [Idle EXCEPT !.op = op, !.kind = kind, !.pc = place]
<1>1. Legal(t) /\ t.pc = place
  <2>1. Idle \in Process /\ IsFiniteSet(Idle.pending) /\ ~Idle.new_user
    BY IdleLegal DEF Legal, Idle
  <2>2. /\ t \in Process /\ t.pc = place /\ t.op = op /\ t.pending = Idle.pending
        /\ t.new_user = Idle.new_user
    BY <2>1 DEF Process
  <2> QED
    BY <2>1, <2>2 DEF Legal
<1>2. proc' = [proc EXCEPT ![p] = t]
  BY DEF Enter
<1> HIDE DEF t
<1> QED
  BY <1>1, <1>2, Known, QuietStep DEF Enter, tables

LEMMA Requesting ==
  ASSUME RowsInv, NEW p \in Procs, Request(p)
  PROVE  RowsInv'
<1>1. PICK op \in Operations :
        \/ /\ op \in {"add_account", "verify", "delete", "patch", "parse", "list"}
           /\ Enter(p, op, "calendar", "select_user")
        \/ op = "sync" /\ \E k \in Kinds : Enter(p, op, k, "select_user")
        \/ op = "sync_task" /\ registered /\ \E k \in Kinds : Enter(p, op, k, "select_accounts")
  BY DEF Request
<1>2. "select_user" \in Places /\ "select_user" \in Early /\ "select_accounts" \in Places
      /\ OpsAt("select_user") = Ops \ {"none", "sync_task", "sync_all"}
      /\ "sync_task" \in OpsAt("select_accounts")
  BY DEF Places, Early, OpsAt
<1>3. CASE op \in {"add_account", "verify", "delete", "patch", "parse", "list"}
           /\ Enter(p, op, "calendar", "select_user")
  <2>1. op \in Ops /\ op \in OpsAt("select_user")
    BY <1>2, <1>3 DEF Ops
  <2> QED
    BY <1>2, <1>3, <2>1, Entering, Constants
<1>4. CASE op = "sync" /\ \E k \in Kinds : Enter(p, op, k, "select_user")
  <2>1. op \in Ops /\ op \in OpsAt("select_user")
    BY <1>2, <1>4 DEF Ops
  <2> QED
    BY <1>2, <1>4, <2>1, Entering
<1>5. CASE op = "sync_task" /\ registered /\ \E k \in Kinds : Enter(p, op, k, "select_accounts")
  <2>1. op \in Ops /\ op \in OpsAt("select_accounts")
    BY <1>2, <1>5 DEF Ops
  <2> QED
    BY <1>2, <1>5, <2>1, Entering
<1> QED
  BY <1>1, <1>3, <1>4, <1>5

LEMMA SyncAll ==
  ASSUME RowsInv, NEW p \in Procs, NEW kind \in Kinds, sync_all(p, kind)
  PROVE  RowsInv'
<1>1. "sync_all" \in Ops /\ "select_accounts" \in Places
      /\ "sync_all" \in OpsAt("select_accounts")
  BY DEF Ops, Places, OpsAt
<1> QED
  BY <1>1, Entering DEF sync_all

-----------------------------------------------------------------------------
(* The endpoints.                                                           *)

LEMMA CheckCredentials ==
  ASSUME RowsInv, NEW p \in Procs, check_credentials(p)
  PROVE  RowsInv'
<1>1. ASSUME NEW e \in Emails, UNCHANGED <<registered, failures>>,
             proc' = [proc EXCEPT ![p].email = e, ![p].pc = "select_email"]
      PROVE  RowsInv'
  <2> DEFINE t == [proc[p] EXCEPT !.email = e, !.pc = "select_email"]
  <2>0. /\ t \in Process /\ t.new_user = proc[p].new_user /\ t.op = proc[p].op
        /\ t.pc = "select_email" /\ t.email = e /\ t.pending = proc[p].pending
    BY <1>1, Known DEF Process, Places
  <2>1. Legal(t)
    BY <2>0, Known DEF check_credentials, Legal, OpsAt
  <2>2. proc' = [proc EXCEPT ![p] = t]
    BY <1>1
  <2>3. registered \/ proc[p].new_user
    BY Known DEF check_credentials, Early
  <2> HIDE DEF t
  <2> QED
    BY <1>1, <2>0, <2>1, <2>2, <2>3, Known, QuietStep DEF check_credentials
<1> QED
  BY <1>1, Failing DEF check_credentials

LEMMA SelectEmail ==
  ASSUME RowsInv, NEW p \in Procs, select_email(p)
  PROVE  RowsInv'
<1>1. ASSUME NEW id \in Nat, registered' = registered,
             proc' = [proc EXCEPT ![p].found = id, ![p].pc = "write_account"]
      PROVE  RowsInv'
  <2> DEFINE t == [proc[p] EXCEPT !.found = id, !.pc = "write_account"]
  <2>0. /\ t \in Process /\ t.new_user = proc[p].new_user /\ t.op = proc[p].op
        /\ t.pc = "write_account" /\ t.email = proc[p].email /\ t.pending = proc[p].pending
    BY <1>1, Known DEF Process, Places
  <2>1. Legal(t)
    BY <2>0, Known DEF select_email, Legal, OpsAt
  <2>2. proc' = [proc EXCEPT ![p] = t]
    BY <1>1
  <2>3. registered \/ proc[p].new_user
    BY Known DEF select_email, Early
  <2> HIDE DEF t
  <2> QED
    BY <1>1, <2>0, <2>1, <2>2, <2>3, Known, QuietStep DEF select_email, bounds
<1>2. {a.id : a \in {b \in accounts : b.email = proc[p].email}} \subseteq Nat
  BY DEF RowsInv, TablesTyped, AccountRow, Ids
<1> QED
  BY <1>1, <1>2, Failing DEF select_email, bounds

LEMMA WriteAccount ==
  ASSUME RowsInv, NEW p \in Procs, write_account(p)
  PROVE  RowsInv'
<1> DEFINE id == proc[p].found
           gone == id # 0 /\ \A a \in accounts : a.id # id
           new == IF id = 0 THEN next_id ELSE id
           row == [id |-> new, email |-> proc[p].email, status |-> "active"]
           t == [proc[p] EXCEPT !.new_user = FALSE, !.found = 0, !.email = "",
                                !.pc = "select_accounts"]
<1>1. CASE gone /\ Fail(p) /\ UNCHANGED <<accounts, next_id>>
  BY <1>1, Failing DEF write_account, bounds
<1>2. CASE /\ ~gone
           /\ accounts' = {a \in accounts : a.id # id} \cup {row}
           /\ next_id' = IF id = 0 THEN next_id + 1 ELSE next_id
           /\ registered' = (registered \/ proc[p].new_user)
           /\ proc' = [proc EXCEPT ![p].new_user = FALSE, ![p].found = 0, ![p].email = "",
                                   ![p].pc = "select_accounts"]
  <2>1. /\ Legal(proc[p]) /\ proc[p] \in Process /\ proc[p].email \in Emails
        /\ proc[p].op = "add_account" /\ registered \in BOOLEAN
        /\ registered \/ proc[p].new_user
    BY Known DEF write_account, Legal, OpsAt, Early
  <2>2. /\ new \in Ids /\ new < next_id' /\ next_id' \in Ids /\ next_id <= next_id'
        /\ \A a \in accounts : a.id = new <=> a.id = id
    <3>1. id \in Nat /\ next_id \in Ids /\ \A a \in accounts : a.id \in Ids /\ a.id < next_id
      BY <2>1 DEF RowsInv, TablesTyped, IdsBelow, AccountRow, Process
    <3>0. next_id' = (IF id = 0 THEN next_id + 1 ELSE next_id) /\ ~gone
      BY <1>2
    <3> HIDE DEF id
    <3>2. CASE id = 0
      BY <3>0, <3>1, <3>2 DEF Ids
    <3>3. CASE id # 0
      BY <3>0, <3>1, <3>3 DEF Ids
    <3> QED
      BY <3>2, <3>3
  <2>3. row \in AccountRow /\ row.id = new
    BY <2>1, <2>2 DEF AccountRow
  <2>4. \A a \in accounts : a \in accounts' \/ (a.id = new /\ row \in accounts')
    BY <1>2, <2>2, <2>3
  <2>5. \A a \in accounts' : a = row \/ (a \in accounts /\ a.id # new)
    BY <1>2, <2>2, <2>3
  <2>6. /\ t \in Process /\ t.op = proc[p].op
        /\ t.pc = "select_accounts" /\ t.pending = proc[p].pending
    BY <2>1 DEF Process, Places
  <2>7. Legal(t)
    BY <2>1, <2>6 DEF Legal, OpsAt
  <2>8. proc' = [proc EXCEPT ![p] = t]
    BY <1>2
  <2>9. UNCHANGED <<items, llm_sessions, mailbox, renames>> /\ registered' = TRUE
    BY <1>2, <2>1 DEF write_account, bounds
  <2> HIDE DEF t, row, new
  <2>10. ProcTyped'
    BY <2>7, <2>8 DEF RowsInv, ProcTyped, Legal
  <2>11. TablesTyped' /\ MailboxTyped'
    BY <2>2, <2>3, <2>5, <2>9 DEF RowsInv, TablesTyped, MailboxTyped
  <2>12. IdsBelow'
    BY <2>2, <2>3, <2>5, <2>9
    DEF RowsInv, TablesTyped, IdsBelow, Ids, AccountRow, ItemRow, SessionRow
  <2>13. IdsUnique'
    BY <2>3, <2>5, <2>9 DEF RowsInv, IdsUnique
  <2>14. RowsHaveAnAccount'
    BY <2>3, <2>4, <2>9 DEF RowsInv, RowsHaveAnAccount
  <2> QED
    BY <2>9, <2>10, <2>11, <2>12, <2>13, <2>14 DEF RowsInv, UserFirst
<1> QED
  BY <1>1, <1>2 DEF write_account

LEMMA SelectAccount ==
  ASSUME RowsInv, NEW p \in Procs, select_account(p)
  PROVE  RowsInv'
<1>1. ASSUME NEW a \in accounts, registered' = registered,
             proc' = [proc EXCEPT ![p].found = a.id, ![p].pc = proc[p].op]
      PROVE  RowsInv'
  <2> DEFINE t == [proc[p] EXCEPT !.found = a.id, !.pc = proc[p].op]
  <2>1. /\ Legal(proc[p]) /\ proc[p].op \in {"verify", "delete"} /\ a.id \in Nat
        /\ registered \/ proc[p].new_user
    BY <1>1, Known
    DEF select_account, Legal, OpsAt, Early, RowsInv, TablesTyped, AccountRow, Ids
  <2>2. /\ t \in Process /\ t.new_user = proc[p].new_user /\ t.op = proc[p].op
        /\ t.pc = proc[p].op /\ t.pending = proc[p].pending
    BY <2>1 DEF Process, Places, Legal
  <2>3. Legal(t)
    BY <2>1, <2>2 DEF Legal, OpsAt
  <2>4. proc' = [proc EXCEPT ![p] = t]
    BY <1>1
  <2> HIDE DEF t
  <2> QED
    BY <1>1, <2>1, <2>2, <2>3, <2>4, Known, QuietStep DEF select_account, bounds
<1> QED
  BY <1>1, Failing DEF select_account, bounds

\* A process that ends, whatever it has written.
LEMMA Ending ==
  ASSUME RowsInv, NEW p \in Procs, proc' = [proc EXCEPT ![p] = Idle]
  PROVE  ProcTyped' /\ (registered \/ proc[p].new_user \/ proc[p].pc \in Early)
BY IdleLegal, Known DEF RowsInv, ProcTyped, Legal

LEMMA Verify ==
  ASSUME RowsInv, NEW p \in Procs, verify(p)
  PROVE  RowsInv'
<1> DEFINE set(a) == IF a.id = proc[p].found THEN [a EXCEPT !.status = "active"] ELSE a
<1>1. CASE SetStatus(proc[p].found, "active") /\ Succeed(p)
  <2>1. \A a \in accounts : set(a) = a
    BY DEF RowsInv, TablesTyped, AccountRow
  <2>2. accounts' = {set(a) : a \in accounts}
    BY <1>1 DEF SetStatus
  <2>3. accounts' = accounts
    BY <2>1, <2>2
  <2> QED
    BY <1>1, <2>3, Succeeding DEF verify
<1>2. CASE CallFails /\ Fail(p) /\ UNCHANGED accounts
  BY <1>2, Failing DEF verify
<1> QED
  BY <1>1, <1>2 DEF verify

LEMMA Delete ==
  ASSUME RowsInv, NEW p \in Procs, delete(p)
  PROVE  RowsInv'
<1>1. /\ proc' = [proc EXCEPT ![p] = Idle] /\ registered' = (registered \/ proc[p].new_user)
      /\ accounts' \subseteq accounts /\ items' \subseteq items
      /\ UNCHANGED <<llm_sessions, next_id, mailbox, renames>>
  BY DEF delete, Succeed, bounds
<1>2. registered' = TRUE
  BY <1>1, Known DEF delete, Early
<1>3. RowsHaveAnAccount'
  BY DEF delete, RowsInv, RowsHaveAnAccount
<1>4. TablesTyped' /\ MailboxTyped' /\ IdsBelow' /\ IdsUnique'
  BY <1>1, <1>2 DEF RowsInv, TablesTyped, MailboxTyped, IdsBelow, IdsUnique
<1> QED
  BY <1>1, <1>2, <1>3, <1>4, Ending DEF RowsInv, UserFirst

LEMMA SelectCalendar ==
  ASSUME RowsInv, NEW p \in Procs, select_calendar(p)
  PROVE  RowsInv'
<1>1. ASSUME NEW i \in items, NEW changed \in SUBSET Flags, registered' = registered,
             proc' = [proc EXCEPT ![p].found = i.id, ![p].pc = "patch",
                                  ![p].patch = {<<f, ~i.flags[f]>> : f \in changed}]
      PROVE  RowsInv'
  <2> DEFINE other(f) == ~i.flags[f]
             patch == {<<f, other(f)>> : f \in changed}
             t == [proc[p] EXCEPT !.found = i.id, !.pc = "patch", !.patch = patch]
  <2>1. /\ Legal(proc[p]) /\ proc[p].op = "patch" /\ i.id \in Nat
        /\ registered \/ proc[p].new_user
    BY <1>1, Known DEF select_calendar, Legal, OpsAt, Early, RowsInv, TablesTyped, ItemRow, Ids
  <2>2. \A f \in changed : f \in Flags /\ other(f) \in BOOLEAN
    BY <1>1
  <2>3. proc' = [proc EXCEPT ![p] = t]
    BY <1>1
  <2> HIDE DEF other
  <2>4. patch \subseteq Flags \X BOOLEAN
    BY <2>2
  <2> HIDE DEF patch
  <2>5. /\ t \in Process /\ t.new_user = proc[p].new_user /\ t.op = proc[p].op
        /\ t.pc = "patch" /\ t.pending = proc[p].pending
    BY <2>1, <2>4 DEF Process, Places, Legal
  <2>6. Legal(t)
    BY <2>1, <2>5 DEF Legal, OpsAt
  <2> HIDE DEF t
  <2> QED
    BY <1>1, <2>1, <2>5, <2>6, <2>3, Known, QuietStep DEF select_calendar, bounds
<1> QED
  BY <1>1, Failing DEF select_calendar, bounds

\* A step that changes items and keeps their ids, accounts and types.
LEMMA ItemStep ==
  ASSUME RowsInv, registered' = TRUE, ProcTyped',
         UNCHANGED <<accounts, llm_sessions, mailbox, renames>>,
         next_id' \in Ids, next_id <= next_id', items' \subseteq ItemRow,
         \A i \in items' : i.id < next_id',
         \A i, j \in items' : i.id = j.id => i = j,
         \A i \in items' : \E a \in accounts : a.id = i.account
  PROVE  RowsInv'
<1>1. TablesTyped' /\ MailboxTyped' /\ RowsHaveAnAccount' /\ IdsUnique'
  BY DEF RowsInv, TablesTyped, MailboxTyped, RowsHaveAnAccount, IdsUnique
<1>2. IdsBelow'
  BY DEF RowsInv, TablesTyped, IdsBelow, Ids, AccountRow, SessionRow
<1> QED
  BY <1>1, <1>2 DEF RowsInv, UserFirst

LEMMA PatchCalendar ==
  ASSUME RowsInv, NEW p \in Procs, patch_calendar(p)
  PROVE  RowsInv'
<1> DEFINE id == proc[p].found
           set(i) == IF i.id = id THEN [i EXCEPT !.flags = Patched(@, proc[p].patch)] ELSE i
<1>1. CASE items' = {set(i) : i \in items} /\ Succeed(p)
  <2>1. \A flags : Patched(flags, proc[p].patch) \in [Flags -> BOOLEAN]
    BY DEF Patched, Flags
  <2>2. \A i \in items : set(i) \in ItemRow /\ set(i).id = i.id /\ set(i).account = i.account
    BY <2>1 DEF RowsInv, TablesTyped, ItemRow
  <2> HIDE DEF set
  <2>3. \A j \in items' : \E i \in items : j = set(i)
    BY <1>1
  <2>4. registered' = TRUE /\ ProcTyped'
    BY <1>1, Known, Ending DEF Succeed, patch_calendar, Early
  <2>5. UNCHANGED <<accounts, llm_sessions, next_id, mailbox, renames>>
    BY DEF patch_calendar, bounds
  <2>6. next_id \in Ids /\ next_id <= next_id
    BY DEF RowsInv, TablesTyped, Ids
  <2>7. items' \subseteq ItemRow /\ \A i \in items' : i.id < next_id
    BY <2>2, <2>3 DEF RowsInv, IdsBelow
  <2>8. \A i, j \in items' : i.id = j.id => i = j
    BY <2>2, <2>3 DEF RowsInv, IdsUnique
  <2>9. \A i \in items' : \E a \in accounts : a.id = i.account
    BY <2>2, <2>3 DEF RowsInv, RowsHaveAnAccount
  <2> QED
    BY <2>4, <2>5, <2>6, <2>7, <2>8, <2>9, ItemStep
<1>2. CASE Fail(p) /\ UNCHANGED items
  BY <1>2, Failing DEF patch_calendar, bounds
<1> QED
  BY <1>1, <1>2 DEF patch_calendar

-----------------------------------------------------------------------------
(* The copy of the mailboxes.                                               *)

LEMMA SelectAccounts ==
  ASSUME RowsInv, NEW p \in Procs, select_accounts(p)
  PROVE  RowsInv'
<1> DEFINE todo == {a \in accounts : a.status = "active"}
           t == [proc[p] EXCEPT !.todo = todo, !.pc = "list_mailbox"]
<1>1. todo \subseteq AccountRow
  BY DEF RowsInv, TablesTyped
<1>2. proc' = [proc EXCEPT ![p] = t]
  BY DEF select_accounts
<1> HIDE DEF todo
<1>3. proc[p] \in Process
  BY Known
<1>4. /\ t \in Process /\ t.new_user = proc[p].new_user /\ t.op = proc[p].op
      /\ t.pc = "list_mailbox" /\ t.pending = proc[p].pending
  BY <1>1, <1>3 DEF Process, Places
<1>5. Legal(t)
  BY <1>4, Known DEF Legal, OpsAt, select_accounts
<1>6. registered \/ proc[p].new_user
  BY Known DEF select_accounts, Early
<1> HIDE DEF t
<1> QED
  BY <1>2, <1>4, <1>5, <1>6, Known, QuietStep DEF select_accounts, tables, bounds

\* A turn of the loops of a sync: the place and what is known of the user stay.
LEMMA Turn ==
  ASSUME RowsInv, NEW p \in Procs, NEW t \in Process, IsFiniteSet(t.pending),
         t.pc = proc[p].pc, t.pc = "list_mailbox", t.op = proc[p].op,
         t.new_user = proc[p].new_user,
         proc' = [proc EXCEPT ![p] = t], UNCHANGED <<tables, mailbox, renames>>
  PROVE  RowsInv'
<1>1. Legal(t)
  BY Known DEF Legal, OpsAt
<1>2. registered \/ proc[p].new_user
  BY Known DEF Early
<1> QED
  BY <1>1, <1>2, Known, QuietStep DEF tables

LEMMA ListMailbox ==
  ASSUME RowsInv, NEW p \in Procs, list_mailbox(p)
  PROVE  RowsInv'
<1>1. PICK a \in proc[p].todo :
        \/ /\ proc' = [proc EXCEPT
                         ![p].todo = @ \ {a}, ![p].account = a.id,
                         ![p].listing = {i \in mailbox[a.email] :
                                           ~(SyncsCalendars(p) /\ i.name = Birthdays)}]
           /\ UNCHANGED failures
        \/ /\ CallFails
           /\ proc' = [proc EXCEPT ![p].todo = @ \ {a}]
  BY DEF list_mailbox
<1>2. /\ Legal(proc[p]) /\ proc[p] \in Process /\ proc[p].pc = "list_mailbox"
      /\ a \in AccountRow /\ a.id \in Nat /\ mailbox[a.email] \in SUBSET Listed
      /\ UNCHANGED <<tables, mailbox, renames>>
  <2>1. Legal(proc[p]) /\ proc[p] \in Process
    BY Known
  <2>2. a \in AccountRow
    BY <2>1 DEF Process
  <2>3. a.id \in Nat /\ a.email \in Emails
    BY <2>2 DEF AccountRow, Ids
  <2> QED
    BY <2>1, <2>2, <2>3 DEF list_mailbox, RowsInv, MailboxTyped
<1>3. CASE proc' = [proc EXCEPT
                      ![p].todo = @ \ {a}, ![p].account = a.id,
                      ![p].listing = {i \in mailbox[a.email] :
                                        ~(SyncsCalendars(p) /\ i.name = Birthdays)}]
  <2> DEFINE listing == {i \in mailbox[a.email] : ~(SyncsCalendars(p) /\ i.name = Birthdays)}
             t == [proc[p] EXCEPT !.todo = @ \ {a}, !.account = a.id, !.listing = listing]
  <2>1. listing \subseteq Listed
    BY <1>2
  <2>2. proc' = [proc EXCEPT ![p] = t]
    BY <1>3
  <2> HIDE DEF listing
  <2>3. /\ t \in Process /\ t.new_user = proc[p].new_user /\ t.op = proc[p].op
        /\ t.pc = proc[p].pc /\ t.pending = proc[p].pending
    BY <1>2, <2>1 DEF Process
  <2> HIDE DEF t
  <2> QED
    BY <1>2, <2>2, <2>3, Turn DEF Legal
<1>4. CASE proc' = [proc EXCEPT ![p].todo = @ \ {a}]
  <2> DEFINE t == [proc[p] EXCEPT !.todo = @ \ {a}]
  <2>1. proc' = [proc EXCEPT ![p] = t]
    BY <1>4
  <2>2. /\ t \in Process /\ t.new_user = proc[p].new_user /\ t.op = proc[p].op
        /\ t.pc = proc[p].pc /\ t.pending = proc[p].pending
    BY <1>2 DEF Process
  <2> HIDE DEF t
  <2> QED
    BY <1>2, <2>1, <2>2, Turn DEF Legal
<1> QED
  BY <1>1, <1>3, <1>4

LEMMA UpsertItem ==
  ASSUME RowsInv, NEW p \in Procs, upsert_item(p)
  PROVE  RowsInv'
<1>1. PICK i \in proc[p].listing :
        LET rows == RowsOf(proc[p].kind, proc[p].account, i.external) IN
        \/ proc' = [proc EXCEPT ![p].listing = {}]
        \/ \E id \in (IF rows = {} THEN {0} ELSE {r.id : r \in rows}) :
             proc' = [proc EXCEPT
                        ![p].listing = @ \ {i},
                        ![p].pending = @ \cup {[id |-> id, account |-> proc[p].account,
                                                external |-> i.external, name |-> i.name]}]
  BY DEF upsert_item
<1>2. /\ Legal(proc[p]) /\ proc[p] \in Process /\ proc[p].pc = "list_mailbox"
      /\ i \in Listed /\ UNCHANGED <<tables, mailbox, renames>>
  BY Known DEF upsert_item, Process, bounds
<1>3. CASE proc' = [proc EXCEPT ![p].listing = {}]
  <2> DEFINE t == [proc[p] EXCEPT !.listing = {}]
  <2>1. proc' = [proc EXCEPT ![p] = t]
    BY <1>3
  <2>2. /\ t \in Process /\ t.new_user = proc[p].new_user /\ t.op = proc[p].op
        /\ t.pc = proc[p].pc /\ t.pending = proc[p].pending
    BY <1>2 DEF Process
  <2> HIDE DEF t
  <2> QED
    BY <1>2, <2>1, <2>2, Turn DEF Legal
<1>4. ASSUME NEW id \in Nat,
             proc' = [proc EXCEPT
                        ![p].listing = @ \ {i},
                        ![p].pending = @ \cup {[id |-> id, account |-> proc[p].account,
                                                external |-> i.external, name |-> i.name]}]
      PROVE  RowsInv'
  <2> DEFINE row == [id |-> id, account |-> proc[p].account, external |-> i.external,
                     name |-> i.name]
             t == [proc[p] EXCEPT !.listing = @ \ {i}, !.pending = @ \cup {row}]
  <2>1. proc' = [proc EXCEPT ![p] = t]
    BY <1>4
  <2>2. row \in PendingRow
    BY <1>2, <1>4 DEF PendingRow, Listed, Process
  <2> HIDE DEF row
  <2>3. /\ t \in Process /\ t.new_user = proc[p].new_user /\ t.op = proc[p].op
        /\ t.pc = proc[p].pc /\ t.pending = proc[p].pending \cup {row}
    BY <1>2, <2>2 DEF Process
  <2>4. IsFiniteSet(t.pending)
    BY <1>2, <2>3, FS_AddElement DEF Legal
  <2> HIDE DEF t
  <2> QED
    BY <1>2, <2>1, <2>3, <2>4, Turn
<1>5. {r.id : r \in RowsOf(proc[p].kind, proc[p].account, i.external)} \subseteq Nat
  BY DEF RowsOf, RowsInv, TablesTyped, ItemRow, Ids
<1> QED
  BY <1>1, <1>3, <1>4, <1>5

\* What a commit makes of the rows that were there,
LEMMA UpdatedRow ==
  ASSUME RowsInv, NEW p \in Procs, NEW i \in items
  PROVE  LET j == Updated(i, proc[p].pending) IN
         /\ j \in ItemRow /\ j.id = i.id /\ j.kind = i.kind /\ j.account = i.account
         /\ j.external = i.external /\ j.flags = i.flags
<1> DEFINE w == CHOOSE w \in proc[p].pending : w.id = i.id
<1>1. i \in ItemRow /\ proc[p].pending \subseteq PendingRow
  BY Known DEF RowsInv, TablesTyped, Process
<1>2. ASSUME \E v \in proc[p].pending : v.id = i.id
      PROVE  w.name \in Nat
  BY <1>1, <1>2 DEF PendingRow
<1> QED
  BY <1>1, <1>2 DEF Updated, ItemRow

\* and the ids that it gives to the new ones.
LEMMA NewIds ==
  ASSUME RowsInv, NEW p \in Procs
  PROVE  LET new == Inserts(proc[p].pending) IN
         /\ next_id \in Ids /\ Cardinality(new) \in Nat
         /\ \A k \in next_id..(next_id + Cardinality(new) - 1) :
              k \in Ids /\ next_id <= k /\ k < next_id + Cardinality(new)
<1>1. Inserts(proc[p].pending) \subseteq proc[p].pending
  BY DEF Inserts
<1>2. IsFiniteSet(Inserts(proc[p].pending))
  BY <1>1, Known, FS_Subset DEF Legal
<1>3. Cardinality(Inserts(proc[p].pending)) \in Nat
  BY <1>2, FS_CardinalityType
<1> QED
  BY <1>3 DEF RowsInv, TablesTyped, Ids

LEMMA CommitSync ==
  ASSUME RowsInv, NEW p \in Procs, commit_sync(p)
  PROVE  RowsInv'
<1> DEFINE new == Inserts(proc[p].pending)
           n == Cardinality(new)
           set(i) == Updated(i, proc[p].pending)
<1>1. PICK id \in [new -> next_id..(next_id + n - 1)] :
        /\ \A v, w \in new : v # w => id[v] # id[w]
        /\ items' = {set(i) : i \in items} \cup
                     {[id |-> id[w], kind |-> proc[p].kind, account |-> w.account,
                       external |-> w.external, name |-> w.name, flags |-> NewFlags] : w \in new}
  BY DEF commit_sync, Write
<1> DEFINE make(w) == [id |-> id[w], kind |-> proc[p].kind, account |-> w.account,
                       external |-> w.external, name |-> w.name, flags |-> NewFlags]
<1>2. \A i \in items : /\ set(i) \in ItemRow /\ set(i).id = i.id
                        /\ set(i).account = i.account
  BY UpdatedRow
<1>3. /\ next_id \in Ids /\ n \in Nat
      /\ \A w \in new : id[w] \in Ids /\ next_id <= id[w] /\ id[w] < next_id + n
  BY <1>1, NewIds
<1>4. \A w \in new : \E a \in accounts : a.id = w.account
  BY DEF commit_sync, CanCommit, Inserts
<1>5. \A w \in new : make(w) \in ItemRow /\ make(w).id = id[w] /\ make(w).account = w.account
  <2>1. proc[p].kind \in Kinds /\ new \subseteq PendingRow
    BY Known DEF Process, Inserts
  <2>2. NewFlags \in [Flags -> BOOLEAN]
    BY DEF NewFlags
  <2>3. \A w \in new : w.account \in Ids
    BY <1>4 DEF RowsInv, TablesTyped, AccountRow
  <2> QED
    BY <1>3, <2>1, <2>2, <2>3 DEF ItemRow, PendingRow
<1>6. \A j \in items' : (\E i \in items : j = set(i)) \/ (\E w \in new : j = make(w))
  BY <1>1
<1>7. next_id' = next_id + n /\ UNCHANGED <<accounts, llm_sessions, mailbox, renames>>
  BY DEF commit_sync, Write, bounds
<1>8. registered' = TRUE /\ ProcTyped'
  BY Known, Ending DEF commit_sync, AllListed, Succeed, Early
<1> HIDE DEF set, make, n, new
<1>9. items' \subseteq ItemRow
  BY <1>2, <1>5, <1>6
<1>10. \A i \in items : i.id < next_id /\ i.id \in Ids
  BY DEF RowsInv, IdsBelow, TablesTyped, ItemRow
<1>11. \A j \in items' : j.id < next_id'
  BY <1>2, <1>3, <1>5, <1>6, <1>7, <1>10 DEF Ids
<1>12. \A i, j \in items' : i.id = j.id => i = j
  <2>1. \A i, j \in items : i.id = j.id => i = j
    BY DEF RowsInv, IdsUnique
  <2>2. \A i \in items, w \in new : set(i).id # make(w).id
    BY <1>2, <1>3, <1>5, <1>10 DEF Ids
  <2> QED
    BY <1>1, <1>2, <1>5, <1>6, <2>1, <2>2
<1>13. \A j \in items' : \E a \in accounts : a.id = j.account
  BY <1>2, <1>4, <1>5, <1>6 DEF RowsInv, RowsHaveAnAccount
<1>14. next_id' \in Ids /\ next_id <= next_id'
  BY <1>3, <1>7 DEF Ids
<1> QED
  BY <1>7, <1>8, <1>9, <1>11, <1>12, <1>13, <1>14, ItemStep

LEMMA RollbackSync ==
  ASSUME RowsInv, NEW p \in Procs, rollback_sync(p)
  PROVE  RowsInv'
<1>1. /\ Legal(proc[p]) /\ proc[p] \in Process /\ registered \in BOOLEAN
      /\ registered \/ proc[p].new_user
      /\ UNCHANGED <<tables, mailbox, renames>>
  BY Known DEF rollback_sync, AllListed, Early, bounds
<1>2. CASE proc' = [proc EXCEPT ![p] = Idle]
  BY <1>1, <1>2, Failing DEF Fail, tables
<1>3. CASE /\ proc[p].op = "sync_task" /\ proc[p].retries < max_retries
           /\ proc' = [proc EXCEPT ![p] = [Idle EXCEPT !.op = "sync_task",
                         !.kind = proc[p].kind, !.pc = "select_accounts",
                         !.retries = proc[p].retries + 1]]
  <2> DEFINE t == [Idle EXCEPT !.op = "sync_task", !.kind = proc[p].kind,
                               !.pc = "select_accounts", !.retries = proc[p].retries + 1]
  <2>0. proc[p].kind \in Kinds /\ proc[p].retries \in Nat
    BY <1>1 DEF Process
  <2>1. proc[p].kind \in Kinds /\ proc[p].retries + 1 \in Nat
    BY <2>0
  <2>2. Idle \in Process /\ IsFiniteSet(Idle.pending) /\ ~Idle.new_user
    BY IdleLegal DEF Legal, Idle
  <2>6. /\ t \in Process /\ t.op = "sync_task" /\ t.pc = "select_accounts"
        /\ t.pending = Idle.pending /\ t.new_user = Idle.new_user
    BY <2>1, <2>2 DEF Process, Ops, Places
  <2>3. Legal(t)
    BY <2>2, <2>6 DEF Legal, OpsAt
  <2>4. proc' = [proc EXCEPT ![p] = t]
    BY <1>3
  <2> HIDE DEF t
  <2>5. registered
    BY <1>1, <1>3 DEF Legal
  <2> QED
    BY <1>1, <2>3, <2>4, <2>5, QuietStep DEF tables
<1> QED
  BY <1>2, <1>3 DEF rollback_sync

-----------------------------------------------------------------------------
(* The sessions with the language model.                                    *)

LEMMA SelectSession ==
  ASSUME RowsInv, NEW p \in Procs, select_session(p)
  PROVE  RowsInv'
<1> DEFINE live == {s.id : s \in {t \in llm_sessions : t.live}}
<1>1. CASE Fail(p)
  BY <1>1, Failing DEF select_session, bounds
<1>2. proc[p].op = "parse" /\ (registered \/ proc[p].new_user)
  BY Known DEF select_session, Legal, OpsAt, Early
<1>3. CASE Goto(p, "insert_session") /\ registered' = registered
  <2>1. "insert_session" \in Places /\ "parse" \in OpsAt("insert_session")
    BY DEF Places, OpsAt
  <2> QED
    BY <1>2, <1>3, <2>1, Going DEF select_session, bounds, tables
<1>4. ASSUME NEW id \in live, registered' = registered,
             proc' = [proc EXCEPT ![p].found = id, ![p].pc = "ask_model"]
      PROVE  RowsInv'
  <2> DEFINE t == [proc[p] EXCEPT !.found = id, !.pc = "ask_model"]
  <2>1. id \in Nat
    BY <1>4 DEF RowsInv, TablesTyped, SessionRow, Ids
  <2>2. proc' = [proc EXCEPT ![p] = t]
    BY <1>4
  <2>3. proc[p] \in Process
    BY Known
  <2>4. /\ t \in Process /\ t.op = proc[p].op /\ t.pc = "ask_model"
        /\ t.pending = proc[p].pending /\ t.new_user = proc[p].new_user
    BY <2>1, <2>3 DEF Process, Places
  <2>5. Legal(t)
    BY <1>2, <2>4, Known DEF Legal, OpsAt
  <2> HIDE DEF t
  <2> QED
    BY <1>2, <1>4, <2>2, <2>4, <2>5, Known, QuietStep DEF select_session, bounds
<1>5. ASSUME Cardinality(live) = 1
      PROVE  (CHOOSE id \in live : TRUE) \in live
  <2>1. live # {}
    BY <1>5, FS_EmptySet
  <2> QED
    BY <2>1
<1> QED
  BY <1>1, <1>3, <1>4, <1>5 DEF select_session

\* A step that changes sessions when the user is there.
LEMMA SessionStep ==
  ASSUME RowsInv, registered' = TRUE, ProcTyped',
         UNCHANGED <<accounts, items, mailbox, renames>>,
         next_id' \in Ids, next_id <= next_id', llm_sessions' \subseteq SessionRow,
         \A s \in llm_sessions' : s.id < next_id',
         \A s, t \in llm_sessions' : s.id = t.id => s = t
  PROVE  RowsInv'
<1>1. TablesTyped' /\ MailboxTyped' /\ RowsHaveAnAccount' /\ IdsUnique'
  BY DEF RowsInv, TablesTyped, MailboxTyped, RowsHaveAnAccount, IdsUnique
<1>2. IdsBelow'
  BY DEF RowsInv, TablesTyped, IdsBelow, Ids, AccountRow, ItemRow
<1> QED
  BY <1>1, <1>2 DEF RowsInv, UserFirst

\* Sessions have types and ids of their own.
LEMMA SessionsKnown ==
  ASSUME RowsInv
  PROVE  /\ llm_sessions \subseteq SessionRow /\ next_id \in Ids /\ next_id <= next_id
         /\ \A s \in llm_sessions : s.id < next_id /\ s.id \in Ids
         /\ \A s, t \in llm_sessions : s.id = t.id => s = t
         /\ llm_sessions # {} => registered
         /\ registered \in BOOLEAN
BY DEF RowsInv, TablesTyped, IdsBelow, IdsUnique, UserFirst, SessionRow, Ids

LEMMA InsertSession ==
  ASSUME RowsInv, NEW p \in Procs, insert_session(p)
  PROVE  RowsInv'
<1>1. CASE ~registered /\ Fail(p) /\ UNCHANGED <<llm_sessions, next_id>>
  BY <1>1, Failing DEF insert_session, bounds
<1>2. CASE /\ registered
           /\ llm_sessions' = llm_sessions \cup {[id |-> next_id, live |-> TRUE, turns |-> 0]}
           /\ next_id' = next_id + 1
           /\ proc' = [proc EXCEPT ![p].found = next_id, ![p].extended = TRUE,
                                   ![p].pc = "ask_model"]
           /\ UNCHANGED registered
  <2> DEFINE row == [id |-> next_id, live |-> TRUE, turns |-> 0]
             t == [proc[p] EXCEPT !.found = next_id, !.extended = TRUE, !.pc = "ask_model"]
  <2>1. proc[p] \in Process /\ next_id \in Nat /\ proc[p].op = "parse"
    BY Known, SessionsKnown DEF insert_session, Legal, OpsAt, Ids
  <2>2. /\ t \in Process /\ t.op = proc[p].op /\ t.pc = "ask_model"
        /\ t.pending = proc[p].pending
    BY <2>1 DEF Process, Places
  <2>3. Legal(t)
    BY <2>1, <2>2, Known DEF Legal, OpsAt
  <2>4. proc' = [proc EXCEPT ![p] = t]
    BY <1>2
  <2> HIDE DEF t
  <2>5. ProcTyped'
    BY <2>3, <2>4 DEF RowsInv, ProcTyped, Legal
  <2>6. row \in SessionRow /\ row.id = next_id
    BY SessionsKnown DEF SessionRow, MAX_CONTEXT_TURNS
  <2>7. next_id' \in Ids /\ next_id <= next_id' /\ next_id < next_id'
    BY <1>2, SessionsKnown DEF Ids
  <2>8. \A s \in llm_sessions' : s = row \/ s \in llm_sessions
    BY <1>2
  <2> HIDE DEF row
  <2>9. llm_sessions' \subseteq SessionRow /\ \A s \in llm_sessions' : s.id < next_id'
    BY <2>6, <2>7, <2>8, SessionsKnown DEF Ids
  <2>10. \A s, u \in llm_sessions' : s.id = u.id => s = u
    BY <2>6, <2>8, SessionsKnown DEF Ids
  <2>11. registered' = TRUE /\ UNCHANGED <<accounts, items, mailbox, renames>>
    BY <1>2, Known DEF insert_session, bounds
  <2> QED
    BY <2>5, <2>7, <2>9, <2>10, <2>11, SessionStep
<1> QED
  BY <1>1, <1>2 DEF insert_session

LEMMA AskModel ==
  ASSUME RowsInv, NEW p \in Procs, ask_model(p)
  PROVE  RowsInv'
<1>1. CASE Goto(p, "save_user") /\ UNCHANGED <<registered, failures>>
  <2>1. "save_user" \in Places /\ "parse" \in OpsAt("save_user")
    BY DEF Places, OpsAt
  <2>2. proc[p].op = "parse" /\ (registered \/ proc[p].new_user)
    BY Known DEF ask_model, Legal, OpsAt, Early
  <2> QED
    BY <1>1, <2>1, <2>2, Going DEF ask_model, tables
<1>2. CASE CallFails /\ Fail(p)
  BY <1>2, Failing DEF ask_model
<1> QED
  BY <1>1, <1>2 DEF ask_model

\* A session that takes the place of itself.
LEMMA Replaced ==
  ASSUME RowsInv, NEW s \in llm_sessions, NEW u \in SessionRow, u.id = s.id,
         llm_sessions' = (llm_sessions \ {s}) \cup {u}
  PROVE  /\ llm_sessions' \subseteq SessionRow
         /\ \A v \in llm_sessions' : v.id < next_id
         /\ \A v, w \in llm_sessions' : v.id = w.id => v = w
BY SessionsKnown

LEMMA SaveTurn ==
  ASSUME RowsInv, NEW p \in Procs, save_turn(p)
  PROVE  RowsInv'
<1>1. PICK s \in llm_sessions :
        llm_sessions' = (llm_sessions \ {s}) \cup
                          {[s EXCEPT !.live = TRUE, !.turns = TurnsWritten(@)]}
  BY DEF save_turn
<1> DEFINE u == [s EXCEPT !.live = TRUE, !.turns = TurnsWritten(@)]
<1>2. u \in SessionRow /\ u.id = s.id
  <2>1. s \in SessionRow
    BY SessionsKnown
  <2>2. TurnsWritten(s.turns) \in 0..(MAX_CONTEXT_TURNS * 2)
    BY <2>1 DEF SessionRow, TurnsWritten, MAX_CONTEXT_TURNS
  <2> QED
    BY <2>1, <2>2 DEF SessionRow
<1>3. registered = TRUE
  BY <1>1, SessionsKnown
<1>4. registered' = TRUE /\ ProcTyped'
  <2>1. CASE proc[p].pc = "save_user"
    <3> DEFINE t == [proc[p] EXCEPT !.pc = "save_assistant", !.extended = TRUE]
    <3>1. proc[p] \in Process /\ proc[p].op = "parse"
      BY <2>1, Known DEF Legal, OpsAt
    <3>2. /\ t \in Process /\ t.op = proc[p].op /\ t.pc = "save_assistant"
          /\ t.pending = proc[p].pending
      BY <3>1 DEF Process, Places
    <3>3. Legal(t)
      BY <3>1, <3>2, Known DEF Legal, OpsAt
    <3>4. proc' = [proc EXCEPT ![p] = t] /\ registered' = registered
      BY <2>1 DEF save_turn
    <3> HIDE DEF t
    <3> QED
      BY <1>3, <3>3, <3>4 DEF RowsInv, ProcTyped, Legal
  <2>2. CASE proc[p].pc # "save_user"
    BY <1>3, <2>2, Ending DEF save_turn, Succeed
  <2> QED
    BY <2>1, <2>2
<1>5. UNCHANGED <<accounts, items, next_id, mailbox, renames>>
  BY DEF save_turn, bounds
<1> HIDE DEF u
<1> QED
  BY <1>1, <1>2, <1>4, <1>5, Replaced, SessionsKnown, SessionStep DEF u

LEMMA Expire ==
  ASSUME RowsInv, NEW s \in llm_sessions, expire(s)
  PROVE  RowsInv'
<1> DEFINE u == [s EXCEPT !.live = FALSE]
<1>1. u \in SessionRow /\ u.id = s.id
  <2>1. s \in SessionRow
    BY SessionsKnown
  <2> QED
    BY <2>1 DEF SessionRow
<1>2. llm_sessions' = (llm_sessions \ {s}) \cup {u}
  BY DEF expire
<1> HIDE DEF u
<1>3. /\ UNCHANGED <<registered, accounts, items, next_id, mailbox, proc, renames>>
      /\ registered' = TRUE
  BY SessionsKnown DEF expire, bounds
<1>4. ProcTyped'
  BY <1>3 DEF RowsInv, ProcTyped, Legal
<1> QED
  BY <1>1, <1>2, <1>3, <1>4, Replaced, SessionsKnown, SessionStep

-----------------------------------------------------------------------------

LEMMA Renaming ==
  ASSUME RowsInv, Rename
  PROVE  RowsInv'
<1>0. PICK e \in Emails : \E i \in mailbox[e] :
        mailbox' = [mailbox EXCEPT ![e] = (@ \ {i}) \cup {[i EXCEPT !.name = renames + 2]}]
  BY DEF Rename
<1>1. PICK i \in mailbox[e] :
        mailbox' = [mailbox EXCEPT ![e] = (@ \ {i}) \cup {[i EXCEPT !.name = renames + 2]}]
  BY <1>0
<1>2. mailbox[e] \subseteq Listed /\ i \in Listed /\ renames' \in Nat
  BY DEF Rename, RowsInv, MailboxTyped
<1>3. [i EXCEPT !.name = renames + 2] \in Listed
  BY <1>2 DEF Listed, RowsInv, MailboxTyped
<1>4. MailboxTyped'
  BY <1>1, <1>2, <1>3 DEF RowsInv, MailboxTyped
<1>5. UNCHANGED <<tables, proc>>
  BY DEF Rename
<1> QED
  BY <1>4, <1>5
  DEF RowsInv, tables, ProcTyped, Legal, TablesTyped, IdsBelow, IdsUnique, RowsHaveAnAccount,
      UserFirst

LEMMA RowsInvInit == Init => RowsInv
<1> SUFFICES ASSUME Init PROVE RowsInv
  OBVIOUS
<1>1. proc = [p \in Procs |-> Idle]
  BY DEF Init
<1>2. ProcTyped /\ \A p \in Procs : proc[p].pc \in Early
  BY <1>1, IdleLegal DEF ProcTyped, Legal
<1>3. \A i \in Nat, e \in Emails : i # 0 => Account(i, e) \in AccountRow /\ Account(i, e).id = i
  BY DEF Account, AccountRow, Ids
<1>4. MailboxTyped
  <2>1. renames \in Nat
    BY AccountAssumption DEF Init, Spent, AccountAssumption
  <2>2. PICK names \in [Externals -> {Birthdays, 1}] :
          mailbox = [e \in Emails |-> {[external |-> x, name |-> names[x]] : x \in Externals}]
    BY DEF Init
  <2>3. \A x \in Externals : names[x] \in Nat
    BY DEF Birthdays
  <2>4. {[external |-> x, name |-> names[x]] : x \in Externals} \subseteq Listed
    BY <2>3 DEF Listed
  <2> QED
    BY <2>1, <2>2, <2>4 DEF MailboxTyped
<1>5. items = {}
  BY DEF Init
<1>6. CASE registered \in BOOLEAN /\ accounts = {} /\ llm_sessions = {} /\ next_id = 1
  BY <1>2, <1>4, <1>5, <1>6
  DEF RowsInv, TablesTyped, IdsBelow, IdsUnique, RowsHaveAnAccount, UserFirst, Ids
<1>7. CASE /\ registered = TRUE /\ \E e \in Emails : accounts = {Account(1, e)}
           /\ llm_sessions = {} /\ next_id = 2
  BY <1>2, <1>3, <1>4, <1>5, <1>7
  DEF RowsInv, TablesTyped, IdsBelow, IdsUnique, RowsHaveAnAccount, UserFirst, Ids
<1>8. CASE /\ registered = TRUE /\ \E e \in Emails : accounts = {Account(1, e), Account(2, e)}
           /\ llm_sessions = {} /\ next_id = 3
  BY <1>2, <1>3, <1>4, <1>5, <1>8
  DEF RowsInv, TablesTyped, IdsBelow, IdsUnique, RowsHaveAnAccount, UserFirst, Ids
<1>9. CASE /\ registered = TRUE /\ accounts = {} /\ next_id = 3
           /\ llm_sessions = {[id |-> i, live |-> TRUE, turns |-> 0] : i \in {1, 2}}
  <2> DEFINE row(i) == [id |-> i, live |-> TRUE, turns |-> 0]
  <2>1. /\ row(1) \in SessionRow /\ row(1).id = 1
        /\ row(2) \in SessionRow /\ row(2).id = 2
    BY DEF SessionRow, Ids, MAX_CONTEXT_TURNS
  <2>2. llm_sessions = {row(1), row(2)}
    BY <1>9
  <2> HIDE DEF row
  <2> QED
    BY <1>2, <1>4, <1>5, <1>9, <2>1, <2>2
    DEF RowsInv, TablesTyped, IdsBelow, IdsUnique, RowsHaveAnAccount, UserFirst, Ids
<1> QED
  BY <1>6, <1>7, <1>8, <1>9 DEF Init

LEMMA RowsInvStep == RowsInv /\ [Next]_vars => RowsInv'
<1> SUFFICES ASSUME RowsInv, [Next]_vars PROVE RowsInv'
  OBVIOUS
<1>1. ASSUME NEW p \in Procs, Request(p) PROVE RowsInv'
  BY <1>1, Requesting
<1>2. ASSUME NEW p \in Procs, User(p) PROVE RowsInv'
  BY <1>2, SelectUser, InsertUser, Respond DEF User
<1>3. ASSUME NEW p \in Procs, Endpoint(p) PROVE RowsInv'
  BY <1>3, CheckCredentials, SelectEmail, WriteAccount, SelectAccount, Verify, Delete,
     SelectCalendar, PatchCalendar DEF Endpoint
<1>4. ASSUME NEW p \in Procs, Sync(p) PROVE RowsInv'
  BY <1>4, SelectAccounts, ListMailbox, UpsertItem, CommitSync, RollbackSync DEF Sync
<1>5. ASSUME NEW p \in Procs, Parse(p) PROVE RowsInv'
  BY <1>5, SelectSession, InsertSession, AskModel, SaveTurn DEF Parse
<1>6. ASSUME NEW p \in Procs, NEW k \in Kinds, sync_all(p, k) PROVE RowsInv'
  BY <1>6, SyncAll
<1>7. ASSUME NEW s \in llm_sessions, expire(s) PROVE RowsInv'
  BY <1>7, Expire
<1>8. CASE Rename
  BY <1>8, Renaming
<1>9. CASE UNCHANGED vars
  BY <1>9
  DEF vars, tables, bounds, RowsInv, ProcTyped, Legal, TablesTyped, MailboxTyped, IdsBelow,
      IdsUnique, RowsHaveAnAccount, UserFirst
<1> QED
  BY <1>1, <1>2, <1>3, <1>4, <1>5, <1>6, <1>7, <1>8, <1>9 DEF Next, Step

LEMMA RowsInvHolds == Spec => []RowsInv
<1> QED
  BY RowsInvInit, RowsInvStep, PTL DEF Spec

-----------------------------------------------------------------------------
(* The theorems.                                                            *)

\* The tables keep their types, no id is used twice, and nothing of a user is there
\* before the user (accounts.py:19-26, parser.py:54).
THEOREM TypeCorrect == Spec => []TypeOK
<1>1. RowsInv => TypeOK
  <2> SUFFICES ASSUME RowsInv PROVE TypeOK
    OBVIOUS
  <2>1. \A a \in accounts : a.id \in 1..(next_id - 1) /\ a.email \in Emails
    BY DEF RowsInv, TablesTyped, IdsBelow, AccountRow, Ids
  <2>2. \A i \in items : /\ i.id \in 1..(next_id - 1) /\ i.kind \in Kinds
                          /\ i.external \in Externals /\ i.flags \in [Flags -> BOOLEAN]
    BY DEF RowsInv, TablesTyped, IdsBelow, ItemRow, Ids
  <2>3. \A s \in llm_sessions : s.live \in BOOLEAN /\ s.turns \in 0..(MAX_CONTEXT_TURNS * 2)
    BY DEF RowsInv, TablesTyped, SessionRow
  <2>4. registered \in BOOLEAN /\ (registered \/ (accounts = {} /\ llm_sessions = {}))
    BY DEF RowsInv, TablesTyped, UserFirst
  <2>5. /\ \A i, j \in items : i.id = j.id => i = j
        /\ \A a, b \in accounts : a.id = b.id => a = b
    BY DEF RowsInv, IdsUnique
  <2> QED
    BY <2>1, <2>2, <2>3, <2>4, <2>5 DEF TypeOK
<1> QED
  BY <1>1, RowsInvHolds, PTL

\* Nothing is left of a deleted account, whatever sync was waiting for Exchange
\* (accounts.py:167, calendar_sync.py:73, contact_sync.py:98).
THEOREM NothingLeft == Spec => []RowsHaveAnAccount
<1>1. RowsInv => RowsHaveAnAccount
  BY DEF RowsInv
<1> QED
  BY <1>1, RowsInvHolds, PTL
=============================================================================
