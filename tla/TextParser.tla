----------------------------- MODULE TextParser -----------------------------
(***************************************************************************)
(* The session with the language model in which the texts of a user are    *)
(* read (api/services/llm/parser.py).                                      *)
(***************************************************************************)
EXTENDS AccountStore

\* A session that has not expired; two are an error.
select_session(p) ==
  /\ proc[p].pc = "select_session"
  /\ LET live == {s.id : s \in {t \in llm_sessions : t.live}} IN
       \/ Cardinality(live) > 1 /\ Fail(p)
       \/ /\ live = {} /\ Goto(p, "insert_session")
          /\ UNCHANGED registered
       \/ /\ Cardinality(live) = 1
          /\ proc' = [proc EXCEPT ![p].found = CHOOSE id \in live : TRUE, ![p].pc = "ask_model"]
          /\ UNCHANGED registered
  /\ UNCHANGED <<accounts, items, llm_sessions, next_id, mailbox, bounds, raced>>

\* Mutant: the session does not need the row of its user.
insert_session_untied(p) ==
  /\ proc[p].pc = "insert_session"
  /\ llm_sessions' = llm_sessions \cup {[id |-> next_id, live |-> TRUE, turns |-> 0]}
  /\ next_id' = next_id + 1
  /\ proc' = [proc EXCEPT ![p].found = next_id, ![p].extended = TRUE, ![p].pc = "ask_model"]
  /\ UNCHANGED <<registered, accounts, items, mailbox, bounds, raced>>

\* The session is committed at once, in a transaction of its own: the row of a user
\* that this request inserted is not there for it, and the foreign key refuses it.
insert_session(p) ==
  /\ proc[p].pc = "insert_session"
  /\ \/ /\ registered
        /\ llm_sessions' = llm_sessions \cup {[id |-> next_id, live |-> TRUE, turns |-> 0]}
        /\ next_id' = next_id + 1
        /\ proc' = [proc EXCEPT ![p].found = next_id, ![p].extended = TRUE,
                                ![p].pc = "ask_model"]
        /\ UNCHANGED registered
     \/ ~registered /\ Fail(p) /\ UNCHANGED <<llm_sessions, next_id>>
  /\ UNCHANGED <<accounts, items, mailbox, bounds, raced>>

\* The turns so far are read and the model is asked.
ask_model(p) ==
  /\ proc[p].pc = "ask_model"
  /\ \/ Goto(p, "save_user") /\ UNCHANGED <<registered, failures>>
     \/ CallFails /\ Fail(p)
  /\ UNCHANGED <<accounts, items, llm_sessions, next_id, mailbox, requests, renames, raced>>

\* The turns after one more.  The list is changed in place, so SQLAlchemy finds the new
\* value equal to the one it loaded and writes nothing, unless the list was cut.
TurnsWritten(turns) ==
  IF turns + 1 > MAX_CONTEXT_TURNS * 2 THEN MAX_CONTEXT_TURNS * 2 ELSE turns

\* Mutant: a session that has expired is replaced by a new one.
save_turn_again(p) ==
  /\ proc[p].pc \in {"save_user", "save_assistant"}
  /\ \E s \in llm_sessions :
       /\ s.id = proc[p].found
       /\ llm_sessions' = IF s.live
            THEN (llm_sessions \ {s}) \cup {[s EXCEPT !.turns = TurnsWritten(@)]}
            ELSE llm_sessions \cup {[id |-> next_id, live |-> TRUE, turns |-> 0]}
       /\ next_id' = IF s.live THEN next_id ELSE next_id + 1
  /\ IF proc[p].pc = "save_user"
       THEN Goto(p, "save_assistant") /\ UNCHANGED registered
       ELSE Succeed(p)
  /\ UNCHANGED <<accounts, items, mailbox, bounds, raced>>

\* Both turns are saved, each in a transaction: the session lives on from then, also
\* when it had expired in between.
save_turn(p) ==
  /\ proc[p].pc \in {"save_user", "save_assistant"}
  /\ \E s \in llm_sessions :
       /\ s.id = proc[p].found
       /\ llm_sessions' = (llm_sessions \ {s}) \cup
                          {[s EXCEPT !.live = TRUE, !.turns = TurnsWritten(@)]}
  /\ IF proc[p].pc = "save_user"
       THEN proc' = [proc EXCEPT ![p].pc = "save_assistant", ![p].extended = TRUE]
            /\ UNCHANGED registered
       ELSE Succeed(p)
  /\ UNCHANGED <<accounts, items, next_id, mailbox, bounds, raced>>

\* Half an hour without a text; no request takes that long.
expire(s) ==
  /\ s.live
  /\ \A p \in Procs : proc[p].extended => proc[p].found # s.id
  /\ llm_sessions' = (llm_sessions \ {s}) \cup {[s EXCEPT !.live = FALSE]}
  /\ UNCHANGED <<registered, accounts, items, next_id, mailbox, proc, bounds, raced>>
=============================================================================
