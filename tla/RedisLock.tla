------------------------------ MODULE RedisLock ------------------------------
(***************************************************************************)
(* The lock of api/utils/redis_lock.py on one key.                         *)
(*                                                                         *)
(* A client tries SET key "1" NX EX at most MaxRetries times, sleeping      *)
(* between tries, runs the body of the "async with" when one succeeds, and *)
(* finally DELetes the key.  The value stored is the constant "1": nothing *)
(* in Redis says whose lock it is, so the DEL removes whatever is there.   *)
(*                                                                         *)
(* Time is counted in retry intervals.  What Redis holds is keyTtl alone;   *)
(* setBy, held and tainted are history variables for the properties.       *)
(***************************************************************************)
EXTENDS Naturals

CONSTANTS Clients,      \* the coroutines that use this key
          Ttl,          \* "timeout" of redis_lock, in retry intervals
          MaxRetries    \* "max_retries" of redis_lock

ASSUME LockAssumption == Ttl \in Nat \ {0} /\ MaxRetries \in Nat \ {0}

VARIABLES keyTtl,   \* intervals until the key expires, 0 when it is absent
          pc,       \* where each client is
          retries,  \* the failed tries of each waiting client
          setBy,    \* history: the clients whose SET created the present key
          held,     \* history: intervals since the client's SET, at most Ttl
          tainted   \* history: some owner has outlived its key since the lock
                    \* last had no owner

vars == <<keyTtl, pc, retries, setBy, held, tainted>>

Places == {"idle", "trying", "sleeping", "body", "finally", "dead"}

TypeOK ==
  /\ keyTtl \in 0..Ttl
  /\ pc \in [Clients -> Places]
  /\ retries \in [Clients -> 0..MaxRetries]
  /\ setBy \in SUBSET Clients
  /\ held \in [Clients -> 0..Ttl]
  /\ tainted \in BOOLEAN

Init ==
  /\ keyTtl = 0
  /\ pc = [c \in Clients |-> "idle"]
  /\ retries = [c \in Clients |-> 0]
  /\ setBy = {}
  /\ held = [c \in Clients |-> 0]
  /\ tainted = FALSE

KeyPresent == keyTtl > 0

\* The clients between a successful SET and the end of their DEL.
Owners == {c \in Clients : pc[c] \in {"body", "finally"}}

-----------------------------------------------------------------------------
Enter(c) ==
  /\ pc[c] = "idle"
  /\ pc' = [pc EXCEPT ![c] = "trying"]
  /\ UNCHANGED <<keyTtl, retries, setBy, held>>

\* What a SET NX EX that finds no key does at the server.
SetKey(c) ==
  /\ keyTtl' = Ttl
  /\ setBy' = {c}
  /\ held' = [held EXCEPT ![c] = 0]

\* Mutant: SET without NX.
AcquireWithoutNX(c) ==
  /\ pc[c] = "trying"
  /\ retries[c] < MaxRetries
  /\ SetKey(c)
  /\ pc' = [pc EXCEPT ![c] = "body"]
  /\ retries' = [retries EXCEPT ![c] = 0]

Acquire(c) ==
  /\ pc[c] = "trying"
  /\ retries[c] < MaxRetries
  /\ ~KeyPresent
  /\ SetKey(c)
  /\ pc' = [pc EXCEPT ![c] = "body"]
  /\ retries' = [retries EXCEPT ![c] = 0]

\* Mutants: the tries are not counted; the loop has no bound.
RefusedUncounted(c) ==
  /\ pc[c] = "trying"
  /\ KeyPresent
  /\ pc' = [pc EXCEPT ![c] = "sleeping"]
  /\ UNCHANGED <<keyTtl, retries, setBy, held>>

RefusedUnbounded(c) ==
  /\ pc[c] = "trying"
  /\ KeyPresent
  /\ retries' = [retries EXCEPT ![c] = @ + 1]
  /\ pc' = [pc EXCEPT ![c] = "sleeping"]
  /\ UNCHANGED <<keyTtl, setBy, held>>

Refused(c) ==
  /\ pc[c] = "trying"
  /\ retries[c] < MaxRetries
  /\ KeyPresent
  /\ retries' = [retries EXCEPT ![c] = @ + 1]
  /\ pc' = [pc EXCEPT ![c] = "sleeping"]
  /\ UNCHANGED <<keyTtl, setBy, held>>

\* The connection drops during SET: the exception leaves "acquired" false, so
\* the finally clause deletes nothing, whether or not Redis set the key.
SetError(c) ==
  /\ pc[c] = "trying"
  /\ retries[c] < MaxRetries
  /\ pc' = [pc EXCEPT ![c] = "idle"]
  /\ retries' = [retries EXCEPT ![c] = 0]
  /\ \/ UNCHANGED <<keyTtl, setBy, held>>
     \/ ~KeyPresent /\ SetKey(c)

\* Mutant: the finally clause does not look at "acquired".
GiveUpDeletes(c) ==
  /\ pc[c] = "trying"
  /\ retries[c] = MaxRetries
  /\ pc' = [pc EXCEPT ![c] = "finally"]
  /\ retries' = [retries EXCEPT ![c] = 0]
  /\ UNCHANGED <<keyTtl, setBy, held>>

\* The tries are used up: TimeoutError, with nothing to delete.
GiveUp(c) ==
  /\ pc[c] = "trying"
  /\ retries[c] = MaxRetries
  /\ pc' = [pc EXCEPT ![c] = "idle"]
  /\ retries' = [retries EXCEPT ![c] = 0]
  /\ UNCHANGED <<keyTtl, setBy, held>>

\* The body returns or raises: both lead to the finally clause.
LeaveBody(c) ==
  /\ pc[c] = "body"
  /\ pc' = [pc EXCEPT ![c] = "finally"]
  /\ UNCHANGED <<keyTtl, retries, setBy, held>>

Delete(c) ==
  /\ pc[c] = "finally"
  /\ keyTtl' = 0
  /\ setBy' = {}
  /\ pc' = [pc EXCEPT ![c] = "idle"]
  /\ held' = [held EXCEPT ![c] = 0]
  /\ UNCHANGED retries

\* The connection drops during DEL before Redis has run it.
DeleteError(c) ==
  /\ pc[c] = "finally"
  /\ pc' = [pc EXCEPT ![c] = "idle"]
  /\ held' = [held EXCEPT ![c] = 0]
  /\ UNCHANGED <<keyTtl, retries, setBy>>

\* The process of the client is killed: no finally clause runs.
Crash(c) ==
  /\ pc[c] \notin {"idle", "dead"}
  /\ pc' = [pc EXCEPT ![c] = "dead"]
  /\ retries' = [retries EXCEPT ![c] = 0]
  /\ held' = [held EXCEPT ![c] = 0]
  /\ UNCHANGED <<keyTtl, setBy>>

Restart(c) ==
  /\ pc[c] = "dead"
  /\ pc' = [pc EXCEPT ![c] = "idle"]
  /\ UNCHANGED <<keyTtl, retries, setBy, held>>

\* One retry interval passes: the key ages and expires, and asyncio.sleep
\* returns no earlier than this.
Tick ==
  /\ keyTtl' = IF KeyPresent THEN keyTtl - 1 ELSE 0
  /\ setBy' = IF keyTtl > 1 THEN setBy ELSE {}
  /\ held' = [c \in Clients |->
                IF c \in Owners /\ held[c] < Ttl THEN held[c] + 1 ELSE held[c]]
  /\ pc' = [c \in Clients |-> IF pc[c] = "sleeping" THEN "trying" ELSE pc[c]]
  /\ UNCHANGED retries

\* History: the taint of an overrun lasts until the lock has no owner.
NoteOverrun ==
  tainted' = /\ tainted \/ \E c \in Owners' : held'[c] = Ttl
             /\ Owners' # {}

TryStep(c) == (Acquire(c) \/ Refused(c) \/ GiveUp(c)) /\ NoteOverrun

TickStep == Tick /\ NoteOverrun

Next ==
  \/ TickStep
  \/ \E c \in Clients : TryStep(c)
  \/ /\ \E c \in Clients :
           \/ Enter(c) \/ SetError(c)
           \/ LeaveBody(c) \/ Delete(c) \/ DeleteError(c)
           \/ Crash(c) \/ Restart(c)
     /\ NoteOverrun

Spec == Init /\ [][Next]_vars

\* The event loop keeps running a coroutine that is ready, and time passes.
\* Nothing is assumed of the body, which waits for Exchange.
Fairness == WF_vars(TickStep) /\ \A c \in Clients : WF_vars(TryStep(c))

FairSpec == Spec /\ Fairness

-----------------------------------------------------------------------------
\* Two clients run the body at once only if, since the lock last had no owner,
\* one of them (or a third) kept it longer than its TTL: expiry, a late DEL of
\* somebody else's key, lost replies and crashes do no harm by themselves.
MutexUnlessOverrun ==
  ~tainted => \A c, d \in Clients :
                 pc[c] = "body" /\ pc[d] = "body" => c = d

\* A client whose key has not outlived its TTL never deletes a key that another
\* client has set (redis_lock.py:36 deletes by name, whoever set it).
DeletesOwnKey ==
  [][\A c \in Clients :
        pc[c] = "finally" /\ pc'[c] = "idle" /\ ~tainted => setBy \subseteq {c}]_vars

\* A waiting client gets the lock or its TimeoutError, whatever the others do.
WaiterLeaves ==
  \A c \in Clients : pc[c] = "trying" ~> pc[c] \notin {"trying", "sleeping"}
=============================================================================
