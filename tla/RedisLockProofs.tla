--------------------------- MODULE RedisLockProofs ---------------------------
(***************************************************************************)
(* For any set of clients, any TTL and any number of retries: the type     *)
(* invariant of RedisLock, and mutual exclusion as long as no owner has    *)
(* outlived its key.                                                       *)
(***************************************************************************)
EXTENDS RedisLock, TLAPS

\* Every owner of an untainted lock is the one whose SET is in Redis, and the
\* key expires exactly when that owner's own TTL has run out.
LeaseInv ==
  ~tainted => \A c \in Owners : /\ setBy = {c}
                                /\ held[c] < Ttl
                                /\ keyTtl = Ttl - held[c]

\* One step of one client.
ClientStep(c) ==
  \/ Enter(c) \/ Acquire(c) \/ Refused(c) \/ GiveUp(c) \/ SetError(c)
  \/ LeaveBody(c) \/ Delete(c) \/ DeleteError(c) \/ Crash(c) \/ Restart(c)

\* Next is the step of a client or of time, together with the history variable.
LEMMA NextCases == Next => (Tick \/ \E c \in Clients : ClientStep(c)) /\ NoteOverrun
BY DEF Next, TickStep, TryStep, ClientStep

\* The variables keep their types, whatever the interleaving (redis_lock.py:15).
THEOREM TypeCorrect == Spec => []TypeOK
<1>1. Init => TypeOK
  <2> SUFFICES ASSUME Init PROVE TypeOK
    OBVIOUS
  <2> USE DEF Init
  <2>1. 0 \in 0..Ttl /\ 0 \in 0..MaxRetries
    BY LockAssumption DEF LockAssumption
  <2>2. keyTtl \in 0..Ttl /\ tainted \in BOOLEAN /\ setBy \in SUBSET Clients
    BY <2>1
  <2>3. pc \in [Clients -> Places]
    BY DEF Places
  <2>4. retries \in [Clients -> 0..MaxRetries] /\ held \in [Clients -> 0..Ttl]
    BY <2>1
  <2> QED
    BY <2>2, <2>3, <2>4 DEF TypeOK
<1>2. TypeOK /\ [Next]_vars => TypeOK'
  <2> SUFFICES ASSUME TypeOK, [Next]_vars PROVE TypeOK'
    OBVIOUS
  <2> USE LockAssumption DEF LockAssumption, TypeOK, Places
  <2>1. CASE Next
    <3>1. tainted' \in BOOLEAN
      BY <2>1, NextCases DEF NoteOverrun
    <3>2. CASE Tick
      BY <3>1, <3>2 DEF Tick, KeyPresent, Owners
    <3>3. ASSUME NEW c \in Clients, ClientStep(c) PROVE TypeOK'
      <4>1. CASE Enter(c)
        BY <3>1, <4>1 DEF Enter
      <4>2. CASE Acquire(c)
        BY <3>1, <4>2 DEF Acquire, SetKey
      <4>3. CASE Refused(c)
        BY <3>1, <4>3 DEF Refused
      <4>4. CASE GiveUp(c)
        BY <3>1, <4>4 DEF GiveUp
      <4>5. CASE SetError(c)
        BY <3>1, <4>5 DEF SetError, SetKey
      <4>6. CASE LeaveBody(c)
        BY <3>1, <4>6 DEF LeaveBody
      <4>7. CASE Delete(c)
        BY <3>1, <4>7 DEF Delete
      <4>8. CASE DeleteError(c)
        BY <3>1, <4>8 DEF DeleteError
      <4>9. CASE Crash(c) \/ Restart(c)
        BY <3>1, <4>9 DEF Crash, Restart
      <4> QED
        BY <3>3, <4>1, <4>2, <4>3, <4>4, <4>5, <4>6, <4>7, <4>8, <4>9 DEF ClientStep
    <3> QED
      BY <2>1, <3>2, <3>3, NextCases
  <2>2. CASE UNCHANGED vars
    BY <2>2 DEF vars
  <2> QED
    BY <2>1, <2>2
<1> QED
  BY <1>1, <1>2, PTL DEF Spec

\* An untainted owner survives every step as the owner of the key in Redis.
LEMMA LeaseStep == TypeOK /\ TypeOK' /\ LeaseInv /\ [Next]_vars => LeaseInv'
<1> SUFFICES ASSUME TypeOK, TypeOK', LeaseInv, [Next]_vars, ~tainted',
                    NEW d \in Owners'
             PROVE  (setBy = {d} /\ held[d] < Ttl /\ keyTtl = Ttl - held[d])'
  BY DEF LeaseInv
<1> USE LockAssumption DEF LockAssumption, TypeOK, Places
<1>1. CASE Next
  <2>1. ~tainted \/ Owners = {}
    <3>1. CASE Owners' = {}
      BY <3>1
    <3>2. CASE Owners' # {}
      BY <3>2, <1>1, NextCases DEF NoteOverrun
    <3> QED
      BY <3>1, <3>2
  <2>2. held'[d] < Ttl
    <3>1. held'[d] # Ttl
      BY <1>1, NextCases DEF NoteOverrun
    <3>2. d \in Clients
      BY DEF Owners
    <3> QED
      BY <3>1, <3>2
  <2>3. \A c \in Owners : setBy = {c} /\ held[c] < Ttl /\ keyTtl = Ttl - held[c]
    BY <2>1 DEF LeaseInv
  <2>4. CASE Tick
    <3>1. d \in Owners /\ held[d] < Ttl /\ held'[d] = held[d] + 1
      BY <2>3, <2>4 DEF Tick, Owners
    <3>2. setBy = {d} /\ keyTtl = Ttl - held[d]
      BY <2>3, <3>1
    <3> QED
      BY <2>2, <2>4, <3>1, <3>2 DEF Tick, KeyPresent, Owners
  <2>5. ASSUME NEW c \in Clients, ClientStep(c)
        PROVE  (setBy = {d} /\ keyTtl = Ttl - held[d])'
    <3>1. CASE Acquire(c)
      <4>1. Owners = {}
        BY <2>3, <3>1 DEF Acquire, KeyPresent, Owners
      <4>2. d = c
        BY <3>1, <4>1 DEF Acquire, Owners
      <4> QED
        BY <3>1, <4>2 DEF Acquire, SetKey
    <3>2. CASE SetError(c)
      <4>1. d \in Owners /\ d # c
        BY <3>2 DEF SetError, Owners
      <4>2. KeyPresent
        BY <2>3, <4>1 DEF KeyPresent, Owners
      <4> QED
        BY <2>3, <3>2, <4>1, <4>2 DEF SetError
    <3>3. CASE Delete(c) \/ DeleteError(c)
      <4>1. d \in Owners /\ d # c /\ c \in Owners
        BY <3>3 DEF Delete, DeleteError, Owners
      <4> QED
        BY <2>3, <4>1
    <3>4. CASE Enter(c) \/ Refused(c) \/ GiveUp(c) \/ LeaveBody(c) \/ Crash(c) \/ Restart(c)
      <4>1. d \in Owners /\ UNCHANGED <<setBy, keyTtl>> /\ held'[d] = held[d]
        BY <3>4 DEF Enter, Refused, GiveUp, LeaveBody, Crash, Restart, Owners
      <4> QED
        BY <2>3, <4>1
    <3> QED
      BY <2>5, <3>1, <3>2, <3>3, <3>4 DEF ClientStep
  <2> QED
    BY <1>1, <2>2, <2>4, <2>5, NextCases
<1>2. CASE UNCHANGED vars
  BY <1>2 DEF vars, LeaseInv, Owners
<1> QED
  BY <1>1, <1>2

\* Two clients are in the body of redis_lock at once only after somebody has
\* kept it for longer than its TTL (redis_lock.py:24, 36).
THEOREM Exclusion == Spec => []MutexUnlessOverrun
<1>1. Init => LeaseInv
  BY DEF Init, LeaseInv, Owners
<1>2. TypeOK /\ LeaseInv => MutexUnlessOverrun
  BY DEF LeaseInv, MutexUnlessOverrun, Owners
<1> QED
  BY <1>1, <1>2, LeaseStep, TypeCorrect, PTL DEF Spec

\* As long as nobody has outlived its TTL, the DEL of redis_lock.py:36 removes
\* the key of the client that sends it, or one that has already expired.
THEOREM OwnDelete == Spec => DeletesOwnKey
<1>1. LeaseInv /\ [Next]_vars =>
        [\A c \in Clients : pc[c] = "finally" /\ pc'[c] = "idle" /\ ~tainted
                               => setBy \subseteq {c}]_vars
  BY DEF LeaseInv, Owners
<1>2. Init => LeaseInv
  BY DEF Init, LeaseInv, Owners
<1> QED
  BY <1>1, <1>2, LeaseStep, TypeCorrect, PTL DEF Spec, DeletesOwnKey
=============================================================================
