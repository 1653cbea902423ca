------------------------- MODULE MemoryQueueProofs -------------------------
(***************************************************************************)
(* Theorems of MemoryQueue, for every set of jobs, tokens, queues and      *)
(* unique keys and every bound: its types, the coherence of locks and      *)
(* leases, unique keys, and that a settled row is final.                   *)
(***************************************************************************)
EXTENDS MemoryQueue, TLAPS

-----------------------------------------------------------------------------
(* The steps of Next, flattened *)

Batch(S) ==
    /\ S \in SUBSET Jobs
    /\ S \subseteq InState(Waiting)
    /\ \A j \in S : ~SerialBusy(j)
    /\ \A i, j \in S : SameSerial(i, j) => i = j
    /\ \E f \in TokenChoices(S) : Lease(S, f)

\* Clients forget leases: a stale one was refused, or its holder is gone.
Forget(L) ==
    /\ held' = held \ L
    /\ UNCHANGED <<rows, revived>>

\* What a step can do to the queue, whoever its clients are: the workers of
\* JobWorker ask for batches and settle leases under conditions of their own,
\* and a process that ends forgets all its leases at once.
QueueStep ==
    \/ \E j \in Jobs, delay \in 0..MaxDelay : Push(j, delay)
    \/ \E S \in SUBSET Jobs : Batch(S)
    \/ \E queues \in SUBSET QueueNames : Reclaim(queues)
    \/ \E L \in SUBSET held : Forget(L)
    \/ \E l \in held : Ack(l) \/ NackDead(l) \/ Heartbeat(l)
    \/ \E l \in held, delay \in 0..MaxDelay : NackRetry(l, delay)
    \/ \E j \in Jobs : Cancel(j)
    \/ \E S \in SUBSET InState({"dead"}) : Retry(S) \/ Discard(S)
    \/ Tick

\* Every set of rows a pull may choose is a batch.
LEMMA BatchesAre ==
    ASSUME NEW queues, NEW limit, NEW S \in Batches(queues, limit),
           NEW f \in TokenChoices(S), Lease(S, f)
    PROVE  S \in SUBSET Jobs /\ Batch(S)
<1>1. S \in SUBSET Jobs /\ S \subseteq InState(Waiting)
  BY DEF Batches, Leasable, InState
<1>2. /\ \A j \in S : ~SerialBusy(j)
      /\ \A i, j \in S : SameSerial(i, j) => i = j
  BY DEF Batches, Leasable
<1> QED BY <1>1, <1>2 DEF Batch

\* Every step of Next is one of these: pull and the client and operator
\* alternatives are unfolded once, here.
LEMMA NextSteps ==
    ASSUME Next
    PROVE  QueueStep
<1>1. ASSUME NEW queues \in SUBSET QueueNames, NEW limit \in 1..Cardinality(Jobs),
             Pull(queues, limit)
      PROVE  \E S \in SUBSET Jobs : Batch(S)
  <2>1. PICK S \in Batches(queues, limit) : \E f \in TokenChoices(S) : Lease(S, f)
    BY <1>1 DEF Pull
  <2> QED BY <2>1, BatchesAre
<1>2. ASSUME NEW l \in held, Stale(l) \/ Drop(l)
      PROVE  \E L \in SUBSET held : Forget(L)
  <2>1. Forget({l}) /\ {l} \in SUBSET held
    BY <1>2 DEF Stale, Drop, Forget
  <2> QED BY <2>1
<1> QED BY <1>1, <1>2 DEF Next, Client, Operator, Filtered, QueueStep

-----------------------------------------------------------------------------
(* Types *)

\* Updating the fields of a row with values of their types leaves a row.
LEMMA RowUpdates ==
    ASSUME NEW r \in Row, NEW s \in JobState, NEW t \in Tokens \union {NoToken},
           NEW a \in Nat, NEW m \in Int, NEW n \in Int
    PROVE  /\ [r EXCEPT !.state = s, !.token = t, !.leaseLeft = n] \in Row
           /\ [r EXCEPT !.state = s, !.attempt = a, !.runIn = m] \in Row
           /\ [r EXCEPT !.attempt = a, !.runIn = m] \in Row
           /\ [r EXCEPT !.runIn = m, !.leaseLeft = n] \in Row
           /\ [r EXCEPT !.runIn = m] \in Row
           /\ [r EXCEPT !.leaseLeft = n] \in Row
BY DEF Row

\* Every value the code writes into a column is of the column's type.
LEMMA Values ==
    /\ {"ready", "retrying", "running", "done", "cancelled", "dead"} \subseteq JobState
    /\ Unlocked \in Int /\ LeaseLen \in Int
    /\ 0 \in Int /\ 1 \in Nat
    /\ NoToken \in Tokens \union {NoToken}
    /\ \A delay \in 0..MaxDelay : delay \in Int
    /\ \A n \in Nat : n + 1 \in Nat
BY BoundAssumption DEF JobState, Active, Waiting, Settled, Unlocked

\* The row after its lock is dropped is a row.
LEMMA UnlockType ==
    ASSUME TypeOK, NEW j \in Jobs, NEW state \in JobState
    PROVE  Unlock(j, state) \in Row
<1>1. rows[j] \in Row
  BY DEF TypeOK
<1> QED BY <1>1, RowUpdates, Values, Zenon DEF Unlock

\* The fields of the row after its lock is dropped.
LEMMA UnlockFields ==
    ASSUME TypeOK, NEW j \in Jobs, NEW state
    PROVE  /\ Unlock(j, state).state = state
           /\ Unlock(j, state).token = NoToken
           /\ Unlock(j, state).leaseLeft = Unlocked
           /\ Unlock(j, state).attempt = rows[j].attempt
           /\ Unlock(j, state).runIn = rows[j].runIn
<1>1. rows[j] \in Row
  BY DEF TypeOK
<1>2. Unlock(j, state).state = state
  BY <1>1 DEF Unlock, Row
<1>3. Unlock(j, state).token = NoToken
  BY <1>1 DEF Unlock, Row
<1>4. Unlock(j, state).leaseLeft = Unlocked
  BY <1>1 DEF Unlock, Row
<1>5. Unlock(j, state).attempt = rows[j].attempt
  BY <1>1 DEF Unlock, Row
<1>6. Unlock(j, state).runIn = rows[j].runIn
  BY <1>1 DEF Unlock, Row
<1> QED BY <1>2, <1>3, <1>4, <1>5, <1>6

\* Every step keeps the shapes of the columns.
LEMMA TypingStep ==
    ASSUME TypeOK, [QueueStep]_vars
    PROVE  TypeOK'
<1>0. /\ rows \in [Jobs -> Row]
      /\ \A j \in Jobs : rows[j] \in Row
      /\ \A j \in Jobs : rows[j].attempt \in Nat
  BY DEF TypeOK, Row
<1>1. ASSUME NEW j \in Jobs, NEW delay \in 0..MaxDelay, Push(j, delay) PROVE TypeOK'
  BY <1>0, <1>1, Values DEF Push, TypeOK, Row
<1>2. ASSUME NEW S \in SUBSET Jobs, Batch(S) PROVE TypeOK'
  <2>1. PICK f \in TokenChoices(S) : Lease(S, f)
    BY <1>2 DEF Batch
  <2>2. \A j \in S : f[j] \in Tokens
    BY DEF TokenChoices, FreshTokens
  <2>3. \A j \in S : [rows[j] EXCEPT !.state = "running", !.token = f[j],
                                     !.leaseLeft = LeaseLen] \in Row
    BY <1>0, <2>2, RowUpdates, Values, Zenon
  <2>4. rows' \in [Jobs -> Row]
    BY <1>0, <2>1, <2>3 DEF Lease
  <2>5. held' \subseteq Jobs \X Tokens
    <3>1. held' = held \union {<<j, f[j]>> : j \in S}
      BY <2>1 DEF Lease
    <3>2. {<<j, f[j]>> : j \in S} \subseteq Jobs \X Tokens
      BY <2>2
    <3>3. held \subseteq Jobs \X Tokens
      BY DEF TypeOK
    <3> QED BY <3>1, <3>2, <3>3, Zenon
  <2>6. revived' \subseteq Jobs
    BY <2>1 DEF Lease, TypeOK
  <2> QED BY <2>4, <2>5, <2>6 DEF TypeOK
<1>3. ASSUME NEW queues \in SUBSET QueueNames, Reclaim(queues) PROVE TypeOK'
  <2>1. \A j \in Jobs : [Unlock(j, "ready") EXCEPT !.runIn = 0] \in Row
    <3> TAKE j \in Jobs
    <3>1. Unlock(j, "ready") \in Row
      BY <1>0, UnlockType, Values
    <3> QED BY <3>1, RowUpdates, Values, Zenon
  <2> QED BY <1>0, <1>3, <2>1 DEF Reclaim, TypeOK
<1>4. ASSUME NEW L \in SUBSET held, Forget(L) PROVE TypeOK'
  BY <1>4 DEF Forget, TypeOK
<1>5. ASSUME NEW l \in held, Ack(l) \/ NackDead(l) \/ Heartbeat(l) PROVE TypeOK'
  <2>1. l[1] \in Jobs
    BY DEF TypeOK
  <2>2. Unlock(l[1], "done") \in Row /\ Unlock(l[1], "dead") \in Row
    BY <1>0, <2>1, UnlockType, Values
  <2>3. [rows[l[1]] EXCEPT !.leaseLeft = LeaseLen] \in Row
    BY <1>0, <2>1, RowUpdates, Values, Zenon
  <2> QED BY <1>0, <1>5, <2>1, <2>2, <2>3 DEF Ack, NackDead, Heartbeat, TypeOK
<1>6. ASSUME NEW l \in held, NEW delay \in 0..MaxDelay, NackRetry(l, delay) PROVE TypeOK'
  <2>1. l[1] \in Jobs
    BY DEF TypeOK
  <2>2. Unlock(l[1], "retrying") \in Row
    BY <1>0, <2>1, UnlockType, Values
  <2>3. Unlock(l[1], "retrying").attempt + 1 \in Nat
    BY <2>2, Values DEF Row
  <2>4. [Unlock(l[1], "retrying") EXCEPT !.attempt = @ + 1, !.runIn = delay] \in Row
    BY <2>2, <2>3, RowUpdates, Values, Zenon
  <2> QED BY <1>0, <1>6, <2>1, <2>4 DEF NackRetry, TypeOK
<1>7. ASSUME NEW j \in Jobs, Cancel(j) PROVE TypeOK'
  <2>1. Unlock(j, "cancelled") \in Row
    BY <1>0, UnlockType, Values
  <2> QED BY <1>0, <1>7, <2>1 DEF Cancel, TypeOK
<1>8. ASSUME NEW S \in SUBSET InState({"dead"}), Retry(S) \/ Discard(S) PROVE TypeOK'
  <2>1. S \subseteq Jobs
    BY DEF InState
  <2>2. \A j \in S : [rows[j] EXCEPT !.state = "ready", !.attempt = 1, !.runIn = 0] \in Row
    BY <1>0, <2>1, RowUpdates, Values, Zenon
  <2>3. Absent \in Row
    BY Values DEF Absent, Row
  <2>4. rows' \in [Jobs -> Row]
    <3>1. CASE Retry(S)
      BY <1>0, <2>2, <3>1 DEF Retry
    <3>2. CASE Discard(S)
      BY <1>0, <2>3, <3>2 DEF Discard
    <3> QED BY <1>8, <3>1, <3>2
  <2>5. held' \subseteq Jobs \X Tokens /\ revived' \subseteq Jobs
    BY <1>8, <2>1 DEF Retry, Discard, TypeOK
  <2> QED BY <2>4, <2>5 DEF TypeOK
<1>9. ASSUME Tick PROVE TypeOK'
  <2>1. \A j \in Jobs :
          [rows[j] EXCEPT !.runIn = IF rows[j].state \in Waiting /\ @ > -MaxOverdue
                                    THEN @ - 1 ELSE @,
                          !.leaseLeft = IF @ >= 0 THEN @ - 1 ELSE @] \in Row
    <3> TAKE j \in Jobs
    <3> DEFINE m == IF rows[j].state \in Waiting /\ rows[j].runIn > -MaxOverdue
                    THEN rows[j].runIn - 1 ELSE rows[j].runIn
               n == IF rows[j].leaseLeft >= 0
                    THEN rows[j].leaseLeft - 1 ELSE rows[j].leaseLeft
    <3>1. m \in Int /\ n \in Int
      BY <1>0 DEF Row
    <3>2. \A a, b \in Int : [rows[j] EXCEPT !.runIn = a, !.leaseLeft = b] \in Row
      BY <1>0, RowUpdates, Values, Zenon
    <3>3. [rows[j] EXCEPT !.runIn = m, !.leaseLeft = n] \in Row
      BY <3>1, <3>2
    <3> QED BY <3>3
  <2> QED BY <1>0, <1>9, <2>1 DEF Tick, TypeOK
<1>10. CASE UNCHANGED vars
  BY <1>10 DEF vars, TypeOK
<1> QED
  BY <1>1, <1>2, <1>3, <1>4, <1>5, <1>6, <1>7, <1>8, <1>9, <1>10 DEF QueueStep

\* Rows, held leases and redriven rows keep the shapes of their columns.
THEOREM Typing == Spec => []TypeOK
<1>1. Init => TypeOK
  BY DEF Init, TypeOK, Absent, Row, JobState, Unlocked
<1>2. TypeOK /\ [Next]_vars => TypeOK'
  BY NextSteps, TypingStep
<1> QED BY <1>1, <1>2, PTL DEF Spec

-----------------------------------------------------------------------------
(* Locks and leases *)

\* What a step other than a pull does to the lock of row j: nothing, or it
\* drops it.
KeepsLock(j) ==
    /\ rows'[j].token = rows[j].token
    /\ rows'[j].state = "running" <=> rows[j].state = "running"
    /\ rows'[j].state # "running" => rows'[j].leaseLeft = Unlocked

DropsLock(j) ==
    /\ rows'[j].token = NoToken
    /\ rows'[j].state # "running"
    /\ rows'[j].leaseLeft = Unlocked

\* A step that only keeps and drops locks, and hands out no lease, keeps
\* locks and leases coherent.
LEMMA NoNewLock ==
    ASSUME TypeOK, LeaseCoherent, held' \subseteq held,
           \A j \in Jobs : KeepsLock(j) \/ DropsLock(j)
    PROVE  LeaseCoherent'
<1>1. ASSUME NEW j \in Jobs
      PROVE  /\ rows'[j].state = "running" <=> rows'[j].token # NoToken
             /\ rows'[j].state # "running" => rows'[j].leaseLeft = Unlocked
  BY DEF LeaseCoherent, KeepsLock, DropsLock
<1>2. ASSUME NEW j \in Jobs, NEW i \in Jobs,
             rows'[i].token = rows'[j].token, rows'[j].token # NoToken
      PROVE  i = j
  BY <1>2 DEF LeaseCoherent, KeepsLock, DropsLock
<1>3. ASSUME NEW j \in Jobs, NEW l \in held', l[2] = rows'[j].token
      PROVE  l[1] = j
  <2>1. l \in held /\ l[2] \in Tokens
    BY DEF TypeOK
  <2>2. l[2] = rows[j].token
    BY <1>3, <2>1, TokenAssumption DEF KeepsLock, DropsLock
  <2> QED BY <2>1, <2>2 DEF LeaseCoherent
<1> QED BY <1>1, <1>2, <1>3 DEF LeaseCoherent

\* The row under a current lease is running.
LEMMA CurrentRuns ==
    ASSUME TypeOK, LeaseCoherent, NEW l \in held, Current(l)
    PROVE  l[1] \in Jobs /\ rows[l[1]].state = "running"
BY TokenAssumption DEF TypeOK, LeaseCoherent, Current

\* Every operation but a pull keeps or drops each lock and hands out nothing.
LEMMA LocksOnlyByPull ==
    ASSUME TypeOK, LeaseCoherent, QueueStep
    PROVE  \/ \E S \in SUBSET Jobs : Batch(S)
           \/ held' \subseteq held /\ \A j \in Jobs : KeepsLock(j) \/ DropsLock(j)
<1> DEFINE Frugal == held' \subseteq held /\ \A j \in Jobs : KeepsLock(j) \/ DropsLock(j)
<1>0. /\ rows \in [Jobs -> Row]
      /\ \A j \in Jobs : rows[j] \in Row
      /\ \A j \in Jobs : rows[j].state = "running" \/ rows[j].leaseLeft = Unlocked
  BY DEF TypeOK, LeaseCoherent
\* A step that replaces one row by an unlocked one.
<1>a. ASSUME NEW j \in Jobs, NEW r,
             rows' = [rows EXCEPT ![j] = r], held' \subseteq held,
             r.token = NoToken, r.state # "running", r.leaseLeft = Unlocked
      PROVE  Frugal
  <2>1. DropsLock(j)
    BY <1>0, <1>a DEF DropsLock
  <2>2. \A i \in Jobs \ {j} : KeepsLock(i)
    BY <1>0, <1>a DEF KeepsLock
  <2> QED BY <1>a, <2>1, <2>2
<1>b. ASSUME NEW j \in Jobs, NEW state \in {"done", "dead", "cancelled"},
             rows' = [rows EXCEPT ![j] = Unlock(j, state)], held' \subseteq held
      PROVE  Frugal
  <2>1. /\ Unlock(j, state).token = NoToken
        /\ Unlock(j, state).state # "running"
        /\ Unlock(j, state).leaseLeft = Unlocked
    BY UnlockFields
  <2> QED BY <1>a, <1>b, <2>1, Zenon
<1>1. ASSUME NEW j \in Jobs, NEW delay \in 0..MaxDelay, Push(j, delay) PROVE Frugal
  <2> DEFINE r == [state |-> "ready", attempt |-> 1, runIn |-> delay,
                   leaseLeft |-> Unlocked, token |-> NoToken]
  <2>1. r.token = NoToken /\ r.state # "running" /\ r.leaseLeft = Unlocked
    OBVIOUS
  <2>2. rows' = [rows EXCEPT ![j] = r] /\ held' \subseteq held
    BY <1>1 DEF Push
  <2> HIDE DEF r
  <2> QED BY <1>a, <2>1, <2>2, Zenon
<1>2. ASSUME NEW queues \in SUBSET QueueNames, Reclaim(queues) PROVE Frugal
  <2>1. ASSUME NEW j \in Expired(queues) PROVE DropsLock(j)
    <3>1. /\ j \in Jobs
          /\ rows'[j] = [Unlock(j, "ready") EXCEPT !.runIn = 0]
      BY <1>2 DEF Reclaim, Expired, InState
    <3>2. Unlock(j, "ready") \in Row
      BY <3>1, UnlockType, Values
    <3>3. /\ rows'[j].token = Unlock(j, "ready").token
          /\ rows'[j].state = Unlock(j, "ready").state
          /\ rows'[j].leaseLeft = Unlock(j, "ready").leaseLeft
      BY <3>1, <3>2 DEF Row
    <3> QED BY <3>1, <3>3, UnlockFields DEF DropsLock
  <2>2. ASSUME NEW j \in Jobs \ Expired(queues) PROVE KeepsLock(j)
    BY <1>0, <1>2 DEF Reclaim, KeepsLock
  <2> QED BY <1>2, <2>1, <2>2 DEF Reclaim
<1>3. ASSUME NEW L \in SUBSET held, Forget(L) PROVE Frugal
  BY <1>0, <1>3 DEF Forget, KeepsLock
<1>4. ASSUME NEW l \in held, Ack(l) \/ NackDead(l) \/ Heartbeat(l) PROVE Frugal
  <2>0. l[1] \in Jobs
    BY DEF TypeOK
  <2>1. CASE Ack(l)
    <3>1. /\ rows' = [rows EXCEPT ![l[1]] = Unlock(l[1], "done")]
          /\ held' \subseteq held
      BY <2>1 DEF Ack
    <3> QED BY <1>b, <2>0, <3>1, Zenon
  <2>2. CASE NackDead(l)
    <3>1. /\ rows' = [rows EXCEPT ![l[1]] = Unlock(l[1], "dead")]
          /\ held' \subseteq held
      BY <2>2 DEF NackDead
    <3> QED BY <1>b, <2>0, <3>1, Zenon
  <2>3. CASE Heartbeat(l)
    <3>1. rows[l[1]].state = "running"
      BY <2>3, CurrentRuns DEF Heartbeat
    <3>2. \A i \in Jobs : rows'[i].state = rows[i].state /\ rows'[i].token = rows[i].token
      BY <1>0, <2>0, <2>3 DEF Heartbeat, Row
    <3>3. \A i \in Jobs \ {l[1]} : rows'[i] = rows[i]
      BY <1>0, <2>0, <2>3 DEF Heartbeat
    <3> QED BY <1>0, <2>3, <3>1, <3>2, <3>3 DEF Heartbeat, KeepsLock
  <2> QED BY <1>4, <2>1, <2>2, <2>3
<1>5. ASSUME NEW l \in held, NEW delay \in 0..MaxDelay, NackRetry(l, delay) PROVE Frugal
  <2> DEFINE u == Unlock(l[1], "retrying")
             r == [u EXCEPT !.attempt = @ + 1, !.runIn = delay]
  <2>1. l[1] \in Jobs
    BY DEF TypeOK
  <2>2. u \in Row
    BY <2>1, UnlockType, Values
  <2>3. r.token = u.token /\ r.state = u.state /\ r.leaseLeft = u.leaseLeft
    <3> HIDE DEF u
    <3> QED BY <2>2 DEF Row
  <2>4. r.token = NoToken /\ r.state = "retrying" /\ r.leaseLeft = Unlocked
    BY <2>1, <2>3, UnlockFields
  <2>5. rows' = [rows EXCEPT ![l[1]] = r] /\ held' \subseteq held
    BY <1>5 DEF NackRetry
  <2> HIDE DEF r
  <2> QED BY <1>a, <2>1, <2>4, <2>5
<1>6. ASSUME NEW j \in Jobs, Cancel(j) PROVE Frugal
  <2>1. rows' = [rows EXCEPT ![j] = Unlock(j, "cancelled")] /\ held' \subseteq held
    BY <1>6 DEF Cancel
  <2> QED BY <1>b, <2>1, Zenon
<1>7. ASSUME NEW S \in SUBSET InState({"dead"}), Retry(S) \/ Discard(S) PROVE Frugal
  <2>1. \A j \in S : j \in Jobs /\ rows[j].state = "dead" /\ rows[j].token = NoToken
    BY DEF InState, LeaseCoherent
  <2>2. CASE Retry(S)
    <3>1. ASSUME NEW j \in S PROVE DropsLock(j)
      <4>1. /\ rows'[j].state = "ready"
            /\ rows'[j].token = rows[j].token
            /\ rows'[j].leaseLeft = rows[j].leaseLeft
        BY <1>0, <2>1, <2>2 DEF Retry, Row
      <4> QED BY <1>0, <2>1, <4>1 DEF DropsLock
    <3>2. ASSUME NEW j \in Jobs \ S PROVE KeepsLock(j)
      BY <1>0, <2>2 DEF Retry, KeepsLock
    <3> QED BY <2>2, <3>1, <3>2 DEF Retry
  <2>3. CASE Discard(S)
    <3>1. ASSUME NEW j \in S PROVE DropsLock(j)
      BY <2>1, <2>3 DEF Discard, Absent, DropsLock
    <3>2. ASSUME NEW j \in Jobs \ S PROVE KeepsLock(j)
      BY <1>0, <2>3 DEF Discard, KeepsLock
    <3> QED BY <2>3, <3>1, <3>2 DEF Discard
  <2> QED BY <1>7, <2>2, <2>3
<1>8. ASSUME Tick PROVE Frugal
  <2>1. ASSUME NEW j \in Jobs PROVE KeepsLock(j)
    <3> DEFINE left == IF rows[j].leaseLeft >= 0 THEN rows[j].leaseLeft - 1
                       ELSE rows[j].leaseLeft
    <3>1. PICK m : rows'[j] = [rows[j] EXCEPT !.runIn = m, !.leaseLeft = left]
      BY <1>8 DEF Tick
    <3>2. /\ rows'[j].state = rows[j].state
          /\ rows'[j].token = rows[j].token
          /\ rows'[j].leaseLeft = left
      <4> HIDE DEF left
      <4> QED BY <1>0, <3>1 DEF Row
    <3>3. rows[j].leaseLeft = Unlocked => left = Unlocked
      BY DEF Unlocked
    <3> QED BY <1>0, <3>2, <3>3 DEF KeepsLock
  <2> QED BY <1>8, <2>1 DEF Tick
<1> QED BY <1>1, <1>2, <1>3, <1>4, <1>5, <1>6, <1>7, <1>8 DEF QueueStep

\* The lock columns after a pull: a fresh token on every row of the batch, the
\* other rows as they were.
LEMMA BatchLocks ==
    ASSUME TypeOK, NEW S \in SUBSET Jobs, NEW f \in TokenChoices(S), Lease(S, f)
    PROVE  /\ \A j \in S : /\ rows'[j].state = "running"
                           /\ rows'[j].token = f[j]
                           /\ f[j] \in Tokens /\ f[j] \notin UsedTokens
           /\ \A i, j \in S : f[i] = f[j] => i = j
           /\ \A j \in Jobs \ S : rows'[j] = rows[j]
           /\ held' = held \union {<<j, f[j]>> : j \in S}
<1>1. ASSUME NEW j \in S
      PROVE  /\ rows'[j].state = "running"
             /\ rows'[j].token = f[j]
  <2>1. rows[j] \in Row
    BY DEF TypeOK
  <2>2. rows'[j] = [rows[j] EXCEPT !.state = "running", !.token = f[j], !.leaseLeft = LeaseLen]
    BY DEF Lease
  <2> QED BY <2>1, <2>2 DEF Row
<1>2. \A j \in S : f[j] \in Tokens /\ f[j] \notin UsedTokens
  BY DEF TokenChoices, FreshTokens
<1>3. \A i, j \in S : f[i] = f[j] => i = j
  BY DEF TokenChoices
<1>4. \A j \in Jobs \ S : rows'[j] = rows[j]
  BY DEF Lease
<1>5. held' = held \union {<<j, f[j]>> : j \in S}
  BY DEF Lease
<1> QED BY <1>1, <1>2, <1>3, <1>4, <1>5

\* A pull keeps locks and leases coherent: its tokens are new.
LEMMA BatchCoherent ==
    ASSUME TypeOK, LeaseCoherent, NEW S \in SUBSET Jobs, Batch(S)
    PROVE  LeaseCoherent'
<1>1. PICK f \in TokenChoices(S) : Lease(S, f)
  BY DEF Batch
<1>2. /\ \A j \in S : /\ rows'[j].state = "running"
                      /\ rows'[j].token = f[j]
                      /\ f[j] \in Tokens /\ f[j] \notin UsedTokens
      /\ \A i, j \in S : f[i] = f[j] => i = j
      /\ \A j \in Jobs \ S : rows'[j] = rows[j]
      /\ held' = held \union {<<j, f[j]>> : j \in S}
  BY <1>1, BatchLocks
<1>3. ASSUME NEW j \in Jobs
      PROVE  /\ rows'[j].state = "running" <=> rows'[j].token # NoToken
             /\ rows'[j].state # "running" => rows'[j].leaseLeft = Unlocked
  BY <1>2, TokenAssumption DEF LeaseCoherent
<1>4. ASSUME NEW j \in Jobs, NEW i \in Jobs,
             rows'[i].token = rows'[j].token, rows'[j].token # NoToken
      PROVE  i = j
  <2>1. CASE i \in S /\ j \in S
    BY <1>2, <1>4, <2>1
  <2>2. CASE i \in S /\ j \notin S
    BY <1>2, <1>4, <2>2 DEF UsedTokens
  <2>3. CASE i \notin S /\ j \in S
    BY <1>2, <1>4, <2>3 DEF UsedTokens
  <2>4. CASE i \notin S /\ j \notin S
    BY <1>2, <1>4, <2>4 DEF LeaseCoherent
  <2> QED BY <2>1, <2>2, <2>3, <2>4
<1>5. ASSUME NEW j \in Jobs, NEW l \in held', l[2] = rows'[j].token
      PROVE  l[1] = j
  <2>1. CASE l \in held /\ j \in S
    BY <1>2, <1>5, <2>1 DEF UsedTokens
  <2>2. CASE l \in held /\ j \notin S
    BY <1>2, <1>5, <2>2 DEF LeaseCoherent
  <2>3. CASE l \notin held
    <3>1. PICK k \in S : l = <<k, f[k]>>
      BY <1>2, <2>3
    <3>2. CASE j \in S
      BY <1>2, <1>5, <3>1, <3>2
    <3>3. CASE j \notin S
      BY <1>2, <1>5, <3>1, <3>3 DEF UsedTokens
    <3> QED BY <3>2, <3>3
  <2> QED BY <2>1, <2>2, <2>3
<1> QED BY <1>3, <1>4, <1>5 DEF LeaseCoherent

\* Every step keeps locks and leases coherent.
LEMMA CoherenceStep ==
    ASSUME TypeOK, LeaseCoherent, [QueueStep]_vars
    PROVE  LeaseCoherent'
<1>1. CASE QueueStep
  BY <1>1, LocksOnlyByPull, BatchCoherent, NoNewLock
<1>2. CASE UNCHANGED vars
  BY <1>2 DEF vars, LeaseCoherent
<1> QED BY <1>1, <1>2

\* A row is locked exactly while it runs, and a token names one row for ever.
THEOREM Coherence == Spec => []LeaseCoherent
<1>1. Init => LeaseCoherent
  BY DEF Init, LeaseCoherent, Absent
<1>2. TypeOK /\ LeaseCoherent /\ [Next]_vars => LeaseCoherent'
  BY NextSteps, CoherenceStep
<1> QED BY <1>1, <1>2, Typing, PTL DEF Spec

-----------------------------------------------------------------------------
(* Rows over their life *)

\* What a step other than a push does to row j: its state stays, or it was
\* active, or it was dead and comes back, if at all, as a revived row.
RowStep(j) ==
    \/ rows'[j].state = rows[j].state /\ (j \in revived => j \in revived')
    \/ rows[j].state \in Active /\ (j \in revived => j \in revived')
    \/ rows[j].state = "dead" /\ (rows'[j].state \in Active => j \in revived')

LEMMA RowSteps ==
    ASSUME TypeOK, LeaseCoherent, QueueStep
    PROVE  \/ \E j \in Jobs, delay \in 0..MaxDelay : Push(j, delay)
           \/ \A j \in Jobs : RowStep(j)
<1> DEFINE Steps == \A j \in Jobs : RowStep(j)
<1>0. /\ rows \in [Jobs -> Row]
      /\ \A j \in Jobs : rows[j] \in Row
  BY DEF TypeOK
\* A step that replaces one active row.
<1>a. ASSUME NEW j \in Jobs, NEW r, rows' = [rows EXCEPT ![j] = r],
             rows[j].state \in Active, UNCHANGED revived
      PROVE  Steps
  BY <1>0, <1>a DEF RowStep
<1>1. ASSUME NEW S \in SUBSET Jobs, Batch(S) PROVE Steps
  <2>1. PICK f \in TokenChoices(S) : Lease(S, f)
    BY <1>1 DEF Batch
  <2>2. \A j \in S : rows[j].state \in Active
    BY <1>1 DEF Batch, InState, Active
  <2> QED BY <1>0, <2>1, <2>2 DEF Lease, RowStep
<1>2. ASSUME NEW queues \in SUBSET QueueNames, Reclaim(queues) PROVE Steps
  <2>1. \A j \in Expired(queues) : rows[j].state \in Active
    BY DEF Expired, InState, Active
  <2> QED BY <1>0, <1>2, <2>1 DEF Reclaim, RowStep
<1>3. ASSUME NEW L \in SUBSET held, Forget(L) PROVE Steps
  BY <1>3 DEF Forget, RowStep
<1>4. ASSUME NEW l \in held,
             \/ Ack(l) \/ NackDead(l) \/ Heartbeat(l)
             \/ \E delay \in 0..MaxDelay : NackRetry(l, delay)
      PROVE  Steps
  <2>1. Current(l)
    BY <1>4 DEF Ack, NackDead, Heartbeat, NackRetry
  <2>2. l[1] \in Jobs /\ rows[l[1]].state \in Active
    BY <2>1, CurrentRuns DEF Active
  <2>3. PICK r : rows' = [rows EXCEPT ![l[1]] = r] /\ UNCHANGED revived
    BY <1>4 DEF Ack, NackDead, Heartbeat, NackRetry
  <2> QED BY <1>a, <2>2, <2>3
<1>5. ASSUME NEW j \in Jobs, Cancel(j) PROVE Steps
  <2>1. PICK r : rows' = [rows EXCEPT ![j] = r] /\ UNCHANGED revived
    BY <1>5 DEF Cancel
  <2>2. rows[j].state \in Active
    BY <1>5 DEF Cancel
  <2> QED BY <1>a, <2>1, <2>2
<1>6. ASSUME NEW S \in SUBSET InState({"dead"}), Retry(S) \/ Discard(S) PROVE Steps
  <2>1. \A j \in S : j \in Jobs /\ rows[j].state = "dead"
    BY DEF InState
  <2>2. CASE Retry(S)
    BY <1>0, <2>1, <2>2 DEF Retry, RowStep
  <2>3. CASE Discard(S)
    BY <1>0, <2>1, <2>3 DEF Discard, Absent, RowStep, Active, Waiting
  <2> QED BY <1>6, <2>2, <2>3
<1>7. ASSUME Tick PROVE Steps
  <2>1. ASSUME NEW j \in Jobs PROVE rows'[j].state = rows[j].state
    <3>1. PICK m, n : rows'[j] = [rows[j] EXCEPT !.runIn = m, !.leaseLeft = n]
      BY <1>7 DEF Tick
    <3> QED BY <1>0, <3>1 DEF Row
  <2> QED BY <1>7, <2>1 DEF Tick, RowStep
<1> QED BY <1>1, <1>2, <1>3, <1>4, <1>5, <1>6, <1>7 DEF QueueStep

\* No step moves a settled row.
LEMMA FinalityStep ==
    ASSUME TypeOK, LeaseCoherent, QueueStep, NEW j \in Jobs, rows[j].state \in Settled
    PROVE  rows'[j].state = rows[j].state
<1>1. ASSUME NEW i \in Jobs, NEW delay \in 0..MaxDelay, Push(i, delay)
      PROVE  rows'[j].state = rows[j].state
  <2>1. \A k \in Jobs \ {i} : rows'[k] = rows[k]
    BY <1>1 DEF Push, TypeOK
  <2> QED BY <1>1, <2>1 DEF Push, Settled
<1>2. CASE \A i \in Jobs : RowStep(i)
  BY <1>2 DEF RowStep, Settled, Active, Waiting
<1> QED BY <1>1, <1>2, RowSteps

\* A done or cancelled row is final, whatever leases are still in flight.
THEOREM Finality == Spec => SettledIsFinal
<1> DEFINE Final == \A j \in Jobs :
                      rows[j].state \in Settled => rows'[j].state = rows[j].state
<1>1. TypeOK /\ LeaseCoherent /\ [Next]_vars => [Final]_vars
  BY NextSteps, FinalityStep
<1> QED BY <1>1, Typing, Coherence, PTL DEF Spec, SettledIsFinal

\* A row enters the active states by a push, which looks at its key, or by a
\* retry, which puts it among the revived.
LEMMA UniquenessStep ==
    ASSUME TypeOK, LeaseCoherent, UniqueUnlessRevived, [QueueStep]_vars
    PROVE  UniqueUnlessRevived'
<1> DEFINE Counted == InState(Active) \ revived
<1>1. ASSUME NEW k \in Jobs, NEW delay \in 0..MaxDelay, Push(k, delay)
      PROVE  UniqueUnlessRevived'
  <2>1. Counted' \subseteq Counted \union {k}
    BY <1>1 DEF Push, TypeOK, InState
  <2>2. \A i \in Counted : ~SameKey(i, k) /\ ~SameKey(k, i)
    BY <1>1 DEF Push, KeyTaken, SameKey
  <2> QED BY <2>1, <2>2 DEF UniqueUnlessRevived, SameKey
<1>2. CASE \A j \in Jobs : RowStep(j)
  <2>1. Counted' \subseteq Counted
    BY <1>2 DEF RowStep, InState, Active, Waiting
  <2> QED BY <2>1 DEF UniqueUnlessRevived, SameKey
<1>3. CASE UNCHANGED vars
  BY <1>3 DEF vars, UniqueUnlessRevived, InState, SameKey
<1> QED BY <1>1, <1>2, <1>3, RowSteps

\* At most one active row carries a unique key, dead letters an operator
\* retried aside.
THEOREM Uniqueness == Spec => []UniqueUnlessRevived
<1>1. Init => UniqueUnlessRevived
  BY DEF Init, UniqueUnlessRevived, InState, Absent, Active, Waiting
<1>2. TypeOK /\ LeaseCoherent /\ UniqueUnlessRevived /\ [Next]_vars => UniqueUnlessRevived'
  BY NextSteps, UniquenessStep
<1> QED BY <1>1, <1>2, Typing, Coherence, PTL DEF Spec

\* A pull makes no second live lease of a serial type, and nothing else makes
\* a lease.
LEMMA SerialPullStep ==
    ASSUME TypeOK, LeaseCoherent, QueueStep,
           NEW i \in Jobs, NEW j \in Jobs, i # j, SameSerial(i, j), Live(i)', Live(j)'
    PROVE  rows[i].state = "running" /\ rows[j].state = "running"
<1>1. ASSUME NEW S \in SUBSET Jobs, Batch(S) PROVE i \notin S /\ j \notin S
  <2>1. \A k \in Jobs \ S : rows'[k] = rows[k]
    BY <1>1, BatchLocks DEF Batch
  <2>2. \A h \in S, k \in Jobs \ S : ~(SameSerial(k, h) /\ Live(k))
    <3>1. \A h \in S : ~SerialBusy(h)
      BY <1>1 DEF Batch
    <3>2. \A k \in Jobs : Live(k) => k \in InState({"running"}) /\ rows[k].leaseLeft > 0
      BY DEF Live, InState
    <3> QED BY <3>1, <3>2, Zenon DEF SerialBusy
  <2>3. \A h, k \in S : SameSerial(h, k) => h = k
    BY <1>1 DEF Batch
  <2> QED BY <2>1, <2>2, <2>3 DEF Live, SameSerial
<1>2. ASSUME NEW S \in SUBSET Jobs, Batch(S)
      PROVE  rows[i].state = "running" /\ rows[j].state = "running"
  <2>1. \A k \in Jobs \ S : rows'[k] = rows[k]
    BY <1>2, BatchLocks DEF Batch
  <2> QED BY <1>1, <1>2, <2>1 DEF Live
<1>3. CASE \A k \in Jobs : KeepsLock(k) \/ DropsLock(k)
  BY <1>3 DEF KeepsLock, DropsLock, Live
<1> QED BY <1>2, <1>3, LocksOnlyByPull

\* No pull makes a second live lease of a serial job.
THEOREM SerialPulls == Spec => SerialPull
<1> DEFINE Serial == \A i, j \in Jobs :
                       /\ i # j /\ SameSerial(i, j)
                       /\ Live(i)' /\ Live(j)'
                       => rows[i].state = "running" /\ rows[j].state = "running"
<1>1. TypeOK /\ LeaseCoherent /\ [Next]_vars => [Serial]_vars
  BY NextSteps, SerialPullStep
<1> QED BY <1>1, Typing, Coherence, PTL DEF Spec, SerialPull

-----------------------------------------------------------------------------
(* The memory backend implements the Queue trait *)

\* The rows of S lose their lock and move to phase p, the others stay.
LEMMA Moves ==
    ASSUME NEW S \in SUBSET Jobs, NEW p,
           \A j \in S : Phase(j)' = p /\ rows'[j].token = NoToken,
           \A j \in Jobs \ S : rows'[j] = rows[j]
    PROVE  LQ!Move(S, p)
<1>1. \A j \in Jobs \ S : Phase(j)' = Phase(j) /\ rows'[j].token = rows[j].token
  BY DEF Phase
<1>2. [j \in Jobs |-> Phase(j)]' = [j \in Jobs |-> IF j \in S THEN p ELSE Phase(j)]
  BY <1>1
<1>3. [j \in Jobs |-> rows[j].token]' =
        [j \in Jobs |-> IF j \in S THEN NoToken ELSE rows[j].token]
  BY <1>1
<1>4. /\ [j \in Jobs |-> Phase(j)]' =
           [j \in Jobs |-> IF j \in S THEN p ELSE [i \in Jobs |-> Phase(i)][j]]
      /\ [j \in Jobs |-> rows[j].token]' =
           [j \in Jobs |-> IF j \in S THEN NoToken ELSE [i \in Jobs |-> rows[i].token][j]]
  BY <1>2, <1>3
<1> QED BY <1>4, Zenon DEF LQ!Move

\* Replacing one row by an unlocked one moves that row alone.
LEMMA MovesOne ==
    ASSUME TypeOK, NEW j \in Jobs, NEW r, rows' = [rows EXCEPT ![j] = r],
           r.state \in Waiting \union Settled \union {"dead"}, r.token = NoToken
    PROVE  LQ!Move({j}, IF r.state \in Waiting THEN "waiting" ELSE r.state)
<1>1. rows'[j] = r /\ \A i \in Jobs \ {j} : rows'[i] = rows[i]
  BY DEF TypeOK
<1>2. Phase(j)' = IF r.state \in Waiting THEN "waiting" ELSE r.state
  BY <1>1 DEF Phase, Waiting, Settled
<1> QED BY <1>1, <1>2, Moves

\* Every step of the memory backend is a step of the Queue trait or none.
LEMMA StepSimulation ==
    ASSUME TypeOK, LeaseCoherent, [QueueStep]_vars
    PROVE  [LQ!Next]_LQ!vars
<1>0. /\ rows \in [Jobs -> Row]
      /\ \A j \in Jobs : rows[j] \in Row
      /\ \A l \in held : l[1] \in Jobs /\ l[2] \in Tokens
  BY DEF TypeOK
<1>1. ASSUME NEW j \in Jobs, NEW delay \in 0..MaxDelay, Push(j, delay) PROVE LQ!Push(j)
  <2> DEFINE r == [state |-> "ready", attempt |-> 1, runIn |-> delay,
                   leaseLeft |-> Unlocked, token |-> NoToken]
  <2>1. r.state \in Waiting /\ r.token = NoToken
    BY DEF Waiting
  <2>2. rows' = [rows EXCEPT ![j] = r] /\ rows[j].state = "absent" /\ UNCHANGED held
    BY <1>1 DEF Push
  <2>3. LQ!Move({j}, "waiting")
    <3> HIDE DEF r
    <3> QED BY <2>1, <2>2, MovesOne
  <2>4. [i \in Jobs |-> Phase(i)][j] = "absent"
    BY <2>2 DEF Phase, Waiting
  <2> QED BY <2>2, <2>3, <2>4, Zenon DEF LQ!Push
<1>2. ASSUME NEW S \in SUBSET Jobs, Batch(S) PROVE LQ!Grant(S)
  <2>1. PICK f \in TokenChoices(S) : Lease(S, f)
    BY <1>2 DEF Batch
  <2>2. /\ \A j \in S : /\ rows'[j].state = "running"
                        /\ rows'[j].token = f[j]
                        /\ f[j] \in Tokens /\ f[j] \notin UsedTokens
        /\ \A i, j \in S : f[i] = f[j] => i = j
        /\ \A j \in Jobs \ S : rows'[j] = rows[j]
        /\ held' = held \union {<<j, f[j]>> : j \in S}
    BY <2>1, BatchLocks
  <2>3. \A j \in S : [i \in Jobs |-> Phase(i)][j] = "waiting"
    <3>1. \A j \in S : rows[j].state \in Waiting
      BY <1>2 DEF Batch, InState
    <3>2. ASSUME NEW j \in S PROVE Phase(j) = "waiting"
      BY <3>1 DEF Phase, Waiting
    <3> QED BY <3>2
  <2>4. LQ!InUse = UsedTokens
    BY DEF LQ!InUse, UsedTokens
  <2>5. f \in [S -> Tokens \ LQ!InUse]
    BY <2>4 DEF TokenChoices, FreshTokens
  <2>6. /\ [j \in Jobs |-> Phase(j)]' =
             [j \in Jobs |-> IF j \in S THEN "leased" ELSE [i \in Jobs |-> Phase(i)][j]]
        /\ [j \in Jobs |-> rows[j].token]' =
             [j \in Jobs |-> IF j \in S THEN f[j] ELSE [i \in Jobs |-> rows[i].token][j]]
    BY <2>2 DEF Phase, Waiting
  <2> QED BY <2>2, <2>3, <2>5, <2>6, Zenon DEF LQ!Grant
<1>3. ASSUME NEW queues \in SUBSET QueueNames, Reclaim(queues)
      PROVE  \E S \in SUBSET Jobs : LQ!Lapse(S)
  <2>0. PICK S : S = Expired(queues)
    OBVIOUS
  <2>1. S \in SUBSET Jobs /\ \A j \in S : rows[j].state = "running"
    BY <2>0 DEF Expired, InState
  <2>2. ASSUME NEW j \in S PROVE Phase(j)' = "waiting" /\ rows'[j].token = NoToken
    <3>1. rows'[j] = [Unlock(j, "ready") EXCEPT !.runIn = 0]
      BY <1>3, <2>0, <2>1 DEF Reclaim
    <3>2. Unlock(j, "ready") \in Row
      BY <2>1, UnlockType, Values
    <3>3. /\ rows'[j].token = Unlock(j, "ready").token
          /\ rows'[j].state = Unlock(j, "ready").state
      BY <3>1, <3>2 DEF Row
    <3> QED BY <2>1, <3>3, UnlockFields DEF Phase, Waiting
  <2>3. \A j \in Jobs \ S : rows'[j] = rows[j]
    BY <1>0, <1>3, <2>0 DEF Reclaim
  <2>4. LQ!Move(S, "waiting")
    BY <2>1, <2>2, <2>3, Moves
  <2>5. \A j \in S : [i \in Jobs |-> Phase(i)][j] = "leased"
    BY <2>1 DEF Phase, Waiting
  <2>6. LQ!Lapse(S)
    BY <1>3, <2>4, <2>5, Zenon DEF Reclaim, LQ!Lapse
  <2> QED BY <2>1, <2>6
<1>4. ASSUME NEW L \in SUBSET held, Forget(L) PROVE LQ!Abandon(L)
  BY <1>4 DEF Forget, LQ!Abandon, Phase
<1>a. ASSUME NEW l \in held, NEW r, Current(l), rows' = [rows EXCEPT ![l[1]] = r],
             r.state \in {"done", "dead", "retrying"}, r.token = NoToken,
             held' = held \ {l}
      PROVE  \E p \in {"done", "waiting", "dead"} : LQ!Settle(l, p)
  <2> DEFINE p == IF r.state \in Waiting THEN "waiting" ELSE r.state
  <2>1. p \in {"done", "waiting", "dead"}
    BY <1>a DEF Waiting
  <2>2. LQ!Move({l[1]}, p)
    BY <1>0, <1>a, MovesOne DEF Waiting, Settled
  <2>3. /\ [i \in Jobs |-> Phase(i)][l[1]] = "leased"
        /\ [i \in Jobs |-> rows[i].token][l[1]] = l[2]
    BY <1>0, <1>a, CurrentRuns DEF Phase, Waiting, Current
  <2> HIDE DEF p
  <2>4. LQ!Settle(l, p)
    BY <1>a, <2>2, <2>3, Zenon DEF LQ!Settle
  <2> QED BY <2>1, <2>4
<1>5. ASSUME NEW l \in held, Ack(l) \/ NackDead(l)
      PROVE  \E p \in {"done", "waiting", "dead"} : LQ!Settle(l, p)
  <2>1. PICK s \in {"done", "dead"} : /\ rows' = [rows EXCEPT ![l[1]] = Unlock(l[1], s)]
                                      /\ held' = held \ {l} /\ Current(l)
    BY <1>5 DEF Ack, NackDead
  <2>2. Unlock(l[1], s).state \in {"done", "dead", "retrying"} /\ Unlock(l[1], s).token = NoToken
    BY <1>0, UnlockFields
  <2> QED BY <1>a, <2>1, <2>2
<1>6. ASSUME NEW l \in held, NEW delay \in 0..MaxDelay, NackRetry(l, delay)
      PROVE  \E p \in {"done", "waiting", "dead"} : LQ!Settle(l, p)
  <2> DEFINE u == Unlock(l[1], "retrying")
             r == [u EXCEPT !.attempt = @ + 1, !.runIn = delay]
  <2>1. u \in Row
    BY <1>0, UnlockType, Values
  <2>2. r.token = u.token /\ r.state = u.state
    <3> HIDE DEF u
    <3> QED BY <2>1 DEF Row
  <2>3. r.token = NoToken /\ r.state \in {"done", "dead", "retrying"}
    BY <1>0, <2>2, UnlockFields
  <2>4. rows' = [rows EXCEPT ![l[1]] = r] /\ held' = held \ {l} /\ Current(l)
    BY <1>6 DEF NackRetry
  <2> HIDE DEF r
  <2> QED BY <1>a, <2>3, <2>4
<1>7. ASSUME NEW j \in Jobs, Cancel(j) PROVE LQ!Cancel(j)
  <2> DEFINE r == Unlock(j, "cancelled")
  <2>1. r.state = "cancelled" /\ r.token = NoToken
    BY UnlockFields
  <2>2. rows' = [rows EXCEPT ![j] = r] /\ UNCHANGED held
    BY <1>7 DEF Cancel
  <2>3. LQ!Move({j}, "cancelled")
    <3>1. rows'[j] = r /\ \A i \in Jobs \ {j} : rows'[i] = rows[i]
      <4> HIDE DEF r
      <4> QED BY <1>0, <2>2
    <3>2. Phase(j)' = "cancelled" /\ rows'[j].token = NoToken
      BY <2>1, <3>1 DEF Phase, Waiting
    <3> QED BY <3>1, <3>2, Moves
  <2>4. [i \in Jobs |-> Phase(i)][j] \in {"waiting", "leased"}
    BY <1>7 DEF Cancel, Active, Phase, Waiting
  <2> QED BY <2>2, <2>3, <2>4, Zenon DEF LQ!Cancel
<1>8. ASSUME NEW S \in SUBSET InState({"dead"}), Retry(S) \/ Discard(S)
      PROVE  S \in SUBSET Jobs /\ \E p \in {"waiting", "absent"} : LQ!Redrive(S, p)
  <2>1. \A j \in S : j \in Jobs /\ rows[j].state = "dead" /\ rows[j].token = NoToken
    BY DEF InState, LeaseCoherent
  <2>2. \A j \in S : [i \in Jobs |-> Phase(i)][j] = "dead"
    BY <2>1 DEF Phase, Waiting
  <2>3. CASE Retry(S)
    <3>1. ASSUME NEW j \in S PROVE Phase(j)' = "waiting" /\ rows'[j].token = NoToken
      <4>1. rows'[j] = [rows[j] EXCEPT !.state = "ready", !.attempt = 1, !.runIn = 0]
        BY <2>1, <2>3 DEF Retry
      <4>2. rows'[j].state = "ready" /\ rows'[j].token = rows[j].token
        BY <1>0, <2>1, <4>1 DEF Row
      <4> QED BY <2>1, <4>2 DEF Phase, Waiting
    <3>2. LQ!Move(S, "waiting")
      BY <2>1, <2>3, <3>1, Moves DEF Retry
    <3>3. LQ!Redrive(S, "waiting")
      BY <2>2, <2>3, <3>2, Zenon DEF Retry, LQ!Redrive
    <3> QED BY <2>1, <3>3
  <2>4. CASE Discard(S)
    <3>1. ASSUME NEW j \in S PROVE Phase(j)' = "absent" /\ rows'[j].token = NoToken
      BY <2>1, <2>4 DEF Discard, Absent, Phase, Waiting
    <3>2. LQ!Move(S, "absent")
      BY <2>1, <2>4, <3>1, Moves DEF Discard
    <3>3. LQ!Redrive(S, "absent")
      BY <2>2, <2>4, <3>2, Zenon DEF Discard, LQ!Redrive
    <3> QED BY <2>1, <3>3
  <2> QED BY <1>8, <2>3, <2>4
\* Renewing a lease and the passing of time are not seen.
<1>b. ASSUME \A j \in Jobs : rows'[j].state = rows[j].state /\ rows'[j].token = rows[j].token,
             UNCHANGED held
      PROVE  UNCHANGED LQ!vars
  BY <1>b DEF LQ!vars, Phase
<1>9. ASSUME NEW l \in held, Heartbeat(l) PROVE UNCHANGED LQ!vars
  <2>1. \A j \in Jobs : rows'[j].state = rows[j].state /\ rows'[j].token = rows[j].token
    BY <1>0, <1>9 DEF Heartbeat, Row
  <2> QED BY <1>9, <1>b, <2>1 DEF Heartbeat
<1>10. ASSUME Tick PROVE UNCHANGED LQ!vars
  <2>1. ASSUME NEW j \in Jobs PROVE rows'[j].state = rows[j].state /\ rows'[j].token = rows[j].token
    <3>1. PICK m, n : rows'[j] = [rows[j] EXCEPT !.runIn = m, !.leaseLeft = n]
      BY <1>10 DEF Tick
    <3> QED BY <1>0, <3>1 DEF Row
  <2> QED BY <1>10, <1>b, <2>1 DEF Tick
<1>11. CASE UNCHANGED vars
  BY <1>11 DEF vars, LQ!vars, Phase
<1>12. CASE QueueStep
  <2>1. ASSUME NEW j \in Jobs,
               Cancel(j) \/ \E delay \in 0..MaxDelay : Push(j, delay)
        PROVE  LQ!Next
    BY <1>1, <1>7, <2>1 DEF LQ!Next
  <2>2. ASSUME NEW S \in SUBSET Jobs, Batch(S) PROVE LQ!Next
    BY <1>2, <2>2 DEF LQ!Next
  <2>3. ASSUME NEW queues \in SUBSET QueueNames, Reclaim(queues) PROVE LQ!Next
    BY <1>3, <2>3 DEF LQ!Next
  <2>4. ASSUME NEW L \in SUBSET held, Forget(L) PROVE LQ!Next
    BY <1>4, <2>4 DEF LQ!Next
  <2>5. ASSUME NEW l \in held, Ack(l) \/ NackDead(l) \/ Heartbeat(l)
        PROVE  LQ!Next \/ UNCHANGED LQ!vars
    BY <1>5, <1>9, <2>5 DEF LQ!Next
  <2>6. ASSUME NEW l \in held, NEW delay \in 0..MaxDelay, NackRetry(l, delay) PROVE LQ!Next
    BY <1>6, <2>6 DEF LQ!Next
  <2>7. ASSUME NEW S \in SUBSET InState({"dead"}), Retry(S) \/ Discard(S) PROVE LQ!Next
    BY <1>8, <2>7 DEF LQ!Next
  <2> QED BY <1>10, <1>12, <2>1, <2>2, <2>3, <2>4, <2>5, <2>6, <2>7 DEF QueueStep
<1> QED BY <1>11, <1>12

\* The memory backend implements the Queue trait.
THEOREM Implementation == Spec => ImplementsLeaseQueue
<1>1. Init => LQ!Init
  BY DEF Init, LQ!Init, Absent, Phase, Waiting
<1>2. TypeOK /\ LeaseCoherent /\ [Next]_vars => [LQ!Next]_LQ!vars
  BY NextSteps, StepSimulation
<1> QED BY <1>1, <1>2, Typing, Coherence, PTL DEF Spec, ImplementsLeaseQueue, LQ!Spec

=============================================================================
