--------------------------- MODULE PgQueueProofs ---------------------------
(***************************************************************************)
(* Theorems of PgQueue, for every set of jobs, tokens, sessions and keys   *)
(* and every bound: the two tables, the row locks, the unique index and    *)
(* the advisory locks agree, a pull leases a serial row beside a live      *)
(* lease only when that lease came after its snapshot, and while no row is *)
(* taken from under a burial the SQL queue implements LeaseQueue.          *)
(***************************************************************************)
EXTENDS PgQueue, TLAPS

-----------------------------------------------------------------------------
(* What the actions do to rows *)

\* Row j has these columns after the step.
RowGoes(j, state, token, left) ==
    /\ rows'[j].state = state
    /\ rows'[j].token = token
    /\ rows'[j].leaseLeft = left

\* No row outside S changes.
Others(S) == \A j \in Jobs \ S : rows'[j] = rows[j]

\* Updating the columns of a row with values of their types leaves a row.
LEMMA RowUpdates ==
    ASSUME NEW r \in Row, NEW s \in JobState, NEW t \in Tokens \union {NoToken},
           NEW m \in Nat, NEW n \in Unlocked..LeaseLen
    PROVE  /\ [r EXCEPT !.state = s, !.token = t, !.leaseLeft = n] \in Row
           /\ [r EXCEPT !.runIn = m, !.leaseLeft = n] \in Row
           /\ [r EXCEPT !.runIn = m] \in Row
           /\ [r EXCEPT !.leaseLeft = n] \in Row
BY DEF Row

\* Every value the code writes into a column is of the column's type.
LEMMA Values ==
    /\ {"ready", "retrying", "running", "done", "cancelled"} \subseteq JobState
    /\ "absent" \notin JobState
    /\ Unlocked \in Unlocked..LeaseLen /\ LeaseLen \in Unlocked..LeaseLen
    /\ LeaseLen \in Nat /\ LeaseLen > 0
    /\ NoToken \in Tokens \union {NoToken}
    /\ \A delay \in 0..MaxDelay : delay \in Nat
BY PgBoundAssumption DEF JobState, Active, Waiting, Unlocked

\* The row after its lock is dropped.
LEMMA UnlockRow ==
    ASSUME NEW j \in Jobs, rows[j] \in Row, NEW state \in JobState, NEW m \in Nat
    PROVE  /\ Unlock(j, state) \in Row
           /\ Unlock(j, state).state = state
           /\ Unlock(j, state).token = NoToken
           /\ Unlock(j, state).leaseLeft = Unlocked
           /\ [Unlock(j, state) EXCEPT !.runIn = m] \in Row
           /\ [Unlock(j, state) EXCEPT !.runIn = m].state = state
           /\ [Unlock(j, state) EXCEPT !.runIn = m].token = NoToken
           /\ [Unlock(j, state) EXCEPT !.runIn = m].leaseLeft = Unlocked
<1>1. Unlock(j, state) \in Row
  BY RowUpdates, Values, Zenon DEF Unlock
<1>2. Unlock(j, state).state = state
  BY DEF Unlock, Row
<1>3. Unlock(j, state).token = NoToken
  BY DEF Unlock, Row
<1>4. Unlock(j, state).leaseLeft = Unlocked
  BY DEF Unlock, Row
<1>5. \A r \in Row : /\ [r EXCEPT !.runIn = m].state = r.state
                     /\ [r EXCEPT !.runIn = m].token = r.token
                     /\ [r EXCEPT !.runIn = m].leaseLeft = r.leaseLeft
  BY DEF Row
<1>6. [Unlock(j, state) EXCEPT !.runIn = m] \in Row
  BY <1>1, RowUpdates, Values, Zenon
<1> QED BY <1>1, <1>2, <1>3, <1>4, <1>5, <1>6

\* Replacing one row, by what it is replaced.
LEMMA OneRow ==
    ASSUME TypeOK, NEW j \in Jobs, NEW r \in Row, rows' = [rows EXCEPT ![j] = r]
    PROVE  /\ rows' \in [Jobs -> Row]
           /\ RowGoes(j, r.state, r.token, r.leaseLeft)
           /\ Others({j})
BY DEF TypeOK, RowGoes, Others

\* Replacing one row by itself without its lock.
LEMMA OneUnlocked ==
    ASSUME TypeOK, NEW j \in Jobs, NEW state \in JobState, NEW m \in Nat,
           \/ rows' = [rows EXCEPT ![j] = Unlock(j, state)]
           \/ rows' = [rows EXCEPT ![j] = [Unlock(j, state) EXCEPT !.runIn = m]]
    PROVE  /\ rows' \in [Jobs -> Row]
           /\ RowGoes(j, state, NoToken, Unlocked)
           /\ Others({j})
<1>1. rows[j] \in Row
  BY DEF TypeOK
<1>2. PICK r : r \in {Unlock(j, state), [Unlock(j, state) EXCEPT !.runIn = m]}
                 /\ rows' = [rows EXCEPT ![j] = r]
  OBVIOUS
<1>3. r \in Row /\ r.state = state /\ r.token = NoToken /\ r.leaseLeft = Unlocked
  <2>1. CASE r = Unlock(j, state)
    BY <1>1, <2>1, UnlockRow, Zenon
  <2>2. CASE r = [Unlock(j, state) EXCEPT !.runIn = m]
    <3> DEFINE u == [Unlock(j, state) EXCEPT !.runIn = m]
    <3>1. u \in Row /\ u.state = state /\ u.token = NoToken /\ u.leaseLeft = Unlocked
      BY <1>1, UnlockRow
    <3> HIDE DEF u
    <3>2. r = u
      BY <2>2 DEF u
    <3> QED BY <3>1, <3>2
  <2> QED BY <1>2, <2>1, <2>2
<1> QED BY <1>2, <1>3, OneRow

\* A row is inserted with no lock.
LEMMA InsertEffect ==
    ASSUME TypeOK, NEW j \in Jobs, NEW delay \in Nat, Insert(j, delay)
    PROVE  /\ rows' \in [Jobs -> Row]
           /\ RowGoes(j, "ready", NoToken, Unlocked)
           /\ Others({j})
<1> DEFINE r == [state |-> "ready", runIn |-> delay, leaseLeft |-> Unlocked, token |-> NoToken]
<1>1. r \in Row
  BY Values DEF Row
<1>2. r.state = "ready" /\ r.token = NoToken /\ r.leaseLeft = Unlocked
  OBVIOUS
<1>3. rows' = [rows EXCEPT ![j] = r]
  BY DEF Insert
<1> HIDE DEF r
<1> QED BY <1>1, <1>2, <1>3, OneRow

\* A settled lease leaves its row unlocked.
LEMMA SettleEffect ==
    ASSUME TypeOK, NEW l \in held, NEW delay \in 0..MaxDelay, Ack(l) \/ NackRetry(l, delay)
    PROVE  /\ l[1] \in Jobs /\ Current(l)
           /\ rows' \in [Jobs -> Row]
           /\ \E s \in {"done", "retrying"} : RowGoes(l[1], s, NoToken, Unlocked)
           /\ Others({l[1]})
           /\ held' = held \ {l}
           /\ UNCHANGED <<dead, name, key, staged, pulls, burials, crossings>>
<1>0. l[1] \in Jobs /\ rows[l[1]] \in Row /\ delay \in Nat
  BY Values DEF TypeOK
<1>1. CASE Ack(l)
  <2>1. rows' = [rows EXCEPT ![l[1]] = Unlock(l[1], "done")]
    BY <1>1 DEF Ack, Settled
  <2>2. rows' \in [Jobs -> Row] /\ RowGoes(l[1], "done", NoToken, Unlocked) /\ Others({l[1]})
    BY <1>0, <2>1, OneUnlocked, Values
  <2> QED BY <1>0, <1>1, <2>2 DEF Ack, Settled
<1>2. CASE NackRetry(l, delay)
  <2>1. rows' = [rows EXCEPT ![l[1]] = [Unlock(l[1], "retrying") EXCEPT !.runIn = delay]]
    BY <1>2 DEF NackRetry, Settled
  <2>2. rows' \in [Jobs -> Row] /\ RowGoes(l[1], "retrying", NoToken, Unlocked) /\ Others({l[1]})
    BY <1>0, <2>1, OneUnlocked, Values
  <2> QED BY <1>0, <1>2, <2>2 DEF NackRetry, Settled
<1> QED BY <1>1, <1>2

\* A heartbeat moves the end of the lease alone.
LEMMA HeartbeatEffect ==
    ASSUME TypeOK, NEW l \in held, Heartbeat(l)
    PROVE  /\ l[1] \in Jobs
           /\ rows' \in [Jobs -> Row]
           /\ RowGoes(l[1], rows[l[1]].state, rows[l[1]].token, LeaseLen)
           /\ Others({l[1]})
<1> DEFINE j == l[1]
           r == [rows[j] EXCEPT !.leaseLeft = LeaseLen]
<1>1. j \in Jobs /\ rows[j] \in Row
  BY DEF TypeOK
<1>2. r \in Row
  BY <1>1, RowUpdates, Values, Zenon
<1>3. r.state = rows[j].state /\ r.token = rows[j].token /\ r.leaseLeft = LeaseLen
  BY <1>1 DEF Row
<1>4. rows' = [rows EXCEPT ![j] = r]
  BY DEF Heartbeat
<1> HIDE DEF r, j
<1>5. rows' \in [Jobs -> Row] /\ RowGoes(j, rows[j].state, rows[j].token, LeaseLen) /\ Others({j})
  BY <1>1, <1>2, <1>3, <1>4, OneRow
<1> QED BY <1>1, <1>5 DEF j

\* A deleted row.
LEMMA DeleteEffect ==
    ASSUME TypeOK, NEW b \in burials, BuryDeletes(b)
    PROVE  /\ b[1] \in Jobs
           /\ rows' \in [Jobs -> Row]
           /\ RowGoes(b[1], "absent", NoToken, Unlocked)
           /\ Others({b[1]})
<1>1. b[1] \in Jobs
  BY DEF TypeOK
<1>2. Absent \in Row /\ Absent.state = "absent" /\ Absent.token = NoToken
        /\ Absent.leaseLeft = Unlocked
  BY Values DEF Absent, Row
<1>3. rows' = [rows EXCEPT ![b[1]] = Absent]
  BY DEF BuryDeletes
<1> QED BY <1>1, <1>2, <1>3, OneRow

\* A cancelled row.
LEMMA CancelEffect ==
    ASSUME TypeOK, NEW j \in Jobs, Cancel(j)
    PROVE  /\ rows' \in [Jobs -> Row]
           /\ RowGoes(j, "cancelled", NoToken, Unlocked)
           /\ Others({j})
<1>1. rows' = [rows EXCEPT ![j] = Unlock(j, "cancelled")] /\ "cancelled" \in JobState
  BY Values DEF Cancel
<1> QED BY <1>1, OneUnlocked

\* Rows whose lease has run out go back.
LEMMA ReclaimEffect ==
    ASSUME TypeOK, NEW queues, Reclaim(queues)
    PROVE  /\ Expired(queues) \subseteq InState({"running"})
           /\ rows' \in [Jobs -> Row]
           /\ \A j \in Expired(queues) : RowGoes(j, "ready", NoToken, Unlocked)
           /\ Others(Expired(queues))
<1> DEFINE X == Expired(queues)
<1>1. X \subseteq InState({"running"}) /\ X \subseteq Jobs
  BY DEF Expired, InState
<1>2. rows' = [j \in Jobs |-> IF j \in X THEN [Unlock(j, "ready") EXCEPT !.runIn = 0] ELSE rows[j]]
  BY DEF Reclaim
<1> HIDE DEF X
<1>3. \A j \in Jobs : rows[j] \in Row
  BY DEF TypeOK
<1>4. ASSUME NEW j \in Jobs
      PROVE  /\ rows'[j] \in Row
             /\ j \in X => RowGoes(j, "ready", NoToken, Unlocked)
             /\ j \notin X => rows'[j] = rows[j]
  <2>1. CASE j \in X
    <3>1. rows'[j] = [Unlock(j, "ready") EXCEPT !.runIn = 0]
      BY <1>2, <2>1
    <3> QED BY <1>3, <2>1, <3>1, UnlockRow, Values DEF RowGoes
  <2>2. CASE j \notin X
    BY <1>2, <1>3, <2>2
  <2> QED BY <2>1, <2>2
<1>5. rows' \in [Jobs -> Row]
  BY <1>2, <1>4
<1>6. (\A j \in X : RowGoes(j, "ready", NoToken, Unlocked)) /\ Others(X)
  BY <1>1, <1>4 DEF Others
<1> QED BY <1>1, <1>5, <1>6 DEF X

\* A committed pull locks its rows.
LEMMA CommitEffect ==
    ASSUME TypeOK, NEW s \in Sessions, PullCommits(s)
    PROVE  /\ pulls[s].rows \subseteq Jobs
           /\ rows' \in [Jobs -> Row]
           /\ \A j \in pulls[s].rows : RowGoes(j, "running", pulls[s].token, LeaseLen)
           /\ Others(pulls[s].rows)
<1>1. pulls[s].rows \subseteq Jobs /\ pulls[s].token \in Tokens \union {NoToken}
  BY DEF TypeOK, Pull
<1>2. \A j \in Jobs : rows[j] \in Row
  BY DEF TypeOK
<1>3. rows' = [j \in Jobs |-> IF j \in pulls[s].rows
                              THEN [rows[j] EXCEPT !.state = "running", !.token = pulls[s].token,
                                                   !.leaseLeft = LeaseLen]
                              ELSE rows[j]]
  BY DEF PullCommits
<1>4. ASSUME NEW j \in Jobs
      PROVE  /\ rows'[j] \in Row
             /\ j \in pulls[s].rows => RowGoes(j, "running", pulls[s].token, LeaseLen)
             /\ j \notin pulls[s].rows => rows'[j] = rows[j]
  <2>1. CASE j \in pulls[s].rows
    <3>1. rows'[j] = [rows[j] EXCEPT !.state = "running", !.token = pulls[s].token,
                                     !.leaseLeft = LeaseLen]
      BY <1>3, <2>1
    <3>2. [rows[j] EXCEPT !.state = "running", !.token = pulls[s].token,
                          !.leaseLeft = LeaseLen] \in Row
      BY <1>1, <1>2, RowUpdates, Values, Zenon
    <3>3. RowGoes(j, "running", pulls[s].token, LeaseLen)
      BY <1>2, <3>1 DEF RowGoes, Row
    <3> QED BY <2>1, <3>1, <3>2, <3>3
  <2>2. CASE j \notin pulls[s].rows
    BY <1>2, <1>3, <2>2
  <2> QED BY <2>1, <2>2
<1>5. rows' \in [Jobs -> Row]
  BY <1>3, <1>4
<1> QED BY <1>1, <1>4, <1>5 DEF Others

\* Time moves distances only.
LEMMA TickEffect ==
    ASSUME TypeOK, Tick
    PROVE  /\ rows' \in [Jobs -> Row]
           /\ \A j \in Jobs : /\ rows'[j].state = rows[j].state
                              /\ rows'[j].token = rows[j].token
                              /\ rows'[j].leaseLeft <= rows[j].leaseLeft
<1> DEFINE m(j) == IF rows[j].runIn > 0 THEN rows[j].runIn - 1 ELSE rows[j].runIn
           n(j) == IF rows[j].leaseLeft >= 0 THEN rows[j].leaseLeft - 1 ELSE rows[j].leaseLeft
<1>1. rows' = [j \in Jobs |-> [rows[j] EXCEPT !.runIn = m(j), !.leaseLeft = n(j)]]
  BY DEF Tick
<1>2. ASSUME NEW j \in Jobs
      PROVE  /\ rows[j] \in Row
             /\ m(j) \in Nat /\ n(j) \in Unlocked..LeaseLen /\ n(j) <= rows[j].leaseLeft
  <2>1. rows[j] \in Row
    BY DEF TypeOK
  <2> QED BY <2>1, PgBoundAssumption DEF Row, Unlocked
<1> HIDE DEF m, n
<1>3. ASSUME NEW j \in Jobs
      PROVE  /\ rows'[j] \in Row
             /\ rows'[j].state = rows[j].state
             /\ rows'[j].token = rows[j].token
             /\ rows'[j].leaseLeft <= rows[j].leaseLeft
  <2>1. rows'[j] = [rows[j] EXCEPT !.runIn = m(j), !.leaseLeft = n(j)]
    BY <1>1
  <2>2. [rows[j] EXCEPT !.runIn = m(j), !.leaseLeft = n(j)] \in Row
    <3>1. \A a \in Nat, b \in Unlocked..LeaseLen :
            [rows[j] EXCEPT !.runIn = a, !.leaseLeft = b] \in Row
      BY <1>2, RowUpdates, Values, Zenon
    <3> QED BY <1>2, <3>1
  <2>3. rows'[j].state = rows[j].state /\ rows'[j].token = rows[j].token /\ rows'[j].leaseLeft = n(j)
    BY <1>2, <2>1 DEF Row
  <2> QED BY <1>2, <2>1, <2>2, <2>3
<1>4. rows' \in [Jobs -> Row]
  BY <1>1, <1>3
<1> QED BY <1>3, <1>4

-----------------------------------------------------------------------------
(* What the actions do to pulls *)

\* Pull p is pull q, but for the names that overlapped it.
Alike(p, q) ==
    /\ p.stage = q.stage /\ p.rows = q.rows /\ p.token = q.token /\ p.locks = q.locks

\* An idle session.
LEMMA IdleIs ==
    /\ Idle \in Pull
    /\ Idle.stage = "idle" /\ Idle.rows = {} /\ Idle.token = NoToken
    /\ Idle.locks = {} /\ Idle.overlapped = {}
BY DEF Idle, Pull

\* An overlap is written down in every pull that is under way.
LEMMA OverlapsIs ==
    ASSUME TypeOK, NEW r \in Sessions, NEW names \in SUBSET Names
    PROVE  /\ Overlaps(r, names) \in Pull
           /\ Alike(Overlaps(r, names), pulls[r])
           /\ pulls[r].overlapped \subseteq Overlaps(r, names).overlapped
           /\ pulls[r].stage # "idle" =>
                names \intersect SerialNames \subseteq Overlaps(r, names).overlapped
<1>1. pulls[r] \in Pull
  BY DEF TypeOK
<1>2. CASE pulls[r].stage = "idle"
  BY <1>1, <1>2 DEF Overlaps, Alike
<1>3. CASE pulls[r].stage # "idle"
  <2> DEFINE o == pulls[r].overlapped \union (names \intersect SerialNames)
  <2>1. Overlaps(r, names) = [pulls[r] EXCEPT !.overlapped = o]
    BY <1>3 DEF Overlaps
  <2>2. o \in SUBSET Names
    BY <1>1 DEF Pull
  <2> HIDE DEF o
  <2>3. /\ [pulls[r] EXCEPT !.overlapped = o] \in Pull
        /\ Alike([pulls[r] EXCEPT !.overlapped = o], pulls[r])
        /\ [pulls[r] EXCEPT !.overlapped = o].overlapped = o
    BY <1>1, <2>2 DEF Pull, Alike
  <2>4. pulls[r].overlapped \subseteq o /\ names \intersect SerialNames \subseteq o
    BY DEF o
  <2> QED BY <2>1, <2>3, <2>4
<1> QED BY <1>2, <1>3

\* A pull that starts has the rows of its snapshot and nothing else.
LEMMA StartEffect ==
    ASSUME TypeOK, NEW s \in Sessions, NEW queues, NEW limit \in Nat, PullStarts(s, queues, limit)
    PROVE  /\ pulls' \in [Sessions -> Pull]
           /\ pulls'[s].stage = "reads"
           /\ pulls'[s].rows = {j \in Due(queues) : Qualifies(j, queues)}
           /\ pulls'[s].token = NoToken /\ pulls'[s].locks = {}
           /\ \A r \in Sessions \ {s} : pulls'[r] = pulls[r]
<1> DEFINE R == {j \in Due(queues) : Qualifies(j, queues)}
           p == [Idle EXCEPT !.stage = "reads", !.limit = limit, !.rows = R]
<1>1. R \in SUBSET Jobs
  BY DEF Due, InState
<1>2. pulls' = [pulls EXCEPT ![s] = p]
  BY DEF PullStarts
<1>3. p \in Pull /\ p.stage = "reads" /\ p.rows = R /\ p.token = NoToken /\ p.locks = {}
  <2> HIDE DEF R
  <2> QED BY <1>1 DEF Idle, Pull
<1> HIDE DEF p
<1>4. pulls \in [Sessions -> Pull]
  BY DEF TypeOK
<1> QED BY <1>2, <1>3, <1>4

\* A pull that writes keeps some of its rows, each of which was still waiting
\* and locked by nobody, and has a lock on the name of each serial one.
LEMMA WriteEffect ==
    ASSUME TypeOK, NEW s \in Sessions, PullWrites(s)
    PROVE  /\ pulls[s].stage = "reads"
           /\ pulls' \in [Sessions -> Pull]
           /\ pulls'[s].stage = "wrote"
           /\ pulls'[s].token \in Tokens \ UsedTokens
           /\ pulls'[s].rows \subseteq pulls[s].rows
           /\ pulls'[s].overlapped = pulls[s].overlapped
           /\ \A j \in pulls'[s].rows : /\ ~RowLocked(j) /\ rows[j].state \in Waiting
                                        /\ Serial(j) => name[j] \in pulls'[s].locks
           /\ \A n \in pulls'[s].locks : ~NameLocked(n)
           /\ \A r \in Sessions \ {s} : pulls'[r] = pulls[r]
           /\ UNCHANGED <<rows, dead, name, key, staged, burials, held, crossings>>
<1> DEFINE tried == {j \in pulls[s].rows : TakesLock(j)}
           locks == {name[j] : j \in {k \in tried : Serial(k)}}
<1>0. pulls \in [Sessions -> Pull] /\ pulls[s] \in Pull /\ pulls[s].rows \subseteq Jobs
        /\ name \in [Jobs -> Names]
  BY DEF TypeOK, Pull
<1>1. PICK S \in SUBSET {j \in tried : Lockable(j)} :
        \E t \in Tokens \ UsedTokens :
            pulls' = [pulls EXCEPT ![s].stage = "wrote", ![s].rows = S, ![s].token = t,
                                   ![s].limit = 0, ![s].locks = locks]
  BY DEF PullWrites
<1>2. PICK t \in Tokens \ UsedTokens :
        pulls' = [pulls EXCEPT ![s].stage = "wrote", ![s].rows = S, ![s].token = t,
                               ![s].limit = 0, ![s].locks = locks]
  BY <1>1
<1>3. locks \in SUBSET Names /\ S \in SUBSET Jobs
  BY <1>0, <1>1
<1>4. /\ \A n \in locks : ~NameLocked(n)
      /\ \A j \in S : j \in pulls[s].rows /\ Lockable(j) /\ (Serial(j) => name[j] \in locks)
  BY <1>1 DEF TakesLock
<1> HIDE DEF locks, tried
<1>5. /\ pulls'[s] \in Pull
      /\ pulls'[s].stage = "wrote" /\ pulls'[s].rows = S /\ pulls'[s].token = t
      /\ pulls'[s].locks = locks /\ pulls'[s].overlapped = pulls[s].overlapped
  BY <1>0, <1>2, <1>3 DEF Pull
<1>6. pulls' \in [Sessions -> Pull] /\ \A r \in Sessions \ {s} : pulls'[r] = pulls[r]
  BY <1>0, <1>2, <1>5
<1>7. pulls[s].stage = "reads" /\ UNCHANGED <<rows, dead, name, key, staged, burials, held, crossings>>
  BY DEF PullWrites
<1>8. \A j \in S : ~RowLocked(j) /\ rows[j].state \in Waiting
  BY <1>4 DEF Lockable
<1> QED BY <1>4, <1>5, <1>6, <1>7, <1>8

\* A commit and a late renewal overlap the pulls under way.
LEMMA OverlapEffect ==
    ASSUME TypeOK, NEW idle \in SUBSET Sessions, NEW names \in SUBSET Names,
           pulls' = [r \in Sessions |-> IF r \in idle THEN Idle ELSE Overlaps(r, names)]
    PROVE  /\ pulls' \in [Sessions -> Pull]
           /\ \A r \in idle : pulls'[r] = Idle
           /\ \A r \in Sessions \ idle :
                /\ Alike(pulls'[r], pulls[r])
                /\ pulls[r].overlapped \subseteq pulls'[r].overlapped
                /\ pulls[r].stage # "idle" => names \intersect SerialNames \subseteq pulls'[r].overlapped
<1>1. \A r \in idle : pulls'[r] = Idle
  OBVIOUS
<1>2. \A r \in Sessions \ idle : pulls'[r] = Overlaps(r, names)
  OBVIOUS
<1>3. \A r \in Sessions : pulls'[r] \in Pull
  BY <1>1, <1>2, IdleIs, OverlapsIs
<1>4. pulls' \in [Sessions -> Pull]
  BY <1>3
<1> QED BY <1>1, <1>2, <1>4, OverlapsIs

LEMMA CommitPulls ==
    ASSUME TypeOK, NEW s \in Sessions, PullCommits(s)
    PROVE  /\ pulls' \in [Sessions -> Pull]
           /\ pulls'[s] = Idle
           /\ \A r \in Sessions \ {s} :
                /\ Alike(pulls'[r], pulls[r])
                /\ pulls[r].overlapped \subseteq pulls'[r].overlapped
                /\ pulls[r].stage # "idle" =>
                     \A j \in pulls[s].rows : Serial(j) => name[j] \in pulls'[r].overlapped
<1> DEFINE names == {name[j] : j \in pulls[s].rows}
<1>1. names \in SUBSET Names
  BY DEF TypeOK, Pull
<1>2. \A j \in pulls[s].rows : Serial(j) => name[j] \in names \intersect SerialNames
  BY DEF Serial
<1>3. pulls' = [r \in Sessions |-> IF r \in {s} THEN Idle ELSE Overlaps(r, names)]
  BY DEF PullCommits
<1> HIDE DEF names
<1>4. /\ pulls' \in [Sessions -> Pull]
      /\ \A r \in {s} : pulls'[r] = Idle
      /\ \A r \in Sessions \ {s} :
           /\ Alike(pulls'[r], pulls[r])
           /\ pulls[r].overlapped \subseteq pulls'[r].overlapped
           /\ pulls[r].stage # "idle" => names \intersect SerialNames \subseteq pulls'[r].overlapped
  <2>1. {s} \in SUBSET Sessions
    OBVIOUS
  <2> QED BY <1>1, <1>3, <2>1, OverlapEffect, Zenon
<1> QED BY <1>2, <1>4

LEMMA HeartbeatPulls ==
    ASSUME TypeOK, NEW l \in held, Heartbeat(l)
    PROVE  /\ pulls' \in [Sessions -> Pull]
           /\ \A r \in Sessions :
                /\ Alike(pulls'[r], pulls[r])
                /\ pulls[r].overlapped \subseteq pulls'[r].overlapped
                /\ pulls[r].stage # "idle" /\ Serial(l[1]) /\ ~LiveLease(l[1])
                     => name[l[1]] \in pulls'[r].overlapped
<1> DEFINE names == IF LiveLease(l[1]) THEN {} ELSE {name[l[1]]}
<1>1. names \in SUBSET Names
  BY DEF TypeOK
<1>2. Serial(l[1]) /\ ~LiveLease(l[1]) => name[l[1]] \in names \intersect SerialNames
  BY DEF Serial
<1>3. pulls' = [r \in Sessions |-> IF r \in {} THEN Idle ELSE Overlaps(r, names)]
  BY DEF Heartbeat
<1> HIDE DEF names
<1>4. /\ pulls' \in [Sessions -> Pull]
      /\ \A r \in {} : pulls'[r] = Idle
      /\ \A r \in Sessions \ {} :
           /\ Alike(pulls'[r], pulls[r])
           /\ pulls[r].overlapped \subseteq pulls'[r].overlapped
           /\ pulls[r].stage # "idle" => names \intersect SerialNames \subseteq pulls'[r].overlapped
  <2>1. {} \in SUBSET Sessions
    OBVIOUS
  <2> QED BY <1>1, <1>3, <2>1, OverlapEffect, Zenon
<1> QED BY <1>2, <1>4

\* A session whose pull ends leaves nothing behind.
LEMMA EndEffect ==
    ASSUME TypeOK, NEW s \in Sessions, PullEnds(s)
    PROVE  /\ pulls' \in [Sessions -> Pull]
           /\ pulls'[s] = Idle
           /\ \A r \in Sessions \ {s} : pulls'[r] = pulls[r]
BY IdleIs DEF PullEnds, TypeOK

-----------------------------------------------------------------------------
(* The steps of Next, flattened *)

PgStep ==
    \/ \E j \in Jobs, delay \in 0..MaxDelay : Push(j, delay)
    \/ \E j \in Jobs : PushTx(j)
    \/ \E j \in Jobs, delay \in 0..MaxDelay : CommitTx(j, delay)
    \/ \E j \in Jobs : RollbackTx(j)
    \/ \E s \in Sessions, queues \in SUBSET QueueNames, limit \in 1..MaxBatch :
          PullStarts(s, queues, limit)
    \/ \E s \in Sessions : PullWrites(s)
    \/ \E s \in Sessions : PullCommits(s)
    \/ \E s \in Sessions : PullEnds(s)
    \/ \E l \in held, delay \in 0..MaxDelay : Ack(l) \/ NackRetry(l, delay)
    \/ \E l \in held : Stale(l) \/ Drop(l)
    \/ \E l \in held : Heartbeat(l)
    \/ \E l \in held : BuryCopies(l)
    \/ \E b \in burials : BuryDeletes(b)
    \/ \E b \in burials : BuryRollsBack(b)
    \/ \E queues \in SUBSET QueueNames : Reclaim(queues)
    \/ \E j \in Jobs : Cancel(j)
    \/ \E j \in Jobs : Retry(j)
    \/ \E S \in SUBSET dead : Discard(S)
    \/ Tick

LEMMA NextSteps ==
    ASSUME Next PROVE PgStep
<1>1. 0 \in 0..MaxDelay
  BY PgBoundAssumption
<1>2. ASSUME NEW j \in Jobs, Producer(j) PROVE PgStep
  BY <1>2 DEF Producer, PgStep
<1>3. ASSUME NEW s \in Sessions, Session(s) PROVE PgStep
  BY <1>3 DEF Session, PgStep
<1>4. ASSUME NEW l \in held, Client(l) PROVE PgStep
  BY <1>1, <1>4 DEF Client, PgStep
<1>5. CASE Operator
  BY <1>5 DEF Operator, PgStep
<1>6. ASSUME NEW b \in burials, BuryDeletes(b) \/ BuryRollsBack(b) PROVE PgStep
  BY <1>6 DEF PgStep
<1>7. ASSUME NEW queues \in SUBSET QueueNames, Reclaim(queues) PROVE PgStep
  BY <1>7 DEF PgStep
<1>8. CASE Tick
  BY <1>8 DEF PgStep
<1> QED BY <1>2, <1>3, <1>4, <1>5, <1>6, <1>7, <1>8 DEF Next

-----------------------------------------------------------------------------
(* Types, the tables and the row locks *)

\* A dead letter is not staged, and what is being buried has a row of its own.
Tables ==
    /\ TablesCoherent
    /\ dead \intersect staged = {}
    /\ \A b \in burials : rows[b[1]].state # "absent"
    /\ \A b, c \in burials : b[1] = c[1] => b = c
    /\ \A s \in Wrote : pulls[s].token # NoToken

\* Every step keeps the shapes of rows, statements and leases.
LEMMA TypingStep ==
    ASSUME TypeOK, Tables, [PgStep]_vars
    PROVE  TypeOK'
<1>0. /\ \A delay \in 0..MaxDelay : delay \in Nat
      /\ \A limit \in 1..MaxBatch : limit \in Nat
      /\ 0 \in Nat
  OBVIOUS
<1>1. ASSUME NEW j \in Jobs, NEW delay \in 0..MaxDelay, Push(j, delay) \/ CommitTx(j, delay)
      PROVE  TypeOK'
  <2>1. rows' \in [Jobs -> Row]
    BY <1>0, <1>1, InsertEffect DEF Push, CommitTx
  <2> QED BY <1>1, <2>1 DEF Push, CommitTx, TypeOK
<1>2. ASSUME NEW j \in Jobs, PushTx(j) \/ RollbackTx(j) PROVE TypeOK'
  BY <1>2 DEF PushTx, RollbackTx, TypeOK
<1>3. ASSUME NEW s \in Sessions, NEW queues \in SUBSET QueueNames, NEW limit \in 1..MaxBatch,
             PullStarts(s, queues, limit)
      PROVE  TypeOK'
  <2>1. pulls' \in [Sessions -> Pull]
    BY <1>0, <1>3, StartEffect
  <2> QED BY <1>3, <2>1 DEF PullStarts, TypeOK
<1>4. ASSUME NEW s \in Sessions, PullWrites(s) PROVE TypeOK'
  BY <1>4, WriteEffect DEF TypeOK
<1>5. ASSUME NEW s \in Sessions, PullCommits(s) PROVE TypeOK'
  <2>1. pulls' \in [Sessions -> Pull] /\ rows' \in [Jobs -> Row]
    BY <1>5, CommitPulls, CommitEffect
  <2>2. pulls[s].rows \subseteq Jobs /\ pulls[s].token \in Tokens
    <3>1. pulls[s] \in Pull /\ pulls[s].token # NoToken
      BY <1>5 DEF TypeOK, Tables, Wrote, PullCommits
    <3> QED BY <3>1 DEF Pull
  <2>3. held' \subseteq Jobs \X Tokens
    <3>1. held \subseteq Jobs \X Tokens
      BY DEF TypeOK
    <3>2. {<<j, pulls[s].token>> : j \in pulls[s].rows} \subseteq Jobs \X Tokens
      BY <2>2
    <3>3. held' = held \union {<<j, pulls[s].token>> : j \in pulls[s].rows}
      BY <1>5 DEF PullCommits
    <3> QED BY <3>1, <3>2, <3>3, Zenon
  <2> QED BY <1>5, <2>1, <2>3 DEF PullCommits, TypeOK
<1>6. ASSUME NEW s \in Sessions, PullEnds(s) PROVE TypeOK'
  BY <1>6, EndEffect DEF PullEnds, TypeOK
<1>7. ASSUME NEW l \in held, NEW delay \in 0..MaxDelay, Ack(l) \/ NackRetry(l, delay)
      PROVE  TypeOK'
  BY <1>7, SettleEffect DEF TypeOK
<1>8. ASSUME NEW l \in held, Stale(l) \/ Drop(l) \/ BuryCopies(l) PROVE TypeOK'
  BY <1>8 DEF Stale, Drop, BuryCopies, TypeOK
<1>9. ASSUME NEW l \in held, Heartbeat(l) PROVE TypeOK'
  BY <1>9, HeartbeatEffect, HeartbeatPulls DEF Heartbeat, TypeOK
<1>10. ASSUME NEW b \in burials, BuryDeletes(b) PROVE TypeOK'
  BY <1>10, DeleteEffect DEF BuryDeletes, TypeOK
<1>11. ASSUME NEW b \in burials, BuryRollsBack(b) PROVE TypeOK'
  BY <1>11 DEF BuryRollsBack, TypeOK
<1>12. ASSUME NEW queues \in SUBSET QueueNames, Reclaim(queues) PROVE TypeOK'
  <2>1. crossings' \in 0..MaxCrossings
    BY <1>12, PgBoundAssumption DEF Reclaim, Crossing, TypeOK
  <2> QED BY <1>12, <2>1, ReclaimEffect DEF Reclaim, TypeOK
<1>13. ASSUME NEW j \in Jobs, Cancel(j) PROVE TypeOK'
  <2>1. crossings' \in 0..MaxCrossings
    BY <1>13, PgBoundAssumption DEF Cancel, Crossing, TypeOK
  <2> QED BY <1>13, <2>1, CancelEffect DEF Cancel, TypeOK
<1>14. ASSUME NEW j \in Jobs, Retry(j) PROVE TypeOK'
  <2>1. rows' \in [Jobs -> Row]
    BY <1>0, <1>14, InsertEffect DEF Retry
  <2> QED BY <1>14, <2>1 DEF Retry, TypeOK
<1>15. ASSUME NEW S \in SUBSET dead, Discard(S) PROVE TypeOK'
  BY <1>15 DEF Discard, TypeOK
<1>16. ASSUME Tick PROVE TypeOK'
  BY <1>16, TickEffect DEF Tick, TypeOK
<1>17. CASE UNCHANGED vars
  BY <1>17 DEF vars, TypeOK
<1> QED
  BY <1>1, <1>2, <1>3, <1>4, <1>5, <1>6, <1>7, <1>8, <1>9, <1>10, <1>11, <1>12, <1>13, <1>14,
     <1>15, <1>16, <1>17 DEF PgStep

\* A step that leaves the statements in flight alone, locks no row and takes no
\* waiting row from under a lock keeps tokens and locks right.
LEMMA LocksStay ==
    ASSUME TypeOK, Tables,
           \A s \in Sessions : Alike(pulls'[s], pulls[s]) \/ pulls'[s].stage # "wrote",
           \A j \in Jobs : \/ rows'[j].state = rows[j].state /\ rows'[j].token = rows[j].token
                           \/ /\ rows'[j].state # "running" /\ rows'[j].token = NoToken
                              /\ ~RowLocked(j)
    PROVE  /\ \A j \in Jobs : rows'[j].state = "running" <=> rows'[j].token # NoToken
           /\ \A s \in Wrote' : \A j \in pulls'[s].rows : rows'[j].state \in Waiting
           /\ \A r, s \in Wrote' : r # s => pulls'[r].rows \intersect pulls'[s].rows = {}
           /\ \A s \in Wrote' : pulls'[s].token # NoToken
<1>1. \A s \in Wrote' : /\ s \in Wrote /\ pulls'[s].rows = pulls[s].rows
                        /\ pulls'[s].token = pulls[s].token
                        /\ \A j \in pulls'[s].rows : j \in Jobs /\ RowLocked(j)
  BY DEF Wrote, Alike, RowLocked, TypeOK, Pull
<1>2. \A j \in Jobs : rows'[j].state = "running" <=> rows'[j].token # NoToken
  BY DEF Tables, TablesCoherent
<1>3. \A s \in Wrote' : \A j \in pulls'[s].rows : rows'[j].state \in Waiting
  BY <1>1 DEF Tables, TablesCoherent
<1>4. \A r, s \in Wrote' : r # s => pulls'[r].rows \intersect pulls'[s].rows = {}
  BY <1>1 DEF Tables, TablesCoherent
<1> QED BY <1>1, <1>2, <1>3, <1>4 DEF Tables

\* Every step keeps the tables, the tokens and the row locks right.
LEMMA TablesStep ==
    ASSUME TypeOK, Tables, [PgStep]_vars
    PROVE  Tables'
<1> DEFINE Locking == /\ \A j \in Jobs : rows'[j].state = "running" <=> rows'[j].token # NoToken
                      /\ \A s \in Wrote' : \A j \in pulls'[s].rows : rows'[j].state \in Waiting
                      /\ \A r, s \in Wrote' : r # s => pulls'[r].rows \intersect pulls'[s].rows = {}
                      /\ \A s \in Wrote' : pulls'[s].token # NoToken
           Placing == /\ \A j \in dead' \union staged' : rows'[j].state = "absent"
                      /\ dead' \intersect staged' = {}
                      /\ \A b \in burials' : rows'[b[1]].state # "absent"
                      /\ \A b, c \in burials' : b[1] = c[1] => b = c
<1>0. /\ \A j \in Jobs : rows[j].state = "running" <=> rows[j].token # NoToken
      /\ \A j \in dead \union staged : j \in Jobs /\ rows[j].state = "absent"
      /\ dead \intersect staged = {}
      /\ \A b \in burials : rows[b[1]].state # "absent" /\ b[1] \in Jobs
      /\ \A b, c \in burials : b[1] = c[1] => b = c
      /\ \A s \in Sessions : Alike(pulls[s], pulls[s])
      /\ \A j \in Jobs : RowLocked(j) => rows[j].state \in Waiting
      /\ \A delay \in 0..MaxDelay : delay \in Nat
      /\ \A l \in held : l[1] \in Jobs /\ l[2] # NoToken
  BY PgTokenAssumption DEF TypeOK, Tables, TablesCoherent, Alike, RowLocked, Wrote
<1>q. ASSUME Locking, Placing PROVE Tables'
  BY <1>q DEF Tables, TablesCoherent
<1> HIDE DEF Locking, Placing
\* A row goes to a state that is not running, and no lock is touched.
<1>a. ASSUME NEW j \in Jobs, NEW state, NEW left, RowGoes(j, state, NoToken, left),
             state # "running", Others({j}), pulls' = pulls, ~RowLocked(j)
      PROVE  Locking
  <2>1. \A i \in Jobs : \/ rows'[i].state = rows[i].state /\ rows'[i].token = rows[i].token
                        \/ /\ rows'[i].state # "running" /\ rows'[i].token = NoToken
                           /\ ~RowLocked(i)
    BY <1>a DEF RowGoes, Others
  <2> QED BY <1>0, <1>a, <2>1, LocksStay DEF Locking
<1>b. ASSUME rows' = rows,
             \A s \in Sessions : Alike(pulls'[s], pulls[s]) \/ pulls'[s].stage # "wrote"
      PROVE  Locking
  BY <1>b, LocksStay DEF Locking
<1>1. ASSUME NEW j \in Jobs, NEW delay \in 0..MaxDelay, Push(j, delay) \/ CommitTx(j, delay) \/ Retry(j)
      PROVE  Tables'
  <2>1. Insert(j, delay) \/ Insert(j, 0)
    BY <1>1 DEF Push, CommitTx, Retry
  <2>2. RowGoes(j, "ready", NoToken, Unlocked) /\ Others({j})
    BY <1>0, <2>1, InsertEffect
  <2>3. pulls' = pulls /\ rows[j].state = "absent" /\ burials' = burials
    BY <1>0, <1>1 DEF Push, CommitTx, Retry, Fresh
  <2>4. Locking
    <3>1. ~RowLocked(j)
      BY <1>0, <2>3 DEF Waiting
    <3> QED BY <1>a, <2>2, <2>3, <3>1
  <2>5. j \notin dead' \union staged' /\ dead' \subseteq dead /\ staged' \subseteq staged
    BY <1>0, <1>1 DEF Push, CommitTx, Retry, Fresh
  <2>6. Placing
    BY <1>0, <2>2, <2>3, <2>5 DEF Placing, RowGoes, Others
  <2> QED BY <1>q, <2>4, <2>6
<1>2. ASSUME NEW j \in Jobs, PushTx(j) \/ RollbackTx(j) PROVE Tables'
  <2>1. Locking
    BY <1>0, <1>2, <1>b DEF PushTx, RollbackTx
  <2>2. Placing
    BY <1>0, <1>2 DEF Placing, PushTx, RollbackTx, Fresh
  <2> QED BY <1>q, <2>1, <2>2
<1>3. ASSUME NEW s \in Sessions, NEW queues \in SUBSET QueueNames, NEW limit \in 1..MaxBatch,
             PullStarts(s, queues, limit)
      PROVE  Tables'
  <2>1. \A r \in Sessions : Alike(pulls'[r], pulls[r]) \/ pulls'[r].stage # "wrote"
    BY <1>0, <1>3, StartEffect
  <2>2. Locking
    BY <1>3, <1>b, <2>1 DEF PullStarts
  <2>3. Placing
    BY <1>0, <1>3 DEF Placing, PullStarts
  <2> QED BY <1>q, <2>2, <2>3
<1>4. ASSUME NEW s \in Sessions, PullWrites(s) PROVE Tables'
  <2>1. Placing
    BY <1>0, <1>4, WriteEffect DEF Placing
  <2>2. \A r \in Wrote' : r # s => r \in Wrote /\ pulls'[r] = pulls[r]
    BY <1>4, WriteEffect DEF Wrote
  <2>3. /\ \A j \in pulls'[s].rows : ~RowLocked(j) /\ rows[j].state \in Waiting
        /\ pulls'[s].token # NoToken /\ rows' = rows
    BY <1>4, WriteEffect, PgTokenAssumption
  <2>4. Locking
    <3>1. \A r \in Wrote' : \A j \in pulls'[r].rows : rows'[j].state \in Waiting
      BY <2>2, <2>3 DEF Tables, TablesCoherent
    <3>2. \A r \in Wrote' : r # s => pulls'[r].rows \intersect pulls'[s].rows = {}
      BY <2>2, <2>3 DEF RowLocked
    <3>3. \A r, q \in Wrote' : r # q => pulls'[r].rows \intersect pulls'[q].rows = {}
      BY <2>2, <3>2 DEF Tables, TablesCoherent
    <3>4. \A r \in Wrote' : pulls'[r].token # NoToken
      BY <2>2, <2>3 DEF Tables
    <3> QED BY <1>0, <2>3, <3>1, <3>3, <3>4 DEF Locking
  <2> QED BY <1>q, <2>1, <2>4
<1>5. ASSUME NEW s \in Sessions, PullCommits(s) PROVE Tables'
  <2>1. /\ s \in Wrote
        /\ \A j \in pulls[s].rows : RowGoes(j, "running", pulls[s].token, LeaseLen)
        /\ Others(pulls[s].rows) /\ pulls[s].rows \subseteq Jobs
    BY <1>5, CommitEffect DEF PullCommits, Wrote
  <2>2. pulls[s].token # NoToken /\ \A j \in pulls[s].rows : rows[j].state \in Waiting
    BY <2>1 DEF Tables, TablesCoherent
  <2>3. \A r \in Wrote' : /\ r \in Wrote /\ r # s
                          /\ pulls'[r].rows = pulls[r].rows /\ pulls'[r].token = pulls[r].token
    BY <1>5, CommitPulls, IdleIs DEF Wrote, Alike
  <2>4. Locking
    <3>1. \A j \in Jobs : rows'[j].state = "running" <=> rows'[j].token # NoToken
      BY <1>0, <2>1, <2>2 DEF RowGoes, Others
    <3>2. \A r \in Wrote' : \A j \in pulls'[r].rows : rows'[j].state \in Waiting
      <4>1. ASSUME NEW r \in Wrote', NEW j \in pulls'[r].rows PROVE rows'[j] = rows[j] /\ rows[j].state \in Waiting
        <5>1. j \in pulls[r].rows /\ r \in Wrote /\ r # s
          BY <2>3
        <5>2. j \notin pulls[s].rows /\ rows[j].state \in Waiting
          BY <2>1, <5>1 DEF Tables, TablesCoherent
        <5>3. j \in Jobs
          BY <5>1 DEF TypeOK, Pull, Wrote
        <5> QED BY <2>1, <5>2, <5>3 DEF Others
      <4> QED BY <4>1
    <3>3. \A r, q \in Wrote' : r # q => pulls'[r].rows \intersect pulls'[q].rows = {}
      BY <2>3 DEF Tables, TablesCoherent
    <3>4. \A r \in Wrote' : pulls'[r].token # NoToken
      BY <2>3 DEF Tables
    <3> QED BY <3>1, <3>2, <3>3, <3>4 DEF Locking
  <2>5. Placing
    <3>1. dead' = dead /\ staged' = staged /\ burials' = burials
      BY <1>5 DEF PullCommits
    <3>2. \A j \in Jobs : (rows'[j].state = "absent") <=> (rows[j].state = "absent")
      BY <2>1, <2>2 DEF RowGoes, Others, Waiting
    <3> QED BY <1>0, <3>1, <3>2 DEF Placing
  <2> QED BY <1>q, <2>4, <2>5
<1>6. ASSUME NEW s \in Sessions, PullEnds(s) PROVE Tables'
  <2>1. \A r \in Sessions : Alike(pulls'[r], pulls[r]) \/ pulls'[r].stage # "wrote"
    BY <1>0, <1>6, EndEffect, IdleIs
  <2>2. Locking
    BY <1>6, <1>b, <2>1 DEF PullEnds
  <2>3. Placing
    BY <1>0, <1>6 DEF Placing, PullEnds
  <2> QED BY <1>q, <2>2, <2>3
<1>7. ASSUME NEW l \in held, NEW delay \in 0..MaxDelay, Ack(l) \/ NackRetry(l, delay)
      PROVE  Tables'
  <2>1. /\ l[1] \in Jobs /\ Current(l)
        /\ \E s \in {"done", "retrying"} : RowGoes(l[1], s, NoToken, Unlocked)
        /\ Others({l[1]})
        /\ UNCHANGED <<dead, staged, pulls, burials>>
    BY <1>7, SettleEffect
  <2>2. rows[l[1]].state = "running"
    BY <1>0, <2>1 DEF Current
  <2>3. Locking
    <3>1. ~RowLocked(l[1])
      BY <1>0, <2>1, <2>2 DEF Waiting
    <3> QED BY <1>a, <2>1, <3>1
  <2>4. Placing
    BY <1>0, <2>1, <2>2 DEF Placing, RowGoes, Others
  <2> QED BY <1>q, <2>3, <2>4
<1>8. ASSUME NEW l \in held, Stale(l) \/ Drop(l) \/ BuryCopies(l) PROVE Tables'
  <2>1. Locking
    BY <1>0, <1>8, <1>b DEF Stale, Drop, BuryCopies
  <2>2. CASE Stale(l) \/ Drop(l)
    BY <1>0, <1>q, <2>1, <2>2 DEF Placing, Stale, Drop
  <2>3. CASE BuryCopies(l)
    <3>1. rows[l[1]].state = "running"
      BY <1>0, <2>3 DEF BuryCopies, Current
    <3>2. Placing
      BY <1>0, <2>3, <3>1 DEF Placing, BuryCopies
    <3> QED BY <1>q, <2>1, <3>2
  <2> QED BY <1>8, <2>2, <2>3
<1>9. ASSUME NEW l \in held, Heartbeat(l) PROVE Tables'
  <2>1. \A j \in Jobs : rows'[j].state = rows[j].state /\ rows'[j].token = rows[j].token
    BY <1>9, HeartbeatEffect DEF RowGoes, Others
  <2>2. Locking
    BY <1>9, <2>1, HeartbeatPulls, LocksStay DEF Locking
  <2>3. Placing
    BY <1>0, <1>9, <2>1 DEF Placing, Heartbeat
  <2> QED BY <1>q, <2>2, <2>3
<1>10. ASSUME NEW b \in burials, BuryDeletes(b) PROVE Tables'
  <2>1. b[1] \in Jobs /\ RowGoes(b[1], "absent", NoToken, Unlocked) /\ Others({b[1]})
    BY <1>10, DeleteEffect
  <2>2. Locking
    BY <1>10, <1>a, <2>1 DEF BuryDeletes
  <2>3. b[1] \notin staged
    BY <1>0
  <2>4. Placing
    BY <1>0, <1>10, <2>1, <2>3 DEF Placing, BuryDeletes, RowGoes, Others
  <2> QED BY <1>q, <2>2, <2>4
<1>11. ASSUME NEW b \in burials, BuryRollsBack(b) PROVE Tables'
  <2>1. Locking
    BY <1>0, <1>11, <1>b DEF BuryRollsBack
  <2>2. Placing
    BY <1>0, <1>11 DEF Placing, BuryRollsBack
  <2> QED BY <1>q, <2>1, <2>2
<1>12. ASSUME NEW queues \in SUBSET QueueNames, Reclaim(queues) PROVE Tables'
  <2> DEFINE X == Expired(queues)
  <2>1. /\ X \subseteq InState({"running"}) /\ Others(X)
        /\ \A j \in X : RowGoes(j, "ready", NoToken, Unlocked)
    BY <1>12, ReclaimEffect
  <2> HIDE DEF X
  <2>2. \A j \in X : j \in Jobs /\ rows[j].state = "running" /\ ~RowLocked(j)
    BY <1>0, <2>1 DEF InState, Waiting
  <2>3. \A i \in Jobs : \/ rows'[i].state = rows[i].state /\ rows'[i].token = rows[i].token
                        \/ /\ rows'[i].state # "running" /\ rows'[i].token = NoToken
                           /\ ~RowLocked(i)
    BY <2>1, <2>2 DEF RowGoes, Others
  <2>4. UNCHANGED <<pulls, dead, staged, burials>>
    BY <1>12 DEF Reclaim
  <2>5. Locking
    BY <1>0, <2>3, <2>4, LocksStay DEF Locking
  <2>6. \A j \in Jobs : (rows'[j].state = "absent") <=> (rows[j].state = "absent")
    BY <2>1, <2>2 DEF RowGoes, Others
  <2>7. Placing
    BY <1>0, <2>4, <2>6 DEF Placing
  <2> QED BY <1>q, <2>5, <2>7
<1>13. ASSUME NEW j \in Jobs, Cancel(j) PROVE Tables'
  <2>1. RowGoes(j, "cancelled", NoToken, Unlocked) /\ Others({j})
    BY <1>13, CancelEffect
  <2>2. /\ UNCHANGED <<pulls, dead, staged, burials>> /\ ~RowLocked(j)
        /\ rows[j].state # "absent"
    BY <1>13, Values DEF Cancel, Active, Waiting
  <2>3. Locking
    BY <1>a, <2>1, <2>2
  <2>4. Placing
    BY <1>0, <2>1, <2>2 DEF Placing, RowGoes, Others
  <2> QED BY <1>q, <2>3, <2>4
<1>15. ASSUME NEW S \in SUBSET dead, Discard(S) PROVE Tables'
  <2>1. Locking
    BY <1>0, <1>15, <1>b DEF Discard
  <2>2. Placing
    BY <1>0, <1>15 DEF Placing, Discard
  <2> QED BY <1>q, <2>1, <2>2
<1>16. ASSUME Tick PROVE Tables'
  <2>1. /\ \A j \in Jobs : rows'[j].state = rows[j].state /\ rows'[j].token = rows[j].token
        /\ UNCHANGED <<pulls, dead, staged, burials>>
    BY <1>16, TickEffect DEF Tick
  <2>2. Locking
    BY <1>0, <2>1, LocksStay DEF Locking
  <2>3. Placing
    BY <1>0, <2>1 DEF Placing
  <2> QED BY <1>q, <2>2, <2>3
<1>17. CASE UNCHANGED vars
  BY <1>17 DEF vars, Tables, TablesCoherent, Wrote
<1>18. ASSUME NEW j \in Jobs, Retry(j) PROVE Tables'
  <2>1. 0 \in 0..MaxDelay
    BY PgBoundAssumption
  <2> QED BY <1>1, <1>18, <2>1
<1> QED
  BY <1>1, <1>2, <1>3, <1>4, <1>5, <1>6, <1>7, <1>8, <1>9, <1>10, <1>11, <1>12, <1>13, <1>15,
     <1>16, <1>17, <1>18 DEF PgStep

LEMMA PgBase == Spec => [](TypeOK /\ Tables)
<1>1. Init => TypeOK /\ Tables
  BY IdleIs, PgBoundAssumption, PgTokenAssumption DEF Init, TypeOK, Tables, TablesCoherent, Absent, Row, Unlocked, Wrote
<1>2. TypeOK /\ Tables /\ [Next]_vars => TypeOK' /\ Tables'
  BY NextSteps, TypingStep, TablesStep
<1> QED BY <1>1, <1>2, PTL DEF Spec

-----------------------------------------------------------------------------
(* The unique index *)

\* The rows the partial index is about.
Indexed == InState(Active) \union staged

\* What every step but an insert does to one row.
LEMMA RowStep ==
    ASSUME TypeOK, Tables, PgStep
    PROVE  \/ \E j \in Jobs, delay \in 0..MaxDelay : Push(j, delay) \/ CommitTx(j, delay)
           \/ \E j \in Jobs : PushTx(j) \/ Retry(j)
           \/ /\ key' = key /\ staged' \subseteq staged
              /\ \A j \in Jobs : rows'[j].state \in Active => rows[j].state \in Active
<1> DEFINE Q == /\ key' = key /\ staged' \subseteq staged
                /\ \A j \in Jobs : rows'[j].state \in Active => rows[j].state \in Active
<1>0. \A l \in held : l[1] \in Jobs /\ (Current(l) => rows[l[1]].state = "running")
  BY PgTokenAssumption DEF TypeOK, Tables, TablesCoherent, Current
<1>2. ASSUME NEW j \in Jobs, RollbackTx(j) PROVE Q
  BY <1>2 DEF RollbackTx
<1>3. ASSUME NEW s \in Sessions, NEW queues \in SUBSET QueueNames, NEW limit \in 1..MaxBatch,
             PullStarts(s, queues, limit)
      PROVE  Q
  BY <1>3 DEF PullStarts
<1>4. ASSUME NEW s \in Sessions, PullWrites(s) \/ PullEnds(s) PROVE Q
  BY <1>4 DEF PullWrites, PullEnds
<1>5. ASSUME NEW s \in Sessions, PullCommits(s) PROVE Q
  <2>1. \A j \in pulls[s].rows : rows[j].state \in Waiting
    BY <1>5 DEF PullCommits, Wrote, Tables, TablesCoherent
  <2> QED BY <1>5, <2>1, CommitEffect DEF Others, PullCommits, Active
<1>7. ASSUME NEW l \in held, NEW delay \in 0..MaxDelay, Ack(l) \/ NackRetry(l, delay) PROVE Q
  <2>1. l[1] \in Jobs /\ Current(l) /\ Others({l[1]}) /\ UNCHANGED <<key, staged>>
    BY <1>7, SettleEffect
  <2> QED BY <1>0, <2>1 DEF Others, Active
<1>8. ASSUME NEW l \in held, Stale(l) \/ Drop(l) \/ BuryCopies(l) PROVE Q
  BY <1>8 DEF Stale, Drop, BuryCopies
<1>9. ASSUME NEW l \in held, Heartbeat(l) PROVE Q
  BY <1>9, HeartbeatEffect DEF Heartbeat, RowGoes, Others
<1>10. ASSUME NEW b \in burials, BuryDeletes(b) PROVE Q
  BY <1>10, DeleteEffect DEF BuryDeletes, RowGoes, Others, Active, Waiting
<1>11. ASSUME NEW b \in burials, BuryRollsBack(b) PROVE Q
  BY <1>11 DEF BuryRollsBack
<1>12. ASSUME NEW queues \in SUBSET QueueNames, Reclaim(queues) PROVE Q
  <2>1. \A j \in Expired(queues) : rows[j].state = "running"
    BY <1>12, ReclaimEffect DEF InState
  <2> QED BY <1>12, <2>1, ReclaimEffect DEF Reclaim, Others, Active
<1>13. ASSUME NEW j \in Jobs, Cancel(j) PROVE Q
  BY <1>13, CancelEffect DEF Cancel, RowGoes, Others, Active
<1>15. ASSUME NEW S \in SUBSET dead, Discard(S) PROVE Q
  BY <1>15 DEF Discard
<1>16. ASSUME Tick PROVE Q
  BY <1>16, TickEffect DEF Tick
<1> QED
  BY <1>2, <1>3, <1>4, <1>5, <1>7, <1>8, <1>9, <1>10, <1>11, <1>12, <1>13, <1>15, <1>16 DEF PgStep

\* At most one row of the index carries a key.
LEMMA KeysStep ==
    ASSUME TypeOK, Tables, OneRowPerKey, [PgStep]_vars
    PROVE  OneRowPerKey'
<1>0. /\ \A i, j \in Indexed : SameKey(i, j) => i = j
      /\ Indexed \subseteq Jobs
      /\ \A delay \in 0..MaxDelay : delay \in Nat
      /\ 0 \in Nat
  BY DEF OneRowPerKey, Indexed, InState, TypeOK
<1>q. ASSUME \A i, j \in Indexed' : SameKey(i, j)' => i = j PROVE OneRowPerKey'
  BY <1>q DEF OneRowPerKey, Indexed
<1>1. ASSUME NEW j \in Jobs, NEW delay \in 0..MaxDelay, Push(j, delay) \/ CommitTx(j, delay)
      PROVE  OneRowPerKey'
  <2>1. RowGoes(j, "ready", NoToken, Unlocked) /\ Others({j}) /\ key' = key
    BY <1>0, <1>1, InsertEffect DEF Push, CommitTx
  <2>2. Indexed' \subseteq Indexed \union {j}
    BY <1>1, <2>1 DEF Indexed, InState, Others, Push, CommitTx
  <2>3. CASE Push(j, delay)
    <3>1. \A i \in Indexed : ~SameKey(i, j)
      BY <2>3 DEF Push, KeyTaken, Indexed
    <3> QED BY <1>0, <1>q, <2>1, <2>2, <3>1 DEF SameKey
  <2>4. CASE CommitTx(j, delay)
    <3>1. j \in Indexed
      BY <2>4 DEF CommitTx, Indexed
    <3> QED BY <1>0, <1>q, <2>1, <2>2, <3>1 DEF SameKey
  <2> QED BY <1>1, <2>3, <2>4
<1>2. ASSUME NEW j \in Jobs, PushTx(j) PROVE OneRowPerKey'
  <2>1. Indexed' = Indexed \union {j} /\ key' = key
    BY <1>2 DEF PushTx, Indexed, InState
  <2>2. \A i \in Indexed : ~SameKey(i, j)
    BY <1>2 DEF PushTx, KeyTaken, Indexed
  <2> QED BY <1>0, <1>q, <2>1, <2>2 DEF SameKey
<1>3. ASSUME NEW j \in Jobs, Retry(j) PROVE OneRowPerKey'
  <2>1. RowGoes(j, "ready", NoToken, Unlocked) /\ Others({j}) /\ staged' = staged
    BY <1>0, <1>3, InsertEffect DEF Retry
  <2>2. Indexed' \subseteq Indexed \union {j}
    BY <2>1 DEF Indexed, InState, Others
  <2>3. key'[j] = NoKey /\ \A i \in Jobs \ {j} : key'[i] = key[i]
    BY <1>3 DEF Retry, TypeOK
  <2> QED BY <1>0, <1>q, <2>2, <2>3 DEF SameKey
<1>4. ASSUME key' = key, staged' \subseteq staged,
             \A j \in Jobs : rows'[j].state \in Active => rows[j].state \in Active
      PROVE  OneRowPerKey'
  <2>1. Indexed' \subseteq Indexed
    BY <1>4 DEF Indexed, InState
  <2> QED BY <1>0, <1>4, <1>q, <2>1 DEF SameKey
<1>5. CASE UNCHANGED vars
  BY <1>4, <1>5 DEF vars
<1> QED BY <1>1, <1>2, <1>3, <1>4, <1>5, RowStep

-----------------------------------------------------------------------------
(* Serial types: the snapshot, the advisory locks and what came in between *)

\* A pull under way has one row of a serial type at most; it has a lock on each
\* serial name it writes, and nobody else has one; and a live lease on a type it
\* read rows of came after its snapshot.
Serials ==
    /\ \A s \in Sessions : pulls[s].stage # "idle" =>
         \A i, j \in pulls[s].rows : SameSerial(i, j) => i = j
    /\ \A s \in Wrote : \A j \in pulls[s].rows : Serial(j) => name[j] \in pulls[s].locks
    /\ \A r, s \in Wrote : r # s => pulls[r].locks \intersect pulls[s].locks = {}
    /\ \A s \in Sessions : pulls[s].stage # "idle" =>
         \A i \in pulls[s].rows, j \in Jobs :
            SameSerial(i, j) /\ LiveLease(j) => name[i] \in pulls[s].overlapped

\* Only a commit and a renewal make a lease live, and only they and the other
\* steps of a pull touch a statement in flight.
Quiet == pulls' = pulls /\ name' = name /\ \A j \in Jobs : LiveLease(j)' => LiveLease(j)

LEMMA QuietSteps ==
    ASSUME TypeOK, Tables, PgStep
    PROVE  \/ Quiet
           \/ \E s \in Sessions, queues \in SUBSET QueueNames, limit \in 1..MaxBatch :
                 PullStarts(s, queues, limit)
           \/ \E s \in Sessions : PullWrites(s) \/ PullCommits(s) \/ PullEnds(s)
           \/ \E l \in held : Heartbeat(l)
<1>0. \A delay \in 0..MaxDelay : delay \in Nat
  OBVIOUS
<1>a. ASSUME NEW S \in SUBSET Jobs, Others(S), \A j \in S : rows'[j].state # "running",
             pulls' = pulls, name' = name
      PROVE  Quiet
  BY <1>a DEF Quiet, Others, LiveLease
<1>1. ASSUME NEW j \in Jobs, NEW delay \in 0..MaxDelay, Push(j, delay) \/ CommitTx(j, delay)
      PROVE  Quiet
  <2>1. RowGoes(j, "ready", NoToken, Unlocked) /\ Others({j}) /\ UNCHANGED <<pulls, name>>
    BY <1>0, <1>1, InsertEffect DEF Push, CommitTx
  <2> QED BY <1>a, <2>1 DEF RowGoes
<1>2. ASSUME NEW j \in Jobs, PushTx(j) \/ RollbackTx(j) PROVE Quiet
  BY <1>2 DEF PushTx, RollbackTx, Quiet, LiveLease
<1>3. ASSUME NEW j \in Jobs, Retry(j) PROVE Quiet
  <2>1. RowGoes(j, "ready", NoToken, Unlocked) /\ Others({j}) /\ UNCHANGED <<pulls, name>>
    BY <1>0, <1>3, InsertEffect DEF Retry
  <2> QED BY <1>a, <2>1 DEF RowGoes
<1>7. ASSUME NEW l \in held, NEW delay \in 0..MaxDelay, Ack(l) \/ NackRetry(l, delay) PROVE Quiet
  <2>1. /\ l[1] \in Jobs /\ Others({l[1]}) /\ UNCHANGED <<pulls, name>>
        /\ rows'[l[1]].state # "running"
    BY <1>7, SettleEffect DEF RowGoes
  <2> QED BY <1>a, <2>1
<1>8. ASSUME NEW l \in held, Stale(l) \/ Drop(l) \/ BuryCopies(l) PROVE Quiet
  BY <1>8 DEF Stale, Drop, BuryCopies, Quiet, LiveLease
<1>10. ASSUME NEW b \in burials, BuryDeletes(b) PROVE Quiet
  <2>1. b[1] \in Jobs /\ RowGoes(b[1], "absent", NoToken, Unlocked) /\ Others({b[1]})
        /\ UNCHANGED <<pulls, name>>
    BY <1>10, DeleteEffect DEF BuryDeletes
  <2> QED BY <1>a, <2>1 DEF RowGoes
<1>11. ASSUME NEW b \in burials, BuryRollsBack(b) PROVE Quiet
  BY <1>11 DEF BuryRollsBack, Quiet, LiveLease
<1>12. ASSUME NEW queues \in SUBSET QueueNames, Reclaim(queues) PROVE Quiet
  <2>1. /\ Expired(queues) \in SUBSET Jobs /\ Others(Expired(queues))
        /\ \A j \in Expired(queues) : rows'[j].state # "running"
        /\ UNCHANGED <<pulls, name>>
    BY <1>12, ReclaimEffect DEF Reclaim, InState, RowGoes
  <2> QED BY <1>a, <2>1
<1>13. ASSUME NEW j \in Jobs, Cancel(j) PROVE Quiet
  <2>1. RowGoes(j, "cancelled", NoToken, Unlocked) /\ Others({j}) /\ UNCHANGED <<pulls, name>>
    BY <1>13, CancelEffect DEF Cancel
  <2> QED BY <1>a, <2>1 DEF RowGoes
<1>15. ASSUME NEW S \in SUBSET dead, Discard(S) PROVE Quiet
  BY <1>15 DEF Discard, Quiet, LiveLease
<1>16. ASSUME Tick PROVE Quiet
  <2>1. UNCHANGED <<pulls, name>> /\ \A j \in Jobs : /\ rows'[j].state = rows[j].state
                                                     /\ rows'[j].leaseLeft <= rows[j].leaseLeft
    BY <1>16, TickEffect DEF Tick
  <2>2. \A j \in Jobs : rows[j].leaseLeft \in Int /\ rows'[j].leaseLeft \in Int
    <3>1. rows' \in [Jobs -> Row]
      BY <1>16, TickEffect
    <3> QED BY <3>1 DEF TypeOK, Row, Unlocked
  <2> QED BY <2>1, <2>2 DEF Quiet, LiveLease
<1> QED
  BY <1>1, <1>2, <1>3, <1>7, <1>8, <1>10, <1>11, <1>12, <1>13, <1>15, <1>16 DEF PgStep

\* A snapshot qualifies one row of a serial type at most, and none whose type
\* has a live lease.
LEMMA SnapshotIsSerial ==
    ASSUME NEW queues
    PROVE  /\ \A i, j \in {k \in Due(queues) : Qualifies(k, queues)} : SameSerial(i, j) => i = j
           /\ \A i \in {k \in Due(queues) : Qualifies(k, queues)}, j \in Jobs :
                SameSerial(i, j) => ~LiveLease(j)
<1>1. ASSUME NEW i \in Due(queues), NEW j \in Due(queues), Qualifies(i, queues),
             Qualifies(j, queues), SameSerial(i, j)
      PROVE  i = j
  <2>1. i \in Nat /\ j \in Nat
    BY PgJobAssumption DEF Due, InState
  <2>2. Serial(i) /\ Serial(j) /\ SameSerial(j, i)
    BY <1>1 DEF SameSerial, Serial
  <2>3. i <= j /\ j <= i
    BY <1>1, <2>2 DEF Qualifies
  <2> QED BY <2>1, <2>3
<1>2. ASSUME NEW i \in Due(queues), Qualifies(i, queues), NEW j \in Jobs, SameSerial(i, j)
      PROVE  ~LiveLease(j)
  <2>1. Serial(i) /\ SameSerial(j, i)
    BY <1>2 DEF SameSerial, Serial
  <2> QED BY <1>2, <2>1 DEF Qualifies
<1> QED BY <1>1, <1>2

\* Every step keeps the advisory locks apart, and writes down an overlap.
LEMMA SerialsStep ==
    ASSUME TypeOK, Tables, Serials, [PgStep]_vars
    PROVE  Serials'
<1>0. /\ \A limit \in 1..MaxBatch : limit \in Nat
      /\ \A s \in Sessions : pulls[s].rows \subseteq Jobs
      /\ \A s \in Sessions : s \in Wrote <=> pulls[s].stage = "wrote"
      /\ \A s \in Sessions : s \in Wrote' <=> pulls'[s].stage = "wrote"
      /\ Wrote \subseteq Sessions /\ Wrote' \subseteq Sessions
  BY DEF TypeOK, Pull, Wrote
\* What is to be shown of one pull and of two, given the names and rows.
<1> DEFINE Own(p) == /\ \A i, j \in p.rows : SameSerial(i, j) => i = j
                     /\ p.stage = "wrote" => \A j \in p.rows : Serial(j) => name[j] \in p.locks
           Warned(p) == \A i \in p.rows, j \in Jobs :
                          SameSerial(i, j) /\ LiveLease(j)' => name[i] \in p.overlapped
<1>q. ASSUME name' = name,
             \A s \in Sessions : pulls'[s].stage # "idle" => Own(pulls'[s]) /\ Warned(pulls'[s]),
             \A r, s \in Sessions : r # s /\ pulls'[r].stage = "wrote" /\ pulls'[s].stage = "wrote"
                                      => pulls'[r].locks \intersect pulls'[s].locks = {}
      PROVE  Serials'
  <2>1. \A s \in Sessions : pulls'[s].stage # "idle" =>
          \A i, j \in pulls'[s].rows : SameSerial(i, j)' => i = j
    BY <1>q DEF SameSerial, Serial
  <2>2. \A s \in Wrote' : \A j \in pulls'[s].rows : Serial(j)' => name'[j] \in pulls'[s].locks
    BY <1>0, <1>q DEF Serial
  <2>3. \A s \in Sessions : pulls'[s].stage # "idle" =>
          \A i \in pulls'[s].rows, j \in Jobs :
            SameSerial(i, j)' /\ LiveLease(j)' => name'[i] \in pulls'[s].overlapped
    BY <1>q DEF SameSerial, Serial
  <2>4. \A r, s \in Wrote' : r # s => pulls'[r].locks \intersect pulls'[s].locks = {}
    BY <1>0, <1>q
  <2> QED BY <2>1, <2>2, <2>3, <2>4 DEF Serials
<1>own. \A s \in Sessions : pulls[s].stage # "idle" => Own(pulls[s])
  BY <1>0 DEF Serials
<1>apart. \A r, s \in Sessions : r # s /\ pulls[r].stage = "wrote" /\ pulls[s].stage = "wrote"
                                   => pulls[r].locks \intersect pulls[s].locks = {}
  BY <1>0 DEF Serials
<1>warned. ASSUME NEW s \in Sessions, pulls[s].stage # "idle", NEW i \in pulls[s].rows, NEW j \in Jobs,
                  SameSerial(i, j), LiveLease(j)
           PROVE  name[i] \in pulls[s].overlapped
  BY <1>warned DEF Serials
<1>1. CASE Quiet
  <2>1. \A s \in Sessions : pulls[s].stage # "idle" => Warned(pulls[s])
    BY <1>1, <1>warned DEF Quiet
  <2> HIDE DEF Own, Warned
  <2> QED BY <1>1, <1>q, <1>own, <1>apart, <2>1 DEF Quiet
<1>2. ASSUME NEW s \in Sessions, NEW queues \in SUBSET QueueNames, NEW limit \in 1..MaxBatch,
             PullStarts(s, queues, limit)
      PROVE  Serials'
  <2>1. /\ pulls'[s].stage = "reads"
        /\ pulls'[s].rows = {j \in Due(queues) : Qualifies(j, queues)}
        /\ \A r \in Sessions \ {s} : pulls'[r] = pulls[r]
    BY <1>0, <1>2, StartEffect
  <2>2. name' = name /\ rows' = rows
    BY <1>2 DEF PullStarts
  <2>3. Own(pulls'[s]) /\ Warned(pulls'[s])
    <3>1. \A j \in Jobs : LiveLease(j)' => LiveLease(j)
      BY <2>2 DEF LiveLease
    <3> QED BY <2>1, <3>1, SnapshotIsSerial
  <2>4. \A r \in Sessions \ {s} : pulls[r].stage # "idle" => Own(pulls[r]) /\ Warned(pulls[r])
    BY <1>own, <1>warned, <2>2 DEF LiveLease
  <2> HIDE DEF Own, Warned
  <2> QED BY <1>q, <1>apart, <2>1, <2>2, <2>3, <2>4
<1>3. ASSUME NEW s \in Sessions, PullWrites(s) PROVE Serials'
  <2>1. /\ pulls[s].stage = "reads" /\ pulls'[s].stage = "wrote"
        /\ pulls'[s].rows \subseteq pulls[s].rows
        /\ pulls'[s].overlapped = pulls[s].overlapped
        /\ \A j \in pulls'[s].rows : Serial(j) => name[j] \in pulls'[s].locks
        /\ \A n \in pulls'[s].locks : ~NameLocked(n)
        /\ \A r \in Sessions \ {s} : pulls'[r] = pulls[r]
        /\ name' = name /\ rows' = rows
    BY <1>3, WriteEffect
  <2>2. Own(pulls'[s]) /\ Warned(pulls'[s])
    BY <1>own, <1>warned, <2>1 DEF LiveLease
  <2>3. \A r \in Sessions \ {s} : pulls[r].stage # "idle" => Own(pulls[r]) /\ Warned(pulls[r])
    BY <1>own, <1>warned, <2>1 DEF LiveLease
  <2>4. \A r \in Sessions \ {s} : pulls[r].stage = "wrote" => pulls[r].locks \intersect pulls'[s].locks = {}
    BY <1>0, <2>1 DEF NameLocked
  <2> HIDE DEF Own, Warned
  <2> QED BY <1>q, <1>apart, <2>1, <2>2, <2>3, <2>4
<1>4. ASSUME NEW s \in Sessions, PullCommits(s) PROVE Serials'
  <2>1. /\ pulls'[s].stage = "idle"
        /\ \A r \in Sessions \ {s} :
             /\ Alike(pulls'[r], pulls[r])
             /\ pulls[r].overlapped \subseteq pulls'[r].overlapped
             /\ pulls[r].stage # "idle" =>
                  \A j \in pulls[s].rows : Serial(j) => name[j] \in pulls'[r].overlapped
    BY <1>4, CommitPulls, IdleIs
  <2>2. name' = name /\ Others(pulls[s].rows)
    BY <1>4, CommitEffect DEF PullCommits
  <2>3. ASSUME NEW r \in Sessions \ {s}, pulls[r].stage # "idle", NEW i \in pulls[r].rows,
               NEW j \in Jobs, SameSerial(i, j), LiveLease(j)'
        PROVE  name[i] \in pulls'[r].overlapped
    <3>1. CASE j \in pulls[s].rows
      BY <2>1, <2>3, <3>1 DEF SameSerial, Serial
    <3>2. CASE j \notin pulls[s].rows
      <4>1. LiveLease(j)
        BY <2>2, <2>3, <3>2 DEF Others, LiveLease
      <4> QED BY <1>warned, <2>1, <2>3, <4>1
    <3> QED BY <3>1, <3>2
  <2>4. ASSUME NEW r \in Sessions, pulls'[r].stage # "idle" PROVE Own(pulls'[r]) /\ Warned(pulls'[r])
    <3>1. r # s /\ pulls[r].stage # "idle" /\ pulls'[r].rows = pulls[r].rows
            /\ pulls'[r].locks = pulls[r].locks /\ pulls'[r].stage = pulls[r].stage
      BY <2>1, <2>4 DEF Alike
    <3> QED BY <1>own, <2>3, <3>1
  <2>5. \A r, q \in Sessions : r # q /\ pulls'[r].stage = "wrote" /\ pulls'[q].stage = "wrote"
                                 => pulls'[r].locks \intersect pulls'[q].locks = {}
    BY <1>apart, <2>1 DEF Alike
  <2> HIDE DEF Own, Warned
  <2> QED BY <1>q, <2>2, <2>4, <2>5
<1>5. ASSUME NEW s \in Sessions, PullEnds(s) PROVE Serials'
  <2>1. pulls'[s].stage = "idle" /\ \A r \in Sessions \ {s} : pulls'[r] = pulls[r]
    BY <1>5, EndEffect, IdleIs
  <2>2. name' = name /\ rows' = rows
    BY <1>5 DEF PullEnds
  <2>3. \A r \in Sessions \ {s} : pulls[r].stage # "idle" => Own(pulls[r]) /\ Warned(pulls[r])
    BY <1>own, <1>warned, <2>2 DEF LiveLease
  <2> HIDE DEF Own, Warned
  <2> QED BY <1>q, <1>apart, <2>1, <2>2, <2>3
<1>6. ASSUME NEW l \in held, Heartbeat(l) PROVE Serials'
  <2>1. \A r \in Sessions :
          /\ Alike(pulls'[r], pulls[r])
          /\ pulls[r].overlapped \subseteq pulls'[r].overlapped
          /\ pulls[r].stage # "idle" /\ Serial(l[1]) /\ ~LiveLease(l[1])
               => name[l[1]] \in pulls'[r].overlapped
    BY <1>6, HeartbeatPulls
  <2>2. name' = name /\ Others({l[1]})
    BY <1>6, HeartbeatEffect DEF Heartbeat
  <2>3. ASSUME NEW r \in Sessions, pulls[r].stage # "idle", NEW i \in pulls[r].rows,
               NEW j \in Jobs, SameSerial(i, j), LiveLease(j)'
        PROVE  name[i] \in pulls'[r].overlapped
    <3>1. CASE LiveLease(j)
      BY <1>warned, <2>1, <2>3, <3>1
    <3>2. CASE ~LiveLease(j)
      <4>1. j = l[1]
        BY <2>2, <2>3, <3>2 DEF Others, LiveLease
      <4> QED BY <2>1, <2>3, <3>2, <4>1 DEF SameSerial, Serial
    <3> QED BY <3>1, <3>2
  <2>4. ASSUME NEW r \in Sessions, pulls'[r].stage # "idle" PROVE Own(pulls'[r]) /\ Warned(pulls'[r])
    <3>1. pulls[r].stage # "idle" /\ pulls'[r].rows = pulls[r].rows
            /\ pulls'[r].locks = pulls[r].locks /\ pulls'[r].stage = pulls[r].stage
      BY <2>1, <2>4 DEF Alike
    <3> QED BY <1>own, <2>3, <3>1
  <2>5. \A r, q \in Sessions : r # q /\ pulls'[r].stage = "wrote" /\ pulls'[q].stage = "wrote"
                                 => pulls'[r].locks \intersect pulls'[q].locks = {}
    BY <1>apart, <2>1 DEF Alike
  <2> HIDE DEF Own, Warned
  <2> QED BY <1>q, <2>2, <2>4, <2>5
<1>7. CASE UNCHANGED vars
  BY <1>1, <1>7 DEF vars, Quiet, LiveLease
<1> QED BY <1>1, <1>2, <1>3, <1>4, <1>5, <1>6, <1>7, QuietSteps

\* Everything the proofs below rest on.
PgIInv == TypeOK /\ Tables /\ OneRowPerKey /\ Serials

LEMMA PgInvInit == Init => PgIInv
<1> SUFFICES ASSUME Init PROVE PgIInv
  OBVIOUS
<1>1. TypeOK
  BY IdleIs, PgBoundAssumption DEF Init, TypeOK, Absent, Row, Unlocked
<1>2. Wrote = {} /\ \A s \in Sessions : pulls[s].stage = "idle"
  BY IdleIs DEF Init, Wrote
<1>3. Tables
  BY <1>2 DEF Init, Tables, TablesCoherent, Absent
<1>4. OneRowPerKey
  BY DEF Init, OneRowPerKey, InState, Absent, Active, Waiting
<1>5. Serials
  BY <1>2 DEF Serials
<1> QED BY <1>1, <1>3, <1>4, <1>5 DEF PgIInv

LEMMA PgInvStep == PgIInv /\ [Next]_vars => PgIInv'
  BY NextSteps, TypingStep, TablesStep, KeysStep, SerialsStep DEF PgIInv

LEMMA PgInductive == Spec => []PgIInv
  BY PgInvInit, PgInvStep, PTL DEF Spec

\* Rows, statements in flight and leases keep the shapes of their columns.
THEOREM PgTyping == Spec => []TypeOK
<1>1. PgIInv => TypeOK
  BY DEF PgIInv
<1> QED BY <1>1, PgInductive, PTL

LEMMA SqlNow == PgIInv => SqlCoherent
<1> SUFFICES ASSUME PgIInv PROVE SqlCoherent
  OBVIOUS
<1>1. ASSUME NEW r \in Wrote, NEW s \in Wrote, NEW i \in pulls[r].rows, NEW j \in pulls[s].rows,
             SameSerial(i, j)
      PROVE  i = j
  <2>1. Serial(i) /\ Serial(j) /\ name[i] = name[j]
    BY <1>1 DEF SameSerial, Serial
  <2>2. name[i] \in pulls[r].locks \intersect pulls[s].locks
    BY <2>1 DEF PgIInv, Serials
  <2>3. r = s
    BY <2>2 DEF PgIInv, Serials
  <2>4. r \in Sessions /\ pulls[r].stage # "idle"
    BY DEF Wrote
  <2> QED BY <1>1, <2>3, <2>4 DEF PgIInv, Serials
<1> QED BY <1>1 DEF PgIInv, Tables, SqlCoherent, OneSerialClaim

\* The tables, the row locks, the unique index and the advisory locks agree: no
\* statement of push, pull, bury, reclaim, cancel or a settle gets past a lock
\* another one rests on.
THEOREM PgCoherence == Spec => []SqlCoherent
  BY SqlNow, PgInductive, PTL

\* A pull gives a serial type a second live lease only when the type gained one
\* after the pull had read its snapshot.
THEOREM PgSerialPulls == Spec => SerialPullUnlessOverlapped
<1> DEFINE Overlapped == \A i, j \in Jobs : SecondLease(i, j) =>
                           \E s \in Wrote : /\ pulls'[s].stage = "idle"
                                            /\ name[i] \in pulls[s].overlapped
<1>1. ASSUME PgIInv, PgStep, NEW i \in Jobs, NEW j \in Jobs, SecondLease(i, j)
      PROVE  \E s \in Wrote : pulls'[s].stage = "idle" /\ name[i] \in pulls[s].overlapped
  <2>0. /\ i # j /\ SameSerial(i, j) /\ SameSerial(j, i) /\ name[i] = name[j]
        /\ LiveLease(i)' /\ LiveLease(j)'
        /\ ~(rows[i].state = "running" /\ rows[j].state = "running")
    BY <1>1 DEF SecondLease, SameSerial, Serial
  <2>1. ASSUME \A k \in Jobs : LiveLease(k)' => rows[k].state = "running" PROVE FALSE
    BY <2>0, <2>1
  <2>2. CASE Quiet
    BY <2>1, <2>2 DEF Quiet, LiveLease
  <2>3. CASE rows' = rows
    BY <2>1, <2>3 DEF LiveLease
  <2>4. CASE \E l \in held : Heartbeat(l)
    BY <1>1, <2>1, <2>4, HeartbeatEffect DEF PgIInv, RowGoes, Others, LiveLease
  <2>5. ASSUME NEW s \in Sessions, PullCommits(s)
        PROVE  s \in Wrote /\ pulls'[s].stage = "idle" /\ name[i] \in pulls[s].overlapped
    <3>1. s \in Wrote /\ pulls[s].stage # "idle" /\ pulls'[s].stage = "idle" /\ Others(pulls[s].rows)
      BY <1>1, <2>5, CommitPulls, CommitEffect, IdleIs DEF PgIInv, PullCommits, Wrote
    <3>2. ~(i \in pulls[s].rows /\ j \in pulls[s].rows)
      BY <1>1, <2>0, <3>1 DEF PgIInv, Serials
    <3>3. \A k \in Jobs \ pulls[s].rows : LiveLease(k)' => LiveLease(k)
      BY <3>1 DEF Others, LiveLease
    <3>4. CASE i \in pulls[s].rows
      BY <1>1, <2>0, <3>1, <3>2, <3>3, <3>4 DEF PgIInv, Serials
    <3>5. CASE j \in pulls[s].rows
      BY <1>1, <2>0, <3>1, <3>2, <3>3, <3>5 DEF PgIInv, Serials
    <3>6. CASE i \notin pulls[s].rows /\ j \notin pulls[s].rows
      BY <2>0, <3>3, <3>6 DEF LiveLease
    <3> QED BY <3>1, <3>4, <3>5, <3>6
  <2>6. \A s \in Sessions, queues \in SUBSET QueueNames, limit \in 1..MaxBatch :
          PullStarts(s, queues, limit) => rows' = rows
    BY DEF PullStarts
  <2>7. \A s \in Sessions : PullWrites(s) \/ PullEnds(s) => rows' = rows
    BY DEF PullWrites, PullEnds
  <2> QED BY <1>1, <2>2, <2>3, <2>4, <2>5, <2>6, <2>7, QuietSteps DEF PgIInv
<1>2. PgIInv /\ [Next]_vars => [Overlapped]_vars
  BY <1>1, NextSteps
<1> QED BY <1>2, PgInductive, PTL DEF Spec, SerialPullUnlessOverlapped

-----------------------------------------------------------------------------
(* Leases, while no row is taken from under a burial *)

\* The tokens in rows and leases.
Spent == {rows[j].token : j \in Jobs} \union {l[2] : l \in held \union burials}

\* A lease is settled or buried, never both; a row that is being buried is still
\* under the lease it was copied under; and the token of a pull is nobody else's
\* until it commits.
Leases ==
    /\ held \intersect burials = {}
    /\ \A b \in burials : Current(b)
    /\ \A s \in Wrote : pulls[s].token \notin Spent
    /\ \A r, s \in Wrote : pulls[r].token = pulls[s].token => r = s

\* Every step keeps the leases apart.
LEMMA LeasesStep ==
    ASSUME MaxCrossings = 0, TypeOK, Tables, Leases, [PgStep]_vars
    PROVE  Leases'
<1>0. /\ \A j \in Jobs : rows[j].state = "running" <=> rows[j].token # NoToken
      /\ \A delay \in 0..MaxDelay : delay \in Nat
      /\ \A l \in held \union burials : l \in Jobs \X Tokens /\ l[2] # NoToken
      /\ crossings = 0
      /\ \A b \in burials : rows[b[1]].state = "running"
      /\ \A s \in Wrote : pulls[s].token # NoToken /\ pulls[s].token \in Tokens
      /\ \A s \in Sessions : Alike(pulls[s], pulls[s])
  <2>1. \A l \in held \union burials : l \in Jobs \X Tokens /\ l[2] # NoToken
    BY PgTokenAssumption DEF TypeOK
  <2>2. \A b \in burials : rows[b[1]].token # NoToken
    BY <2>1 DEF Leases, Current
  <2>3. \A s \in Wrote : pulls[s].token # NoToken /\ pulls[s].token \in Tokens
    BY DEF Tables, Wrote, TypeOK, Pull
  <2> QED BY <2>1, <2>2, <2>3 DEF TypeOK, Tables, TablesCoherent, Alike
\* A step that hands out no token and takes none away from a burial.
<1>q. ASSUME held' \union burials' \subseteq held \union burials,
             held' \intersect burials' = {},
             \A j \in Jobs : rows'[j].token \in {rows[j].token, NoToken},
             \A b \in burials' : b \in burials => rows'[b[1]].token = rows[b[1]].token,
             \A b \in burials' : b \in burials \/ (Current(b) /\ rows' = rows),
             \A s \in Sessions : Alike(pulls'[s], pulls[s]) \/ pulls'[s].stage # "wrote"
      PROVE  Leases'
  <2>1. \A s \in Wrote' : s \in Wrote /\ pulls'[s].token = pulls[s].token
    BY <1>q DEF Wrote, Alike
  <2>2. Spent' \subseteq Spent \union {NoToken}
    BY <1>q DEF Spent
  <2>3. \A b \in burials' : Current(b)'
    BY <1>q DEF Leases, Current
  <2>4. \A s \in Wrote' : pulls'[s].token \notin Spent'
    BY <1>0, <2>1, <2>2 DEF Leases
  <2>5. \A r, s \in Wrote' : pulls'[r].token = pulls'[s].token => r = s
    BY <2>1 DEF Leases
  <2> QED BY <1>q, <2>3, <2>4, <2>5 DEF Leases
<1>h. held \intersect burials = {}
  BY DEF Leases
\* A step that drops locks of rows that are not being buried any more.
<1>t. ASSUME held' \subseteq held, burials' \subseteq burials,
             \A i \in Jobs : rows'[i].token \in {rows[i].token, NoToken},
             \A b \in burials' : rows'[b[1]].token = rows[b[1]].token,
             \A s \in Sessions : Alike(pulls'[s], pulls[s]) \/ pulls'[s].stage # "wrote"
      PROVE  Leases'
  <2>1. held' \intersect burials' = {} /\ held' \union burials' \subseteq held \union burials
    BY <1>h, <1>t
  <2>2. /\ \A b \in burials' : b \in burials => rows'[b[1]].token = rows[b[1]].token
        /\ \A b \in burials' : b \in burials \/ (Current(b) /\ rows' = rows)
    BY <1>t
  <2> QED BY <1>q, <1>t, <2>1, <2>2, Zenon
\* A step that drops the lock of row j, which is not being buried any more.
<1>r. ASSUME NEW j \in Jobs, NEW state, RowGoes(j, state, NoToken, Unlocked), Others({j}),
             pulls' = pulls, held' \subseteq held, burials' \subseteq burials,
             \A b \in burials' : b[1] # j
      PROVE  Leases'
  <2>1. \A i \in Jobs : rows'[i].token \in {rows[i].token, NoToken}
    BY <1>r DEF RowGoes, Others
  <2>2. \A b \in burials' : rows'[b[1]].token = rows[b[1]].token
    BY <1>0, <1>r DEF Others
  <2>3. \A s \in Sessions : Alike(pulls'[s], pulls[s])
    BY <1>0, <1>r
  <2> QED BY <1>r, <1>t, <2>1, <2>2, <2>3
\* A step that changes no row.
<1>s. ASSUME rows' = rows, held' \subseteq held, burials' \subseteq burials,
             \A s \in Sessions : Alike(pulls'[s], pulls[s]) \/ pulls'[s].stage # "wrote"
      PROVE  Leases'
  BY <1>h, <1>q, <1>s
<1>1. ASSUME NEW j \in Jobs, NEW delay \in 0..MaxDelay, Push(j, delay) \/ CommitTx(j, delay) \/ Retry(j)
      PROVE  Leases'
  <2>1. Insert(j, delay) \/ Insert(j, 0)
    BY <1>1 DEF Push, CommitTx, Retry
  <2>2. RowGoes(j, "ready", NoToken, Unlocked) /\ Others({j})
    BY <1>0, <2>1, InsertEffect
  <2>3. rows[j].state = "absent" /\ UNCHANGED <<pulls, held, burials>>
    BY <1>1 DEF Push, CommitTx, Retry, Fresh, Tables, TablesCoherent
  <2>4. \A b \in burials' : b[1] # j
    BY <1>0, <2>3
  <2> QED BY <1>r, <2>2, <2>3, <2>4
<1>2. ASSUME NEW j \in Jobs, PushTx(j) \/ RollbackTx(j) PROVE Leases'
  BY <1>0, <1>2, <1>s DEF PushTx, RollbackTx
<1>3. ASSUME NEW s \in Sessions, NEW queues \in SUBSET QueueNames, NEW limit \in 1..MaxBatch,
             PullStarts(s, queues, limit)
      PROVE  Leases'
  <2>1. \A r \in Sessions : Alike(pulls'[r], pulls[r]) \/ pulls'[r].stage # "wrote"
    BY <1>0, <1>3, StartEffect
  <2> QED BY <1>3, <1>s, <2>1 DEF PullStarts
<1>4. ASSUME NEW s \in Sessions, PullWrites(s) PROVE Leases'
  <2>1. /\ pulls'[s].token \in Tokens \ UsedTokens
        /\ \A r \in Sessions \ {s} : pulls'[r] = pulls[r]
        /\ UNCHANGED <<rows, held, burials>>
    BY <1>4, WriteEffect
  <2>2. Spent' = Spent /\ Spent \subseteq UsedTokens
    BY <2>1 DEF Spent, UsedTokens
  <2>3. \A r \in Sessions : pulls[r].token \in UsedTokens
    BY DEF UsedTokens
  <2>4. \A r \in Wrote' : r \in Sessions /\ (r # s => r \in Wrote /\ pulls'[r] = pulls[r])
    BY <2>1 DEF Wrote
  <2>5. \A r \in Wrote' : pulls'[r].token \notin Spent'
    BY <2>1, <2>2, <2>4 DEF Leases
  <2>6. \A r, q \in Wrote' : pulls'[r].token = pulls'[q].token => r = q
    BY <2>1, <2>3, <2>4 DEF Leases
  <2> QED BY <2>1, <2>5, <2>6 DEF Leases, Current
<1>5. ASSUME NEW s \in Sessions, PullCommits(s) PROVE Leases'
  <2> DEFINE t == pulls[s].token
             S == pulls[s].rows
  <2>1. /\ s \in Wrote /\ S \subseteq Jobs
        /\ \A j \in S : RowGoes(j, "running", t, LeaseLen) /\ rows[j].state \in Waiting
        /\ Others(S)
        /\ held' = held \union {<<j, t>> : j \in S} /\ burials' = burials
    BY <1>5, CommitEffect DEF PullCommits, Wrote, Tables, TablesCoherent
  <2>2. \A r \in Wrote' : r \in Wrote /\ r # s /\ pulls'[r].token = pulls[r].token
    BY <1>5, CommitPulls, IdleIs DEF Wrote, Alike
  <2>3. t \notin Spent
    BY <2>1 DEF Leases
  <2> HIDE DEF t, S
  <2>4. Spent' \subseteq Spent \union {t}
    BY <2>1 DEF Spent, RowGoes, Others
  <2>5. \A r \in Wrote' : pulls'[r].token \notin Spent'
    <3>1. \A r \in Wrote' : pulls'[r].token # t
      BY <2>1, <2>2 DEF Leases, t
    <3> QED BY <2>2, <2>4, <3>1 DEF Leases
  <2>6. \A r, q \in Wrote' : pulls'[r].token = pulls'[q].token => r = q
    BY <2>2 DEF Leases
  <2>7. held' \intersect burials' = {}
    <3>1. \A j \in S : <<j, t>> \notin burials
      BY <2>3 DEF Spent
    <3> QED BY <1>h, <2>1, <3>1
  <2>8. \A b \in burials' : Current(b)'
    <3>1. \A b \in burials : b[1] \in Jobs \ S
      BY <1>0, <2>1 DEF Waiting
    <3> QED BY <2>1, <3>1 DEF Others, Current, Leases
  <2> QED BY <2>5, <2>6, <2>7, <2>8 DEF Leases
<1>6. ASSUME NEW s \in Sessions, PullEnds(s) PROVE Leases'
  <2>1. \A r \in Sessions : Alike(pulls'[r], pulls[r]) \/ pulls'[r].stage # "wrote"
    BY <1>0, <1>6, EndEffect, IdleIs
  <2> QED BY <1>6, <1>s, <2>1 DEF PullEnds
<1>7. ASSUME NEW l \in held, NEW delay \in 0..MaxDelay, Ack(l) \/ NackRetry(l, delay)
      PROVE  Leases'
  <2>1. /\ l[1] \in Jobs /\ Current(l)
        /\ \E s \in {"done", "retrying"} : RowGoes(l[1], s, NoToken, Unlocked)
        /\ Others({l[1]})
        /\ held' = held \ {l}
        /\ UNCHANGED <<pulls, burials>>
    BY <1>7, SettleEffect
  <2>2. ASSUME NEW b \in burials, b[1] = l[1] PROVE FALSE
    <3>1. b[2] = l[2]
      BY <2>1, <2>2 DEF Leases, Current
    <3>2. b = l
      BY <1>0, <2>2, <3>1
    <3> QED BY <1>h, <3>2
  <2> QED BY <1>r, <2>1, <2>2
<1>8. ASSUME NEW l \in held, Stale(l) \/ Drop(l) PROVE Leases'
  BY <1>0, <1>8, <1>s DEF Stale, Drop
<1>9. ASSUME NEW l \in held, Heartbeat(l) PROVE Leases'
  <2>1. \A j \in Jobs : rows'[j].token = rows[j].token
    BY <1>9, HeartbeatEffect DEF RowGoes, Others
  <2>2. \A s \in Sessions : Alike(pulls'[s], pulls[s])
    BY <1>9, HeartbeatPulls
  <2>3. held' = held /\ burials' = burials
    BY <1>9 DEF Heartbeat
  <2>4. \A b \in burials : rows'[b[1]].token = rows[b[1]].token
    BY <1>0, <2>1
  <2> QED BY <1>t, <2>1, <2>2, <2>3, <2>4
<1>10. ASSUME NEW l \in held, BuryCopies(l) PROVE Leases'
  <2>1. /\ rows' = rows /\ pulls' = pulls /\ Current(l)
        /\ held' = held \ {l} /\ burials' = burials \union {l}
    BY <1>10 DEF BuryCopies
  <2> QED BY <1>0, <1>h, <1>q, <2>1
<1>11. ASSUME NEW b \in burials, BuryDeletes(b) PROVE Leases'
  <2>1. b[1] \in Jobs /\ RowGoes(b[1], "absent", NoToken, Unlocked) /\ Others({b[1]})
    BY <1>11, DeleteEffect
  <2>2. burials' = burials \ {b} /\ held' = held /\ pulls' = pulls
    BY <1>11 DEF BuryDeletes
  <2>3. \A c \in burials' : c[1] # b[1]
    BY <2>2 DEF Tables
  <2> QED BY <1>r, <2>1, <2>2, <2>3
<1>12. ASSUME NEW b \in burials, BuryRollsBack(b) PROVE Leases'
  BY <1>0, <1>12, <1>s DEF BuryRollsBack
<1>13. ASSUME NEW queues \in SUBSET QueueNames, Reclaim(queues) PROVE Leases'
  <2> DEFINE X == Expired(queues)
  <2>1. Others(X) /\ (\A j \in X : RowGoes(j, "ready", NoToken, Unlocked))
    BY <1>13, ReclaimEffect
  <2>2. UNCHANGED <<pulls, held, burials>> /\ ~Crosses(X)
    BY <1>0, <1>13 DEF Reclaim, Crossing
  <2> HIDE DEF X
  <2>3. \A i \in Jobs : rows'[i].token \in {rows[i].token, NoToken}
    BY <2>1 DEF RowGoes, Others
  <2>4. \A b \in burials : rows'[b[1]].token = rows[b[1]].token
    BY <1>0, <2>1, <2>2 DEF Crosses, Others
  <2> QED BY <1>0, <1>t, <2>2, <2>3, <2>4
<1>14. ASSUME NEW j \in Jobs, Cancel(j) PROVE Leases'
  <2>1. RowGoes(j, "cancelled", NoToken, Unlocked) /\ Others({j})
    BY <1>14, CancelEffect
  <2>2. UNCHANGED <<pulls, held, burials>> /\ ~Crosses({j})
    BY <1>0, <1>14 DEF Cancel, Crossing
  <2>3. \A b \in burials' : b[1] # j
    BY <2>2 DEF Crosses
  <2> QED BY <1>r, <2>1, <2>2, <2>3
<1>15. ASSUME NEW S \in SUBSET dead, Discard(S) PROVE Leases'
  BY <1>0, <1>15, <1>s DEF Discard
<1>16. ASSUME Tick PROVE Leases'
  <2>1. \A j \in Jobs : rows'[j].token = rows[j].token
    BY <1>16, TickEffect
  <2>2. UNCHANGED <<pulls, held, burials>>
    BY <1>16 DEF Tick
  <2>3. \A b \in burials : rows'[b[1]].token = rows[b[1]].token
    BY <1>0, <2>1
  <2> QED BY <1>0, <1>t, <2>1, <2>2, <2>3
<1>17. CASE UNCHANGED vars
  BY <1>0, <1>17, <1>s DEF vars
<1>18. ASSUME NEW j \in Jobs, Retry(j) PROVE Leases'
  <2>1. 0 \in 0..MaxDelay
    BY PgBoundAssumption
  <2> QED BY <1>1, <1>18, <2>1
<1> QED
  BY <1>1, <1>2, <1>3, <1>4, <1>5, <1>6, <1>7, <1>8, <1>9, <1>10, <1>11, <1>12, <1>13, <1>14,
     <1>15, <1>16, <1>17, <1>18 DEF PgStep

-----------------------------------------------------------------------------
(* The SQL queue implements the Queue trait *)

\* The leases as the trait sees them: a pull's token is told apart by its row.
Granted == {<<l[1], l>> : l \in held \union burials}

\* The rows of S lose their lock and move to phase p, the others stay.
LEMMA JobMoves ==
    ASSUME NEW S \in SUBSET Jobs, NEW p,
           \A j \in S : Phase(j)' = p /\ rows'[j].token = NoToken,
           \A j \in Jobs \ S : Phase(j)' = Phase(j) /\ rows'[j].token = rows[j].token
    PROVE  LQ!Move(S, p)
<1>1. [j \in Jobs |-> Phase(j)]' =
        [j \in Jobs |-> IF j \in S THEN p ELSE [i \in Jobs |-> Phase(i)][j]]
  OBVIOUS
<1>2. \A j \in Jobs : TokenOf(j)' = IF j \in S THEN NoToken ELSE TokenOf(j)
  BY DEF TokenOf
<1>3. [j \in Jobs |-> TokenOf(j)]' =
        [j \in Jobs |-> IF j \in S THEN NoToken ELSE [i \in Jobs |-> TokenOf(i)][j]]
  BY <1>2
<1> QED BY <1>1, <1>3, Zenon DEF LQ!Move

\* One row goes to a state without a lock, and is or is not a dead letter.
LEMMA MovesOne ==
    ASSUME NEW j \in Jobs, NEW state, NEW p, RowGoes(j, state, NoToken, Unlocked), Others({j}),
           \A i \in Jobs \ {j} : i \in dead' <=> i \in dead,
           IF j \in dead' THEN p = "dead"
           ELSE /\ state # "running"
                /\ p = IF state \in Waiting THEN "waiting" ELSE state
    PROVE  LQ!Move({j}, p)
<1>1. rows'[j].state = state /\ rows'[j].token = NoToken
  BY DEF RowGoes
<1>2. Phase(j)' = p
  BY <1>1 DEF Phase
<1>3. \A i \in Jobs \ {j} : Phase(i)' = Phase(i) /\ rows'[i].token = rows[i].token
  BY DEF Others, Phase
<1> QED BY <1>1, <1>2, <1>3, JobMoves

\* No row changes its phase or its lock.
LEMMA Stays ==
    ASSUME dead' = dead,
           \A j \in Jobs : rows'[j].state = rows[j].state /\ rows'[j].token = rows[j].token
    PROVE  UNCHANGED <<[j \in Jobs |-> Phase(j)], [j \in Jobs |-> TokenOf(j)]>>
<1>1. \A j \in Jobs : Phase(j)' = Phase(j) /\ TokenOf(j)' = TokenOf(j)
  BY DEF Phase, TokenOf
<1> QED BY <1>1

\* A current lease is settled: its row loses the lock and moves to phase p.
LEMMA Settles ==
    ASSUME TypeOK, Tables, NEW l \in held \union burials, Current(l),
           NEW p \in {"done", "waiting", "dead"}, LQ!Move({l[1]}, p),
           held' \union burials' = (held \union burials) \ {l}
    PROVE  \E k \in Granted : LQ!Settle(k, p)
<1> DEFINE k == <<l[1], l>>
<1>1. /\ l \in Jobs \X Tokens /\ l[1] \in Jobs /\ l[2] # NoToken /\ l = <<l[1], l[2]>>
  BY PgTokenAssumption DEF TypeOK
<1>2. rows[l[1]].token = l[2] /\ rows[l[1]].state = "running" /\ l[1] \notin dead
  BY <1>1 DEF Current, Tables, TablesCoherent
<1>3. k \in Granted /\ k[1] = l[1] /\ k[2] = l
  BY DEF Granted
<1>4. [i \in Jobs |-> Phase(i)][k[1]] = "leased"
  BY <1>1, <1>2, <1>3 DEF Phase, Waiting
<1>5. [i \in Jobs |-> TokenOf(i)][k[1]] = k[2]
  BY <1>1, <1>2, <1>3 DEF TokenOf
<1>6. Granted' = Granted \ {k}
  BY DEF Granted
<1>7. LQ!Move({k[1]}, p)
  BY <1>3
<1> HIDE DEF k
<1>8. LQ!Settle(k, p)
  BY <1>3, <1>4, <1>5, <1>6, <1>7, Zenon DEF LQ!Settle, Granted
<1> QED BY <1>3, <1>8

\* Leases that are dropped, refused as stale, or lost with a burial.
LEMMA Abandons ==
    ASSUME rows' = rows, dead' = dead, NEW l,
           held' \union burials' = (held \union burials) \ {l}
    PROVE  \E L \in SUBSET Granted : LQ!Abandon(L)
<1> PICK gone : gone = Granted \intersect {<<l[1], l>>}
  OBVIOUS
<1>1. Granted' = Granted \ gone
  BY DEF Granted
<1>2. UNCHANGED <<[j \in Jobs |-> Phase(j)], [j \in Jobs |-> TokenOf(j)]>>
  BY Stays
<1>3. LQ!Abandon(gone)
  BY <1>1, <1>2, Zenon DEF LQ!Abandon, Granted
<1>4. gone \in SUBSET Granted
  OBVIOUS

<1> QED BY <1>3, <1>4

\* The abstract queue does not move.
Stutter == UNCHANGED <<[j \in Jobs |-> Phase(j)], [j \in Jobs |-> TokenOf(j)], Granted>>

\* Every step of the SQL queue is a step of the Queue trait or none.
LEMMA StepSimulation ==
    ASSUME MaxCrossings = 0, PgIInv, Leases, [PgStep]_vars
    PROVE  [LQ!Next]_LQ!vars
<1>0. /\ TypeOK /\ Tables
      /\ \A j \in Jobs : rows[j].state = "running" <=> rows[j].token # NoToken
      /\ \A delay \in 0..MaxDelay : delay \in Nat
      /\ \A j \in dead \union staged : j \in Jobs /\ rows[j].state = "absent"
      /\ dead \intersect staged = {}
      /\ crossings = 0
      /\ held \intersect burials = {}
      /\ \A l \in held \union burials : l[1] \in Jobs /\ l[2] # NoToken
  <2>1. TypeOK /\ Tables
    BY DEF PgIInv
  <2>2. held \intersect burials = {}
    BY DEF Leases
  <2> QED BY <2>1, <2>2, PgTokenAssumption DEF TypeOK, Tables, TablesCoherent
<1>stutter. ASSUME Stutter PROVE [LQ!Next]_LQ!vars
  BY <1>stutter DEF Stutter, LQ!vars, Granted
<1>settle. ASSUME \E k \in Granted, p \in {"done", "waiting", "dead"} : LQ!Settle(k, p)
           PROVE  LQ!Next
  BY <1>settle, Zenon DEF LQ!Next, Granted
<1>abandon. ASSUME \E L \in SUBSET Granted : LQ!Abandon(L) PROVE LQ!Next
  BY <1>abandon, Zenon DEF LQ!Next, Granted
<1>1. ASSUME NEW j \in Jobs, NEW delay \in 0..MaxDelay, Push(j, delay) \/ CommitTx(j, delay)
      PROVE  LQ!Push(j)
  <2>1. RowGoes(j, "ready", NoToken, Unlocked) /\ Others({j})
    BY <1>0, <1>1, InsertEffect DEF Push, CommitTx
  <2>2. /\ rows[j].state = "absent" /\ j \notin dead
        /\ UNCHANGED <<dead, held, burials>>
    BY <1>0, <1>1 DEF Push, CommitTx, Fresh
  <2>3. LQ!Move({j}, "waiting")
    BY <2>1, <2>2, MovesOne DEF Waiting
  <2>4. [i \in Jobs |-> Phase(i)][j] = "absent"
    BY <2>2 DEF Phase, Waiting
  <2>5. Granted' = Granted
    BY <2>2 DEF Granted
  <2> QED BY <2>3, <2>4, <2>5, Zenon DEF LQ!Push, Granted
<1>2. ASSUME NEW j \in Jobs, PushTx(j) \/ RollbackTx(j) PROVE Stutter
  BY <1>2, Stays DEF PushTx, RollbackTx, Stutter, Granted
<1>3. ASSUME NEW s \in Sessions, NEW queues \in SUBSET QueueNames, NEW limit \in 1..MaxBatch,
             PullStarts(s, queues, limit)
      PROVE  Stutter
  BY <1>3, Stays DEF PullStarts, Stutter, Granted
<1>4. ASSUME NEW s \in Sessions, PullWrites(s) \/ PullEnds(s) PROVE Stutter
  BY <1>4, Stays DEF PullWrites, PullEnds, Stutter, Granted
<1>5. ASSUME NEW s \in Sessions, PullCommits(s)
      PROVE  \E S \in SUBSET Jobs : LQ!Grant(S)
  <2>t. PICK t : t = pulls[s].token
    OBVIOUS
  <2>S. PICK S : S = pulls[s].rows
    OBVIOUS
  <2> DEFINE f == [j \in S |-> <<j, t>>]
  <2>1. /\ s \in Wrote /\ S \in SUBSET Jobs
        /\ \A j \in S : RowGoes(j, "running", t, LeaseLen)
        /\ Others(S)
        /\ held' = held \union {<<j, t>> : j \in S} /\ burials' = burials /\ dead' = dead
    BY <1>0, <1>5, <2>t, <2>S, CommitEffect DEF PullCommits, Wrote
  <2>2. /\ \A j \in S : rows[j].state \in Waiting /\ j \notin dead
        /\ t # NoToken /\ t \in Tokens /\ t \notin Spent
    <3>1. /\ \A j \in S : rows[j].state \in Waiting
          /\ t # NoToken /\ t \notin Spent
      BY <2>1, <2>t, <2>S DEF PgIInv, Tables, TablesCoherent, Leases
    <3>2. t \in Tokens
      BY <2>1, <2>t, <3>1 DEF PgIInv, TypeOK, Pull
    <3>3. \A j \in S : j \notin dead
      BY <1>0, <3>1 DEF Waiting
    <3> QED BY <3>1, <3>2, <3>3
  <2>3. \A j \in S : [i \in Jobs |-> Phase(i)][j] = "waiting"
    <3>1. ASSUME NEW j \in S PROVE Phase(j) = "waiting"
      BY <2>2 DEF Phase, Waiting
    <3> QED BY <2>1, <3>1
  <2>4. f \in [S -> (Jobs \X Tokens) \ LQ!InUse]
    <3>1. ASSUME NEW j \in S PROVE <<j, t>> \notin LQ!InUse
      <4>1. \A i \in Jobs : [k \in Jobs |-> TokenOf(k)][i] # <<j, t>>
        <5>1. \A i \in Jobs : rows[i].token # t
          BY <2>2 DEF Spent
        <5>2. ASSUME NEW i \in Jobs, TokenOf(i) = <<j, t>> PROVE FALSE
          <6>1. rows[i].token = NoToken
            BY <5>1, <5>2 DEF TokenOf
          <6>2. NoToken = <<j, t>>
            BY <5>2, <6>1 DEF TokenOf
          <6> QED BY <2>1, <2>2, <6>2, PgTokenAssumption
        <5> QED BY <5>2
      <4>2. \A l \in Granted : l[2] # <<j, t>>
        BY <2>2 DEF Granted, Spent
      <4> QED BY <4>1, <4>2, Zenon DEF LQ!InUse, Granted
    <3> QED BY <2>1, <2>2, <3>1
  <2>5. \A i, j \in S : f[i] = f[j] => i = j
    OBVIOUS
  <2>6. \A j \in S : f[j] = <<j, t>>
    OBVIOUS
  <2> HIDE DEF f
  <2>7. [j \in Jobs |-> Phase(j)]' =
          [j \in Jobs |-> IF j \in S THEN "leased" ELSE [i \in Jobs |-> Phase(i)][j]]
    <3>1. \A j \in Jobs : Phase(j)' = IF j \in S THEN "leased" ELSE Phase(j)
      BY <2>1, <2>2 DEF Phase, RowGoes, Others, Waiting
    <3> QED BY <3>1
  <2>8. [j \in Jobs |-> TokenOf(j)]' =
          [j \in Jobs |-> IF j \in S THEN f[j] ELSE [i \in Jobs |-> TokenOf(i)][j]]
    <3>1. \A j \in Jobs : TokenOf(j)' = IF j \in S THEN f[j] ELSE TokenOf(j)
      BY <2>1, <2>2, <2>6 DEF TokenOf, RowGoes, Others
    <3> QED BY <3>1
  <2>9. Granted' = Granted \union {<<j, f[j]>> : j \in S}
    BY <2>1, <2>6 DEF Granted
  <2>10. LQ!Grant(S)
    BY <2>3, <2>4, <2>5, <2>7, <2>8, <2>9, Zenon DEF LQ!Grant, Granted
  <2>11. S \in SUBSET Jobs
    BY <2>1
  <2> QED BY <2>10, <2>11, Zenon
<1>7. ASSUME NEW l \in held, NEW delay \in 0..MaxDelay, Ack(l) \/ NackRetry(l, delay)
      PROVE  LQ!Next
  <2>1. /\ l[1] \in Jobs /\ Current(l) /\ Others({l[1]})
        /\ held' = held \ {l} /\ UNCHANGED <<dead, burials>>
    BY <1>0, <1>7, SettleEffect
  <2>2. PICK state \in {"done", "retrying"} : RowGoes(l[1], state, NoToken, Unlocked)
    BY <1>0, <1>7, SettleEffect
  <2>3. l[1] \notin dead
    BY <1>0, <2>1 DEF Current
  <2>4. \E p \in {"done", "waiting"} : LQ!Move({l[1]}, p)
    <3>1. CASE state = "done"
      BY <2>1, <2>2, <2>3, <3>1, MovesOne DEF Waiting
    <3>2. CASE state = "retrying"
      BY <2>1, <2>2, <2>3, <3>2, MovesOne DEF Waiting
    <3> QED BY <2>2, <3>1, <3>2
  <2>5. PICK p \in {"done", "waiting", "dead"} : LQ!Move({l[1]}, p)
    BY <2>4
  <2>6. held' \union burials' = (held \union burials) \ {l}
    BY <1>0, <2>1
  <2> QED BY <1>0, <1>settle, <2>1, <2>5, <2>6, Settles
<1>8. ASSUME NEW l \in held, Stale(l) \/ Drop(l) PROVE \E L \in SUBSET Granted : LQ!Abandon(L)
  <2>1. rows' = rows /\ dead' = dead /\ held' \union burials' = (held \union burials) \ {l}
    BY <1>0, <1>8 DEF Stale, Drop
  <2> QED BY <2>1, Abandons
<1>9. ASSUME NEW l \in held, Heartbeat(l) PROVE Stutter
  <2>1. \A j \in Jobs : rows'[j].state = rows[j].state /\ rows'[j].token = rows[j].token
    BY <1>0, <1>9, HeartbeatEffect DEF RowGoes, Others
  <2> QED BY <1>9, <2>1, Stays DEF Heartbeat, Stutter, Granted
<1>10. ASSUME NEW l \in held, BuryCopies(l) PROVE Stutter
  <2>1. held' \union burials' = held \union burials
    BY <1>10 DEF BuryCopies
  <2> QED BY <1>10, <2>1, Stays DEF BuryCopies, Stutter, Granted
<1>11. ASSUME NEW b \in burials, BuryDeletes(b) PROVE LQ!Next
  <2>1. b[1] \in Jobs /\ RowGoes(b[1], "absent", NoToken, Unlocked) /\ Others({b[1]})
    BY <1>0, <1>11, DeleteEffect
  <2>2. dead' = dead \union {b[1]} /\ held' = held /\ burials' = burials \ {b} /\ Current(b)
    BY <1>11 DEF BuryDeletes, Leases
  <2>3. LQ!Move({b[1]}, "dead")
    BY <2>1, <2>2, MovesOne
  <2>4. held' \union burials' = (held \union burials) \ {b}
    BY <1>0, <2>2
  <2> QED BY <1>0, <1>settle, <2>2, <2>3, <2>4, Settles
<1>12. ASSUME NEW b \in burials, BuryRollsBack(b) PROVE \E L \in SUBSET Granted : LQ!Abandon(L)
  <2>1. rows' = rows /\ dead' = dead /\ held' \union burials' = (held \union burials) \ {b}
    BY <1>0, <1>12 DEF BuryRollsBack
  <2> QED BY <2>1, Abandons
<1>13. ASSUME NEW queues \in SUBSET QueueNames, Reclaim(queues)
       PROVE  \E S \in SUBSET Jobs : LQ!Lapse(S)
  <2> DEFINE X == Expired(queues)
  <2>1. /\ X \subseteq InState({"running"}) /\ Others(X)
        /\ \A j \in X : RowGoes(j, "ready", NoToken, Unlocked)
        /\ UNCHANGED <<dead, held, burials>>
    BY <1>0, <1>13, ReclaimEffect DEF Reclaim
  <2> HIDE DEF X
  <2>2. \A j \in X : j \in Jobs /\ rows[j].state = "running" /\ j \notin dead
    BY <1>0, <2>1 DEF InState
  <2>3. ASSUME NEW j \in X PROVE Phase(j)' = "waiting" /\ rows'[j].token = NoToken
    BY <2>1, <2>2 DEF Phase, RowGoes, Waiting
  <2>4. \A j \in Jobs \ X : Phase(j)' = Phase(j) /\ rows'[j].token = rows[j].token
    BY <2>1 DEF Phase, Others
  <2>5. LQ!Move(X, "waiting")
    BY <2>2, <2>3, <2>4, JobMoves
  <2>6. \A j \in X : [i \in Jobs |-> Phase(i)][j] = "leased"
    BY <2>2 DEF Phase, Waiting
  <2>7. Granted' = Granted
    BY <2>1 DEF Granted
  <2>8. LQ!Lapse(X)
    BY <2>5, <2>6, <2>7, Zenon DEF LQ!Lapse, Granted
  <2>9. X \in SUBSET Jobs
    BY <2>2
  <2> QED BY <2>8, <2>9
<1>14. ASSUME NEW j \in Jobs, Cancel(j) PROVE LQ!Cancel(j)
  <2>1. RowGoes(j, "cancelled", NoToken, Unlocked) /\ Others({j})
    BY <1>0, <1>14, CancelEffect
  <2>2. rows[j].state \in Active /\ UNCHANGED <<dead, held, burials>>
    BY <1>14 DEF Cancel
  <2>3. j \notin dead
    BY <1>0, <2>2 DEF Active, Waiting
  <2>4. LQ!Move({j}, "cancelled")
    BY <2>1, <2>2, <2>3, MovesOne DEF Waiting
  <2>5. [i \in Jobs |-> Phase(i)][j] \in {"waiting", "leased"}
    BY <2>2, <2>3 DEF Phase, Active
  <2>6. Granted' = Granted
    BY <2>2 DEF Granted
  <2> QED BY <2>4, <2>5, <2>6, Zenon DEF LQ!Cancel, Granted
<1>15. ASSUME NEW j \in Jobs, Retry(j) PROVE \E S \in SUBSET Jobs, p \in {"waiting", "absent"} : LQ!Redrive(S, p)
  <2>1. RowGoes(j, "ready", NoToken, Unlocked) /\ Others({j})
    BY <1>0, <1>15, InsertEffect DEF Retry
  <2>2. j \in dead /\ dead' = dead \ {j} /\ UNCHANGED <<held, burials>>
    BY <1>15 DEF Retry
  <2>3. LQ!Move({j}, "waiting")
    BY <2>1, <2>2, MovesOne DEF Waiting
  <2>4. [i \in Jobs |-> Phase(i)][j] = "dead"
    BY <2>2 DEF Phase
  <2>5. Granted' = Granted
    BY <2>2 DEF Granted
  <2>6. LQ!Redrive({j}, "waiting")
    <3>1. \A i \in {j} : [k \in Jobs |-> Phase(k)][i] = "dead"
      BY <2>4
    <3> QED BY <2>3, <2>5, <3>1, Zenon DEF LQ!Redrive, Granted
  <2>7. {j} \in SUBSET Jobs /\ "waiting" \in {"waiting", "absent"}
    OBVIOUS
  <2> QED BY <2>6, <2>7
<1>16. ASSUME NEW S \in SUBSET dead, Discard(S)
       PROVE  \E p \in {"waiting", "absent"} : LQ!Redrive(S, p)
  <2>1. /\ \A j \in S : j \in Jobs /\ rows[j].state = "absent" /\ rows[j].token = NoToken
        /\ rows' = rows /\ dead' = dead \ S /\ UNCHANGED <<held, burials>>
    BY <1>0, <1>16 DEF Discard
  <2>2. ASSUME NEW j \in S PROVE Phase(j)' = "absent" /\ rows'[j].token = NoToken
    BY <2>1 DEF Phase, Waiting
  <2>3. \A j \in Jobs \ S : Phase(j)' = Phase(j) /\ rows'[j].token = rows[j].token
    BY <2>1 DEF Phase
  <2>4. LQ!Move(S, "absent")
    BY <2>1, <2>2, <2>3, JobMoves
  <2>5. \A j \in S : [i \in Jobs |-> Phase(i)][j] = "dead"
    BY <2>1 DEF Phase
  <2>6. Granted' = Granted
    BY <2>1 DEF Granted
  <2>7. LQ!Redrive(S, "absent")
    BY <2>4, <2>5, <2>6, Zenon DEF LQ!Redrive, Granted
  <2> QED BY <2>7
<1>17. ASSUME Tick PROVE Stutter
  <2>1. \A j \in Jobs : rows'[j].state = rows[j].state /\ rows'[j].token = rows[j].token
    BY <1>0, <1>17, TickEffect
  <2> QED BY <1>17, <2>1, Stays DEF Tick, Stutter, Granted
<1>18. ASSUME UNCHANGED vars PROVE Stutter
  BY <1>18, Stays DEF vars, Stutter, Granted
<1>19. ASSUME \/ \E j \in Jobs : LQ!Push(j) \/ LQ!Cancel(j)
              \/ \E S \in SUBSET Jobs : \/ LQ!Grant(S) \/ LQ!Lapse(S)
                                        \/ \E p \in {"waiting", "absent"} : LQ!Redrive(S, p)
       PROVE  LQ!Next
  BY <1>19, Zenon DEF LQ!Next
<1>20. \A S \in SUBSET dead : S \in SUBSET Jobs
  BY <1>0
<1> HIDE DEF PgIInv
<1> QED
  BY <1>stutter, <1>abandon, <1>1, <1>2, <1>3, <1>4, <1>5, <1>7, <1>8, <1>9, <1>10, <1>11, <1>12,
     <1>13, <1>14, <1>15, <1>16, <1>17, <1>18, <1>19, <1>20 DEF PgStep

\* While no row is taken from under a burial, the SQL queue keeps the promise of
\* the Queue trait: a pull's commit grants its rows, a settle and the second
\* statement of a burial end a lease, and no other statement touches one.
THEOREM PgImplementation ==
    ASSUME MaxCrossings = 0
    PROVE  Spec => ImplementsLeaseQueue
<1>1. Init => LQ!Init
  <2> SUFFICES ASSUME Init PROVE LQ!Init
    OBVIOUS
  <2>1. \A j \in Jobs : Phase(j) = "absent" /\ TokenOf(j) = NoToken
    BY DEF Init, Phase, TokenOf, Absent, Waiting
  <2>2. [j \in Jobs |-> Phase(j)] = [j \in Jobs |-> "absent"]
          /\ [j \in Jobs |-> TokenOf(j)] = [j \in Jobs |-> NoToken]
    BY <2>1
  <2>3. Granted = {}
    BY DEF Init, Granted
  <2> QED BY <2>2, <2>3, Zenon DEF LQ!Init, Granted
<1>2. Init => Leases
  BY IdleIs DEF Init, Leases, Wrote
<1>3. PgIInv /\ Leases /\ [Next]_vars => Leases'
  BY NextSteps, LeasesStep DEF PgIInv
<1>4. PgIInv /\ Leases /\ [Next]_vars => [LQ!Next]_LQ!vars
  BY NextSteps, StepSimulation
<1>5. Spec => []Leases
  BY <1>2, <1>3, PgInductive, PTL DEF Spec
<1> QED BY <1>1, <1>4, <1>5, PgInductive, PTL DEF Spec, ImplementsLeaseQueue, LQ!Spec
=============================================================================
