------------------------------ MODULE PgQueue ------------------------------
(***************************************************************************)
(* backend/pg.rs: the queue in two SQL tables, on PostgreSQL at its        *)
(* default isolation, read committed.                                      *)
(*                                                                         *)
(* A statement that changes one row by its id and token is atomic: it      *)
(* waits for the row's lock and looks at the row again before it writes.   *)
(* Three operations are not.  A pull reads a snapshot when it starts, locks*)
(* and re-checks rows one by one later, and commits later still; a burial  *)
(* copies the row in one statement and deletes it in the next; a push in   *)
(* the caller's transaction is invisible until that transaction commits.   *)
(*                                                                         *)
(* Time is relative, as in MemoryQueue.                                    *)
(***************************************************************************)
EXTENDS Integers, FiniteSets

CONSTANTS
    Jobs,                   \* job ids; their order is the order of min(id)
    Tokens, NoToken,        \* lock tokens, one per pull statement
    Names, SerialNames,
    QueueNames,
    Keys, NoKey,
    QueueOf, Priority,
    Sessions,               \* connections on which pulls run
    LeaseLen,
    MaxBatch,               \* bound: largest limit of a pull
    MaxDelay,               \* bound: longest delay or backoff, in ticks
    MaxCrossings            \* bound: times a row is taken from under a burial

ASSUME PgJobAssumption == Jobs \subseteq Nat
ASSUME PgTokenAssumption == NoToken \notin Tokens /\ NoToken \notin Jobs \X Tokens
ASSUME PgNameAssumption == SerialNames \subseteq Names
ASSUME PgQueueAssumption == QueueOf \in [Jobs -> QueueNames]
ASSUME PgKeyAssumption == NoKey \notin Keys
ASSUME PgPriorityAssumption == Priority \in [Jobs -> Int]
ASSUME PgBoundAssumption ==
    /\ LeaseLen \in Nat \ {0} /\ MaxBatch \in Nat \ {0}
    /\ MaxDelay \in Nat /\ MaxCrossings \in Nat

VARIABLES
    rows,       \* the hot table, committed
    dead,       \* the dead-letter table, committed
    name, key,  \* columns of a job, set by its push: its type and unique key
    staged,     \* rows inserted by a transaction that is still open
    pulls,      \* the pull statement of each session
    burials,    \* leases whose row is copied and not yet deleted
    held,       \* the leases <<job, token>> in clients' hands
    crossings

vars == <<rows, dead, name, key, staged, pulls, burials, held, crossings>>

-----------------------------------------------------------------------------
(* Rows and statements *)

Waiting == {"ready", "retrying"}
Active == Waiting \union {"running"}
JobState == Active \union {"done", "cancelled"}

Unlocked == -2  \* locked_until is null

Row == [state : JobState \union {"absent"}, runIn : Nat, leaseLeft : Unlocked..LeaseLen,
        token : Tokens \union {NoToken}]

Absent == [state |-> "absent", runIn |-> 0, leaseLeft |-> Unlocked, token |-> NoToken]

\* A pull that read its snapshot (`reads`) has the rows that qualified in it;
\* one that wrote has the rows it locked, its token and the advisory locks.
Pull == [stage : {"idle", "reads", "wrote"}, rows : SUBSET Jobs, limit : Nat,
         token : Tokens \union {NoToken}, locks : SUBSET Names,
         overlapped : SUBSET Names]

Idle == [stage |-> "idle", rows |-> {}, limit |-> 0, token |-> NoToken,
         locks |-> {}, overlapped |-> {}]

InState(states) == {j \in Jobs : rows[j].state \in states}

SameKey(i, j) == key[i] # NoKey /\ key[i] = key[j]

Serial(j) == name[j] \in SerialNames
SameSerial(i, j) == Serial(i) /\ name[i] = name[j]

Wrote == {s \in Sessions : pulls[s].stage = "wrote"}

\* Rows an uncommitted pull has locked.
RowLocked(j) == \E s \in Wrote : j \in pulls[s].rows

\* Names an open pull holds the advisory lock of.
NameLocked(n) == \E s \in Wrote : n \in pulls[s].locks

UsedTokens ==
    {rows[j].token : j \in Jobs} \union {l[2] : l \in held \union burials}
    \union {pulls[s].token : s \in Sessions}

Unlock(j, state) ==
    [rows[j] EXCEPT !.state = state, !.token = NoToken, !.leaseLeft = Unlocked]

Init ==
    /\ rows = [j \in Jobs |-> Absent]
    /\ dead = {}
    /\ name \in [Jobs -> Names]
    /\ key \in [Jobs -> Keys \union {NoKey}]
    /\ staged = {}
    /\ pulls = [s \in Sessions |-> Idle]
    /\ burials = {}
    /\ held = {}
    /\ crossings = 0

-----------------------------------------------------------------------------
(* Push *)

\* The partial unique index over the active states.  A conflict with a row is
\* "do nothing"; a conflict with an open transaction waits for its end.
KeyTaken(j) == \E i \in InState(Active) \union staged : SameKey(i, j)

Insert(j, delay) ==
    rows' = [rows EXCEPT ![j] = [state |-> "ready", runIn |-> delay,
                                 leaseLeft |-> Unlocked, token |-> NoToken]]

Fresh(j) == rows[j].state = "absent" /\ j \notin dead \union staged

Push(j, delay) ==
    /\ Fresh(j)
    /\ ~KeyTaken(j)
    /\ Insert(j, delay)
    /\ UNCHANGED <<dead, name, key, staged, pulls, burials, held, crossings>>

PushTx(j) ==
    /\ Fresh(j)
    /\ ~KeyTaken(j)
    /\ staged' = staged \union {j}
    /\ UNCHANGED <<rows, dead, name, key, pulls, burials, held, crossings>>

CommitTx(j, delay) ==
    /\ j \in staged
    /\ Insert(j, delay)
    /\ staged' = staged \ {j}
    /\ UNCHANGED <<dead, name, key, pulls, burials, held, crossings>>

RollbackTx(j) ==
    /\ j \in staged
    /\ staged' = staged \ {j}
    /\ UNCHANGED <<rows, dead, name, key, pulls, burials, held, crossings>>

-----------------------------------------------------------------------------
(* Pull *)

Due(queues) == {j \in InState(Waiting) : rows[j].runIn <= 0 /\ QueueOf[j] \in queues}

LiveLease(j) == rows[j].state = "running" /\ rows[j].leaseLeft > 0

\* Wrong: a row that is not the oldest of its serial name qualifies too.
Qualifies_All(j, queues) ==
    Serial(j) => \A i \in Jobs : SameSerial(i, j) => ~LiveLease(i)

\* The serial clause on the snapshot: no live lease on the name, and the row
\* has the least id of those that are due.
Qualifies(j, queues) ==
    Serial(j) =>
        /\ \A i \in Jobs : SameSerial(i, j) => ~LiveLease(i)
        /\ \A i \in Due(queues) : SameSerial(i, j) => j <= i

\* A pull that finds nothing is over at once and leaves nothing behind.
PullStarts(s, queues, limit) ==
    /\ pulls[s].stage = "idle"
    /\ \E j \in Due(queues) : Qualifies(j, queues)
    /\ pulls' = [pulls EXCEPT ![s] =
           [Idle EXCEPT !.stage = "reads", !.limit = limit,
                        !.rows = {j \in Due(queues) : Qualifies(j, queues)}]]
    /\ UNCHANGED <<rows, dead, name, key, staged, burials, held, crossings>>

\* Wrong: no advisory lock is asked for.
TakesLock_Not(j) == TRUE

\* pg_try_advisory_xact_lock, the last term of the serial clause.
TakesLock(j) == Serial(j) => ~NameLocked(name[j])

\* `for update skip locked`, which re-checks a row that changed meanwhile.
Lockable(j) == ~RowLocked(j) /\ rows[j].state \in Waiting /\ rows[j].runIn <= 0

\* The rows locked and written: by priority, up to the limit.  Rows of equal
\* priority, which the code takes by run_at, are taken in any order.
PullWrites(s) ==
    LET tried == {j \in pulls[s].rows : TakesLock(j)}
        free == {j \in tried : Lockable(j)}
    IN  /\ pulls[s].stage = "reads"
        /\ \E S \in SUBSET free \ {{}}, t \in Tokens \ UsedTokens :
            /\ Cardinality(S) <= pulls[s].limit
            /\ \A k \in free \ S :
                /\ Cardinality(S) = pulls[s].limit
                /\ \A j \in S : Priority[k] <= Priority[j]
            /\ pulls' = [pulls EXCEPT ![s].stage = "wrote", ![s].rows = S, ![s].token = t, ![s].limit = 0,
                           ![s].locks = {name[j] : j \in {k \in tried : Serial(k)}}]
        /\ UNCHANGED <<rows, dead, name, key, staged, burials, held, crossings>>

\* `overlapped`, a ghost: the names that gained a live lease after a pull read
\* its snapshot.
Overlaps(r, names) ==
    IF pulls[r].stage = "idle" THEN pulls[r]
    ELSE [pulls[r] EXCEPT !.overlapped = @ \union (names \intersect SerialNames)]

PullCommits(s) ==
    /\ pulls[s].stage = "wrote"
    /\ rows' = [j \in Jobs |->
                  IF j \in pulls[s].rows
                  THEN [rows[j] EXCEPT !.state = "running", !.token = pulls[s].token,
                                       !.leaseLeft = LeaseLen]
                  ELSE rows[j]]
    /\ held' = held \union {<<j, pulls[s].token>> : j \in pulls[s].rows}
    /\ pulls' = [r \in Sessions |->
                   IF r = s THEN Idle ELSE Overlaps(r, {name[j] : j \in pulls[s].rows})]
    /\ UNCHANGED <<dead, name, key, staged, burials, crossings>>

\* Nothing to lease, a lost connection or a dropped future: the locks go with
\* the statement.
PullEnds(s) ==
    /\ pulls[s].stage # "idle"
    /\ pulls' = [pulls EXCEPT ![s] = Idle]
    /\ UNCHANGED <<rows, dead, name, key, staged, burials, held, crossings>>

-----------------------------------------------------------------------------
(* The statements of a lease *)

\* Wrong: the row is matched by its id alone.
Current_ById(l) == rows[l[1]].state \in Active

\* `where id = .. and lock_token = ..`
Current(l) == rows[l[1]].token = l[2]

Settled(l, row) ==
    /\ Current(l)
    /\ rows' = [rows EXCEPT ![l[1]] = row]
    /\ held' = held \ {l}
    /\ UNCHANGED <<dead, name, key, staged, pulls, burials, crossings>>

Ack(l) == Settled(l, Unlock(l[1], "done"))

NackRetry(l, delay) ==
    Settled(l, [Unlock(l[1], "retrying") EXCEPT !.runIn = delay])

Stale(l) ==
    /\ ~Current(l)
    /\ held' = held \ {l}
    /\ UNCHANGED <<rows, dead, name, key, staged, pulls, burials, crossings>>

\* A lease that has run out and is not reclaimed yet is live again.
Heartbeat(l) ==
    /\ Current(l)
    /\ rows' = [rows EXCEPT ![l[1]].leaseLeft = LeaseLen]
    /\ pulls' = [s \in Sessions |->
                   Overlaps(s, IF LiveLease(l[1]) THEN {} ELSE {name[l[1]]})]
    /\ UNCHANGED <<dead, name, key, staged, burials, held, crossings>>

\* nack without a time, first statement: copy the row under the lease's token.
\* A second copy of the same row would wait for the first one's end.
BuryCopies(l) ==
    /\ Current(l)
    /\ \A b \in burials : b[1] # l[1]
    /\ held' = held \ {l}
    /\ burials' = burials \union {l}
    /\ UNCHANGED <<rows, dead, name, key, staged, pulls, crossings>>

\* Second statement and commit: the delete names the id alone.
BuryDeletes(b) ==
    /\ ~RowLocked(b[1])
    /\ rows' = [rows EXCEPT ![b[1]] = Absent]
    /\ dead' = dead \union {b[1]}
    /\ burials' = burials \ {b}
    /\ UNCHANGED <<name, key, staged, pulls, held, crossings>>

BuryRollsBack(b) ==
    /\ burials' = burials \ {b}
    /\ UNCHANGED <<rows, dead, name, key, staged, pulls, held, crossings>>

-----------------------------------------------------------------------------
(* Statements without a lease *)

\* Taking rows that are being buried is a crossing.
Crosses(S) == \E b \in burials : b[1] \in S

Crossing(S) ==
    /\ Crosses(S) => crossings < MaxCrossings
    /\ crossings' = IF Crosses(S) THEN crossings + 1 ELSE crossings

Expired(queues) ==
    {j \in InState({"running"}) : QueueOf[j] \in queues /\ rows[j].leaseLeft < 0}

\* The sweep that ends a reclaim deletes old done and cancelled rows.  No
\* statement here reads such a row, so one in these states may be gone already.
Reclaim(queues) ==
    /\ Expired(queues) # {}
    /\ Crossing(Expired(queues))
    /\ rows' = [j \in Jobs |->
                  IF j \in Expired(queues) THEN [Unlock(j, "ready") EXCEPT !.runIn = 0]
                  ELSE rows[j]]
    /\ UNCHANGED <<dead, name, key, staged, pulls, burials, held>>

\* cancel waits for a pull that has the row.
Cancel(j) ==
    /\ rows[j].state \in Active
    /\ ~RowLocked(j)
    /\ Crossing({j})
    /\ rows' = [rows EXCEPT ![j] = Unlock(j, "cancelled")]
    /\ UNCHANGED <<dead, name, key, staged, pulls, burials, held>>

\* DeadLetterQueue::retry, one letter's transaction: deleted and inserted again
\* without its key, unless somebody else took the letter first.
Retry(j) ==
    /\ j \in dead
    /\ dead' = dead \ {j}
    /\ key' = [key EXCEPT ![j] = NoKey]
    /\ Insert(j, 0)
    /\ UNCHANGED <<name, staged, pulls, burials, held, crossings>>

Discard(S) ==
    /\ S \subseteq dead
    /\ S # {}
    /\ dead' = dead \ S
    /\ UNCHANGED <<rows, name, key, staged, pulls, burials, held, crossings>>

-----------------------------------------------------------------------------
(* Time and clients *)

\* A pull takes less than a tick: the lease it stamps when it starts has not
\* lost any of its length when it commits.
Tick ==
    /\ \A s \in Sessions : pulls[s].stage = "idle"
    /\ rows' = [j \in Jobs |->
                  [rows[j] EXCEPT !.runIn = IF @ > 0 THEN @ - 1 ELSE @,
                                  !.leaseLeft = IF @ >= 0 THEN @ - 1 ELSE @]]
    /\ UNCHANGED <<dead, name, key, staged, pulls, burials, held, crossings>>

\* A client dies, or never learns of the lease its pull committed.
Drop(l) ==
    /\ held' = held \ {l}
    /\ UNCHANGED <<rows, dead, name, key, staged, pulls, burials, crossings>>

Client(l) ==
    \/ Ack(l) \/ Stale(l) \/ Heartbeat(l) \/ BuryCopies(l) \/ Drop(l)
    \/ \E delay \in 0..MaxDelay : NackRetry(l, delay)

Producer(j) ==
    \/ \E delay \in 0..MaxDelay : Push(j, delay) \/ CommitTx(j, delay)
    \/ PushTx(j) \/ RollbackTx(j)

Session(s) ==
    \/ \E queues \in SUBSET QueueNames, limit \in 1..MaxBatch : PullStarts(s, queues, limit)
    \/ PullWrites(s) \/ PullCommits(s) \/ PullEnds(s)

Operator ==
    \/ \E j \in Jobs : Cancel(j) \/ Retry(j)
    \/ \E S \in SUBSET dead : Discard(S)

Next ==
    \/ \E j \in Jobs : Producer(j)
    \/ \E s \in Sessions : Session(s)
    \/ \E l \in held : Client(l)
    \/ \E b \in burials : BuryDeletes(b) \/ BuryRollsBack(b)
    \/ \E queues \in SUBSET QueueNames : Reclaim(queues)
    \/ Operator
    \/ Tick

Spec == Init /\ [][Next]_vars

-----------------------------------------------------------------------------
(* Properties *)

TypeOK ==
    /\ rows \in [Jobs -> Row]
    /\ pulls \in [Sessions -> Pull]
    /\ dead \subseteq Jobs /\ staged \subseteq Jobs
    /\ name \in [Jobs -> Names]
    /\ key \in [Jobs -> Keys \union {NoKey}]
    /\ held \subseteq Jobs \X Tokens
    /\ burials \subseteq Jobs \X Tokens
    /\ crossings \in 0..MaxCrossings

\* A row carries a token exactly while it runs, a job is in one of the two
\* tables only, an open insert is not visible yet, and what an uncommitted pull
\* has locked is still waiting: no statement got past its row locks.
TablesCoherent ==
    /\ \A j \in Jobs : rows[j].state = "running" <=> rows[j].token # NoToken
    /\ \A j \in dead \union staged : rows[j].state = "absent"
    /\ \A s \in Wrote : \A j \in pulls[s].rows : rows[j].state \in Waiting
    /\ \A r, s \in Wrote : r # s => pulls[r].rows \intersect pulls[s].rows = {}

\* At most one active or staged row carries a unique key.
OneRowPerKey ==
    \A i, j \in InState(Active) \union staged : SameKey(i, j) => i = j

\* Two pulls that have both written and not committed never hold rows of one
\* serial type, nor does one pull hold two.
OneSerialClaim ==
    \A r, s \in Wrote : \A i \in pulls[r].rows, j \in pulls[s].rows :
        SameSerial(i, j) => i = j

\* The step that gives a serial type a second live lease.
SecondLease(i, j) ==
    /\ i # j /\ SameSerial(i, j)
    /\ LiveLease(i)' /\ LiveLease(j)'
    /\ ~(rows[i].state = "running" /\ rows[j].state = "running")

\* The tables, the row locks, the unique index and the advisory locks together.
SqlCoherent == TablesCoherent /\ OneRowPerKey /\ OneSerialClaim

\* serial_clause: "Three things have to hold for that to be airtight", and they
\* are to keep a pull from leasing a serial row beside a live lease.
SerialPull == [][\A i, j \in Jobs : ~SecondLease(i, j)]_vars

\* ... and they do, unless the type gained a live lease after the pull read its
\* snapshot: by the commit of another pull, whose advisory lock is free again
\* when this one asks for it, or by the renewal of a lease that had run out.
SerialPullUnlessOverlapped ==
    [][\A i, j \in Jobs : SecondLease(i, j) =>
         \E s \in Wrote : /\ pulls'[s].stage = "idle"
                          /\ name[i] \in pulls[s].overlapped]_vars

\* bury: "another worker owns the job now and this one must not bury it".
BuriesOwnRunOnly ==
    [][\A b \in burials : b \notin burials' /\ b[1] \in dead' => Current(b)]_vars

Phase(j) == IF j \in dead THEN "dead"
            ELSE CASE rows[j].state \in Waiting -> "waiting"
                   [] rows[j].state = "running" -> "leased"
                   [] OTHER -> rows[j].state

\* A token is shared by the rows of one pull, so it is told apart by its row.
TokenOf(j) == IF rows[j].token = NoToken THEN NoToken ELSE <<j, rows[j].token>>

LQ == INSTANCE LeaseQueue WITH
        Tokens <- Jobs \X Tokens,
        phase <- [j \in Jobs |-> Phase(j)],
        holder <- [j \in Jobs |-> TokenOf(j)],
        leases <- {<<l[1], l>> : l \in held \union burials}

\* Without a crossing the SQL queue keeps the promise of the Queue trait.
ImplementsLeaseQueue == LQ!Spec
=============================================================================
