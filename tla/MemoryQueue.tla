---------------------------- MODULE MemoryQueue ----------------------------
(***************************************************************************)
(* backend/memory.rs: the in-process queue, the reference implementation   *)
(* of the `Queue` trait.  Every operation takes one lock for its whole     *)
(* body, so every operation is one action.  Clients are arbitrary: any     *)
(* lease ever handed out may be acked, nacked, renewed or dropped at any   *)
(* moment, whatever has happened to its row since.                         *)
(*                                                                         *)
(* Time is relative, the way MemoryQueue::advance moves it: run_at and     *)
(* locked_until are stored as distances from now and Tick shortens them.   *)
(***************************************************************************)
EXTENDS Integers, FiniteSets

CONSTANTS
    Jobs, Tokens, NoToken,
    Names, SerialNames,     \* job types, and those declared SERIAL
    QueueNames,
    Keys, NoKey,            \* unique keys
    NameOf, QueueOf, KeyOf, \* static columns of each row
    Priority, MaxAttempts,
    MaxJobs,                \* capacity of the map (max_jobs)
    LeaseLen,               \* lease length, in ticks
    MaxDelay,               \* bound: longest delay or backoff, in ticks
    MaxOverdue              \* bound: how far past run_at is told apart

ASSUME TokenAssumption == NoToken \notin Tokens
ASSUME NameAssumption == SerialNames \subseteq Names /\ NameOf \in [Jobs -> Names]
ASSUME QueueAssumption == QueueOf \in [Jobs -> QueueNames]
ASSUME KeyAssumption == NoKey \notin Keys /\ KeyOf \in [Jobs -> Keys \union {NoKey}]
ASSUME PriorityAssumption == Priority \in [Jobs -> Int]
ASSUME AttemptAssumption == MaxAttempts \in [Jobs -> Nat]
ASSUME BoundAssumption ==
    /\ MaxJobs \in Nat
    /\ LeaseLen \in Nat \ {0}
    /\ MaxDelay \in Nat
    /\ MaxOverdue \in Nat

VARIABLES
    rows,       \* the map of entries
    held,       \* the leases <<job, token>> in clients' hands
    revived     \* rows an operator brought back from the dead letters (ghost)

vars == <<rows, held, revived>>

-----------------------------------------------------------------------------
(* Rows *)

Waiting == {"ready", "retrying"}
Active == Waiting \union {"running"}
Settled == {"done", "cancelled"}
JobState == Active \union Settled \union {"dead"}

Unlocked == -2  \* locked_until is None

Row == [state : JobState \union {"absent"},
        attempt : Nat,
        runIn : Int,
        leaseLeft : Int,
        token : Tokens \union {NoToken}]

Absent == [state |-> "absent", attempt |-> 0, runIn |-> 0,
           leaseLeft |-> Unlocked, token |-> NoToken]

Present == {j \in Jobs : rows[j].state # "absent"}
InState(states) == {j \in Jobs : rows[j].state \in states}

SameKey(i, j) == KeyOf[i] # NoKey /\ KeyOf[i] = KeyOf[j]
SameSerial(i, j) == NameOf[i] \in SerialNames /\ NameOf[i] = NameOf[j]

UsedTokens == {rows[j].token : j \in Jobs} \union {l[2] : l \in held}

FreshTokens_None == {NoToken}   \* wrong: a lease without a token
FreshTokens == Tokens \ UsedTokens

\* The row as it is after its lock is dropped.
Unlock(j, state) ==
    [rows[j] EXCEPT !.state = state, !.token = NoToken, !.leaseLeft = Unlocked]

-----------------------------------------------------------------------------
(* Eligibility: what `leasable` lets a pull take *)

\* A unique key with a running row blocks the rest of its chain.
ChainBusy(j) == \E i \in InState({"running"}) : SameKey(i, j)

\* Wrong: serial within a queue only.
SerialBusy_PerQueue(j) == \E i \in InState({"running"}) :
    SameSerial(i, j) /\ QueueOf[i] = QueueOf[j] /\ rows[i].leaseLeft > 0

\* A live lease on a serial job blocks every row of that job.
SerialBusy(j) == \E i \in InState({"running"}) :
                    SameSerial(i, j) /\ rows[i].leaseLeft > 0

Leasable(queues) ==
    {j \in InState(Waiting) :
        /\ rows[j].runIn <= 0
        /\ QueueOf[j] \in queues
        /\ ~ChainBusy(j)
        /\ ~SerialBusy(j)}

\* pull_order, strictly: priority first, then run_at.  Ties, which the code
\* breaks by id, are left open.
Before(i, j) ==
    \/ Priority[i] > Priority[j]
    \/ Priority[i] = Priority[j] /\ rows[i].runIn < rows[j].runIn

\* The sets of rows one pull may return: one row per serial name, cut at
\* limit, and no row left behind that the order puts before one taken.
Batches(queues, limit) ==
    {S \in SUBSET Leasable(queues) :
        /\ Cardinality(S) <= limit
        /\ \A i, j \in S : SameSerial(i, j) => i = j
        /\ \A k \in Leasable(queues) \ S :
            \/ \E j \in S : SameSerial(j, k) /\ ~Before(k, j)
            \/ Cardinality(S) = limit /\ \A j \in S : ~Before(k, j)}

\* One fresh uuid per row of the batch.
TokenChoices(S) ==
    {f \in [S -> FreshTokens] : \A i, j \in S : f[i] = f[j] => i = j}

-----------------------------------------------------------------------------
(* The Queue trait *)

Init ==
    /\ rows = [j \in Jobs |-> Absent]
    /\ held = {}
    /\ revived = {}

\* Wrong: a running row no longer holds its key.
KeyTaken_Waiting(j) == \E i \in InState(Waiting) : SameKey(i, j)

KeyTaken(j) == \E i \in InState(Active) : SameKey(i, j)

\* A full map is an error and an active unique key a successful no-op; both
\* leave the map alone.
Push(j, delay) ==
    /\ rows[j].state = "absent"
    /\ Cardinality(Present) < MaxJobs
    /\ ~KeyTaken(j)
    /\ rows' = [rows EXCEPT ![j] = [state |-> "ready", attempt |-> 1,
                                    runIn |-> delay, leaseLeft |-> Unlocked,
                                    token |-> NoToken]]
    /\ UNCHANGED <<held, revived>>

\* Lease batch S under the tokens f.
Lease(S, f) ==
    /\ rows' = [j \in Jobs |->
                  IF j \in S
                  THEN [rows[j] EXCEPT !.state = "running", !.token = f[j],
                                       !.leaseLeft = LeaseLen]
                  ELSE rows[j]]
    /\ held' = held \union {<<j, f[j]>> : j \in S}
    /\ UNCHANGED revived

Pull(queues, limit) ==
    \E S \in Batches(queues, limit) \ {{}} :
        \E f \in TokenChoices(S) : Lease(S, f)

\* Wrong: the row is matched by its id alone.
Current_ById(l) == rows[l[1]].state # "absent"

\* The guard of ack, nack and heartbeat: the row still carries this token.
Current(l) == rows[l[1]].token = l[2]

\* ack and nack consume the Lease.  A stale one is refused, and a row that is
\* gone answers Ok: either way only the lease disappears.
Stale(l) ==
    /\ ~Current(l)
    /\ held' = held \ {l}
    /\ UNCHANGED <<rows, revived>>

Ack(l) ==
    /\ Current(l)
    /\ rows' = [rows EXCEPT ![l[1]] = Unlock(l[1], "done")]
    /\ held' = held \ {l}
    /\ UNCHANGED revived

\* nack with run_at.
NackRetry(l, delay) ==
    /\ Current(l)
    /\ rows' = [rows EXCEPT ![l[1]] =
                  [Unlock(l[1], "retrying") EXCEPT !.attempt = @ + 1, !.runIn = delay]]
    /\ held' = held \ {l}
    /\ UNCHANGED revived

NackDead(l) ==
    /\ Current(l)
    /\ rows' = [rows EXCEPT ![l[1]] = Unlock(l[1], "dead")]
    /\ held' = held \ {l}
    /\ UNCHANGED revived

\* The token alone decides: an expired lease nobody reclaimed yet is renewed.
Heartbeat(l) ==
    /\ Current(l)
    /\ rows' = [rows EXCEPT ![l[1]].leaseLeft = LeaseLen]
    /\ UNCHANGED <<held, revived>>

\* Wrong: a lease in its last tick counts as expired.
Expired_TooSoon(queues) ==
    {j \in InState({"running"}) : QueueOf[j] \in queues /\ rows[j].leaseLeft <= 1}

Expired(queues) ==
    {j \in InState({"running"}) : QueueOf[j] \in queues /\ rows[j].leaseLeft < 0}

\* Wrong: the row goes back with its old token still in it.
Reclaim_KeepsToken(queues) ==
    /\ Expired(queues) # {}
    /\ rows' = [j \in Jobs |->
                  IF j \in Expired(queues)
                  THEN [rows[j] EXCEPT !.state = "ready", !.leaseLeft = Unlocked, !.runIn = 0]
                  ELSE rows[j]]
    /\ UNCHANGED <<held, revived>>

Reclaim(queues) ==
    /\ Expired(queues) # {}
    /\ rows' = [j \in Jobs |->
                  IF j \in Expired(queues)
                  THEN [Unlock(j, "ready") EXCEPT !.runIn = 0]
                  ELSE rows[j]]
    /\ UNCHANGED <<held, revived>>

Cancel(j) ==
    /\ rows[j].state \in Active
    /\ rows' = [rows EXCEPT ![j] = Unlock(j, "cancelled")]
    /\ UNCHANGED <<held, revived>>

-----------------------------------------------------------------------------
(* The DeadLetterQueue trait *)

\* What a filter (by type, queue, time, error) and a limit may pick.
Filtered == SUBSET InState({"dead"})

Retry(S) ==
    /\ S # {}
    /\ rows' = [j \in Jobs |->
                  IF j \in S
                  THEN [rows[j] EXCEPT !.state = "ready", !.attempt = 1, !.runIn = 0]
                  ELSE rows[j]]
    /\ revived' = revived \union S
    /\ UNCHANGED held

Discard(S) ==
    /\ S # {}
    /\ rows' = [j \in Jobs |-> IF j \in S THEN Absent ELSE rows[j]]
    /\ revived' = revived \ S
    /\ UNCHANGED held

-----------------------------------------------------------------------------
(* Time and clients *)

\* A clock step, and MemoryQueue::advance.  A distance that no comparison
\* tells apart any more stays where it is.
Tick ==
    /\ rows' = [j \in Jobs |->
                  [rows[j] EXCEPT
                    !.runIn = IF rows[j].state \in Waiting /\ @ > -MaxOverdue
                              THEN @ - 1 ELSE @,
                    !.leaseLeft = IF @ >= 0 THEN @ - 1 ELSE @]]
    /\ UNCHANGED <<held, revived>>

\* A client crashes, or drops a lease without settling it.
Drop(l) ==
    /\ held' = held \ {l}
    /\ UNCHANGED <<rows, revived>>

Client(l) ==
    \/ Stale(l) \/ Ack(l) \/ NackDead(l) \/ Heartbeat(l) \/ Drop(l)
    \/ /\ rows[l[1]].attempt < MaxAttempts[l[1]]   \* what a worker may ask for
       /\ \E delay \in 0..MaxDelay : NackRetry(l, delay)

Operator ==
    \/ \E j \in Jobs : Cancel(j)
    \/ \E S \in Filtered : Retry(S) \/ Discard(S)

Next ==
    \/ \E j \in Jobs, delay \in 0..MaxDelay : Push(j, delay)
    \/ \E queues \in SUBSET QueueNames :
        \/ \E limit \in 1..Cardinality(Jobs) : Pull(queues, limit)
        \/ Reclaim(queues)
    \/ \E l \in held : Client(l)
    \/ Operator
    \/ Tick

Spec == Init /\ [][Next]_vars

-----------------------------------------------------------------------------
(* Properties *)

\* Rows, leases and tokens have the shapes the columns give them.
TypeOK ==
    /\ rows \in [Jobs -> Row]
    /\ held \subseteq Jobs \X Tokens
    /\ revived \subseteq Jobs

\* The lock columns agree with the state, and a token names one row for ever:
\* a row is locked exactly while it runs, no two rows carry one token, and no
\* client holds a lease on one row under the token of another.  Without it an
\* ack could settle a row its client never leased.
LeaseCoherent ==
    \A j \in Jobs :
        /\ rows[j].state = "running" <=> rows[j].token # NoToken
        /\ rows[j].state # "running" => rows[j].leaseLeft = Unlocked
        /\ \A i \in Jobs : rows[i].token = rows[j].token /\ rows[j].token # NoToken => i = j
        /\ \A l \in held : l[2] = rows[j].token => l[1] = j

\* A unique key deduplicates and orders: at most one active row carries it,
\* except rows an operator retried from the dead letters, which `retry` does
\* not check again.
UniqueUnlessRevived ==
    \A i, j \in InState(Active) \ revived : SameKey(i, j) => i = j

\* A unique key's chain runs one row at a time.  (Not so once a dead letter
\* with the same key was retried.)
ChainOneRunning ==
    \A i, j \in InState({"running"}) : SameKey(i, j) => i = j

Live(j) == rows[j].state = "running" /\ rows[j].leaseLeft > 0

\* A serial job has one live lease at a time in the whole fleet.  (Not so when
\* a lapsed lease is renewed late.)
SerialOneLive ==
    \A i, j \in Jobs : Live(i) /\ Live(j) /\ SameSerial(i, j) => i = j

\* What pull itself guarantees of serial jobs: it never makes a second live
\* lease, neither beside an older one nor inside one batch.
SerialPull ==
    [][\A i, j \in Jobs :
         /\ i # j /\ SameSerial(i, j)
         /\ Live(i)' /\ Live(j)'
         => rows[i].state = "running" /\ rows[j].state = "running"]_vars

\* A done or cancelled row is final, whatever the leases still in flight on it
\* do: a cancelled job that finishes anyway is not turned into a success.
SettledIsFinal ==
    [][\A j \in Jobs : rows[j].state \in Settled => rows'[j].state = rows[j].state]_vars

\* Where the Queue trait sees row j.
Phase(j) == CASE rows[j].state \in Waiting -> "waiting"
              [] rows[j].state = "running" -> "leased"
              [] OTHER -> rows[j].state

\* The memory backend keeps the promise of the Queue trait.
LQ == INSTANCE LeaseQueue WITH
        phase <- [j \in Jobs |-> Phase(j)],
        holder <- [j \in Jobs |-> rows[j].token],
        leases <- held

ImplementsLeaseQueue == LQ!Spec
=============================================================================
