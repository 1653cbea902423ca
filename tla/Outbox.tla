------------------------------- MODULE Outbox -------------------------------
(***************************************************************************)
(* backend/outbox.rs: transactional enqueue in front of a queue that has   *)
(* none.  push_tx stages the row in a table, in the caller's transaction;  *)
(* relays, one per process, move committed rows to the inner queue, in     *)
(* batches: push, then delete.                                             *)
(*                                                                         *)
(* The inner queue is what its push does with an identifier it knows: the  *)
(* SQL queue ignores the second push, Redis and memory overwrite the row;  *)
(* all of them forget the row when it is done.                             *)
(***************************************************************************)
EXTENDS Integers, FiniteSets

CONSTANTS
    ObJobs,
    ObRelays,
    ObBatch,
    ObMaxFaults         \* bound: passes that are cut short

ASSUME ObAssumption ==
    /\ ObBatch \in Nat \ {0}
    /\ ObMaxFaults \in Nat
    /\ IsFiniteSet(ObRelays)

VARIABLES
    obKeeps,            \* the inner queue keeps the first of two pushes
    obBad,              \* rows another version wrote, which do not decode
    obTx,               \* the transaction that stages each job
    obTable,            \* the rows, those of open transactions too
    obBefore,           \* staged_at: the jobs staged before each one
    obRelay,
    obInner,            \* the row in the inner queue
    obRuns,             \* how often each body was started
    obFaults

obVars == <<obKeeps, obBad, obTx, obTable, obBefore, obRelay, obInner, obRuns, obFaults>>

\* What no relay and no worker changes.
obFixed == <<obKeeps, obBad, obBefore>>

\* A pass holds the rows it read; `pushed` says that the oldest one is in the
\* inner queue and its delete is still to come.
Pass == [stage : {"loop", "pass", "last", "down"}, batch : SUBSET ObJobs, pushed : BOOLEAN]

InLoop == [stage |-> "loop", batch |-> {}, pushed |-> FALSE]

ObInit ==
    /\ obKeeps \in BOOLEAN
    /\ obBad \in SUBSET ObJobs
    /\ obTx = [j \in ObJobs |-> "none"]
    /\ obTable = {}
    /\ obBefore = [j \in ObJobs |-> {}]
    /\ obRelay = [r \in ObRelays |-> InLoop]
    /\ obInner = [j \in ObJobs |-> "absent"]
    /\ obRuns = [j \in ObJobs |-> 0]
    /\ obFaults = 0

-----------------------------------------------------------------------------
(* The callers *)

ObPushTx(j) ==
    /\ obTx[j] = "none"
    /\ obTx' = [obTx EXCEPT ![j] = "open"]
    /\ obTable' = obTable \union {j}
    /\ obBefore' = [obBefore EXCEPT ![j] = {i \in ObJobs : obTx[i] # "none"}]
    /\ UNCHANGED <<obKeeps, obBad, obRelay, obInner, obRuns, obFaults>>

ObCommit(j) ==
    /\ obTx[j] = "open"
    /\ obTx' = [obTx EXCEPT ![j] = "committed"]
    /\ UNCHANGED <<obFixed, obTable, obRelay, obInner, obRuns, obFaults>>

ObRollback(j) ==
    /\ obTx[j] = "open"
    /\ obTx' = [obTx EXCEPT ![j] = "rolled_back"]
    /\ obTable' = obTable \ {j}
    /\ UNCHANGED <<obFixed, obRelay, obInner, obRuns, obFaults>>

-----------------------------------------------------------------------------
(* The relays *)

Staged(j) == j \in obTable /\ obTx[j] = "committed"

Visible == {j \in ObJobs : Staged(j)}

\* Wrong: the newest rows first.
Oldest_Newest(rows) == {j \in rows : \A i \in rows : j \notin obBefore[i]}

\* `order by staged_at`: the row that comes first.
Oldest(rows) == {j \in rows : obBefore[j] \intersect rows = {}}

Firsts(rows) == {j \in rows : Cardinality(obBefore[j] \intersect rows) < ObBatch}

Goto(r, pass) == obRelay' = [obRelay EXCEPT ![r] = pass]

\* The pass is over: the loop goes on, or the relay is gone after its last one.
Over(r) == [InLoop EXCEPT !.stage = IF obRelay[r].stage = "last" THEN "down" ELSE "loop"]

Selects(r, stage) ==
    /\ obRelay[r].stage = "loop"
    /\ Goto(r, [stage |-> IF stage = "last" /\ Visible = {} THEN "down" ELSE stage,
                batch |-> Firsts(Visible), pushed |-> FALSE])
    /\ UNCHANGED <<obFixed, obTx, obTable, obInner, obRuns, obFaults>>

\* The locks of `for update skip locked` end with the statement, which runs in
\* no transaction: another relay reads the same rows.
ObSelect(r) == Visible # {} /\ Selects(r, "pass")

\* The shutdown signal, and one last pass.
ObLastPass(r) == Selects(r, "last")

Passing(r) == obRelay[r].stage \in {"pass", "last"}

Accepts(j) ==
    IF obKeeps /\ obInner[j] # "absent" THEN obInner ELSE [obInner EXCEPT ![j] = "waiting"]

ObPush(r) ==
    \E j \in Oldest(obRelay[r].batch) :
        /\ Passing(r) /\ ~obRelay[r].pushed
        /\ j \notin obBad
        /\ obInner' = Accepts(j)
        /\ Goto(r, [obRelay[r] EXCEPT !.pushed = TRUE])
        /\ UNCHANGED <<obFixed, obTx, obTable, obRuns, obFaults>>

\* Wrong: a row that does not decode is deleted.
ObDecodeFails_Deletes(r) ==
    \E j \in Oldest(obRelay[r].batch) :
        /\ Passing(r) /\ ~obRelay[r].pushed
        /\ j \in obBad
        /\ obTable' = obTable \ {j}
        /\ Goto(r, Over(r))
        /\ UNCHANGED <<obFixed, obTx, obInner, obRuns, obFaults>>

\* A row that does not decode ends the pass, and is the first of the next one.
ObDecodeFails(r) ==
    /\ Passing(r) /\ ~obRelay[r].pushed
    /\ Oldest(obRelay[r].batch) \intersect obBad # {}
    /\ Goto(r, Over(r))
    /\ UNCHANGED <<obFixed, obTx, obTable, obInner, obRuns, obFaults>>

ObDelete(r) ==
    \E j \in Oldest(obRelay[r].batch) :
        /\ Passing(r) /\ obRelay[r].pushed
        /\ obTable' = obTable \ {j}
        /\ Goto(r, IF obRelay[r].batch = {j} THEN Over(r)
                   ELSE [obRelay[r] EXCEPT !.batch = @ \ {j}, !.pushed = FALSE])
        /\ UNCHANGED <<obFixed, obTx, obInner, obRuns, obFaults>>

\* A statement or the push fails, or the process dies and is started again.
ObCutShort(r) ==
    /\ Passing(r)
    /\ obFaults < ObMaxFaults
    /\ obFaults' = obFaults + 1
    /\ Goto(r, Over(r))
    /\ UNCHANGED <<obFixed, obTx, obTable, obInner, obRuns>>

-----------------------------------------------------------------------------
(* The workers of the inner queue *)

ObStart(j) ==
    /\ obInner[j] = "waiting"
    /\ obInner' = [obInner EXCEPT ![j] = "leased"]
    /\ obRuns' = [obRuns EXCEPT ![j] = @ + 1]
    /\ UNCHANGED <<obFixed, obTx, obTable, obRelay, obFaults>>

ObFinish(j) ==
    /\ obInner[j] = "leased"
    /\ obInner' = [obInner EXCEPT ![j] = "absent"]
    /\ UNCHANGED <<obFixed, obTx, obTable, obRelay, obRuns, obFaults>>

-----------------------------------------------------------------------------
ObMoves(r) == ObSelect(r) \/ ObPush(r) \/ ObDecodeFails(r) \/ ObDelete(r)

ObNext ==
    \/ \E j \in ObJobs : ObPushTx(j) \/ ObCommit(j) \/ ObRollback(j) \/ ObStart(j) \/ ObFinish(j)
    \/ \E r \in ObRelays : ObMoves(r) \/ ObLastPass(r) \/ ObCutShort(r)

\* The relay's loop goes round as long as its process lives.
ObFairness == \A r \in ObRelays : WF_obVars(ObMoves(r))

ObSpec == ObInit /\ [][ObNext]_obVars /\ ObFairness

-----------------------------------------------------------------------------
(* Properties *)

ObTypeOK ==
    /\ obKeeps \in BOOLEAN
    /\ obBad \subseteq ObJobs
    /\ obTx \in [ObJobs -> {"none", "open", "committed", "rolled_back"}]
    /\ obTable \subseteq ObJobs
    /\ obBefore \in [ObJobs -> SUBSET ObJobs]
    /\ obRelay \in [ObRelays -> Pass]
    /\ obInner \in [ObJobs -> {"absent", "waiting", "leased"}]
    /\ obRuns \in [ObJobs -> Nat]
    /\ obFaults \in 0..ObMaxFaults

\* The head of outbox.rs: "a rolled-back transaction leaves no job", and the
\* order of push and delete, because "the other order loses work" and "a crash
\* between the two replays one job".  A job whose transaction committed is
\* staged, queued or was run, no other job is queued or was run, and a body is
\* started at most once for each relay that may have read its row and once more
\* for each pass cut short: with one relay and no crash, once.
DeliveredBounded ==
    \A j \in ObJobs :
        /\ IF obTx[j] = "committed"
           THEN j \in obTable \/ obInner[j] # "absent" \/ obRuns[j] > 0
           ELSE obInner[j] = "absent" /\ obRuns[j] = 0
        /\ obRuns[j] <= Cardinality(ObRelays) + obFaults

\* Outbox::relay: "running it everywhere is safe: the drain uses `FOR UPDATE
\* SKIP LOCKED`, so a row is moved once".
MovedOnce == obFaults = 0 => \A j \in ObJobs : obRuns[j] <= 1

\* The rows a pass meets up to the row of j, that one included.
UpTo(j) == {j} \union (obBefore[j] \intersect obTable)

\* Outbox::relay: a committed row leaves the table while a relay lives, unless a
\* row that does not decode is before it.
ReachedUnlessBlocked ==
    \A j \in ObJobs :
        Staged(j) /\ UpTo(j) \intersect obBad = {}
            ~> ~Staged(j) \/ \A r \in ObRelays : obRelay[r].stage = "down"
=============================================================================
