----------------------------- MODULE JobWorker -----------------------------
(***************************************************************************)
(* worker.rs: a fleet of workers over one queue.  Each worker process runs *)
(* a loop (reclaim, pull a round, spawn what it got) and one task per      *)
(* leased job (heartbeat, body, ack or nack), drains when it is told to    *)
(* stop, and may crash, stall past a lease or fail to reach the queue.     *)
(*                                                                         *)
(* An execution is keyed by its lease: DOMAIN exec = held.                 *)
(***************************************************************************)
EXTENDS MemoryQueue, Sequences

CONSTANTS
    Workers,
    Slots,          \* concurrency of each worker: permits of its semaphore
    Serves,         \* the queues each worker polls, in order
    Weight,         \* weight of each queue
    Knows,          \* the job types each worker's build has registered
    PanickyJobs,    \* the jobs whose body may panic
    Requeues,       \* the workers whose DrainMode is Requeue; the rest Abandon
    MaxFaults,      \* bound: crashes, stalls, queue errors and panics, in all
    MaxDeploys      \* bound: shutdowns, in all

ASSUME WorkerAssumption ==
    /\ Slots \in [Workers -> Nat \ {0}]
    /\ Serves \in [Workers -> Seq(QueueNames)]
    /\ \A w \in Workers : Serves[w] # <<>>
    /\ Weight \in [QueueNames -> Nat \ {0}]
    /\ Knows \in [Workers -> SUBSET Names]
    /\ PanickyJobs \subseteq Jobs
    /\ Requeues \subseteq Workers
ASSUME JobsAssumption == IsFiniteSet(Jobs)     \* the map is bounded by max_jobs
ASSUME FaultAssumption == MaxFaults \in Nat /\ MaxDeploys \in Nat

VARIABLES
    exec,       \* the execution behind each held lease
    worker,     \* the loop of each worker
    inflight,   \* each worker's map from job id to the lease it can cancel
    faults, deploys

workerVars == <<worker, inflight>>
wvars == <<rows, held, revived, exec, worker, inflight, faults, deploys>>

Stages == {"pulled",                \* leased, not spawned yet
           "body",                  \* execute: body and heartbeat running
           "ok", "retry", "dead",   \* body over, ack / nack about to be sent
           "orphan"}                \* body panicked: only the heartbeat is left

Exec == [by : Workers, stage : Stages, attempt : Nat,
         beating : BOOLEAN,         \* the heartbeat task is alive
         cancel : {"no", "yes", "drain"}]

Loop == [phase : {"loop", "pulling", "draining", "unwinding", "exiting", "gone"},
         stopping : BOOLEAN,        \* the shutdown signal has fired
         round : Nat, offset : Nat, free : Nat, left : Nat]

Started == [phase |-> "loop", stopping |-> FALSE, round |-> 0,
            offset |-> 0, free |-> 0, left |-> 0]

Mine(w) == {l \in held : exec[l].by = w}
OnPermit(w) == {l \in Mine(w) : exec[l].stage \in {"body", "ok", "retry", "dead"}}
FreePermits(w) == Slots[w] - Cardinality(OnPermit(w))

InitW ==
    /\ Init
    /\ exec = <<>>
    /\ worker = [w \in Workers |-> Started]
    /\ inflight = [w \in Workers |-> [j \in Jobs |-> NoToken]]
    /\ faults = 0
    /\ deploys = 0

Fault == faults < MaxFaults /\ faults' = faults + 1
Calm == UNCHANGED <<faults, deploys>>

-----------------------------------------------------------------------------
(* The loop *)

Set(w, record) == worker' = [worker EXCEPT ![w] = record]

\* Wrong: only the first queue is looked after.
Maintain_FirstQueue(w) ==
    /\ worker[w].phase = "loop" /\ ~worker[w].stopping
    /\ Reclaim({Serves[w][1]})
    /\ UNCHANGED <<exec, workerVars>> /\ Calm

\* maintenance: reclaim expired leases on the queues this worker polls.
Maintain(w) ==
    /\ worker[w].phase = "loop" /\ ~worker[w].stopping
    /\ Reclaim({Serves[w][i] : i \in DOMAIN Serves[w]})
    /\ UNCHANGED <<exec, workerVars>> /\ Calm

\* The free slots are counted once, at the start of the round.
BeginRound(w) ==
    /\ worker[w].phase = "loop" /\ ~worker[w].stopping
    /\ FreePermits(w) > 0
    /\ Set(w, [worker[w] EXCEPT !.phase = "pulling", !.offset = 0,
                                !.free = FreePermits(w), !.left = FreePermits(w)])
    /\ UNCHANGED <<rows, held, revived, exec, inflight>> /\ Calm

\* Rotating the first queue by the round is the anti-starvation mechanism.
ShareQueue(w) ==
    Serves[w][1 + ((worker[w].round + worker[w].offset) % Len(Serves[w]))]

TotalWeight(w) ==
    LET sum[i \in 0..Len(Serves[w])] ==
            IF i = 0 THEN 0 ELSE sum[i - 1] + Weight[Serves[w][i]]
    IN  sum[Len(Serves[w])]

AtLeastOne(n) == IF n < 1 THEN 1 ELSE n

\* A queue's share of the free slots, at least one, never more than are left.
ShareLimit(w) ==
    LET share == AtLeastOne((worker[w].free * Weight[ShareQueue(w)])
                                \div AtLeastOne(TotalWeight(w)))
    IN  IF share < worker[w].left THEN share ELSE worker[w].left

MoreShares(w) ==
    /\ worker[w].phase = "pulling"
    /\ worker[w].offset < Len(Serves[w])
    /\ worker[w].left > 0

Pulled(w, j) == [by |-> w, stage |-> "pulled", attempt |-> rows[j].attempt,
                 beating |-> FALSE, cancel |-> "no"]

\* Wrong: the slots a pull used up are offered to the next queue again.
PullShare_KeepsLeft(w) ==
    /\ MoreShares(w)
    /\ \E S \in Batches({ShareQueue(w)}, ShareLimit(w)) :
        \E f \in TokenChoices(S) :
            /\ Lease(S, f)
            /\ exec' = [l \in held' |-> IF l \in held THEN exec[l] ELSE Pulled(w, l[1])]
            /\ Set(w, [worker[w] EXCEPT !.offset = @ + 1])
    /\ UNCHANGED inflight /\ Calm

\* One pull of the round: one statement, one queue.
PullShare(w) ==
    /\ MoreShares(w)
    /\ \E S \in Batches({ShareQueue(w)}, ShareLimit(w)) :
        \E f \in TokenChoices(S) :
            /\ Lease(S, f)
            /\ exec' = [l \in held' |-> IF l \in held THEN exec[l] ELSE Pulled(w, l[1])]
            /\ Set(w, [worker[w] EXCEPT !.offset = @ + 1, !.left = @ - Cardinality(S)])
    /\ UNCHANGED inflight /\ Calm

\* A queue that cannot be reached must not stop the others.
PullFails(w) ==
    /\ MoreShares(w)
    /\ Fault
    /\ Set(w, [worker[w] EXCEPT !.offset = @ + 1])
    /\ UNCHANGED <<rows, held, revived, exec, inflight, deploys>>

\* The round is over: a task per row.  A row whose type this build does not
\* know goes straight to the dead letters, with no heartbeat.
Spawn(w) ==
    /\ worker[w].phase = "pulling" /\ ~MoreShares(w)
    /\ exec' = [l \in held |->
                  IF exec[l].by = w /\ exec[l].stage = "pulled"
                  THEN IF NameOf[l[1]] \in Knows[w]
                       THEN [exec[l] EXCEPT !.stage = "body", !.beating = TRUE]
                       ELSE [exec[l] EXCEPT !.stage = "dead"]
                  ELSE exec[l]]
    /\ LET batch == {l \in Mine(w) : exec[l].stage = "pulled"}
       IN  inflight' = [inflight EXCEPT ![w] = [j \in Jobs |->
                IF \E l \in batch : l[1] = j
                THEN (CHOOSE l \in batch : l[1] = j)[2]
                ELSE @[j]]]
    /\ Set(w, [worker[w] EXCEPT !.phase = "loop",
                                !.round = (@ + 1) % Len(Serves[w])])
    /\ UNCHANGED <<rows, held, revived>> /\ Calm

-----------------------------------------------------------------------------
(* execute: one task per lease *)

\* The task returns: its lease is spent, its permit is released and the
\* in-flight entry of its job id is removed, whoever put it there.
Finished(l) ==
    /\ exec' = [k \in held' |-> exec[k]]
    /\ inflight' = [inflight EXCEPT ![exec[l].by][l[1]] = NoToken]
    /\ UNCHANGED worker

Becomes(l, record) == exec' = [exec EXCEPT ![l] = record]

\* Wrong: one attempt too many.
RetryOrDead_OffByOne(l) ==
    IF exec[l].attempt > MaxAttempts[l[1]] THEN "dead" ELSE "retry"

\* RetryPolicy::next_delay on the attempt in the row that was pulled.
RetryOrDead(l) ==
    IF exec[l].attempt >= MaxAttempts[l[1]] THEN "dead" ELSE "retry"

\* Full jitter over the nominal delay: anything from zero up.
Backoff == 0..MaxDelay

\* A cancellation is a flag that is only ever raised; a drain is remembered.
CancelJob(c) == IF c = "drain" THEN c ELSE "yes"
CancelForDrain(c) == "drain"

BodyOver(l, stage) ==
    /\ exec[l].stage = "body"
    /\ Becomes(l, [exec[l] EXCEPT !.stage = stage, !.beating = FALSE])
    /\ UNCHANGED <<rows, held, revived, workerVars>> /\ Calm

\* The select is biased: once the cancellation has fired the body's own
\* outcome is never looked at.
BodySucceeds(l) == exec[l].cancel = "no" /\ BodyOver(l, "ok")

\* A retryable error or a timeout.
BodyFails(l) == exec[l].cancel = "no" /\ BodyOver(l, RetryOrDead(l))

\* A permanent error or an undecodable payload skips the retry budget.
BodyFailsForGood(l) == exec[l].cancel = "no" /\ BodyOver(l, "dead")

\* A cancelled job ends as a retryable failure.
BodyCancelled(l) == exec[l].cancel # "no" /\ BodyOver(l, RetryOrDead(l))

\* Nothing catches a panic in the body.  The task unwinds: the permit goes
\* back, the in-flight entry stays, and the heartbeat task, which only the
\* normal path aborts, is left running.
BodyPanics(l) ==
    /\ exec[l].stage = "body" /\ exec[l].cancel = "no"
    /\ l[1] \in PanickyJobs
    /\ Fault
    /\ Becomes(l, [exec[l] EXCEPT !.stage = "orphan"])
    /\ UNCHANGED <<rows, held, revived, workerVars, deploys>>

\* The heartbeat task, every third of the lease.
Beat(l) ==
    /\ exec[l].beating
    /\ Heartbeat(l)
    /\ UNCHANGED <<exec, workerVars>> /\ Calm

\* JobCtx::heartbeat, which a long body may call itself.
BodyBeats(l) ==
    /\ exec[l].stage = "body"
    /\ Heartbeat(l)
    /\ UNCHANGED <<exec, workerVars>> /\ Calm

\* Wrong: the heartbeat ends without telling the body.
LoseHeart_Silent(l) ==
    /\ exec[l].beating
    /\ Becomes(l, [exec[l] EXCEPT !.beating = FALSE])
    /\ UNCHANGED <<rows, held, revived, workerVars>>

\* Any error from a renewal fires the job's cancellation and ends the
\* heartbeat.
LoseHeart(l) ==
    /\ exec[l].beating
    /\ IF exec[l].stage = "orphan"
       THEN /\ held' = held \ {l}
            /\ exec' = [k \in held' |-> exec[k]]
       ELSE /\ Becomes(l, [exec[l] EXCEPT !.beating = FALSE,
                              !.cancel = CancelJob(@)])
            /\ UNCHANGED held
    /\ UNCHANGED <<rows, revived, workerVars>>

BeatRefused(l) == ~Current(l) /\ LoseHeart(l) /\ Calm

BeatFails(l) == Fault /\ LoseHeart(l) /\ UNCHANGED deploys

\* The answer to the queue.  A refusal is logged and nothing else.
Report(l) ==
    /\ CASE exec[l].stage = "ok"    -> Ack(l) \/ Stale(l)
         [] exec[l].stage = "retry" -> Stale(l) \/ \E delay \in Backoff : NackRetry(l, delay)
         [] exec[l].stage = "dead"  -> NackDead(l) \/ Stale(l)
         [] OTHER -> FALSE
    /\ Finished(l)
    /\ Calm

\* The queue cannot be reached: the outcome is lost and the lease runs out.
ReportFails(l) ==
    /\ exec[l].stage \in {"ok", "retry", "dead"}
    /\ Fault
    /\ Drop(l)
    /\ Finished(l)
    /\ UNCHANGED deploys

Execution(l) ==
    \/ BodySucceeds(l) \/ BodyFails(l) \/ BodyFailsForGood(l)
    \/ BodyCancelled(l) \/ BodyPanics(l)
    \/ Beat(l) \/ BodyBeats(l) \/ BeatRefused(l) \/ BeatFails(l)
    \/ Report(l) \/ ReportFails(l)

-----------------------------------------------------------------------------
(* Shutdown *)

Signal(w) ==
    /\ deploys < MaxDeploys
    /\ worker[w].phase # "gone" /\ ~worker[w].stopping
    /\ deploys' = deploys + 1
    /\ Set(w, [worker[w] EXCEPT !.stopping = TRUE])
    /\ UNCHANGED <<rows, held, revived, exec, inflight, faults>>

LoopMoves(w, from, to) ==
    /\ worker[w].phase \in from
    /\ Set(w, [worker[w] EXCEPT !.phase = to])

\* The loop is left between two rounds, and the grace period starts.
Drain(w) ==
    /\ worker[w].stopping
    /\ LoopMoves(w, {"loop"}, IF OnPermit(w) = {} THEN "exiting" ELSE "draining")
    /\ UNCHANGED <<rows, held, revived, exec, inflight>> /\ Calm

\* Every permit is back: the worker is done early.
Drained(w) ==
    /\ OnPermit(w) = {}
    /\ LoopMoves(w, {"draining", "unwinding"}, "exiting")
    /\ UNCHANGED <<rows, held, revived, exec, inflight>> /\ Calm

Cancelled(w, l) == exec[l].by = w /\ inflight[w][l[1]] = l[2]

\* Wrong: the grace period has no end.
GraceExpires_Waits(w) ==
    /\ OnPermit(w) = {}
    /\ LoopMoves(w, {"draining"}, "exiting")
    /\ UNCHANGED <<rows, held, revived, exec, inflight>> /\ Calm

\* The grace expired: cancel what the in-flight map still knows of.
GraceExpires(w) ==
    /\ LoopMoves(w, {"draining"}, IF w \in Requeues THEN "unwinding" ELSE "exiting")
    /\ exec' = [l \in held |->
                  IF Cancelled(w, l)
                  THEN [exec[l] EXCEPT !.cancel = IF w \in Requeues
                                                  THEN CancelForDrain(@) ELSE CancelJob(@)]
                  ELSE exec[l]]
    /\ UNCHANGED <<rows, held, revived, inflight>> /\ Calm

\* Two more seconds for the cancelled jobs to report.
UnwindExpires(w) ==
    /\ LoopMoves(w, {"unwinding"}, "exiting")
    /\ UNCHANGED <<rows, held, revived, exec, inflight>> /\ Calm

Gone(w) ==
    /\ held' = held \ Mine(w)
    /\ exec' = [l \in held' |-> exec[l]]
    /\ inflight' = [inflight EXCEPT ![w] = [j \in Jobs |-> NoToken]]
    /\ Set(w, [Started EXCEPT !.phase = "gone"])
    /\ UNCHANGED <<rows, revived>>

\* run() has returned; the process ends and takes its tasks with it.
Exit(w) == worker[w].phase = "exiting" /\ Gone(w) /\ Calm

Crash(w) == worker[w].phase # "gone" /\ Fault /\ Gone(w) /\ UNCHANGED deploys

Restart(w) ==
    /\ worker[w].phase = "gone"
    /\ Set(w, Started)
    /\ UNCHANGED <<rows, held, revived, exec, inflight>> /\ Calm

-----------------------------------------------------------------------------
(* The rest of the world *)

\* A healthy process renews every lease before a tick can end it.
Timely == \A l \in held : Current(l) => rows[l[1]].leaseLeft # 1

TickTimely == Timely /\ Tick /\ UNCHANGED <<exec, workerVars>> /\ Calm

\* A body blocks the runtime, or the process is paused, past a lease.
TickStalled == ~Timely /\ Fault /\ Tick /\ UNCHANGED <<exec, workerVars, deploys>>

Enqueue == \E j \in Jobs, delay \in 0..MaxDelay : Push(j, delay)

OperatorAct ==
    \/ \E j \in Jobs : Cancel(j)
    \/ \E S \in Filtered :
        S \intersect revived = {} /\ Retry(S)   \* bound: one redrive of each row

Environment ==
    /\ Enqueue \/ OperatorAct
    /\ UNCHANGED <<exec, workerVars>> /\ Calm

Step(w) ==
    \/ Maintain(w) \/ BeginRound(w) \/ PullShare(w) \/ PullFails(w) \/ Spawn(w)
    \/ Signal(w) \/ Drain(w) \/ Drained(w) \/ GraceExpires(w) \/ UnwindExpires(w)
    \/ Exit(w) \/ Crash(w) \/ Restart(w)

NextW ==
    \/ \E w \in Workers : Step(w)
    \/ \E l \in held : Execution(l)
    \/ TickTimely \/ TickStalled
    \/ Environment

SpecW == InitW /\ [][NextW]_wvars

\* Loops keep turning, tasks keep being polled, time passes.  The loop looks at
\* the reclaim timer on every turn, so maintenance is not passed over for ever:
\* hence SF.  With no permit free the loop is parked on its semaphore and owes
\* no maintenance.  Nobody has to enqueue, cancel, fail or deploy, and a body
\* need not end by itself.
Turning ==
    /\ \A w \in Workers :
        /\ SF_wvars(FreePermits(w) > 0 /\ Maintain(w))
        /\ WF_wvars(BeginRound(w)) /\ WF_wvars(PullShare(w)) /\ WF_wvars(Spawn(w))
        /\ WF_wvars(Drain(w)) /\ WF_wvars(Drained(w)) /\ WF_wvars(GraceExpires(w))
        /\ WF_wvars(UnwindExpires(w)) /\ WF_wvars(Exit(w)) /\ WF_wvars(Restart(w))
    /\ \A l \in Jobs \X Tokens :
        /\ WF_wvars(l \in held /\ Report(l))
        /\ WF_wvars(l \in held /\ (Beat(l) \/ BeatRefused(l)))
        /\ WF_wvars(l \in held /\ BodyCancelled(l))
    /\ WF_wvars(TickTimely)

\* Bodies end as well: the timeout of the job type sees to it.
BodiesEnd ==
    \A l \in Jobs \X Tokens :
        WF_wvars(l \in held /\ (BodySucceeds(l) \/ BodyFails(l)
                                 \/ BodyFailsForGood(l) \/ BodyCancelled(l)))

TurningSpecW == SpecW /\ Turning
FairSpecW == TurningSpecW /\ BodiesEnd

-----------------------------------------------------------------------------
(* Properties *)

\* Executions, loops and in-flight maps have the shapes of their structs.
TypeOKW ==
    /\ TypeOK
    /\ exec \in [held -> Exec]
    /\ worker \in [Workers -> Loop]
    /\ inflight \in [Workers -> [Jobs -> Tokens \union {NoToken}]]
    /\ faults \in 0..MaxFaults /\ deploys \in 0..MaxDeploys

Bodies == {l \in held : exec[l].stage = "body"}

\* At-least-once becomes more than once only through a fault.  While nothing
\* has crashed, stalled or lost the queue, no job has two bodies, not even
\* across drains, restarts and reclaims; and a serial type has one body in the
\* whole fleet, unless an operator's cancel freed its row first.
NoOverlapWithoutFault ==
    faults = 0 =>
        \A k, l \in Bodies :
            \/ k = l
            \/ /\ k[1] # l[1]
               /\ SameSerial(k[1], l[1]) =>
                    \E i \in {k[1], l[1]} : rows[i].state = "cancelled"

\* A worker never leases more rows than it has permits to run them with: a
\* row over the limit would sit leased, with no heartbeat, behind its siblings.
LeasesFitPermits ==
    \A w \in Workers : Cardinality({l \in Mine(w) : exec[l].stage # "orphan"}) <= Slots[w]

\* The fleet's records have their shapes and its leases fit its permits.
FleetCoherent == TypeOKW /\ LeasesFitPermits

\* The attempt counter of a row never passes its policy's budget, although the
\* decision to retry is taken on the copy pulled long before.
WithinBudget ==
    \A j \in Present : rows[j].attempt <= MaxAttempts[j] \/ rows[j].attempt = 1

\* Done means done: a row is finished only by an execution whose body returned
\* Ok under the row's own lease.
DoneOnlyByItsBody ==
    [][\A j \in Jobs :
         rows[j].state # "done" /\ rows'[j].state = "done"
         => \E l \in held : /\ l = <<j, rows[j].token>>
                            /\ exec[l].stage = "ok"
                            /\ l \notin held']_wvars

\* Whatever happens short of endless faults, an enqueued job is settled: done,
\* dead or cancelled.
EverySettles ==
    \A j \in Jobs : rows[j].state \in Active ~> rows[j].state \notin Active

\* A body that lost its row (cancelled by an operator, or reclaimed) is stopped,
\* without waiting for the body to end by itself.
LostBodiesStop ==
    \A l \in Jobs \X Tokens :
        (l \in Bodies /\ ~Current(l)) ~> l \notin Bodies

\* Bounded shutdown: a worker told to stop is gone, whatever its jobs do.
ShutdownEnds ==
    \A w \in Workers : worker[w].stopping ~> worker[w].phase = "gone"

(* What the documentation says and the code does not do *)

\* "DrainMode::Requeue: put unfinished jobs back on the queue": a drain never
\* buries a job.
DrainNeverBuries ==
    [][\A j \in Jobs : rows[j].state = "running" /\ rows'[j].state = "dead"
         => \A l \in held : l = <<j, rows[j].token>> => exec[l].cancel # "drain"]_wvars

\* "Two consecutive heartbeats can be lost before another worker can take the
\* job": one lost heartbeat leaves the body running.
OneLostBeatIsHarmless ==
    [][\A l \in held \intersect held' :
         /\ exec[l].cancel = "no" /\ exec'[l].cancel = "yes"
         => ~Current(l) \/ worker[exec[l].by].stopping]_wvars

\* "A job type never has two instances running at once, anywhere in the fleet."
SerialOneBody ==
    \A k, l \in Bodies : SameSerial(k[1], l[1]) => k = l

\* "The worker renews the lease for as long as the job runs": not longer.
RenewedOnlyWhileRunning ==
    [][\A j \in Jobs :
         /\ rows[j].token # NoToken /\ rows'[j].token = rows[j].token
         /\ rows'[j].leaseLeft > rows[j].leaseLeft
         => \E l \in Bodies : l = <<j, rows[j].token>>]_wvars

\* "The grace expired. Tell the jobs to stop": every running body is told.
DrainTellsEveryBody ==
    \A w \in Workers : worker[w].phase = "unwinding" =>
        \A l \in Bodies : exec[l].by = w => exec[l].cancel # "no"
=============================================================================
