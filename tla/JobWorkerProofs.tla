-------------------------- MODULE JobWorkerProofs --------------------------
(***************************************************************************)
(* Theorems of JobWorker, for every fleet, every number of permits, every  *)
(* set of jobs and queues and every bound on faults and deployments.       *)
(***************************************************************************)
EXTENDS JobWorker, MemoryQueueProofs, FiniteSetTheorems

-----------------------------------------------------------------------------
(* Induction, by sets: the library's induction theorems take an operator as *)
(* a parameter; a set that is closed under successor does as well.          *)

\* If m were not in T, the successor would be an injection of T below m into
\* itself that misses 0.
LEMMA ClosedSet ==
    ASSUME NEW T \in SUBSET Nat, 0 \in T, \A n \in T : n + 1 \in T
    PROVE  T = Nat
<1> SUFFICES ASSUME NEW m \in Nat, m \notin T PROVE FALSE
  OBVIOUS
<1> DEFINE U == {n \in T : n <= m}
           V == U \ {0}
           succ == [n \in U |-> n + 1]
<1>1. IsFiniteSet(U)
  BY FS_BoundedSetOfNaturals
<1>2. 0 \in U
  OBVIOUS
<1>3. IsFiniteSet(V) /\ Cardinality(V) = Cardinality(U) - 1
  BY <1>1, <1>2, FS_RemoveElement
<1>4. \A n \in U : n + 1 \in V
  <2> TAKE n \in U
  <2>1. n \in Nat /\ n <= m /\ n # m
    OBVIOUS
  <2> QED BY <2>1
<1>5. \A a, b \in U : succ[a] = succ[b] => a = b
  OBVIOUS
<1>6. succ \in Injection(U, V)
  BY <1>4, <1>5 DEF Injection, IsInjective
<1>7. Cardinality(U) <= Cardinality(V)
  BY <1>3, <1>6, FS_Injection
<1>8. Cardinality(U) \in Nat
  BY <1>1, FS_CardinalityType
<1> QED BY <1>3, <1>7, <1>8

-----------------------------------------------------------------------------
(* Shares *)


\* The recursion of TotalWeight: a function that adds up the first n weights.
Sums(w, n, sum) ==
    sum = [i \in 0..n |-> IF i = 0 THEN 0 ELSE sum[i - 1] + Weight[Serves[w][i]]]

\* The recursion has a solution, and every value of it is a natural number.
LEMMA TotalWeightType ==
    ASSUME NEW w \in Workers
    PROVE  TotalWeight(w) \in Nat
<1> DEFINE N == Len(Serves[w])
           Has(n) == \E f : Sums(w, n, f)
<1>1. N \in Nat /\ \A i \in 1..N : Weight[Serves[w][i]] \in Nat
  BY WorkerAssumption
<1>2. Has(N)
  <2> DEFINE T == {n \in Nat : Has(n)}
  <2>1. Has(0)
    <3> DEFINE f == [i \in 0..0 |-> 0]
    <3>1. Sums(w, 0, f)
      BY DEF Sums
    <3> QED BY <3>1
  <2>2. ASSUME NEW n \in Nat, Has(n) PROVE Has(n + 1)
    <3>1. PICK f : Sums(w, n, f)
      BY <2>2
    <3> DEFINE g == [i \in 0..(n + 1) |->
                       IF i <= n THEN f[i] ELSE f[n] + Weight[Serves[w][n + 1]]]
    <3>2. \A i \in 0..n : f[i] = IF i = 0 THEN 0 ELSE f[i - 1] + Weight[Serves[w][i]]
      BY <3>1 DEF Sums
    <3>3. \A i \in 0..(n + 1) :
            g[i] = IF i = 0 THEN 0 ELSE g[i - 1] + Weight[Serves[w][i]]
      <4> TAKE i \in 0..(n + 1)
      <4>1. CASE i = 0
        BY <3>2, <4>1
      <4>2. CASE i \in 1..n
        <5>1. g[i] = f[i] /\ g[i - 1] = f[i - 1]
          BY <4>2
        <5> QED BY <3>2, <4>2, <5>1
      <4>3. CASE i = n + 1
        <5>1. g[i - 1] = f[n] /\ g[i] = f[n] + Weight[Serves[w][n + 1]]
          BY <4>3
        <5> QED BY <4>3, <5>1
      <4> QED BY <4>1, <4>2, <4>3
    <3>4. Sums(w, n + 1, g)
      <4>1. g = [i \in 0..(n + 1) |-> g[i]]
        OBVIOUS
      <4> HIDE DEF g
      <4> QED BY <3>3, <4>1 DEF Sums
    <3> QED BY <3>4
  <2>3. T \in SUBSET Nat /\ 0 \in T /\ \A n \in T : n + 1 \in T
    BY <2>1, <2>2
  <2>4. T = Nat
    BY <2>3, ClosedSet
  <2> QED BY <1>1, <2>4
<1>3. ASSUME NEW f, Sums(w, N, f) PROVE f[N] \in Nat
  <2> DEFINE T == {i \in Nat : i <= N => f[i] \in Nat}
  <2>1. \A i \in 0..N : f[i] = IF i = 0 THEN 0 ELSE f[i - 1] + Weight[Serves[w][i]]
    BY <1>3 DEF Sums
  <2>2. 0 \in T
    BY <1>1, <2>1
  <2>3. \A i \in T : i + 1 \in T
    <3> SUFFICES ASSUME NEW i \in T, i + 1 <= N PROVE f[i + 1] \in Nat
      OBVIOUS
    <3>1. f[i + 1] = f[i] + Weight[Serves[w][i + 1]]
      BY <1>1, <2>1
    <3>2. f[i] \in Nat /\ Weight[Serves[w][i + 1]] \in Nat
      BY <1>1
    <3> QED BY <3>1, <3>2
  <2>4. T = Nat
    <3> T \in SUBSET Nat
      OBVIOUS
    <3> QED BY <2>2, <2>3, ClosedSet
  <2> QED BY <1>1, <2>4
<1> HIDE DEF N
<1>4. TotalWeight(w) = (CHOOSE sum : Sums(w, N, sum))[N]
  BY DEF TotalWeight, Sums, N
<1>5. Sums(w, N, CHOOSE sum : Sums(w, N, sum))
  BY <1>2
<1> QED BY <1>3, <1>4, <1>5

\* A queue's share of the free slots is a number, and never more than are left.
LEMMA ShareLimitBound ==
    ASSUME NEW w \in Workers, worker[w] \in Loop
    PROVE  ShareLimit(w) \in Int /\ ShareLimit(w) <= worker[w].left
<1> DEFINE len == Len(Serves[w])
           turn == worker[w].round + worker[w].offset
<1>1. ShareQueue(w) \in QueueNames
  <2>1. len \in Nat \ {0} /\ \A i \in 1..len : Serves[w][i] \in QueueNames
    BY WorkerAssumption
  <2>2. turn \in Nat
    BY DEF Loop
  <2>3. 1 + (turn % len) \in 1..len
    <3> HIDE DEF len, turn
    <3> QED BY <2>1, <2>2
  <2> QED BY <2>1, <2>3 DEF ShareQueue
<1> DEFINE slots == worker[w].free * Weight[ShareQueue(w)]
           total == AtLeastOne(TotalWeight(w))
<1>2. slots \in Nat
  <2>1. Weight[ShareQueue(w)] \in Nat /\ worker[w].free \in Nat
    BY <1>1, WorkerAssumption DEF Loop
  <2> QED BY <2>1
<1>3. total \in Nat \ {0}
  BY TotalWeightType DEF AtLeastOne
<1>4. AtLeastOne(slots \div total) \in Int
  <2> HIDE DEF slots, total
  <2> QED BY <1>2, <1>3 DEF AtLeastOne
<1>5. worker[w].left \in Int
  BY DEF Loop
<1> QED BY <1>4, <1>5 DEF ShareLimit

-----------------------------------------------------------------------------
(* The steps of NextW, as the queue sees them and as the executions do *)

\* Tick apart, what a step of the fleet does to the queue: a step of the queue,
\* each settlement by an execution that ended that way.
FleetStep ==
    \/ \E j \in Jobs, delay \in 0..MaxDelay : Push(j, delay)
    \/ \E S \in SUBSET Jobs : Batch(S)
    \/ \E queues \in SUBSET QueueNames : Reclaim(queues)
    \/ \E L \in SUBSET held : Forget(L)
    \/ \E l \in held : Ack(l) /\ exec[l].stage = "ok"
    \/ \E l \in held : NackDead(l) \/ Heartbeat(l)
    \/ \E l \in held, delay \in 0..MaxDelay :
            NackRetry(l, delay) /\ exec[l].stage = "retry"
    \/ \E j \in Jobs : Cancel(j)
    \/ \E S \in SUBSET InState({"dead"}) : Retry(S)
    \/ UNCHANGED vars

\* Time passes in the middle of a lease, or a fault is spent on it.
FleetTick == Tick /\ (Timely \/ faults' = faults + 1)

\* Every step of the fleet is one or the other, and faults are only counted up.
LEMMA FleetSteps ==
    ASSUME TypeOKW, NextW
    PROVE  /\ FleetStep \/ FleetTick
           /\ faults' \in {faults, faults + 1}
<1> DEFINE Goal == /\ FleetStep \/ FleetTick
                   /\ faults' \in {faults, faults + 1}
<1>1. ASSUME NEW w \in Workers, Step(w) PROVE Goal
  <2>1. CASE Maintain(w)
    <3>1. {Serves[w][i] : i \in DOMAIN Serves[w]} \in SUBSET QueueNames
      BY WorkerAssumption
    <3> QED BY <2>1, <3>1, Zenon DEF Maintain, FleetStep, Calm
  <2>2. CASE PullShare(w)
    <3>1. PICK S \in Batches({ShareQueue(w)}, ShareLimit(w)) :
                  \E f \in TokenChoices(S) : Lease(S, f)
      BY <2>2, Zenon DEF PullShare
    <3>2. PICK f \in TokenChoices(S) : Lease(S, f)
      BY <3>1
    <3>3. S \in SUBSET Jobs /\ Batch(S)
      BY <3>2, BatchesAre
    <3> QED BY <2>2, <3>3, Zenon DEF PullShare, FleetStep, Calm
  <2>3. CASE Exit(w) \/ Crash(w)
    <3>1. Forget(Mine(w)) /\ Mine(w) \in SUBSET held
      BY <2>3 DEF Exit, Crash, Gone, Forget, Mine
    <3> QED BY <2>3, <3>1 DEF Exit, Crash, FleetStep, Calm, Fault
  <2>4. CASE \/ BeginRound(w) \/ PullFails(w) \/ Spawn(w) \/ Signal(w) \/ Drain(w)
             \/ Drained(w) \/ GraceExpires(w) \/ UnwindExpires(w) \/ Restart(w)
    <3>1. UNCHANGED vars
      BY <2>4 DEF BeginRound, PullFails, Spawn, Signal, Drain, Drained, GraceExpires,
                  UnwindExpires, Restart, vars
    <3>2. faults' \in {faults, faults + 1}
      BY <2>4 DEF BeginRound, PullFails, Spawn, Signal, Drain, Drained, GraceExpires,
                  UnwindExpires, Restart, Calm, Fault
    <3> QED BY <3>1, <3>2 DEF FleetStep
  <2> QED BY <1>1, <2>1, <2>2, <2>3, <2>4 DEF Step
<1>2. ASSUME NEW l \in held, Execution(l) PROVE Goal
  <2>1. CASE \/ BodySucceeds(l) \/ BodyFails(l) \/ BodyFailsForGood(l)
             \/ BodyCancelled(l) \/ BodyPanics(l)
    <3>1. UNCHANGED vars /\ faults' \in {faults, faults + 1}
      BY <2>1 DEF BodySucceeds, BodyFails, BodyFailsForGood, BodyCancelled, BodyPanics,
                  BodyOver, Calm, Fault, vars
    <3> QED BY <3>1 DEF FleetStep
  <2>2. CASE Beat(l) \/ BodyBeats(l)
    BY <2>2 DEF Beat, BodyBeats, FleetStep, Calm
  <2>3. CASE BeatRefused(l) \/ BeatFails(l)
    <3>1. Forget({l}) \/ Forget({})
      BY <2>3 DEF BeatRefused, BeatFails, LoseHeart, Forget
    <3>2. faults' \in {faults, faults + 1}
      BY <2>3 DEF BeatRefused, BeatFails, Calm, Fault
    <3> QED BY <3>1, <3>2 DEF FleetStep
  <2>4. CASE ReportFails(l)
    <3>1. Forget({l})
      BY <2>4 DEF ReportFails, Drop, Forget
    <3> QED BY <2>4, <3>1 DEF ReportFails, FleetStep, Fault
  <2>5. CASE Report(l)
    <3>1. CASE Stale(l)
      <4>1. Forget({l})
        BY <3>1 DEF Stale, Forget
      <4> QED BY <2>5, <4>1 DEF Report, FleetStep, Calm
    <3>2. CASE ~Stale(l)
      <4>1. \/ Ack(l) /\ exec[l].stage = "ok"
            \/ \E delay \in 0..MaxDelay : NackRetry(l, delay) /\ exec[l].stage = "retry"
            \/ NackDead(l)
        BY <2>5, <3>2 DEF Report, Backoff
      <4> QED BY <2>5, <4>1 DEF Report, FleetStep, Calm
    <3> QED BY <3>1, <3>2
  <2> QED BY <1>2, <2>1, <2>2, <2>3, <2>4, <2>5 DEF Execution
<1>3. CASE TickTimely \/ TickStalled
  BY <1>3 DEF TickTimely, TickStalled, FleetTick, Calm, Fault
<1>4. CASE Environment
  BY <1>4 DEF Environment, Enqueue, OperatorAct, Filtered, FleetStep, Calm
<1> QED BY <1>1, <1>2, <1>3, <1>4 DEF NextW

\* A step of the fleet is a step of the queue, or leaves the queue alone.
LEMMA FleetIsQueue ==
    ASSUME TypeOKW, [NextW]_wvars
    PROVE  [QueueStep]_vars
<1>1. CASE NextW
  BY <1>1, FleetSteps DEF FleetStep, FleetTick, QueueStep
<1>2. CASE UNCHANGED wvars
  BY <1>2 DEF wvars, vars
<1> QED BY <1>1, <1>2

\* Changing the fields an execution may change leaves an execution, and the
\* other fields as they were.
LEMMA ExecUpdates ==
    ASSUME NEW e \in Exec, NEW s \in Stages, NEW b \in BOOLEAN, NEW c \in {"no", "yes", "drain"}
    PROVE  /\ [e EXCEPT !.stage = s] \in Exec
           /\ [e EXCEPT !.stage = s, !.beating = b] \in Exec
           /\ [e EXCEPT !.beating = b, !.cancel = c] \in Exec
           /\ [e EXCEPT !.cancel = c] \in Exec
BY DEF Exec

\* What a step may do to an execution that stays: never another owner or
\* attempt, never back to the queue of the round, never a new life after a
\* panic, and a retry only with attempts left.
Evolves(e, d, j) ==
    /\ d \in Exec
    /\ d.by = e.by /\ d.attempt = e.attempt
    /\ d.stage = "pulled" => e.stage = "pulled"
    /\ e.stage = "orphan" => d.stage = "orphan"
    /\ d.stage = "retry" => e.stage = "retry" \/ e.attempt < MaxAttempts[j]

\* The executions after a step: those that stay evolve, new ones were pulled.
ExecStep ==
    /\ exec' = [l \in held' |-> exec'[l]]
    /\ \A l \in held \intersect held' : Evolves(exec[l], exec'[l], l[1])
    /\ \A l \in held' \ held : \E w \in Workers : exec'[l] = Pulled(w, l[1])

LEMMA ExecSteps ==
    ASSUME TypeOKW, NextW
    PROVE  ExecStep
<1>0. /\ exec \in [held -> Exec]
      /\ \A l \in held : exec[l] \in Exec
      /\ \A j \in Jobs : rows[j].attempt \in Nat
  BY DEF TypeOKW, TypeOK, Row
\* An execution that does not change evolves.
<1>a. \A l \in held : Evolves(exec[l], exec[l], l[1])
  BY <1>0 DEF Evolves
<1>b. ASSUME held' \subseteq held, exec' = [k \in held' |-> exec[k]] PROVE ExecStep
  BY <1>a, <1>b DEF ExecStep
<1>c. ASSUME UNCHANGED <<held, exec>> PROVE ExecStep
  BY <1>0, <1>b, <1>c
<1>d. ASSUME NEW l \in held, NEW d, Evolves(exec[l], d, l[1]),
             exec' = [exec EXCEPT ![l] = d], UNCHANGED held
      PROVE  ExecStep
  BY <1>0, <1>a, <1>d DEF ExecStep
<1>1. ASSUME NEW w \in Workers, Step(w) PROVE ExecStep
  <2>1. CASE PullShare(w)
    <3>1. PICK S \in Batches({ShareQueue(w)}, ShareLimit(w)) :
                 \E f \in TokenChoices(S) :
                    /\ Lease(S, f)
                    /\ exec' = [l \in held' |-> IF l \in held THEN exec[l] ELSE Pulled(w, l[1])]
      BY <2>1, Zenon DEF PullShare
    <3>2. held \subseteq held'
      BY <3>1 DEF Lease
    <3> QED BY <1>a, <3>1, <3>2 DEF ExecStep
  <2>2. CASE Spawn(w)
    <3> DEFINE d(l) == IF exec[l].by = w /\ exec[l].stage = "pulled"
                       THEN IF NameOf[l[1]] \in Knows[w]
                            THEN [exec[l] EXCEPT !.stage = "body", !.beating = TRUE]
                            ELSE [exec[l] EXCEPT !.stage = "dead"]
                       ELSE exec[l]
    <3>1. \A l \in held : Evolves(exec[l], d(l), l[1])
      <4> TAKE l \in held
      <4>1. /\ [exec[l] EXCEPT !.stage = "body", !.beating = TRUE] \in Exec
            /\ [exec[l] EXCEPT !.stage = "dead"] \in Exec
        BY <1>0, ExecUpdates DEF Stages
      <4> QED BY <1>0, <1>a, <4>1 DEF Evolves, Exec
    <3>2. exec' = [l \in held |-> d(l)] /\ UNCHANGED held
      BY <2>2 DEF Spawn
    <3> QED BY <3>1, <3>2, Zenon DEF ExecStep
  <2>3. CASE GraceExpires(w)
    <3> DEFINE c(l) == IF w \in Requeues THEN CancelForDrain(exec[l].cancel)
                       ELSE CancelJob(exec[l].cancel)
               d(l) == IF Cancelled(w, l) THEN [exec[l] EXCEPT !.cancel = c(l)] ELSE exec[l]
    <3>1. \A l \in held : Evolves(exec[l], d(l), l[1])
      <4> TAKE l \in held
      <4>1. c(l) \in {"no", "yes", "drain"}
        BY <1>0 DEF CancelForDrain, CancelJob
      <4> HIDE DEF c
      <4>2. [exec[l] EXCEPT !.cancel = c(l)] \in Exec
        <5>1. \A x \in {"no", "yes", "drain"} : [exec[l] EXCEPT !.cancel = x] \in Exec
          BY <1>0 DEF Exec
        <5> QED BY <4>1, <5>1, Zenon
      <4> QED BY <1>0, <1>a, <4>2 DEF Evolves, Exec
    <3>2. exec' = [l \in held |-> d(l)] /\ UNCHANGED held
      BY <2>3 DEF GraceExpires
    <3> QED BY <3>1, <3>2, Zenon DEF ExecStep
  <2>4. CASE Exit(w) \/ Crash(w)
    BY <1>b, <2>4 DEF Exit, Crash, Gone
  <2>5. CASE \/ Maintain(w) \/ BeginRound(w) \/ PullFails(w) \/ Signal(w) \/ Drain(w)
             \/ Drained(w) \/ UnwindExpires(w) \/ Restart(w)
    BY <1>c, <2>5 DEF Maintain, Reclaim, BeginRound, PullFails, Signal, Drain, Drained,
                      UnwindExpires, Restart
  <2> QED BY <1>1, <2>1, <2>2, <2>3, <2>4, <2>5 DEF Step
<1>2. ASSUME NEW l \in held, Execution(l) PROVE ExecStep
  <2>1. ASSUME NEW s \in {"ok", "retry", "dead"}, BodyOver(l, s),
               s = "retry" => exec[l].attempt < MaxAttempts[l[1]]
        PROVE  ExecStep
    <3> DEFINE d == [exec[l] EXCEPT !.stage = s, !.beating = FALSE]
    <3>1. Evolves(exec[l], d, l[1])
      <4>1. d \in Exec
        BY <1>0, ExecUpdates DEF Stages
      <4> QED BY <1>0, <2>1, <4>1 DEF Evolves, Exec, BodyOver
    <3>2. exec' = [exec EXCEPT ![l] = d] /\ UNCHANGED held
      BY <2>1 DEF BodyOver, Becomes
    <3> HIDE DEF d
    <3> QED BY <1>d, <3>1, <3>2
  <2>2. CASE BodySucceeds(l) \/ BodyFails(l) \/ BodyFailsForGood(l) \/ BodyCancelled(l)
    <3>1. /\ RetryOrDead(l) \in {"ok", "retry", "dead"}
          /\ RetryOrDead(l) = "retry" => exec[l].attempt < MaxAttempts[l[1]]
      <4>1. exec[l].attempt \in Nat /\ MaxAttempts[l[1]] \in Nat
        BY <1>0, AttemptAssumption DEF Exec, TypeOKW, TypeOK
      <4> QED BY <4>1 DEF RetryOrDead
    <3> QED BY <2>1, <2>2, <3>1 DEF BodySucceeds, BodyFails, BodyFailsForGood, BodyCancelled
  <2>3. CASE BodyPanics(l)
    <3> DEFINE d == [exec[l] EXCEPT !.stage = "orphan"]
    <3>1. Evolves(exec[l], d, l[1])
      <4>1. d \in Exec
        BY <1>0, ExecUpdates DEF Stages
      <4> QED BY <1>0, <4>1 DEF Evolves, Exec
    <3>2. exec' = [exec EXCEPT ![l] = d] /\ UNCHANGED held
      BY <2>3 DEF BodyPanics, Becomes
    <3> HIDE DEF d
    <3> QED BY <1>d, <3>1, <3>2
  <2>4. CASE BeatRefused(l) \/ BeatFails(l)
    <3>0. LoseHeart(l)
      BY <2>4 DEF BeatRefused, BeatFails
    <3>1. CASE exec[l].stage = "orphan"
      BY <1>b, <3>0, <3>1 DEF LoseHeart
    <3>2. CASE exec[l].stage # "orphan"
      <4> DEFINE c == CancelJob(exec[l].cancel)
                 d == [exec[l] EXCEPT !.beating = FALSE, !.cancel = c]
      <4>1. c \in {"no", "yes", "drain"}
        BY <1>0 DEF CancelJob
      <4> HIDE DEF c
      <4>2. d \in Exec
        <5>1. \A x \in {"no", "yes", "drain"} :
                [exec[l] EXCEPT !.beating = FALSE, !.cancel = x] \in Exec
          BY <1>0 DEF Exec
        <5> QED BY <4>1, <5>1, Zenon
      <4>3. Evolves(exec[l], d, l[1])
        BY <1>0, <4>2 DEF Evolves, Exec
      <4>4. exec' = [exec EXCEPT ![l] = d] /\ UNCHANGED held
        BY <3>0, <3>2 DEF LoseHeart, Becomes, c
      <4> HIDE DEF d
      <4> QED BY <1>d, <4>3, <4>4
    <3> QED BY <3>1, <3>2
  <2>5. CASE Beat(l) \/ BodyBeats(l)
    BY <1>c, <2>5 DEF Beat, BodyBeats, Heartbeat
  <2>6. CASE Report(l) \/ ReportFails(l)
    <3>1. held' \subseteq held
      BY <2>6 DEF Report, ReportFails, Ack, Stale, NackRetry, NackDead, Drop
    <3>2. exec' = [k \in held' |-> exec[k]]
      BY <2>6 DEF Report, ReportFails, Finished
    <3> QED BY <1>b, <3>1, <3>2
  <2> QED BY <1>2, <2>2, <2>3, <2>4, <2>5, <2>6 DEF Execution
<1>3. CASE TickTimely \/ TickStalled \/ Environment
  BY <1>3, <1>c DEF TickTimely, TickStalled, Tick, Environment, Enqueue, OperatorAct,
                    Push, Cancel, Retry
<1> QED BY <1>1, <1>2, <1>3 DEF NextW

-----------------------------------------------------------------------------
(* Types *)

\* The leases of a batch are as many as its rows.
LEMMA Granted ==
    ASSUME NEW S \in SUBSET Jobs, NEW f
    PROVE  /\ IsFiniteSet(S) /\ Cardinality(S) \in Nat
           /\ IsFiniteSet({<<j, f[j]>> : j \in S})
           /\ Cardinality({<<j, f[j]>> : j \in S}) <= Cardinality(S)
<1> DEFINE T == {<<j, f[j]>> : j \in S}
           g == [j \in S |-> <<j, f[j]>>]
<1>1. IsFiniteSet(S) /\ Cardinality(S) \in Nat
  BY JobsAssumption, FS_Subset, FS_CardinalityType
<1>2. g \in Surjection(S, T)
  BY DEF Surjection
<1> QED BY <1>1, <1>2, FS_Surjection

\* Finitely many leases are out at any time.
LEMMA HeldFinite ==
    ASSUME TypeOKW, NextW, IsFiniteSet(held)
    PROVE  IsFiniteSet(held')
<1>1. ASSUME NEW S \in SUBSET Jobs, Batch(S) PROVE IsFiniteSet(held')
  <2>1. PICK f \in TokenChoices(S) : Lease(S, f)
    BY <1>1 DEF Batch
  <2>2. held' = held \union {<<j, f[j]>> : j \in S}
    BY <2>1 DEF Lease
  <2> QED BY <2>2, Granted, FS_Union
<1>2. CASE held' \subseteq held
  BY <1>2, FS_Subset
<1>3. (\E S \in SUBSET Jobs : Batch(S)) \/ held' \subseteq held
  BY FleetSteps DEF FleetStep, FleetTick, Tick, Push, Reclaim, Forget, Ack, NackDead,
                    Heartbeat, NackRetry, Cancel, Retry, vars
<1> QED BY <1>1, <1>2, <1>3

\* The free permits of a worker are a number.
LEMMA PermitsType ==
    ASSUME TypeOKW, IsFiniteSet(held), NEW w \in Workers
    PROVE  /\ IsFiniteSet(OnPermit(w)) /\ Cardinality(OnPermit(w)) \in Nat
           /\ FreePermits(w) \in Int
<1>1. OnPermit(w) \in SUBSET held
  BY DEF OnPermit, Mine
<1>2. IsFiniteSet(OnPermit(w)) /\ Cardinality(OnPermit(w)) \in Nat
  BY <1>1, FS_Subset, FS_CardinalityType
<1> QED BY <1>2, WorkerAssumption DEF FreePermits

\* What a step does to the loops: at most one of them moves, to a loop again.
LEMMA LoopsType ==
    ASSUME TypeOKW, IsFiniteSet(held), NextW
    PROVE  worker' \in [Workers -> Loop]
<1>0. worker \in [Workers -> Loop] /\ \A w \in Workers : worker[w] \in Loop
  BY DEF TypeOKW
<1>a. ASSUME NEW w \in Workers, NEW r \in Loop, Set(w, r) PROVE worker' \in [Workers -> Loop]
  BY <1>0, <1>a DEF Set
<1>1. ASSUME NEW w \in Workers, Step(w) PROVE worker' \in [Workers -> Loop]
  <2>1. CASE BeginRound(w)
    <3>1. FreePermits(w) \in Nat
      BY <2>1, PermitsType DEF BeginRound
    <3>2. \A n \in Nat : [worker[w] EXCEPT !.phase = "pulling", !.offset = 0,
                                           !.free = n, !.left = n] \in Loop
      BY <1>0 DEF Loop
    <3> QED BY <1>a, <2>1, <3>1, <3>2, Zenon DEF BeginRound
  <2>2. CASE PullShare(w)
    <3>1. PICK S \in Batches({ShareQueue(w)}, ShareLimit(w)) :
                 Set(w, [worker[w] EXCEPT !.offset = @ + 1, !.left = @ - Cardinality(S)])
      BY <2>2, Zenon DEF PullShare
    <3>2. S \in SUBSET Jobs /\ Cardinality(S) <= ShareLimit(w)
      BY DEF Batches, Leasable, InState
    <3>3. worker[w].left - Cardinality(S) \in Nat
      <4>1. Cardinality(S) \in Nat
        BY <3>2, Granted
      <4>2. worker[w].left \in Nat
        BY <1>0 DEF Loop
      <4> QED BY <1>0, <3>2, <4>1, <4>2, ShareLimitBound
    <3>4. \A m, n \in Nat : [worker[w] EXCEPT !.offset = m, !.left = n] \in Loop
      BY <1>0 DEF Loop
    <3>5. worker[w].offset + 1 \in Nat
      BY <1>0 DEF Loop
    <3> QED BY <1>a, <3>1, <3>3, <3>4, <3>5, Zenon
  <2>3. CASE PullFails(w)
    <3>1. \A m \in Nat : [worker[w] EXCEPT !.offset = m] \in Loop
      BY <1>0 DEF Loop
    <3>2. worker[w].offset + 1 \in Nat
      BY <1>0 DEF Loop
    <3> QED BY <1>a, <2>3, <3>1, <3>2, Zenon DEF PullFails
  <2>4. CASE Spawn(w)
    <3>1. (worker[w].round + 1) % Len(Serves[w]) \in Nat
      <4>1. Len(Serves[w]) \in Nat \ {0}
        BY WorkerAssumption
      <4>2. worker[w].round + 1 \in Nat
        BY <1>0 DEF Loop
      <4> QED BY <4>1, <4>2
    <3>2. \A n \in Nat : [worker[w] EXCEPT !.phase = "loop", !.round = n] \in Loop
      BY <1>0 DEF Loop
    <3> QED BY <1>a, <2>4, <3>1, <3>2, Zenon DEF Spawn
  <2>5. CASE Signal(w)
    <3>1. [worker[w] EXCEPT !.stopping = TRUE] \in Loop
      BY <1>0 DEF Loop
    <3> QED BY <1>a, <2>5, <3>1 DEF Signal
  <2>6. CASE Drain(w) \/ Drained(w) \/ GraceExpires(w) \/ UnwindExpires(w)
    <3>1. PICK s \in {"exiting", "draining", "unwinding"} :
                 Set(w, [worker[w] EXCEPT !.phase = s])
      BY <2>6, Zenon DEF Drain, Drained, GraceExpires, UnwindExpires, LoopMoves
    <3>2. [worker[w] EXCEPT !.phase = s] \in Loop
      BY <1>0 DEF Loop
    <3> QED BY <1>a, <3>1, <3>2
  <2>7. CASE Exit(w) \/ Crash(w) \/ Restart(w)
    <3>1. Started \in Loop /\ [Started EXCEPT !.phase = "gone"] \in Loop
      BY DEF Started, Loop
    <3> QED BY <1>a, <2>7, <3>1 DEF Exit, Crash, Restart, Gone
  <2>8. CASE Maintain(w)
    BY <1>0, <2>8 DEF Maintain, workerVars
  <2> QED BY <1>1, <2>1, <2>2, <2>3, <2>4, <2>5, <2>6, <2>7, <2>8 DEF Step
<1>2. ASSUME NEW l \in held, Execution(l) PROVE UNCHANGED worker
  BY <1>2 DEF Execution, BodySucceeds, BodyFails, BodyFailsForGood, BodyCancelled, BodyOver,
              BodyPanics, Beat, BodyBeats, BeatRefused, BeatFails, LoseHeart, Report,
              ReportFails, Finished, workerVars
<1>3. CASE TickTimely \/ TickStalled \/ Environment
  BY <1>0, <1>3 DEF TickTimely, TickStalled, Environment, workerVars
<1> QED BY <1>0, <1>1, <1>2, <1>3 DEF NextW

\* The in-flight maps name tokens.
LEMMA InflightType ==
    ASSUME TypeOKW, NextW
    PROVE  inflight' \in [Workers -> [Jobs -> Tokens \union {NoToken}]]
<1> DEFINE Map == [Jobs -> Tokens \union {NoToken}]
<1>0. /\ inflight \in [Workers -> Map]
      /\ held \subseteq Jobs \X Tokens
      /\ exec \in [held -> Exec]
  BY DEF TypeOKW, TypeOK
<1>1. ASSUME NEW w \in Workers, Step(w) PROVE inflight' \in [Workers -> Map]
  <2>1. CASE Spawn(w)
    <3> DEFINE batch == {l \in Mine(w) : exec[l].stage = "pulled"}
               m == [j \in Jobs |-> IF \E l \in batch : l[1] = j
                                    THEN (CHOOSE l \in batch : l[1] = j)[2]
                                    ELSE inflight[w][j]]
    <3>1. m \in Map
      <4> SUFFICES ASSUME NEW j \in Jobs PROVE m[j] \in Tokens \union {NoToken}
        OBVIOUS
      <4>1. batch \subseteq Jobs \X Tokens
        BY <1>0 DEF Mine
      <4>2. ASSUME NEW k \in batch, k[1] = j
            PROVE  (CHOOSE l \in batch : l[1] = j) \in batch
        BY <4>2
      <4>3. inflight[w][j] \in Tokens \union {NoToken}
        BY <1>0
      <4> HIDE DEF batch
      <4> QED BY <4>1, <4>2, <4>3
    <3>2. inflight' = [inflight EXCEPT ![w] = m]
      BY <2>1, Zenon DEF Spawn
    <3> HIDE DEF m
    <3> QED BY <1>0, <3>1, <3>2
  <2>2. CASE Exit(w) \/ Crash(w)
    BY <1>0, <2>2 DEF Exit, Crash, Gone
  <2>3. CASE UNCHANGED inflight
    BY <1>0, <2>3
  <2> QED BY <1>1, <2>1, <2>2, <2>3 DEF Step, Maintain, BeginRound, PullShare, PullFails,
             Signal, Drain, Drained, GraceExpires, UnwindExpires, Restart, workerVars
<1>2. ASSUME NEW l \in held, Execution(l) PROVE inflight' \in [Workers -> Map]
  <2>1. CASE Report(l) \/ ReportFails(l)
    <3>1. inflight' = [inflight EXCEPT ![exec[l].by][l[1]] = NoToken]
      BY <2>1 DEF Report, ReportFails, Finished
    <3>2. exec[l].by \in Workers /\ l[1] \in Jobs
      BY <1>0 DEF Exec
    <3> QED BY <1>0, <3>1, <3>2
  <2>2. CASE UNCHANGED inflight
    BY <1>0, <2>2
  <2> QED BY <1>2, <2>1, <2>2 DEF Execution, BodySucceeds, BodyFails, BodyFailsForGood,
             BodyCancelled, BodyOver, BodyPanics, Beat, BodyBeats, BeatRefused, BeatFails,
             LoseHeart, workerVars
<1>3. CASE TickTimely \/ TickStalled \/ Environment
  BY <1>0, <1>3 DEF TickTimely, TickStalled, Environment, workerVars
<1> QED BY <1>1, <1>2, <1>3 DEF NextW

\* Faults and deployments stay within their bounds.
LEMMA Bounded ==
    ASSUME TypeOKW, NextW
    PROVE  faults' \in 0..MaxFaults /\ deploys' \in 0..MaxDeploys
<1>0. faults \in 0..MaxFaults /\ deploys \in 0..MaxDeploys
  BY DEF TypeOKW
<1> DEFINE Counts == \/ UNCHANGED <<faults, deploys>>
                     \/ Fault /\ UNCHANGED deploys
                     \/ deploys < MaxDeploys /\ deploys' = deploys + 1 /\ UNCHANGED faults
<1>1. Counts
  <2>1. ASSUME NEW w \in Workers, Step(w) PROVE Counts
    BY <2>1 DEF Step, Maintain, BeginRound, PullShare, PullFails, Spawn, Signal, Drain,
                Drained, GraceExpires, UnwindExpires, Exit, Crash, Restart, Calm
  <2>2. ASSUME NEW l \in held, Execution(l) PROVE Counts
    BY <2>2 DEF Execution, BodySucceeds, BodyFails, BodyFailsForGood, BodyCancelled, BodyOver,
                BodyPanics, Beat, BodyBeats, BeatRefused, BeatFails, Report, ReportFails, Calm
  <2>3. CASE TickTimely \/ TickStalled \/ Environment
    BY <2>3 DEF TickTimely, TickStalled, Environment, Calm
  <2> QED BY <2>1, <2>2, <2>3 DEF NextW
<1> QED BY <1>0, <1>1, FaultAssumption DEF Fault

\* The types, and the finiteness of held that cardinalities need.
Typed == TypeOKW /\ IsFiniteSet(held)

LEMMA TypedInit ==
    ASSUME InitW
    PROVE  Typed
<1>1. held = {} /\ IsFiniteSet(held)
  BY FS_EmptySet DEF InitW, Init
<1>2. TypeOK
  BY DEF InitW, Init, TypeOK, Absent, Row, JobState, Unlocked
<1>3. exec \in [held -> Exec]
  BY <1>1 DEF InitW
<1>4. worker \in [Workers -> Loop]
  BY DEF InitW, Started, Loop
<1> QED BY <1>1, <1>2, <1>3, <1>4, FaultAssumption DEF InitW, TypeOKW, Typed

LEMMA TypedStep ==
    ASSUME Typed, [NextW]_wvars
    PROVE  Typed'
<1>1. CASE NextW
  <2>1. TypeOK'
    BY <1>1, FleetIsQueue, TypingStep DEF Typed, TypeOKW
  <2>2. exec' \in [held' -> Exec]
    <3>1. ExecStep
      BY <1>1, ExecSteps DEF Typed
    <3>2. ASSUME NEW l \in held' \ held PROVE exec'[l] \in Exec
      <4>1. PICK w \in Workers : exec'[l] = Pulled(w, l[1])
        BY <3>1, <3>2 DEF ExecStep
      <4>2. rows[l[1]].attempt \in Nat
        BY <2>1 DEF Typed, TypeOKW, TypeOK, Row
      <4> QED BY <4>1, <4>2 DEF Pulled, Exec, Stages
    <3> QED BY <3>1, <3>2 DEF ExecStep, Evolves
  <2>3. worker' \in [Workers -> Loop]
    BY <1>1, LoopsType DEF Typed
  <2> QED BY <1>1, <2>1, <2>2, <2>3, InflightType, Bounded, HeldFinite DEF Typed, TypeOKW
<1>2. CASE UNCHANGED wvars
  BY <1>2 DEF wvars, Typed, TypeOKW, TypeOK
<1> QED BY <1>1, <1>2

\* The queue under the fleet keeps its types and its coherence: the fleet is
\* one of the clients MemoryQueue allows.
LEMMA FleetBase == SpecW => [](Typed /\ LeaseCoherent)
<1>1. InitW => Typed /\ LeaseCoherent
  BY TypedInit DEF InitW, Init, LeaseCoherent, Absent
<1>2. Typed /\ LeaseCoherent /\ [NextW]_wvars => (Typed /\ LeaseCoherent)'
  <2> SUFFICES ASSUME Typed, LeaseCoherent, [NextW]_wvars PROVE Typed' /\ LeaseCoherent'
    OBVIOUS
  <2>1. TypeOK /\ [QueueStep]_vars
    BY FleetIsQueue DEF Typed, TypeOKW
  <2> QED BY <2>1, TypedStep, CoherenceStep
<1> QED BY <1>1, <1>2, PTL DEF SpecW

\* A fleet of workers keeps the promise of the Queue trait as the memory
\* backend alone does: the settlements, drops and reclaims of the workers are
\* steps of the trait.
THEOREM FleetImplements == SpecW => ImplementsLeaseQueue
<1>1. InitW => LQ!Init
  BY DEF InitW, Init, LQ!Init, Absent, Phase, Waiting
<1>2. Typed /\ LeaseCoherent /\ [NextW]_wvars => [LQ!Next]_LQ!vars
  BY FleetIsQueue, StepSimulation DEF Typed, TypeOKW
<1> QED BY <1>1, <1>2, FleetBase, PTL DEF SpecW, ImplementsLeaseQueue, LQ!Spec

-----------------------------------------------------------------------------
(* No overlap without a fault *)

\* While nothing has failed a lease in a worker's hands is current and has
\* time left, or its row was cancelled; and two leases are on different rows,
\* of different serial types unless one of the rows was cancelled.  Bodies
\* alone will not do: a lease counts from its pull to its settlement.
Kept(l) == \/ Current(l) /\ rows[l[1]].leaseLeft > 0
           \/ rows[l[1]].state = "cancelled"

Apart(k, l) ==
    /\ k[1] # l[1]
    /\ SameSerial(k[1], l[1]) => \E i \in {k[1], l[1]} : rows[i].state = "cancelled"

Exclusive ==
    faults = 0 => /\ \A l \in held : Kept(l)
                  /\ \A k, l \in held : k = l \/ Apart(k, l)

\* A step that hands out no lease and neither ends nor shortens a kept lease
\* below one tick keeps leases exclusive.
LEMMA ExclusiveIfKept ==
    ASSUME TypeOK, LeaseCoherent, QueueStep, held' \subseteq held,
           \A l \in held : Kept(l),
           \A k, l \in held : k = l \/ Apart(k, l),
           \A l \in held' : Current(l) /\ rows[l[1]].leaseLeft > 0 => Kept(l)'
    PROVE  /\ \A l \in held' : Kept(l)'
           /\ \A k, l \in held' : k = l \/ Apart(k, l)'
<1>1. ASSUME NEW j \in Jobs, rows[j].state = "cancelled" PROVE rows'[j].state = "cancelled"
  BY <1>1, FinalityStep DEF Settled
<1>2. \A l \in held : l[1] \in Jobs
  BY DEF TypeOK
<1>3. ASSUME NEW l \in held' PROVE Kept(l)'
  BY <1>1, <1>2 DEF Kept
<1>4. ASSUME NEW k \in held', NEW l \in held', k # l PROVE Apart(k, l)'
  <2>1. Apart(k, l)
    BY <1>4
  <2> QED BY <1>1, <1>2, <2>1 DEF Apart, SameSerial
<1> QED BY <1>3, <1>4

\* A pull leases waiting rows, whose serial type has no live lease: no lease in
\* a worker's hands is on one of them, or on their type.
LEMMA ExclusiveBatch ==
    ASSUME TypeOK, LeaseCoherent, NEW S \in SUBSET Jobs, Batch(S),
           \A l \in held : Kept(l),
           \A k, l \in held : k = l \/ Apart(k, l)
    PROVE  /\ \A l \in held' : Kept(l)'
           /\ \A k, l \in held' : k = l \/ Apart(k, l)'
<1>1. PICK f \in TokenChoices(S) : Lease(S, f)
  BY DEF Batch
<1>2. /\ \A j \in S : rows'[j].state = "running" /\ rows'[j].token = f[j]
      /\ \A j \in Jobs \ S : rows'[j] = rows[j]
      /\ held' = held \union {<<j, f[j]>> : j \in S}
  BY <1>1, BatchLocks
<1>3. \A j \in S : rows'[j].leaseLeft = LeaseLen /\ LeaseLen > 0
  <2> TAKE j \in S
  <2>1. rows'[j] = [rows[j] EXCEPT !.state = "running", !.token = f[j], !.leaseLeft = LeaseLen]
    BY <1>1 DEF Lease
  <2>2. rows[j] \in Row
    BY DEF TypeOK
  <2> QED BY <2>1, <2>2, BoundAssumption DEF Row
<1>4. /\ \A j \in S : rows[j].state \in Waiting /\ ~SerialBusy(j)
      /\ \A i, j \in S : SameSerial(i, j) => i = j
  BY DEF Batch, InState
<1>5. ASSUME NEW l \in held
      PROVE  /\ l[1] \in Jobs \ S
             /\ \/ rows[l[1]].state = "cancelled"
                \/ rows[l[1]].state = "running" /\ rows[l[1]].leaseLeft > 0
  <2>1. l[1] \in Jobs
    BY DEF TypeOK
  <2>2. CASE Current(l) /\ rows[l[1]].leaseLeft > 0
    <3>1. rows[l[1]].state = "running"
      BY <2>2, CurrentRuns
    <3> QED BY <1>4, <2>1, <2>2, <3>1 DEF Waiting
  <2>3. CASE rows[l[1]].state = "cancelled"
    BY <1>4, <2>1, <2>3 DEF Waiting
  <2> QED BY <2>2, <2>3 DEF Kept
<1>6. ASSUME NEW l \in held, NEW j \in S
      PROVE  /\ l[1] # j
             /\ SameSerial(l[1], j) => rows[l[1]].state = "cancelled"
             /\ SameSerial(j, l[1]) => rows[l[1]].state = "cancelled"
  <2>1. ~SerialBusy(j)
    BY <1>4
  <2>2. SameSerial(l[1], j) <=> SameSerial(j, l[1])
    BY DEF SameSerial
  <2>3. l[1] # j
    BY <1>5
  <2> QED BY <1>5, <2>1, <2>2, <2>3 DEF SerialBusy, InState
<1>7. ASSUME NEW l \in held' PROVE Kept(l)'
  <2>1. CASE l \in held
    BY <1>2, <1>5, <2>1 DEF Kept, Current
  <2>2. CASE l \notin held
    <3>1. PICK j \in S : l = <<j, f[j]>>
      BY <1>2, <2>2
    <3> QED BY <1>2, <1>3, <3>1 DEF Kept, Current
  <2> QED BY <2>1, <2>2
<1>8. ASSUME NEW k \in held', NEW l \in held', k # l PROVE Apart(k, l)'
  <2>1. CASE k \in held /\ l \in held
    <3>1. Apart(k, l)
      BY <1>8, <2>1
    <3> QED BY <1>2, <1>5, <2>1, <3>1 DEF Apart, SameSerial
  <2>2. CASE k \in held /\ l \notin held
    <3>1. PICK j \in S : l = <<j, f[j]>>
      BY <1>2, <2>2
    <3> QED BY <1>2, <1>5, <1>6, <2>2, <3>1 DEF Apart, SameSerial
  <2>3. CASE k \notin held /\ l \in held
    <3>1. PICK j \in S : k = <<j, f[j]>>
      BY <1>2, <2>3
    <3> QED BY <1>2, <1>5, <1>6, <2>3, <3>1 DEF Apart, SameSerial
  <2>4. CASE k \notin held /\ l \notin held
    <3>1. PICK i \in S : k = <<i, f[i]>>
      BY <1>2, <2>4
    <3>2. PICK j \in S : l = <<j, f[j]>>
      BY <1>2, <2>4
    <3> QED BY <1>4, <1>8, <3>1, <3>2 DEF Apart, SameSerial
  <2> QED BY <2>1, <2>2, <2>3, <2>4
<1> QED BY <1>7, <1>8

\* Only a late tick, which is a fault, takes the last tick of a kept lease.
LEMMA ExclusiveStep ==
    ASSUME Typed, LeaseCoherent, Exclusive, [NextW]_wvars
    PROVE  Exclusive'
<1>0. /\ TypeOK /\ rows \in [Jobs -> Row]
      /\ \A j \in Jobs : rows[j] \in Row
      /\ \A l \in held : l[1] \in Jobs
      /\ faults \in Nat
  BY FaultAssumption DEF Typed, TypeOKW, TypeOK
<1>1. CASE UNCHANGED wvars
  BY <1>1 DEF wvars, Exclusive, Kept, Current, Apart, SameSerial
<1>2. CASE NextW
  <2> SUFFICES ASSUME faults' = 0
               PROVE  /\ \A l \in held' : Kept(l)'
                      /\ \A k, l \in held' : k = l \/ Apart(k, l)'
    BY DEF Exclusive, Apart
  <2>0. /\ faults = 0
        /\ FleetStep \/ (Tick /\ Timely)
    BY <1>0, <1>2, FleetSteps DEF Typed, FleetTick
  <2>1. /\ \A l \in held : Kept(l)
        /\ \A k, l \in held : k = l \/ Apart(k, l)
    BY <2>0 DEF Exclusive
  <2> DEFINE Frugal == /\ held' \subseteq held
                       /\ \A l \in held' : Current(l) /\ rows[l[1]].leaseLeft > 0 => Kept(l)'
  <2>2. ASSUME NEW j \in Jobs, NEW delay \in 0..MaxDelay, Push(j, delay) PROVE Frugal
    <3>1. \A l \in held : Current(l) => l[1] # j
      BY <2>2, <1>0, CurrentRuns DEF Push
    <3> QED BY <2>2, <3>1, <1>0 DEF Push, Kept, Current
  <2>3. ASSUME NEW queues \in SUBSET QueueNames, Reclaim(queues) PROVE Frugal
    <3>1. \A l \in held : rows[l[1]].leaseLeft > 0 => l[1] \notin Expired(queues)
      BY <1>0 DEF Expired, Row
    <3> QED BY <1>0, <2>3, <3>1 DEF Reclaim, Kept, Current
  <2>4. ASSUME NEW L \in SUBSET held, Forget(L) PROVE Frugal
    BY <2>4 DEF Forget, Kept, Current
  <2>5. ASSUME NEW k \in held,
               \/ Ack(k) \/ NackDead(k)
               \/ \E delay \in 0..MaxDelay : NackRetry(k, delay)
        PROVE  Frugal
    <3>1. /\ held' = held \ {k}
          /\ \A j \in Jobs \ {k[1]} : rows'[j] = rows[j]
      BY <1>0, <2>5 DEF Ack, NackDead, NackRetry
    <3>2. \A l \in held' : l[1] # k[1]
      BY <2>1, <3>1 DEF Apart
    <3> QED BY <1>0, <3>1, <3>2 DEF Kept, Current
  <2>6. ASSUME NEW k \in held, Heartbeat(k) PROVE Frugal
    <3>1. \A j \in Jobs : rows'[j].token = rows[j].token
      BY <1>0, <2>6 DEF Heartbeat, Row
    <3>2. \A j \in Jobs \ {k[1]} : rows'[j] = rows[j]
      BY <1>0, <2>6 DEF Heartbeat
    <3>3. rows'[k[1]].leaseLeft > 0
      BY <1>0, <2>6, BoundAssumption DEF Heartbeat, Row
    <3> QED BY <1>0, <2>6, <3>1, <3>2, <3>3 DEF Heartbeat, Kept, Current
  <2>7. ASSUME NEW j \in Jobs, Cancel(j) PROVE Frugal
    <3>1. rows'[j].state = "cancelled"
      BY <1>0, <2>7, UnlockFields DEF Cancel
    <3>2. \A i \in Jobs \ {j} : rows'[i] = rows[i]
      BY <1>0, <2>7 DEF Cancel
    <3> QED BY <1>0, <2>7, <3>1, <3>2 DEF Cancel, Kept, Current
  <2>8. ASSUME NEW S \in SUBSET InState({"dead"}), Retry(S) PROVE Frugal
    <3>1. \A l \in held : Current(l) => l[1] \notin S
      BY CurrentRuns, <1>0 DEF InState
    <3> QED BY <1>0, <2>8, <3>1 DEF Retry, Kept, Current
  <2>9. ASSUME Tick, Timely PROVE Frugal
    <3>1. ASSUME NEW l \in held, Current(l), rows[l[1]].leaseLeft > 0 PROVE Kept(l)'
      <4>1. rows[l[1]].leaseLeft \in Int /\ rows[l[1]].leaseLeft # 1
        BY <1>0, <2>9, <3>1 DEF Timely, Row
      <4> DEFINE left == IF rows[l[1]].leaseLeft >= 0 THEN rows[l[1]].leaseLeft - 1
                         ELSE rows[l[1]].leaseLeft
      <4>2. PICK m : rows'[l[1]] = [rows[l[1]] EXCEPT !.runIn = m, !.leaseLeft = left]
        BY <1>0, <2>9 DEF Tick
      <4>3. rows'[l[1]].token = rows[l[1]].token /\ rows'[l[1]].leaseLeft = left
        <5> HIDE DEF left
        <5> QED BY <1>0, <4>2 DEF Row
      <4>4. left > 0
        BY <3>1, <4>1
      <4> QED BY <3>1, <4>3, <4>4 DEF Kept, Current
    <3> QED BY <2>9, <3>1 DEF Tick
  <2>10. ASSUME UNCHANGED vars PROVE Frugal
    BY <2>10 DEF vars, Kept, Current
  <2>11. CASE \E S \in SUBSET Jobs : Batch(S)
    BY <1>0, <2>1, <2>11, ExclusiveBatch
  <2>12. CASE Frugal /\ QueueStep
    BY <1>0, <2>1, <2>12, ExclusiveIfKept
  <2>13. CASE UNCHANGED vars
    BY <2>1, <2>13 DEF vars, Kept, Current, Apart, SameSerial
  <2>14. \/ \E S \in SUBSET Jobs : Batch(S)
         \/ Frugal /\ (QueueStep \/ UNCHANGED vars)
    <3>1. (\E S \in SUBSET Jobs : Batch(S)) \/ Frugal
      BY <2>0, <2>2, <2>3, <2>4, <2>5, <2>6, <2>7, <2>8, <2>9, <2>10 DEF FleetStep
    <3>2. QueueStep \/ UNCHANGED vars
      BY <2>0 DEF FleetStep, QueueStep
    <3> QED BY <3>1, <3>2
  <2> QED BY <2>11, <2>12, <2>13, <2>14
<1> QED BY <1>1, <1>2

\* While nothing has crashed, stalled or lost the queue, no job has two bodies
\* and a serial type has one body in the whole fleet, cancelled rows aside.
THEOREM NoOverlap == SpecW => []NoOverlapWithoutFault
<1>1. InitW => Exclusive
  BY DEF InitW, Init, Exclusive
<1>2. Typed /\ LeaseCoherent /\ Exclusive /\ [NextW]_wvars => Exclusive'
  BY ExclusiveStep
<1>3. Exclusive => NoOverlapWithoutFault
  BY DEF Exclusive, NoOverlapWithoutFault, Bodies, Apart
<1> QED BY <1>1, <1>2, <1>3, FleetBase, PTL DEF SpecW

-----------------------------------------------------------------------------
(* Attempts *)

\* What a step does to the attempt counter of row j: nothing, a new count, or
\* one more by an execution that may retry, which gives up the lock.
Counted(j) ==
    \/ /\ rows'[j].attempt = rows[j].attempt
       /\ rows[j].state = "absent" => rows'[j].state = "absent"
    \/ rows'[j].attempt = 1 /\ rows'[j].token = NoToken
    \/ \E l \in held : /\ l[1] = j /\ Current(l)
                       /\ exec[l].stage = "retry"
                       /\ rows'[j].attempt = rows[j].attempt + 1
                       /\ rows'[j].token = NoToken

LEMMA AttemptSteps ==
    ASSUME TypeOK, LeaseCoherent, FleetStep \/ Tick
    PROVE  \A j \in Jobs : Counted(j)
<1> DEFINE Goal == \A j \in Jobs : Counted(j)
<1>0. /\ rows \in [Jobs -> Row]
      /\ \A j \in Jobs : rows[j] \in Row
      /\ \A l \in held : l[1] \in Jobs
  BY DEF TypeOK
<1>1. ASSUME NEW k \in Jobs, NEW delay \in 0..MaxDelay, Push(k, delay) PROVE Goal
  BY <1>0, <1>1 DEF Push, Counted
<1>2. ASSUME NEW S \in SUBSET Jobs, Batch(S) PROVE Goal
  <2>1. PICK f \in TokenChoices(S) : Lease(S, f)
    BY <1>2 DEF Batch
  <2>2. ASSUME NEW j \in S PROVE rows'[j].attempt = rows[j].attempt /\ rows[j].state # "absent"
    <3>1. rows'[j] = [rows[j] EXCEPT !.state = "running", !.token = f[j], !.leaseLeft = LeaseLen]
      BY <2>1 DEF Lease
    <3>2. rows[j].state \in Waiting
      BY <1>2 DEF Batch, InState
    <3> QED BY <1>0, <3>1, <3>2 DEF Row, Waiting
  <2>3. \A j \in Jobs \ S : rows'[j] = rows[j]
    BY <2>1 DEF Lease
  <2> QED BY <2>2, <2>3 DEF Counted
<1>3. ASSUME NEW queues \in SUBSET QueueNames, Reclaim(queues) PROVE Goal
  <2>1. ASSUME NEW j \in Expired(queues)
        PROVE  rows'[j].attempt = rows[j].attempt /\ rows[j].state # "absent"
    <3>1. /\ j \in Jobs /\ rows[j].state = "running"
          /\ rows'[j] = [Unlock(j, "ready") EXCEPT !.runIn = 0]
      BY <1>3 DEF Reclaim, Expired, InState
    <3>2. Unlock(j, "ready") \in Row
      BY <3>1, UnlockType, Values
    <3>3. rows'[j].attempt = Unlock(j, "ready").attempt
      BY <3>1, <3>2 DEF Row
    <3> QED BY <3>1, <3>3, UnlockFields
  <2>2. \A j \in Jobs \ Expired(queues) : rows'[j] = rows[j]
    BY <1>3 DEF Reclaim
  <2> QED BY <2>1, <2>2 DEF Counted
<1>a. ASSUME NEW k \in Jobs, NEW state, rows[k].state # "absent",
             rows' = [rows EXCEPT ![k] = Unlock(k, state)]
      PROVE  Goal
  <2>1. Unlock(k, state).attempt = rows[k].attempt
    BY UnlockFields
  <2> QED BY <1>0, <1>a, <2>1 DEF Counted
<1>4. ASSUME NEW l \in held, Ack(l) \/ NackDead(l) PROVE Goal
  <2>1. l[1] \in Jobs /\ rows[l[1]].state = "running"
    BY <1>4, CurrentRuns DEF Ack, NackDead
  <2> QED BY <1>4, <1>a, <2>1 DEF Ack, NackDead
<1>5. ASSUME NEW l \in held, Heartbeat(l) PROVE Goal
  <2>1. \A j \in Jobs : rows'[j].attempt = rows[j].attempt /\ rows'[j].state = rows[j].state
    BY <1>0, <1>5 DEF Heartbeat, Row
  <2> QED BY <2>1 DEF Counted
<1>6. ASSUME NEW l \in held, NEW delay \in 0..MaxDelay, NackRetry(l, delay),
             exec[l].stage = "retry"
      PROVE  Goal
  <2> DEFINE u == Unlock(l[1], "retrying")
             r == [u EXCEPT !.attempt = @ + 1, !.runIn = delay]
  <2>1. u \in Row
    BY <1>0, UnlockType, Values
  <2>2. r.token = u.token /\ r.attempt = u.attempt + 1
    <3> HIDE DEF u
    <3> QED BY <2>1 DEF Row
  <2>3. r.token = NoToken /\ r.attempt = rows[l[1]].attempt + 1
    BY <1>0, <2>2, UnlockFields
  <2>4. rows' = [rows EXCEPT ![l[1]] = r] /\ Current(l)
    BY <1>6 DEF NackRetry
  <2> HIDE DEF r
  <2>5. rows'[l[1]] = r /\ \A j \in Jobs \ {l[1]} : rows'[j] = rows[j]
    BY <1>0, <2>4
  <2>6. Counted(l[1])
    BY <1>6, <2>3, <2>4, <2>5 DEF Counted
  <2> QED BY <2>5, <2>6 DEF Counted
<1>7. ASSUME NEW k \in Jobs, Cancel(k) PROVE Goal
  <2>1. rows[k].state # "absent"
    BY <1>7 DEF Cancel, Active, Waiting
  <2> QED BY <1>7, <1>a, <2>1 DEF Cancel
<1>8. ASSUME NEW S \in SUBSET InState({"dead"}), Retry(S) PROVE Goal
  <2>1. ASSUME NEW j \in S PROVE rows'[j].attempt = 1 /\ rows'[j].token = NoToken
    <3>1. j \in Jobs /\ rows[j].token = NoToken
      BY DEF InState, LeaseCoherent
    <3> QED BY <1>0, <1>8, <3>1 DEF Retry, Row
  <2>2. \A j \in Jobs \ S : rows'[j] = rows[j]
    BY <1>8 DEF Retry
  <2> QED BY <2>1, <2>2 DEF Counted
<1>9. ASSUME Tick PROVE Goal
  <2>1. ASSUME NEW j \in Jobs
        PROVE  rows'[j].attempt = rows[j].attempt /\ rows'[j].state = rows[j].state
    <3>1. PICK m, n : rows'[j] = [rows[j] EXCEPT !.runIn = m, !.leaseLeft = n]
      BY <1>9 DEF Tick
    <3> QED BY <1>0, <3>1 DEF Row
  <2> QED BY <2>1 DEF Counted
<1>10. ASSUME \/ \E L \in SUBSET held : Forget(L)
              \/ UNCHANGED vars
       PROVE  Goal
  BY <1>10 DEF Forget, vars, Counted
<1> QED BY <1>1, <1>2, <1>3, <1>4, <1>5, <1>6, <1>7, <1>8, <1>9, <1>10 DEF FleetStep

\* The copy a worker decides on is the row's count for as long as its lease is
\* current, and it decides to retry only below the budget.
Budget ==
    /\ WithinBudget
    /\ \A l \in held :
        /\ Current(l) => exec[l].attempt = rows[l[1]].attempt
        /\ exec[l].stage = "retry" => exec[l].attempt < MaxAttempts[l[1]]

LEMMA BudgetStep ==
    ASSUME Typed, LeaseCoherent, Budget, [NextW]_wvars
    PROVE  Budget'
<1>0. /\ TypeOK /\ rows \in [Jobs -> Row]
      /\ \A j \in Jobs : rows[j] \in Row /\ rows[j].attempt \in Nat
      /\ \A l \in held : l[1] \in Jobs /\ l[2] \in Tokens
      /\ \A j \in Jobs : MaxAttempts[j] \in Nat
  BY AttemptAssumption DEF Typed, TypeOKW, TypeOK, Row
<1>1. CASE UNCHANGED wvars
  BY <1>1 DEF wvars, Budget, WithinBudget, Present, Current
<1>2. CASE NextW
  <2>1. ExecStep /\ (FleetStep \/ Tick)
    BY <1>2, ExecSteps, FleetSteps DEF Typed, FleetTick
  <2>2. \A j \in Jobs : Counted(j)
    BY <1>0, <2>1, AttemptSteps
  <2>3. WithinBudget'
    <3> SUFFICES ASSUME NEW j \in Jobs, rows'[j].state # "absent"
                 PROVE  rows'[j].attempt <= MaxAttempts[j] \/ rows'[j].attempt = 1
      BY DEF WithinBudget, Present
    <3>1. CASE rows'[j].attempt = rows[j].attempt /\ rows[j].state # "absent"
      BY <3>1 DEF Budget, WithinBudget, Present
    <3>2. ASSUME NEW l \in held, l[1] = j, Current(l), exec[l].stage = "retry",
                 rows'[j].attempt = rows[j].attempt + 1
          PROVE  rows'[j].attempt <= MaxAttempts[j]
      <4>1. rows[j].attempt < MaxAttempts[j]
        BY <3>2 DEF Budget
      <4> QED BY <1>0, <3>2, <4>1
    <3> QED BY <2>2, <3>1, <3>2 DEF Counted
  <2>4. ASSUME NEW l \in held', exec'[l].stage = "retry"
        PROVE  exec'[l].attempt < MaxAttempts[l[1]]
    <3>1. l \in held
      BY <2>1, <2>4 DEF ExecStep, Pulled
    <3> QED BY <2>1, <2>4, <3>1 DEF ExecStep, Evolves, Budget
  <2>5. ASSUME NEW l \in held', Current(l)'
        PROVE  exec'[l].attempt = rows'[l[1]].attempt
    <3>1. \/ \E S \in SUBSET Jobs : Batch(S)
          \/ held' \subseteq held /\ \A j \in Jobs : KeepsLock(j) \/ DropsLock(j)
      <4>1. CASE QueueStep
        BY <1>0, <4>1, LocksOnlyByPull
      <4>2. CASE UNCHANGED vars
        BY <4>2 DEF vars, KeepsLock, LeaseCoherent
      <4> QED BY <1>0, <1>2, <4>1, <4>2, FleetIsQueue DEF Typed
    <3>2. CASE l \in held
      <4>1. rows'[l[1]].token = l[2] /\ l[2] # NoToken /\ l[1] \in Jobs
        BY <1>0, <2>5, <3>2, TokenAssumption DEF Current
      <4>2. Current(l)
        <5>1. ASSUME NEW S \in SUBSET Jobs, Batch(S) PROVE l[1] \notin S
          <6>1. PICK f \in TokenChoices(S) : Lease(S, f)
            BY <5>1 DEF Batch
          <6> QED BY <1>0, <3>2, <4>1, <6>1, BatchLocks DEF UsedTokens
        <5>2. CASE \E S \in SUBSET Jobs : Batch(S)
          BY <1>0, <4>1, <5>1, <5>2, BatchLocks DEF Current, Batch
        <5>3. CASE \A j \in Jobs : KeepsLock(j) \/ DropsLock(j)
          BY <4>1, <5>3 DEF KeepsLock, DropsLock, Current
        <5> QED BY <3>1, <5>2, <5>3
      <4>3. rows'[l[1]].attempt = rows[l[1]].attempt
        BY <2>2, <4>1 DEF Counted
      <4> QED BY <2>1, <3>2, <4>2, <4>3 DEF ExecStep, Evolves, Budget
    <3>3. CASE l \notin held
      <4>1. PICK S \in SUBSET Jobs : Batch(S)
        BY <3>1, <3>3
      <4>2. PICK f \in TokenChoices(S) : Lease(S, f)
        BY <4>1 DEF Batch
      <4>3. l[1] \in S
        <5>1. held' = held \union {<<j, f[j]>> : j \in S}
          BY <4>2 DEF Lease
        <5>2. PICK j \in S : l = <<j, f[j]>>
          BY <3>3, <5>1
        <5> QED BY <5>2
      <4>4. rows'[l[1]] = [rows[l[1]] EXCEPT !.state = "running", !.token = f[l[1]],
                                             !.leaseLeft = LeaseLen]
        BY <4>2, <4>3 DEF Lease
      <4>5. rows'[l[1]].attempt = rows[l[1]].attempt
        BY <1>0, <4>3, <4>4 DEF Row
      <4> QED BY <2>1, <3>3, <4>5 DEF ExecStep, Pulled
    <3> QED BY <3>2, <3>3
  <2> QED BY <2>3, <2>4, <2>5 DEF Budget
<1> QED BY <1>1, <1>2

\* The attempt counter never passes the budget of the row's policy.
THEOREM Budgeted == SpecW => []WithinBudget
<1>1. InitW => Budget
  BY DEF InitW, Init, Budget, WithinBudget, Present, Absent
<1>2. Typed /\ LeaseCoherent /\ Budget /\ [NextW]_wvars => Budget'
  BY BudgetStep
<1>3. Budget => WithinBudget
  BY DEF Budget
<1> QED BY <1>1, <1>2, <1>3, FleetBase, PTL DEF SpecW

-----------------------------------------------------------------------------
(* Done *)

\* Only an ack finishes a row, and only a body that returned Ok is acked.
LEMMA DoneStep ==
    ASSUME Typed, LeaseCoherent, NextW,
           NEW j \in Jobs, rows[j].state # "done", rows'[j].state = "done"
    PROVE  \E l \in held : /\ l = <<j, rows[j].token>>
                           /\ exec[l].stage = "ok"
                           /\ l \notin held'
<1> DEFINE Goal == \E l \in held : /\ l = <<j, rows[j].token>>
                                   /\ exec[l].stage = "ok"
                                   /\ l \notin held'
<1>0. /\ TypeOK /\ rows \in [Jobs -> Row]
      /\ \A i \in Jobs : rows[i] \in Row
      /\ \A l \in held : l = <<l[1], l[2]>> /\ l[1] \in Jobs
  BY DEF Typed, TypeOKW, TypeOK
<1>1. ASSUME NEW l \in held, Ack(l), exec[l].stage = "ok" PROVE Goal
  <2>1. \A i \in Jobs \ {l[1]} : rows'[i] = rows[i]
    BY <1>0, <1>1 DEF Ack
  <2>2. l[1] = j
    BY <2>1
  <2> QED BY <1>0, <1>1, <2>2 DEF Ack, Current
\* No other step writes "done".
<1>a. ASSUME NEW i \in Jobs, NEW r, r.state # "done", rows' = [rows EXCEPT ![i] = r] PROVE FALSE
  BY <1>0, <1>a
<1>2. ASSUME NEW i \in Jobs, NEW delay \in 0..MaxDelay, Push(i, delay) PROVE FALSE
  BY <1>2, <1>0 DEF Push
<1>3. ASSUME NEW S \in SUBSET Jobs, Batch(S) PROVE FALSE
  BY <1>0, <1>3, BatchLocks DEF Batch
<1>4. ASSUME NEW queues \in SUBSET QueueNames, Reclaim(queues) PROVE FALSE
  <2>1. rows'[j] = [Unlock(j, "ready") EXCEPT !.runIn = 0]
    BY <1>4 DEF Reclaim
  <2>2. Unlock(j, "ready") \in Row
    BY UnlockType, Values, <1>0
  <2>3. rows'[j].state = Unlock(j, "ready").state
    BY <2>1, <2>2 DEF Row
  <2> QED BY <1>0, <2>3, UnlockFields
<1>5. ASSUME NEW l \in held, NackDead(l) PROVE FALSE
  <2>1. Unlock(l[1], "dead").state # "done"
    BY <1>0, UnlockFields
  <2> QED BY <1>0, <1>5, <1>a, <2>1 DEF NackDead
<1>6. ASSUME NEW l \in held, Heartbeat(l) PROVE FALSE
  <2>1. rows'[j].state = rows[j].state
    BY <1>0, <1>6 DEF Heartbeat, Row
  <2> QED BY <2>1
<1>7. ASSUME NEW l \in held, NEW delay \in 0..MaxDelay, NackRetry(l, delay) PROVE FALSE
  <2> DEFINE u == Unlock(l[1], "retrying")
             r == [u EXCEPT !.attempt = @ + 1, !.runIn = delay]
  <2>1. u \in Row
    BY <1>0, UnlockType, Values
  <2>2. r.state = u.state
    <3> HIDE DEF u
    <3> QED BY <2>1 DEF Row
  <2>3. r.state # "done"
    BY <1>0, <2>2, UnlockFields
  <2>4. rows' = [rows EXCEPT ![l[1]] = r]
    BY <1>7 DEF NackRetry
  <2> HIDE DEF r
  <2> QED BY <1>0, <1>a, <2>3, <2>4
<1>8. ASSUME NEW i \in Jobs, Cancel(i) PROVE FALSE
  <2>1. Unlock(i, "cancelled").state # "done"
    BY <1>0, UnlockFields
  <2> QED BY <1>8, <1>a, <2>1 DEF Cancel
<1>9. ASSUME NEW S \in SUBSET InState({"dead"}), Retry(S) PROVE FALSE
  BY <1>0, <1>9 DEF Retry, Row
<1>10. ASSUME Tick PROVE FALSE
  <2>1. PICK m, n : rows'[j] = [rows[j] EXCEPT !.runIn = m, !.leaseLeft = n]
    BY <1>10 DEF Tick
  <2> QED BY <1>0, <2>1 DEF Row
<1>11. ASSUME (\E L \in SUBSET held : Forget(L)) \/ UNCHANGED vars PROVE FALSE
  BY <1>11 DEF Forget, vars
<1> QED BY <1>1, <1>2, <1>3, <1>4, <1>5, <1>6, <1>7, <1>8, <1>9, <1>10, <1>11, FleetSteps
           DEF Typed, FleetStep, FleetTick

\* A row is finished only by an execution whose body returned Ok under the
\* row's own lease.
THEOREM DoneByBody == SpecW => DoneOnlyByItsBody
<1> DEFINE Done == \A j \in Jobs :
             rows[j].state # "done" /\ rows'[j].state = "done"
             => \E l \in held : /\ l = <<j, rows[j].token>>
                                /\ exec[l].stage = "ok"
                                /\ l \notin held'
<1>1. Typed /\ LeaseCoherent /\ [NextW]_wvars => [Done]_wvars
  BY DoneStep
<1> QED BY <1>1, FleetBase, PTL DEF SpecW, DoneOnlyByItsBody

-----------------------------------------------------------------------------
(* Permits *)

\* The leases of a worker that a permit answers for, now or once spawned.
Busy(w) == {l \in Mine(w) : exec[l].stage # "orphan"}

\* What a round may still pull.
Reserved(w) == IF worker[w].phase = "pulling" THEN worker[w].left ELSE 0

\* The count of free permits that a round starts with stays good: in the
\* meantime permits are only given back, and what was pulled and not yet
\* spawned is taken off what is left.
Room ==
    \A w \in Workers :
        /\ Cardinality(Busy(w)) + Reserved(w) <= Slots[w]
        /\ worker[w].phase # "pulling" => \A l \in Mine(w) : exec[l].stage # "pulled"

\* Worker w takes no lease and reserves no more than before.
Yields(w) ==
    /\ Busy(w)' \subseteq Busy(w)
    /\ Reserved(w)' <= Reserved(w)
    /\ worker'[w].phase # "pulling" =>
         \/ worker[w].phase # "pulling" /\ Mine(w)' \subseteq held
         \/ \A l \in Mine(w)' : exec'[l].stage # "pulled"

\* Cardinalities of busy leases are numbers.
LEMMA BusyType ==
    ASSUME Typed, NEW w \in Workers
    PROVE  /\ IsFiniteSet(Busy(w)) /\ Cardinality(Busy(w)) \in Nat
           /\ Slots[w] \in Nat /\ Reserved(w) \in Nat
           /\ worker[w] \in Loop
<1>1. Busy(w) \in SUBSET held
  BY DEF Busy, Mine
<1>2. worker[w] \in Loop
  BY DEF Typed, TypeOKW
<1> QED BY <1>1, <1>2, FS_Subset, FS_CardinalityType, WorkerAssumption DEF Typed, Reserved, Loop

\* A step in which worker w yields keeps its room.
LEMMA YieldsRoom ==
    ASSUME Typed, Typed', Room, ExecStep, NEW w \in Workers, Yields(w)
    PROVE  /\ Cardinality(Busy(w)') + Reserved(w)' <= Slots[w]
           /\ worker'[w].phase # "pulling" => \A l \in Mine(w)' : exec'[l].stage # "pulled"
<1>1. Cardinality(Busy(w)') <= Cardinality(Busy(w)) /\ Cardinality(Busy(w)') \in Nat
  BY BusyType, FS_Subset, FS_CardinalityType DEF Yields
<1>2. Cardinality(Busy(w)') + Reserved(w)' <= Slots[w]
  <2>1. Reserved(w)' \in Nat
    <3>1. worker'[w] \in Loop
      BY DEF Typed, TypeOKW
    <3> QED BY <3>1 DEF Reserved, Loop
  <2>2. Reserved(w)' <= Reserved(w)
    BY DEF Yields
  <2>3. Cardinality(Busy(w)) + Reserved(w) <= Slots[w]
    BY DEF Room
  <2> QED BY <1>1, <2>1, <2>2, <2>3, BusyType
<1>3. ASSUME worker[w].phase # "pulling", Mine(w)' \subseteq held,
             NEW l \in Mine(w)'
      PROVE  exec'[l].stage # "pulled"
  <2>1. l \in held /\ l \in held' /\ exec'[l].by = w
    BY <1>3 DEF Mine
  <2>2. Evolves(exec[l], exec'[l], l[1])
    BY <2>1 DEF ExecStep
  <2>3. exec[l].by = w
    BY <2>1, <2>2 DEF Evolves
  <2>4. exec[l].stage # "pulled"
    BY <1>3, <2>1, <2>3 DEF Room, Mine
  <2> QED BY <2>2, <2>4 DEF Evolves
<1> QED BY <1>2, <1>3 DEF Yields

\* If no lease is handed out to worker w, its busy leases stay or go.
LEMMA BusyShrinks ==
    ASSUME ExecStep, NEW w \in Workers, Mine(w)' \subseteq held
    PROVE  Busy(w)' \subseteq Busy(w)
<1> SUFFICES ASSUME NEW l \in Busy(w)' PROVE l \in Busy(w)
  OBVIOUS
<1>1. l \in held /\ l \in held' /\ exec'[l].by = w /\ exec'[l].stage # "orphan"
  BY DEF Busy, Mine
<1>2. Evolves(exec[l], exec'[l], l[1])
  BY <1>1 DEF ExecStep
<1> QED BY <1>1, <1>2 DEF Evolves, Busy, Mine

\* A pull takes no more rows than the round has left, and pays for them.
LEMMA PullRoom ==
    ASSUME Typed, Typed', Room, ExecStep, NEW w \in Workers, PullShare(w)
    PROVE  /\ Cardinality(Busy(w)') + Reserved(w)' <= Slots[w]
           /\ worker'[w].phase = "pulling"
           /\ \A v \in Workers \ {w} : Mine(v)' \subseteq held /\ worker'[v] = worker[v]
<1>0. worker \in [Workers -> Loop] /\ worker[w] \in Loop
  BY DEF Typed, TypeOKW
<1>1. PICK S \in Batches({ShareQueue(w)}, ShareLimit(w)) :
             /\ \E f \in TokenChoices(S) :
                  /\ Lease(S, f)
                  /\ exec' = [l \in held' |-> IF l \in held THEN exec[l] ELSE Pulled(w, l[1])]
             /\ Set(w, [worker[w] EXCEPT !.offset = @ + 1, !.left = @ - Cardinality(S)])
  BY Zenon DEF PullShare
<1>2. PICK f \in TokenChoices(S) :
             /\ held' = held \union {<<j, f[j]>> : j \in S}
             /\ exec' = [l \in held' |-> IF l \in held THEN exec[l] ELSE Pulled(w, l[1])]
  BY <1>1 DEF Lease
<1>3. S \in SUBSET Jobs /\ Cardinality(S) <= ShareLimit(w)
  BY DEF Batches, Leasable, InState
<1>4. /\ Cardinality(S) \in Nat /\ Cardinality(S) <= worker[w].left
      /\ IsFiniteSet({<<j, f[j]>> : j \in S})
      /\ Cardinality({<<j, f[j]>> : j \in S}) <= Cardinality(S)
  <2>1. worker[w].left \in Int
    BY <1>0 DEF Loop
  <2>2. ShareLimit(w) \in Int /\ ShareLimit(w) <= worker[w].left
    BY <1>0, ShareLimitBound
  <2>3. /\ Cardinality(S) \in Nat
        /\ IsFiniteSet({<<j, f[j]>> : j \in S})
        /\ Cardinality({<<j, f[j]>> : j \in S}) <= Cardinality(S)
    BY <1>3, Granted
  <2> QED BY <1>3, <2>1, <2>2, <2>3
<1>5. /\ worker'[w].left = worker[w].left - Cardinality(S)
      /\ worker'[w].phase = worker[w].phase
      /\ \A v \in Workers \ {w} : worker'[v] = worker[v]
  <2>1. worker' = [worker EXCEPT ![w] =
                     [worker[w] EXCEPT !.offset = @ + 1, !.left = @ - Cardinality(S)]]
    BY <1>1 DEF Set
  <2> QED BY <1>0, <2>1 DEF Loop
<1>6. worker[w].phase = "pulling"
  BY DEF PullShare, MoreShares
<1>7. Busy(w)' \subseteq Busy(w) \union {<<j, f[j]>> : j \in S}
  <2>1. ASSUME NEW l \in Busy(w)', l \in held PROVE l \in Busy(w)
    <3>1. l \in held' /\ exec'[l].by = w /\ exec'[l].stage # "orphan"
      BY DEF Busy, Mine
    <3>2. exec'[l] = exec[l]
      BY <1>2, <2>1, <3>1
    <3> QED BY <2>1, <3>1, <3>2 DEF Busy, Mine
  <2>2. Busy(w)' \subseteq held'
    BY DEF Busy, Mine
  <2> QED BY <1>2, <2>1, <2>2
<1>8. Cardinality(Busy(w)') <= Cardinality(Busy(w)) + Cardinality(S)
  <2> DEFINE T == {<<j, f[j]>> : j \in S}
  <2>1. IsFiniteSet(T) /\ Cardinality(T) \in Nat /\ Cardinality(T) <= Cardinality(S)
    BY <1>4, FS_CardinalityType
  <2>2. IsFiniteSet(Busy(w)) /\ Cardinality(Busy(w)) \in Nat
    BY BusyType
  <2> HIDE DEF T
  <2>3. /\ IsFiniteSet(Busy(w) \union T)
        /\ Cardinality(Busy(w) \union T) =
             Cardinality(Busy(w)) + Cardinality(T) - Cardinality(Busy(w) \intersect T)
    BY <2>1, <2>2, FS_Union
  <2>4. Cardinality(Busy(w) \intersect T) \in Nat
    BY <2>2, FS_Intersection, FS_CardinalityType
  <2>5. Cardinality(Busy(w)') <= Cardinality(Busy(w) \union T)
    BY <1>7, <2>3, FS_Subset DEF T
  <2>6. Cardinality(Busy(w)') \in Nat
    BY <1>7, <2>3, FS_Subset, FS_CardinalityType DEF T
  <2> QED BY <1>4, <2>1, <2>2, <2>3, <2>4, <2>5, <2>6
<1>9. Cardinality(Busy(w)') \in Nat
  <2>1. Busy(w)' \in SUBSET held' /\ IsFiniteSet(held')
    BY DEF Busy, Mine, Typed
  <2> QED BY <2>1, FS_Subset, FS_CardinalityType
<1>10. Cardinality(Busy(w)') + Reserved(w)' <= Slots[w]
  <2>1. Cardinality(Busy(w)) + worker[w].left <= Slots[w]
    BY <1>6 DEF Room, Reserved
  <2>2. Reserved(w)' = worker[w].left - Cardinality(S)
    BY <1>5, <1>6 DEF Reserved
  <2>3. worker[w].left \in Nat
    BY <1>0 DEF Loop
  <2> QED BY <1>4, <1>8, <1>9, <2>1, <2>2, <2>3, BusyType
<1>11. ASSUME NEW v \in Workers \ {w} PROVE Mine(v)' \subseteq held
  BY <1>2 DEF Mine, Pulled
<1> QED BY <1>5, <1>6, <1>10, <1>11

\* A round starts with no row of the round before left unspawned, so that the
\* permits it counts are all there is.
LEMMA BeginRoom ==
    ASSUME Typed, Room, NEW w \in Workers, BeginRound(w)
    PROVE  /\ Cardinality(Busy(w)') + Reserved(w)' <= Slots[w]
           /\ worker'[w].phase = "pulling"
<1>0. worker \in [Workers -> Loop] /\ worker[w] \in Loop
  BY DEF Typed, TypeOKW
<1>1. Busy(w) = OnPermit(w)
  <2>1. \A l \in Mine(w) : exec[l].stage \in Stages /\ exec[l].stage # "pulled"
    BY DEF Mine, Room, BeginRound, Typed, TypeOKW, Exec
  <2> QED BY <2>1 DEF Busy, OnPermit, Stages
<1>2. Busy(w)' = Busy(w)
  BY DEF BeginRound, Busy, Mine
<1>3. worker'[w].phase = "pulling" /\ worker'[w].left = FreePermits(w)
  <2>1. worker' = [worker EXCEPT ![w] =
                     [worker[w] EXCEPT !.phase = "pulling", !.offset = 0,
                                       !.free = FreePermits(w), !.left = FreePermits(w)]]
    BY DEF BeginRound, Set
  <2> QED BY <1>0, <2>1 DEF Loop
<1> QED BY <1>1, <1>2, <1>3, BusyType DEF Reserved, FreePermits

LEMMA RoomStep ==
    ASSUME Typed, Typed', Room, [NextW]_wvars
    PROVE  Room'
<1>0. /\ worker \in [Workers -> Loop]
      /\ \A w \in Workers : worker[w] \in Loop /\ worker[w].left \in Nat
  BY DEF Typed, TypeOKW, Loop
<1>1. CASE UNCHANGED wvars
  BY <1>1 DEF wvars, Room, Busy, Mine, Reserved
<1>2. CASE NextW
  <2>0. ExecStep
    BY <1>2, ExecSteps DEF Typed
  \* A worker whose loop stands still, while it is given no lease.
  <2>a. ASSUME NEW w \in Workers, worker'[w] = worker[w], Mine(w)' \subseteq held
        PROVE  Yields(w)
    <3>1. Reserved(w)' <= Reserved(w)
      BY <1>0, <2>a DEF Reserved
    <3> QED BY <2>0, <2>a, <3>1, BusyShrinks DEF Yields
  <2>b. ASSUME \A w \in Workers : Yields(w) PROVE Room'
    BY <2>0, <2>b, YieldsRoom DEF Room
  <2>1. ASSUME NEW w \in Workers, Step(w) PROVE Room'
    <3>1. CASE PullShare(w)
      <4>1. \A v \in Workers \ {w} : Yields(v)
        BY <2>0, <2>a, <3>1, PullRoom
      <4> QED BY <2>0, <3>1, <4>1, PullRoom, YieldsRoom DEF Room
    <3>2. CASE BeginRound(w)
      <4>1. \A v \in Workers \ {w} : Yields(v)
        <5>1. \A v \in Workers \ {w} : worker'[v] = worker[v] /\ Mine(v)' \subseteq held
          BY <1>0, <3>2 DEF BeginRound, Set, Mine
        <5> QED BY <2>a, <5>1
      <4> QED BY <2>0, <3>2, <4>1, BeginRoom, YieldsRoom DEF Room
    <3>3. CASE \/ Maintain(w) \/ PullFails(w) \/ Spawn(w) \/ Signal(w) \/ Drain(w) \/ Drained(w)
               \/ GraceExpires(w) \/ UnwindExpires(w) \/ Exit(w) \/ Crash(w) \/ Restart(w)
      <4>1. held' \subseteq held
        BY <3>3 DEF Maintain, Reclaim, PullFails, Spawn, Signal, Drain, Drained, GraceExpires,
                    UnwindExpires, Exit, Crash, Gone, Restart
      <4>2. \A v \in Workers \ {w} : worker'[v] = worker[v]
        BY <1>0, <3>3 DEF Maintain, PullFails, Spawn, Signal, Drain, Drained, GraceExpires,
                    UnwindExpires, Exit, Crash, Gone, Restart, Set, LoopMoves, workerVars
      <4>3. \A v \in Workers : Mine(v)' \subseteq held
        BY <4>1 DEF Mine
      <4>4. Yields(w)
        <5>1. CASE Maintain(w)
          BY <2>a, <4>3, <5>1 DEF Maintain, workerVars
        <5>2. CASE PullFails(w) \/ Signal(w)
          <6>1. worker'[w].phase = worker[w].phase /\ worker'[w].left = worker[w].left
            BY <1>0, <5>2 DEF PullFails, Signal, Set, Loop
          <6>2. Reserved(w)' <= Reserved(w)
            BY <1>0, <6>1 DEF Reserved
          <6> QED BY <2>0, <4>3, <6>1, <6>2, BusyShrinks DEF Yields
        <5>3. CASE Drain(w) \/ Drained(w) \/ GraceExpires(w) \/ UnwindExpires(w) \/ Restart(w)
          <6>1. worker[w].phase # "pulling" /\ worker'[w].phase # "pulling"
            BY <1>0, <5>3 DEF Drain, Drained, GraceExpires, UnwindExpires, Restart, Set,
                              LoopMoves, Started, Loop
          <6>2. Reserved(w)' <= Reserved(w)
            BY <6>1 DEF Reserved
          <6> QED BY <2>0, <4>3, <6>1, <6>2, BusyShrinks DEF Yields
        <5>4. CASE Spawn(w)
          <6>1. worker'[w].phase # "pulling"
            BY <1>0, <5>4 DEF Spawn, Set, Loop
          <6>2. Reserved(w)' <= Reserved(w)
            BY <1>0, <6>1 DEF Reserved
          <6>3. ASSUME NEW l \in Mine(w)' PROVE exec'[l].stage # "pulled"
            <7>1. l \in held /\ exec'[l].by = w
              BY <4>1, <6>3 DEF Mine
            <7>2. Evolves(exec[l], exec'[l], l[1]) /\ exec[l] \in Exec
              BY <2>0, <6>3, <7>1 DEF ExecStep, Typed, TypeOKW, Mine
            <7>3. exec'[l] = IF exec[l].by = w /\ exec[l].stage = "pulled"
                             THEN IF NameOf[l[1]] \in Knows[w]
                                  THEN [exec[l] EXCEPT !.stage = "body", !.beating = TRUE]
                                  ELSE [exec[l] EXCEPT !.stage = "dead"]
                             ELSE exec[l]
              BY <5>4, <7>1 DEF Spawn
            <7> QED BY <7>1, <7>2, <7>3 DEF Evolves, Exec
          <6> QED BY <2>0, <4>3, <6>1, <6>2, <6>3, BusyShrinks DEF Yields
        <5>5. CASE Exit(w) \/ Crash(w)
          <6>1. worker'[w].phase # "pulling"
            BY <1>0, <5>5 DEF Exit, Crash, Gone, Set, Started
          <6>2. Reserved(w)' <= Reserved(w)
            BY <1>0, <6>1 DEF Reserved
          <6>3. Mine(w)' = {}
            <7>1. held' = held \ Mine(w) /\ exec' = [l \in held' |-> exec[l]]
              BY <5>5 DEF Exit, Crash, Gone
            <7> QED BY <7>1 DEF Mine
          <6> QED BY <2>0, <4>3, <6>1, <6>2, <6>3, BusyShrinks DEF Yields
        <5> QED BY <3>3, <5>1, <5>2, <5>3, <5>4, <5>5
      <4>5. \A v \in Workers : Yields(v)
        BY <2>a, <4>2, <4>3, <4>4
      <4> QED BY <2>b, <4>5
    <3> QED BY <2>1, <3>1, <3>2, <3>3 DEF Step
  <2>2. ASSUME UNCHANGED worker, held' \subseteq held PROVE Room'
    <3>1. \A w \in Workers : Mine(w)' \subseteq held
      BY <2>2 DEF Mine
    <3> QED BY <2>2, <2>a, <2>b, <3>1
  <2>3. ASSUME NEW l \in held, Execution(l) PROVE UNCHANGED worker /\ held' \subseteq held
    <3>1. UNCHANGED worker
      BY <2>3 DEF Execution, BodySucceeds, BodyFails, BodyFailsForGood, BodyCancelled, BodyOver,
                  BodyPanics, Beat, BodyBeats, BeatRefused, BeatFails, LoseHeart, Report,
                  ReportFails, Finished, workerVars
    <3>2. held' \subseteq held
      BY <2>3 DEF Execution, BodySucceeds, BodyFails, BodyFailsForGood, BodyCancelled, BodyOver,
                  BodyPanics, Beat, BodyBeats, BeatRefused, BeatFails, LoseHeart, Report,
                  ReportFails, Heartbeat, Ack, Stale, NackRetry, NackDead, Drop
    <3> QED BY <3>1, <3>2
  <2>4. ASSUME TickTimely \/ TickStalled \/ Environment
        PROVE  UNCHANGED worker /\ held' \subseteq held
    BY <2>4 DEF TickTimely, TickStalled, Tick, Environment, Enqueue, OperatorAct, Push, Cancel,
                Retry, workerVars
  <2> QED BY <1>2, <2>1, <2>2, <2>3, <2>4 DEF NextW
<1> QED BY <1>1, <1>2

\* Types, and a worker never leases more rows than it has permits for.
THEOREM Coherent == SpecW => []FleetCoherent
<1>1. InitW => Room
  <2> SUFFICES ASSUME InitW, NEW w \in Workers
               PROVE  /\ Cardinality(Busy(w)) + Reserved(w) <= Slots[w]
                      /\ worker[w].phase # "pulling" => \A l \in Mine(w) : exec[l].stage # "pulled"
    BY DEF Room
  <2>1. Mine(w) = {} /\ Busy(w) = {} /\ Reserved(w) = 0
    BY DEF InitW, Init, Mine, Busy, Reserved, Started
  <2>2. Cardinality(Busy(w)) = 0
    BY <2>1, FS_EmptySet
  <2> QED BY <2>1, <2>2, WorkerAssumption
<1>2. Typed /\ Typed' /\ Room /\ [NextW]_wvars => Room'
  BY RoomStep
<1>3. Typed /\ Room => FleetCoherent
  <2> SUFFICES ASSUME Typed, Room, NEW w \in Workers
               PROVE  Cardinality({l \in Mine(w) : exec[l].stage # "orphan"}) <= Slots[w]
    BY DEF FleetCoherent, LeasesFitPermits, Typed
  <2>1. Cardinality(Busy(w)) + Reserved(w) <= Slots[w]
    BY DEF Room
  <2>2. Cardinality(Busy(w)) \in Nat /\ Reserved(w) \in Nat
    BY BusyType
  <2>3. Cardinality(Busy(w)) <= Slots[w]
    BY <2>1, <2>2, WorkerAssumption
  <2> QED BY <2>3 DEF Busy
<1>4. SpecW => []Typed
  BY FleetBase, PTL
<1> QED BY <1>1, <1>2, <1>3, <1>4, PTL DEF SpecW
=============================================================================
