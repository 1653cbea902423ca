----------------------------- MODULE RedisQueue -----------------------------
(***************************************************************************)
(* backend/redis.rs: the queue over a key-value store.  No operation is    *)
(* atomic: each is a sequence of store calls, and between any two of them  *)
(* every other caller may act, or the call may end early (a store error    *)
(* returns through `?`, a process dies, a future is dropped).              *)
(*                                                                         *)
(* A call keeps the members it still has to handle (`todo`), the store     *)
(* calls left for the first of them (`route`) and the copy of the blob it  *)
(* will write back.  One queue is modelled: every index but the serial     *)
(* slots and the unique markers is per queue, and those know no queue.     *)
(*                                                                         *)
(* Times are distances from now, as in MemoryQueue.                        *)
(***************************************************************************)
EXTENDS Integers, Sequences, FiniteSets

CONSTANTS
    Jobs, NoJob, Tokens, NoToken,
    Names, SerialNames,     \* job types, and those declared SERIAL
    Keys, NoKey,            \* unique keys
    NameOf, KeyOf, MaxAttempts,
    Priority,       \* as_i16 of each row's priority
    PriorityWeight, \* PRIORITY_WEIGHT, in ticks
    LeaseLen,
    MaxDelay,       \* bound: longest delay or backoff, in ticks
    MaxOverdue,     \* bound: how far past run_at is told apart
    Callers,        \* bound: calls in flight
    Reclaimers,     \* the callers that run maintenance
    Ops,            \* the operations clients use
    Mishaps,        \* what may go wrong
    MaxMishaps      \* bound: how often

ASSUME JobAssumption ==
    /\ NoJob \notin Jobs /\ NoToken \notin Tokens /\ NoKey \notin Keys
    /\ IsFiniteSet(Jobs)
ASSUME ColumnAssumption ==
    /\ SerialNames \subseteq Names /\ NameOf \in [Jobs -> Names]
    /\ KeyOf \in [Jobs -> Keys \union {NoKey}]
    /\ Priority \in [Jobs -> Int] /\ MaxAttempts \in [Jobs -> Nat]
ASSUME SizeAssumption ==
    /\ Reclaimers \subseteq Callers
    /\ PriorityWeight \in Nat /\ LeaseLen \in Nat \ {0}
    /\ MaxDelay \in Nat /\ MaxOverdue \in Nat /\ MaxMishaps \in Nat

VARIABLES
    blob,                   \* the blob of each job
    ready, leased, dead,    \* the three indexes
    uniq,                   \* the unique keys that have a marker
    slot,                   \* the serial slot of each job type
    held,                   \* the leases in clients' hands
    call,                   \* the call each caller has in flight
    pushed, answered, finished, \* ids used; rows whose push returned Ok, rows
                            \* an ack has finished (ghosts)
    mishaps

indexes == <<ready, leased, dead>>
vars == <<blob, indexes, uniq, slot, held, call, pushed, answered, finished,
          mishaps>>

Waiting == {"ready", "retrying"}
Active == Waiting \union {"running"}

Held == [state : Active \union {"absent", "done", "dead", "cancelled"},
         attempt : Nat, runIn : Int, token : Tokens \union {NoToken}]

NoBlob == [state |-> "absent", attempt |-> 0, runIn |-> 0, token |-> NoToken]

Idle == [op |-> "idle", todo |-> <<>>, route |-> <<>>, copy |-> NoBlob,
         token |-> NoToken, until |-> 0, got |-> {}]

FreeSlot == [job |-> NoJob, left |-> 0]

Keyed(j) == KeyOf[j] # NoKey
Serial(j) == NameOf[j] \in SerialNames
SameKey(i, j) == Keyed(i) /\ KeyOf[i] = KeyOf[j]
SameSerial(i, j) == Serial(i) /\ NameOf[i] = NameOf[j]

\* Sorted sets: members with a distance.
Zadd(z, j, d) == [i \in DOMAIN z \union {j} |-> IF i = j THEN d ELSE z[i]]
Zrem(z, j) == [i \in DOMAIN z \ {j} |-> z[i]]

\* ready_score, as a distance from now: earlier and more urgent is lower.
Score(j) == ready[j] - Priority[j] * PriorityWeight

\* zrange_by_score up to now, cut at limit, of members z with their distances.
\* Ties are left open.
Ranges(z, limit) ==
    LET due == {j \in DOMAIN z : z[j] <= 0}
        n == IF Cardinality(due) < limit THEN Cardinality(due) ELSE limit
    IN  {s \in [1..n -> due] :
            /\ \A a, b \in 1..n : a < b => s[a] # s[b] /\ z[s[a]] <= z[s[b]]
            /\ \A j \in due : (\A a \in 1..n : s[a] # j) => \A a \in 1..n : z[s[a]] <= z[j]}

Candidates(limit) == Ranges([j \in DOMAIN ready |-> Score(j)], limit)

\* Wrong: a lease in its last tick counts as expired.
Expired_TooSoon == Ranges([j \in DOMAIN leased |-> leased[j] - 1], Cardinality(Jobs))

Expired == Ranges(leased, Cardinality(Jobs))

-----------------------------------------------------------------------------
(* The store calls of each operation, for one member *)

\* Wrong: the row goes back without its index entry.
Requeue_Unindexed == <<"save">>

Requeue == <<"save", "enqueue">>

If(condition, storeCall) == IF condition THEN <<storeCall>> ELSE <<>>

Route(op, j) ==
    CASE op = "push"      -> If(Keyed(j), "mark") \o Requeue
      [] op = "pull"      -> <<"unready", "load">> \o If(Serial(j), "slot") \o <<"save", "lease">>
      [] op = "ack"       -> <<"load", "unlease">> \o If(Keyed(j), "unmark")
                                \o If(Serial(j), "unslot") \o <<"save", "erase">>
      [] op = "nack"      -> <<"load", "unlease">> \o If(Serial(j), "unslot") \o Requeue
      [] op = "nack dead" -> <<"load", "unlease">> \o If(Serial(j), "unslot")
                                \o If(Keyed(j), "unmark") \o <<"save", "bury">>
      [] op = "heartbeat" -> <<"load">> \o If(Serial(j), "extend") \o <<"save", "lease">>
      [] op = "reclaim"   -> <<"unlease", "load">> \o If(Serial(j), "unslot") \o Requeue
      [] op = "cancel"    -> <<"load", "unready", "unlease">> \o If(Serial(j), "unslot")
                                \o <<"save">>
      [] op = "retry"     -> <<"undead", "load">> \o Requeue
      [] op = "discard"   -> <<"undead", "erase">>

\* The operations that go on only with a member their zrem removed.
Claims == {"pull", "reclaim", "retry", "discard"}
Settles == {"ack", "nack", "nack dead"}

\* What a call checks on the blob it loaded.
Proceeds(c, b) ==
    /\ b # NoBlob
    /\ c.op \in Settles \union {"heartbeat"} => b.token = c.token
    /\ c.op = "cancel" => b.state \in Active

UsedTokens ==
    {blob[j].token : j \in Jobs} \union {l[2] : l \in held}
        \union UNION {{call[p].token, call[p].copy.token} \union {l[2] : l \in call[p].got}
                        : p \in Callers}

\* What the call will write back, given the blob it loaded.
Updated(op, b) ==
    LET free == [b EXCEPT !.token = NoToken]
    IN  CASE op = "pull"      -> {[b EXCEPT !.state = "running", !.token = t]
                                    : t \in Tokens \ UsedTokens}
          [] op = "ack"       -> {[free EXCEPT !.state = "done"]}
          [] op = "nack"      -> {[free EXCEPT !.state = "retrying", !.attempt = @ + 1,
                                               !.runIn = d] : d \in 0..MaxDelay}
          [] op = "nack dead" -> {[free EXCEPT !.state = "dead"]}
          [] op = "heartbeat" -> {b}
          [] op = "reclaim"   -> {[free EXCEPT !.state = "ready", !.runIn = 0]}
          [] op = "cancel"    -> {[free EXCEPT !.state = "cancelled"]}
          [] op = "retry"     -> {[free EXCEPT !.state = "ready", !.attempt = 1, !.runIn = 0]}

Init ==
    /\ blob = [j \in Jobs |-> NoBlob]
    /\ ready = <<>> /\ leased = <<>> /\ dead = {}
    /\ uniq = {}
    /\ slot = [n \in Names |-> FreeSlot]
    /\ held = {}
    /\ call = [p \in Callers |-> Idle]
    /\ pushed = {} /\ answered = {} /\ finished = {}
    /\ mishaps = 0

-----------------------------------------------------------------------------
(* Starting a call *)

Starts(p, op, todo, record) ==
    /\ op \in Ops
    /\ call[p] = Idle
    /\ todo # <<>>
    /\ call' = [call EXCEPT ![p] = [record EXCEPT !.op = op, !.todo = todo,
                                                  !.route = Route(op, todo[1])]]
    /\ UNCHANGED <<blob, indexes, uniq, slot, answered, finished, mishaps>>

\* A job id is fresh.
Push(p, j, delay) ==
    /\ j \notin pushed
    /\ pushed' = pushed \union {j}
    /\ Starts(p, "push", <<j>>,
              [Idle EXCEPT !.copy = [state |-> "ready", attempt |-> 1,
                                     runIn |-> delay, token |-> NoToken]])
    /\ UNCHANGED held

\* bound: a pull starts only while there is a token for it.
TokensLeft ==
    Cardinality(Tokens \ UsedTokens) > Cardinality({p \in Callers : call[p].op = "pull"})

Pull(p) ==
    /\ TokensLeft
    /\ \E limit \in 1..Cardinality(Jobs) : \E todo \in Candidates(limit) :
        Starts(p, "pull", todo, [Idle EXCEPT !.until = LeaseLen])
    /\ UNCHANGED <<held, pushed>>

Renews(p, l) == call[p].todo = <<l[1]>> /\ call[p].token = l[2]
Busy(l) == \E p \in Callers : Renews(p, l)

\* ack and nack consume the lease.  A client waits for its own heartbeat, and
\* asks for a retry only within the row's budget.
Settle(p, l, op) ==
    /\ ~Busy(l)
    /\ op = "nack" => blob[l[1]].attempt < MaxAttempts[l[1]]
    /\ Starts(p, op, <<l[1]>>, [Idle EXCEPT !.token = l[2]])
    /\ held' = held \ {l}
    /\ UNCHANGED pushed

Heartbeat(p, l) ==
    /\ ~Busy(l)
    /\ Starts(p, "heartbeat", <<l[1]>>, [Idle EXCEPT !.token = l[2], !.until = LeaseLen])
    /\ UNCHANGED <<held, pushed>>

Reclaim(p) ==
    /\ p \in Reclaimers
    /\ \E todo \in Expired : Starts(p, "reclaim", todo, Idle)
    /\ UNCHANGED <<held, pushed>>

Cancel(p, j) ==
    /\ blob[j] # NoBlob
    /\ Starts(p, "cancel", <<j>>, Idle)
    /\ UNCHANGED <<held, pushed>>

\* DLQ retry and discard: of any dead letter the filter lets through.
Operate(p) ==
    /\ \E j \in dead, op \in {"retry", "discard"} : Starts(p, op, <<j>>, Idle)
    /\ UNCHANGED <<held, pushed>>

-----------------------------------------------------------------------------
(* The store calls *)

At(p, storeCall) ==
    call[p].route # <<>> /\ Head(call[p].route) = storeCall

Job(p) == call[p].todo[1]

NextMember(c) ==
    IF Len(c.todo) = 1 THEN Idle
    ELSE [c EXCEPT !.todo = Tail(@), !.route = Route(c.op, c.todo[2]), !.copy = NoBlob]

OneOn(c) ==
    IF Len(c.route) = 1 THEN NextMember(c) ELSE [c EXCEPT !.route = Tail(@)]

\* The call goes on as c; a call that is over answers: a pull with what it got,
\* a push with Ok.
Becomes(p, c) ==
    /\ call' = [call EXCEPT ![p] = c]
    /\ held' = IF c = Idle THEN held \union call[p].got ELSE held
    /\ answered' = IF c = Idle /\ call[p].op = "push" THEN answered \union {Job(p)}
                   ELSE answered
    /\ UNCHANGED <<pushed, mishaps>>

GoesOn(p) == Becomes(p, OneOn(call[p]))

\* Wrong: the marker is set without if_absent.
Mark_Always(p) ==
    /\ At(p, "mark")
    /\ uniq' = uniq \union {KeyOf[Job(p)]}
    /\ GoesOn(p)
    /\ UNCHANGED <<blob, indexes, slot, finished>>

\* The marker is the deduplication: the second caller is told Ok and is done.
Mark(p) ==
    /\ At(p, "mark")
    /\ IF KeyOf[Job(p)] \in uniq
       THEN Becomes(p, Idle) /\ UNCHANGED uniq
       ELSE GoesOn(p) /\ uniq' = uniq \union {KeyOf[Job(p)]}
    /\ UNCHANGED <<blob, indexes, slot, finished>>

Unmark(p) ==
    /\ At(p, "unmark")
    /\ uniq' = uniq \ {KeyOf[Job(p)]}
    /\ GoesOn(p)
    /\ UNCHANGED <<blob, indexes, slot, finished>>

Load(p) ==
    /\ At(p, "load")
    /\ IF Proceeds(call[p], blob[Job(p)])
       THEN \E b \in Updated(call[p].op, blob[Job(p)]) :
                Becomes(p, [OneOn(call[p]) EXCEPT !.copy = b])
       ELSE Becomes(p, NextMember(call[p]))
    /\ UNCHANGED <<blob, indexes, uniq, slot, finished>>

Save(p) ==
    /\ At(p, "save")
    /\ blob' = [blob EXCEPT ![Job(p)] = call[p].copy]
    /\ finished' = IF call[p].op = "ack" THEN finished \union {Job(p)} ELSE finished
    /\ LET c == call[p]
       IN  Becomes(p, OneOn(IF c.op = "pull"
                            THEN [c EXCEPT !.got = @ \union {<<Job(p), c.copy.token>>}]
                            ELSE c))
    /\ UNCHANGED <<indexes, uniq, slot>>

Erase(p) ==
    /\ At(p, "erase")
    /\ blob' = [blob EXCEPT ![Job(p)] = NoBlob]
    /\ GoesOn(p)
    /\ UNCHANGED <<indexes, uniq, slot, finished>>

Enqueue(p) ==
    /\ At(p, "enqueue")
    /\ ready' = Zadd(ready, Job(p), call[p].copy.runIn)
    /\ GoesOn(p)
    /\ UNCHANGED <<blob, leased, dead, uniq, slot, finished>>

Lease(p) ==
    /\ At(p, "lease")
    /\ leased' = Zadd(leased, Job(p), call[p].until)
    /\ GoesOn(p)
    /\ UNCHANGED <<blob, ready, dead, uniq, slot, finished>>

Bury(p) ==
    /\ At(p, "bury")
    /\ dead' = dead \union {Job(p)}
    /\ GoesOn(p)
    /\ UNCHANGED <<blob, ready, leased, uniq, slot, finished>>

\* Wrong: the answer of zrem is not looked at.
Removed_Not(p, members) == GoesOn(p)

\* zrem: only a claim looks at the answer.
Removed(p, members) ==
    IF call[p].op \in Claims /\ Job(p) \notin members
    THEN Becomes(p, NextMember(call[p]))
    ELSE GoesOn(p)

Unready(p) ==
    /\ At(p, "unready")
    /\ ready' = Zrem(ready, Job(p))
    /\ Removed(p, DOMAIN ready)
    /\ UNCHANGED <<blob, leased, dead, uniq, slot, finished>>

Unlease(p) ==
    /\ At(p, "unlease")
    /\ leased' = Zrem(leased, Job(p))
    /\ Removed(p, DOMAIN leased)
    /\ UNCHANGED <<blob, ready, dead, uniq, slot, finished>>

Undead(p) ==
    /\ At(p, "undead")
    /\ dead' = dead \ {Job(p)}
    /\ Removed(p, dead)
    /\ UNCHANGED <<blob, ready, leased, uniq, slot, finished>>

SlotOf(j) == slot[NameOf[j]]
SetSlot(j, s) == slot' = [slot EXCEPT ![NameOf[j]] = s]

\* Wrong: the loser drops the member it has claimed.
ClaimSerial_Drops(p) ==
    /\ At(p, "slot")
    /\ IF SlotOf(Job(p)) = FreeSlot
       THEN GoesOn(p) /\ SetSlot(Job(p), [job |-> Job(p), left |-> LeaseLen])
       ELSE Becomes(p, NextMember(call[p])) /\ UNCHANGED slot
    /\ UNCHANGED <<blob, indexes, uniq, finished>>

\* claim_serial.  The loser puts the member back at the score it came with.
ClaimSerial(p) ==
    /\ At(p, "slot")
    /\ IF SlotOf(Job(p)) = FreeSlot
       THEN GoesOn(p) /\ SetSlot(Job(p), [job |-> Job(p), left |-> LeaseLen])
       ELSE Becomes(p, [call[p] EXCEPT !.route = <<"enqueue">>]) /\ UNCHANGED slot
    /\ UNCHANGED <<blob, indexes, uniq, finished>>

\* release_serial: a compare-and-delete on the job id.
ReleaseSerial(p) ==
    /\ At(p, "unslot")
    /\ IF SlotOf(Job(p)).job = Job(p) THEN SetSlot(Job(p), FreeSlot) ELSE UNCHANGED slot
    /\ GoesOn(p)
    /\ UNCHANGED <<blob, indexes, uniq, finished>>

\* Wrong: a renewal leaves the slot to its TTL.
ExtendSerial_Not(p) ==
    /\ At(p, "extend")
    /\ GoesOn(p)
    /\ UNCHANGED <<blob, indexes, uniq, slot, finished>>

\* expire looks at no holder.
ExtendSerial(p) ==
    /\ At(p, "extend")
    /\ IF SlotOf(Job(p)) = FreeSlot THEN UNCHANGED slot
       ELSE slot' = [slot EXCEPT ![NameOf[Job(p)]].left = LeaseLen]
    /\ GoesOn(p)
    /\ UNCHANGED <<blob, indexes, uniq, finished>>

StoreCall(p) ==
    \/ Mark(p) \/ Unmark(p) \/ Load(p) \/ Save(p) \/ Erase(p)
    \/ Enqueue(p) \/ Lease(p) \/ Bury(p)
    \/ Unready(p) \/ Unlease(p) \/ Undead(p)
    \/ ClaimSerial(p) \/ ReleaseSerial(p) \/ ExtendSerial(p)

-----------------------------------------------------------------------------
(* Time and mishaps *)

Mishap(kind) ==
    kind \in Mishaps /\ mishaps < MaxMishaps /\ mishaps' = mishaps + 1

\* The leases someone alive still answers for: returned, on their way back from
\* a pull, or handed to an ack or nack that has not written yet.
Leases ==
    held \union (UNION {call[p].got : p \in Callers})
         \union {<<Job(p), call[p].token>> :
                    p \in {q \in Callers : /\ call[q].op \in Settles
                                           /\ \E i \in DOMAIN call[q].route :
                                                call[q].route[i] = "save"}}

Current(l) == blob[l[1]].token = l[2]

\* Healthy clients renew in time, and a call is short beside a lease.
Timely ==
    /\ \A l \in Leases : Current(l) /\ l[1] \in DOMAIN leased => leased[l[1]] # 1
    /\ \A p \in Callers : call[p].until # 1

Sooner(d) == IF d > 0 THEN d - 1 ELSE 0
Later(d) == IF d > -MaxOverdue THEN d - 1 ELSE d
Aged(b) == IF b = NoBlob THEN b ELSE [b EXCEPT !.runIn = Later(@)]

Tick ==
    /\ blob' = [j \in Jobs |-> Aged(blob[j])]
    /\ ready' = [j \in DOMAIN ready |-> Later(ready[j])]
    /\ leased' = [j \in DOMAIN leased |-> Sooner(leased[j])]
    /\ slot' = [n \in Names |-> IF slot[n].left <= 1 THEN FreeSlot
                                ELSE [slot[n] EXCEPT !.left = @ - 1]]
    /\ call' = [p \in Callers |-> [call[p] EXCEPT !.copy = Aged(@), !.until = Sooner(@)]]
    /\ UNCHANGED <<dead, uniq, held, pushed, answered, finished>>

TickTimely == Timely /\ Tick /\ UNCHANGED mishaps

\* A client is paused past its lease.
TickStalled == ~Timely /\ Mishap("stall") /\ Tick

\* The call ends where it is, and with it whatever it had in its hands.
Interrupt(p) ==
    /\ call[p] # Idle
    /\ Mishap("error")
    /\ call' = [call EXCEPT ![p] = Idle]
    /\ UNCHANGED <<blob, indexes, uniq, slot, held, pushed, answered, finished>>

\* A client dies, and a renewal it was making with it.
Drop(l) ==
    /\ Mishap("crash")
    /\ held' = held \ {l}
    /\ call' = [p \in Callers |-> IF Renews(p, l) THEN Idle ELSE call[p]]
    /\ UNCHANGED <<blob, indexes, uniq, slot, pushed, answered, finished>>

Begin(p) ==
    \/ \E j \in Jobs, delay \in 0..MaxDelay : Push(p, j, delay)
    \/ Pull(p) \/ Reclaim(p) \/ Operate(p)
    \/ \E l \in held : Heartbeat(p, l) \/ \E op \in Settles : Settle(p, l, op)
    \/ \E j \in Jobs : Cancel(p, j)

Next ==
    \/ \E p \in Callers : Begin(p) \/ StoreCall(p) \/ Interrupt(p)
    \/ \E l \in held : Drop(l)
    \/ TickTimely \/ TickStalled

Spec == Init /\ [][Next]_vars

\* What a fleet of polling workers brings about: a call goes on, workers keep
\* pulling and reclaiming, and every body ends and is settled.
Fairness ==
    /\ \A p \in Callers : WF_vars(StoreCall(p))
    /\ WF_vars(TickTimely)
    /\ SF_vars(\E p \in Callers : Pull(p))
    /\ SF_vars(\E p \in Callers : Reclaim(p))
    /\ \A j \in Jobs : SF_vars(\E p \in Callers, l \in held, op \in Settles :
                                    l[1] = j /\ Settle(p, l, op))

FairSpec == Spec /\ Fairness

-----------------------------------------------------------------------------
(* Properties *)

\* The blobs, indexes and calls have the shapes the code gives them.
TypeOKR ==
    /\ blob \in [Jobs -> Held]
    /\ DOMAIN ready \subseteq Jobs /\ DOMAIN leased \subseteq Jobs /\ dead \subseteq Jobs
    /\ uniq \subseteq Keys
    /\ \A n \in Names : slot[n].job \in Jobs \union {NoJob} /\ slot[n].left \in 0..LeaseLen
    /\ held \subseteq Jobs \X Tokens
    /\ \A p \in Callers : call[p].copy \in Held /\ call[p].until \in 0..LeaseLen

Phase(j) ==
    CASE blob[j].state \in Waiting -> "waiting"
      [] blob[j].state = "running" -> "leased"
      [] blob[j].state = "absent" /\ j \in finished -> "done"
      [] OTHER -> blob[j].state

LQ == INSTANCE LeaseQueue WITH
        phase <- [j \in Jobs |-> Phase(j)],
        holder <- [j \in Jobs |-> blob[j].token],
        leases <- Leases

\* As long as no client outlives its lease, no operator cancels and one caller at
\* a time runs maintenance, the store calls of push, pull, ack, nack, heartbeat,
\* reclaim and discard, in any interleaving and cut short at any of them,
\* keep the contract of the Queue trait: the save is where each takes effect.
ImplementsLeaseQueue == LQ!Spec

InHand(j) == \E p \in Callers : call[p].todo # <<>> /\ Job(p) = j

\* Where pull and reclaim look for a row, or a call that will put it there.
Findable(j) == j \in DOMAIN ready \union DOMAIN leased \/ InHand(j)

\* A row that is to run can be found: it is in the ready set, in the leased
\* set, or in the hands of a call, since neither pull nor reclaim looks anywhere
\* else.
Accounted ==
    \A j \in Jobs : blob[j].state \in Active => Findable(j)

\* The same of the rows whose push returned Ok, whatever becomes of later calls:
\* "At-least-once.  A worker that dies mid-job has that job reclaimed" (worker.rs).
\* A push cut short between its save and its zadd has promised nothing.
AtLeastOnce ==
    \A j \in answered : blob[j].state \in Active => Findable(j)

\* A zrem that answers 1 is an exclusive claim: a member is in one of the
\* three sets, or with one claimant that has not put it back, never in two
\* places.  Two places would be two workers.
Claimed(j) ==
    {p \in Callers : /\ call[p].op \in Claims /\ InHand(j) /\ call[p].todo # <<>>
                     /\ Job(p) = j
                     /\ Head(call[p].route) \notin {"unready", "unlease", "undead"}}

OnePlace ==
    \A j \in Jobs :
        Cardinality({z \in 1..3 : j \in <<DOMAIN ready, DOMAIN leased, dead>>[z]})
            + Cardinality(Claimed(j)) <= 1

\* The store's records have their shapes and every member is in one place.
IndexCoherent == TypeOKR /\ OnePlace

\* The leases under which a body may run.
Running == {l \in held \union UNION {call[p].got : p \in Callers} : Current(l)}

\* One instance of a serial job in the fleet: the slot, a key with a TTL that
\* knows only the job's id, stands for the lease through renewals, crashes,
\* reclaims and calls cut short.
SerialOneHolder ==
    \A l, k \in Running : SameSerial(l[1], k[1]) => l = k

\* The marker deduplicates: of the rows of one key, one at most is queued or
\* leased, although settling takes the row out of its set in one call and the
\* marker away in another.
UniqueInFlight ==
    \A i, j \in DOMAIN ready \union DOMAIN leased : SameKey(i, j) => i = j

\* Every row in the queue ends: done, or dead.
EveryRowSettles ==
    \A j \in Jobs : j \in DOMAIN ready ~> blob[j].state \in {"dead", "absent"}

\* A settle never writes over the run of another lease (reclaim: "Dropping the token is what
\* makes the dead worker's `ack` fail rather than complete somebody else's
\* run").
SettlesNoOthersRun ==
    [][\A p \in Callers :
        Save(p) /\ call[p].op \in Settles
            => blob[Job(p)].token \in {call[p].token, NoToken}]_vars

\* A settle under one lease does not give away the slot another one is current
\* for (release_serial: it "must not free the slot the worker that took over is
\* holding").
SlotKeptByHolder ==
    [][\A p \in Callers, l \in held :
        ReleaseSerial(p) /\ call[p].op \in Settles /\ call[p].token # l[2]
            /\ Current(l) /\ SlotOf(l[1]).job = l[1]
                => slot'[NameOf[l[1]]].job = l[1]]_vars

\* Reclaim takes a lease from its holder only once it has expired.  "Called
\* periodically by every worker, which is why it must be safe to run
\* concurrently." (Queue::reclaim)
TakesExpiredOnly ==
    [][\A p \in Callers :
        Unlease(p) /\ call[p].op = "reclaim" /\ Job(p) \in DOMAIN leased
            => leased[Job(p)] <= 0]_vars

\* A cancelled row does not run ("which is what makes cancelling mean
\* something").
CancelSticks ==
    [][\A j \in Jobs : blob[j].state = "cancelled" => blob'[j].state # "running"]_vars

\* A marker stands for an active row, or for a call about to change that.  "A
\* duplicate under an active unique_key is ... a successful no-op" (Queue::push),
\* under no other.
MarkerMeansActive ==
    \A j \in Jobs :
        Keyed(j) /\ KeyOf[j] \in uniq =>
            \E i \in Jobs : SameKey(i, j) /\ (blob[i].state \in Active \/ InHand(i))

\* "Not before this time." (QueuedJob::run_at)
NotBeforeRunAt ==
    \A l \in Running : blob[l[1]].runIn <= 0

\* A due row is there for a pull to see, whatever its priority.
DueIsSeen ==
    \A j \in DOMAIN ready : ready[j] <= 0 => Score(j) <= 0

\* A job that "has been ready for more than a day" goes before a more urgent
\* one that has just become ready (PRIORITY_WEIGHT).
StarvingWins ==
    \A i, j \in DOMAIN ready :
        ready[i] < -PriorityWeight /\ ready[j] = 0 => Score(i) <= Score(j)
=============================================================================
