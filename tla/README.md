# A TLA+ model of moso

moso is a web framework in Rust: a family of crates for HTTP, an ORM, migrations, a key-value
store, authentication, mail, storage and background jobs. Most of it is sequential code that
builds text or data. What is concurrent, survives crashes and makes promises about ordering is
concentrated in a few places: first of all in `moso-jobs`, where workers in many processes lease
rows of a shared queue, renew, lose, retry and bury them while operators cancel and redrive them
and deployments come and go; then in the parts of the other crates where several requests or
processes share a database, a store or a signal. Those are what this project models.

Paths below are relative to `src/crates/`.

## 1. Inventory

### moso-jobs: the queue and its workers

| component | state | operations | what is hard | what makes it correct |
|---|---|---|---|---|
| Queue contract (`moso-jobs/src/queue.rs`, `dlq.rs`) | per row: state, attempt, run_at, lock token, locked_until | push, pull, ack, nack, heartbeat, reclaim, cancel; retry and discard of dead letters | a late call under a lease that is no longer current | one holder per row; only the current lease settles; settled rows are final |
| In-memory queue (`backend/memory.rs`) | a map of entries under one lock, the list of serial names | the contract, and `advance` | eligibility depends on other rows (unique chains, serial types) | the contract; unique keys; one live lease of a serial type |
| Worker (`worker.rs`) | semaphore, in-flight map, round counter, one task and one heartbeat task per leased row | run, pull_round, shares, execute, finish, shut_down, maintenance | several processes, stalls, crashes, panics, lost heartbeats, drains | permits bound leases; no overlap without a fault; every job settles; shutdown is bounded |
| Retry policy (`retry.rs`) | none | next_delay | the budget is decided on the pulled copy | attempts stay within the budget |
| SQL queue (`backend/pg.rs`) | jobs and dead-letter tables, advisory locks | the contract, in statements and transactions | two statements of one transaction around a concurrent reclaim; serial pulls that overlap | refines the contract |
| Redis queue (`backend/redis.rs`) | blob per job, ready and leased sorted sets, unique and serial markers | the contract, each as several store calls | any interleaving, or a crash, between two calls | refines the contract, or where it does not |
| Outbox (`backend/outbox.rs`) | staging table | stage in the caller's transaction, relay | push, crash, push again; two relays | every committed row is pushed, once per unique key |
| Scheduler (`schedule.rs`, `cron.rs`) | lease of the leader, last run of each schedule | acquire, renew, fire | leadership moves between the check and the firing | an occurrence fires once |
| Once ledger (`once.rs`) | claim and recorded result per step | claim, take over, record | a slow holder against a take-over | the recorded result is the one every replay sees |
| Enqueue and backpressure (`enqueue.rs`) | sampled queue depth | enqueue, enqueue in a transaction | the sample is stale when it is used | rejection above the limit |
| Job context (`job.rs`) | lease, cancellation | heartbeat, cancelled, once, enqueue | the body and its heartbeat task share them | a lost lease reaches the body |

Registry, configuration, dashboard, metrics, traces and health of the crate check, render or
count and have no protocol of their own.

### The other crates

| component | state | operations | what is hard | what makes it correct |
|---|---|---|---|---|
| Leased lock (`moso-kv/src/lock.rs`) | a key with an expiry | try_lock, renew, release | expiry under a paused holder | modelled as the scheduler's election uses it |
| Circuit breaker (`breaker.rs`, `kv.rs`) | a few atomics | allow, record_success, record_failure | accesses interleave; calls outlive the state that let them through | one probe; it closes again |
| Single flight, cache (`flight.rs`, `kv.rs`) | a map of weak slots; the cached value | get_or_insert_with, invalidate | leaders that fail or are dropped, sweeps, invalidation beside a computation | one computation; nobody waits for ever; fresh values |
| Rate limiter (`rate.rs`) | one number per bucket, with a time to live | the script, or get and compare-and-swap | clocks that differ, lost races, buckets that expire | no window admits more than burst and drain |
| Refresh tokens (`moso-auth/src/store/refresh.rs`) | a row per token, a family id | issue, exchange, revoke, sweep | two exchanges of one token; a burn beside a rotation | one live token per family, none after a burn |
| Sessions (`session.rs`) | a record per id, an index per user | load, log_in, cycle_id, destroy, delete_for_user, save | requests that hold a copy; a failure between two writes | an ended session stays ended; the index misses none |
| Migration runner (`moso-migrate/src/runner.rs`, `ledger.rs`) | ledger, lock row or session lock | migrate, rollback, resolve | files without a transaction, deaths, a lease that runs out | one migrator; the ledger tells the truth |
| Transactions (`moso-orm/src/tx.rs`, `request_tx.rs`) | one connection, savepoints | transaction_with, savepoint, the layer's decision | nesting, retries, aborted transactions | what is answered is what is committed |
| Keyset pages (`page.rs`) | none; a cursor in the client's hands | plan, fetch | NULLs and ties; rows that change between two pages | every untouched row once, in order |
| Shutdown (`moso-core/src/shutdown.rs`, `app.rs`) | flag, notifier, guards, grace | trigger, recv, Drain, serve_on | a wake-up lost; a guard nobody drops | the process ends |

The rest is not modelled: `moso-sql`, `moso-authz`, `moso-schema`, `moso-openapi`, `moso-macros`,
`moso-orm-macros` and the diffing half of `moso-migrate` are pure functions over text, policies,
schemas and tokens; `moso-mail`, `moso-storage`, `moso-cli`, `moso-test` and `moso` are input and
output, generators, a harness and re-exports; routing, extraction and responses of `moso-core`,
query building of `moso-orm`, hashing and OAuth of `moso-auth`, stores and codecs of `moso-kv` are
sequential. The bus of `moso-kv` promises best effort and no more.

### How the parts interact

The worker calls the queue through the `Queue` trait and never sees a row after it pulled it: it
works on a *copy* (attempt, policy) and a *lease* (job id and token). Every later call carries the
lease, and the queue compares the token. Inside a worker the loop, the body, the heartbeat task
and the shutdown path share three things: the semaphore, the in-flight map from job id to
cancellation, and the cancellation itself. Operators reach a running body only through the queue:
`cancel` drops the token, the next renewal is refused, and the heartbeat task fires the
cancellation.

`PROJECT.json` lists, under `hazards`, what is hard to test in this code, each at its line and
with the properties that watch it.

## 2. The modules

| module | models | state |
|---|---|---|
| `LeaseQueue` | the contract of `Queue` and `DeadLetterQueue`, abstract | `phase`, `holder`, `leases` |
| `MemoryQueue` | `backend/memory.rs`, and `pull_order` of `queue.rs` | `rows` (the map), `held` (the `Lease` values clients hold, stale ones too), `revived` (ghost: rows an operator retried) |
| `JobWorker` | `worker.rs`, with `next_delay` of `retry.rs` and `JobCtx::heartbeat`; extends `MemoryQueue` | `exec` (one execution per held lease), `worker` (each loop), `inflight` (each in-flight map), `faults`, `deploys` |
| `RedisQueue` | `backend/redis.rs`, store call by store call | `blob` (a job's record), `ready`, `leased`, `dead` (the sorted sets), `uniq` and `slot` (the markers), `held`, `call` (the operation each caller is in the middle of), `pushed`, `answered`, `finished` (ghosts), `mishaps` |
| `PgQueue` | `backend/pg.rs`, statement by statement | `rows`, `dead` (the two tables), `staged` (open inserts), `pulls` (each connection's statement), `burials`, `held` |
| `Outbox` | `backend/outbox.rs`, between callers' transactions and an inner queue | `obTable` and `obBefore` (the rows, and which were staged before which), `obTx`, `obRelay` (each relay's pass), `obInner`, `obRuns` |
| `Scheduler` | `schedule.rs`, with the election of `lock.rs` | `scLock`, `scLeft`, `scProc` (leadership, cursor and plan of each process), `scQueue` |
| `Once` | `once.rs`, one key | `entry` (claim and outcome), `calls` |
| `Breaker` | `breaker.rs`, and `guarded` of `kv.rs` | the atomics, `bkCall` (how far each caller is) |
| `ReadThrough` | `flight.rs` and `get_or_insert_with` of `kv.rs` | `rtCache`, `rtMap`, `rtCell`, `rtCall` |
| `RateLimit` | `rate.rs`, one bucket | `rlTat` and `rlDies` (the bucket), `rlCalls` |
| `RefreshTokens` | `store/refresh.rs`, one family, both stores | `tkRow` (committed rows), `tkCall` (each open exchange) |
| `SessionStore` | `session.rs`, one user | `record`, `index`, `request` |
| `Migrate` | `runner.rs`, `ledger.rs` | `mgRow` (the ledger), `mgDone` (the schema), `mgLock`, `mgRun` |
| `Transaction` | `tx.rs`, `request_tx.rs` | `txSaved` and `txMade` (savepoints and writes), `txUnder` and `txSince` (the savepoints before each), `txBody`, `txWhole`, `txStored` |
| `Keyset` | `page.rs` | `ksTable`, `ksCursor`, `ksLog` (what the client was given) |
| `Shutdown` | `shutdown.rs`, `serve_on` of `app.rs` | `sdTrigger`, `sdRecv`, `sdGuard`, `sdServe` |
| `MCMemoryQueue`, `MCJobWorker`, `MCRedisQueue` | small instances for TLC | |
| `MCDatabaseClaims`, `MCLoops`, `MCStores` | small instances of several modules, one at a time | `part` (which one) |
| `MemoryQueueProofs`, `JobWorkerProofs`, `PgQueueProofs`, `RedisQueueProofs`, `RefreshTokensProofs` | theorems about the module of that name | |
| `LoopsProofs` | theorems about `Outbox`, `Scheduler`, `Breaker` and `ReadThrough`, and about the parts of `MCLoops` beside each other | |
| `StoresProofs` | theorems about `SessionStore` and `RateLimit`, as `MCStores` composes them | |
| `DatabaseProofs` | theorems about `Once`, `Migrate`, `Keyset` and `Transaction`, and, with those of `PgQueueProofs` and `RefreshTokensProofs`, about the parts of `MCDatabaseClaims` beside each other | |

The three composing instances extend modules that share no state. Each behaviour runs one of them,
the one `part` names, and the others stay at an initial state: what a run shows of a part is what
its own module would show alone, under the same fairness. In every module a definition marked
`Wrong:` is a plausible bug, there to show that a property can fail; nothing else uses it.

### MemoryQueue

Every operation of the memory backend holds one write lock for its whole body, so each is one
action with the code's guards: `Push` (capacity, then the unique key; both refusals leave the map
alone), `Pull` (`Leasable`, then `Batches`, then `Lease`), `Ack`, `NackRetry` and `NackDead` (nack
with and without a time), `Heartbeat`, `Reclaim`, `Cancel`, `Retry`, `Discard`. `Stale` is the
refusal of an ack or nack whose token no longer matches: only the client's lease disappears.

* A batch of a pull is defined by what it may contain, not by a sort: it respects `pull_order`,
  takes one row per serial name and stops at the limit. Ties, which the code breaks by id, are
  left open, so every tie break is covered.
* Time is relative. `runIn` and `leaseLeft` are the distances of `run_at` and `locked_until` from
  now, and `Tick` shortens them, which is also how `MemoryQueue::advance` moves time. "Locked
  until later than now" is `leaseLeft > 0` and "locked until earlier than now" is `leaseLeft < 0`,
  so the two boundary comparisons of `leasable` and `reclaim`, which differ at equality, differ in
  the model as well.
* A client is arbitrary in `Spec`: any lease ever handed out may be acked, nacked, renewed or
  dropped at any time. Only `nack` with a time is limited to a row with retries left, as a worker
  would ask.
* A job id is fresh when it is pushed, as `EnqueueBuilder` makes it.

### JobWorker

An execution is keyed by its lease, and its stages are the places a task can be: leased and not
spawned, body running, body over and the answer not sent, or panicked with only the heartbeat
left. `BeginRound` counts the free permits once; `PullShare` is one pull of the round, for one
queue and its share of those permits; `Spawn` starts a task per row and writes the in-flight map,
which is keyed by job id. The body ends in `BodySucceeds`, `BodyFails`, `BodyFailsForGood`,
`BodyCancelled` or `BodyPanics`, the heartbeat task moves in `Beat`, `BeatRefused` and `BeatFails`,
and `Report` is the ack or nack; between any two of them everybody else may move. Shutdown is
`Signal`, `Drain`, `Drained`, `GraceExpires`, `UnwindExpires` and `Exit`, and a process that is
gone may `Restart`.

Faults are counted by `faults` and bounded by `MaxFaults`: a crash, a stall past a lease, a queue
that cannot be reached (in a pull, a renewal or an answer) and a panic. `TickTimely` is the clock
of a healthy fleet: it does not let a lease that is current run out, because a process that is
neither dead nor paused renews at a third of the lease. `TickStalled` is the tick that does.

### RedisQueue

No operation of this backend is atomic. `Route` gives each operation as the store calls it makes,
in the code's order, for one member of its list: pull is zrem from the ready set, get, the serial
slot, set, zadd to the leased set; ack is get, zrem, the markers, set, delete; and so on. A
caller's `call` holds the members left, the calls left for the first of them and the copy of the
blob that will be written back; each store call (`Mark`, `Load`, `Save`, `Enqueue`, `Lease`,
`Unready`, `ClaimSerial`, ...) is one action, shared by the operations that make it. `Removed` is
the code's use of zrem as a claim: pull, reclaim, retry and discard go on only if they removed the
member, while ack, nack and cancel do not look.

* `Interrupt` ends a call where it is: a store error that returns through `?`, a dropped future, a
  dead process. `Drop` is a client that dies with a lease and takes its renewal with it.
* `TickTimely` is time among healthy clients: no current lease runs out under a living client, and
  no pull or renewal takes as long as a lease. `TickStalled` is the tick that breaks this, and is
  counted as a mishap. The serial slot has a TTL of its own, and `TickTimely` does not look at it:
  that it outlasts the lease is checked, not assumed.
* One queue is modelled. The indexes are per queue in the code, the slots and the unique markers
  know no queue, and each queue of a pull or reclaim is handled by the same loop.
* `Reclaimers` are the callers that run maintenance. The code lets every worker do so. With two,
  a reclaim may take a fresh lease (`TakesExpiredOnly`, section 4), so `redis_queue` and
  `redis_live` have one; `redis_stall` has two.
* The marker of a unique key does not expire here (it does after a day in the code).

### PgQueue

A statement that names a row by id and token is atomic, because it waits for the row's lock and
looks again before it writes; `Ack`, `NackRetry`, `Heartbeat`, `Reclaim`, `Cancel`, `Retry` and
`Discard` are one action each. Three operations are not. A pull is `PullStarts` (its snapshot, and
the serial clause on it), `PullWrites` (the advisory locks and the rows it locks, each looked at
again) and `PullCommits` or `PullEnds`. A burial is `BuryCopies` and `BuryDeletes`, whose delete
names the id alone. A push in the caller's transaction is `PushTx`, then `CommitTx` or
`RollbackTx`. Anybody may move in between. `MaxCrossings` bounds how often a reclaim or an
operator takes a row from under a burial; the run has none, for the reason given in section 4
(`BuriesOwnRunOnly`). SQLite serialises writers: it is the case of one session.

### Outbox, Scheduler, Once

`Outbox` is the table, the relays (`ObSelect`, then `ObPush` and `ObDelete` for each row of the
batch, or `ObDecodeFails`) and the inner queue, reduced to what a push does with an identifier it
knows: the SQL queue ignores it, Redis and memory overwrite the row (`obKeeps`). The locks of
`for update skip locked` end with the statement, which runs in no transaction, so two relays may
read the same rows. A batch is a set of rows, taken from its oldest by `staged_at`. `ObCutShort` is an error or a death between any two steps.

`Scheduler` is one schedule with occurrences at the multiples of a period. A pass is `ScPass` (lead
or not, plan, move the cursor) and one `ScPush` per planned occurrence; the signal is looked at
between two passes. Both elections (a leased key and PostgreSQL's advisory lock), catch-up on and
off, and both overlap modes are initial choices. A tick passes only when every process that is not
stalled has passed. `ScElectionFails` is a renewal or an election the store fails: the leader drops
its guard (`schedule.rs:1082`, `:1103`), what it asked for may have been done all the same, and the
release the dropped guard spawns may fail too, which leaves the key to its lease. The holder of an
advisory lock asks nobody.

`Once` is one key, in the table (a claim is one statement) and in the key-value store (set if
absent, read, compare and swap). Ages are counted up to `OrphanAfter`.

### Breaker, ReadThrough, RateLimit, Shutdown

`Breaker` takes every access of an atomic as a step, a load together with the store computed from
it only for the cooldown. `bkStray` is a ghost: a call that was let through before the breaker
opened is recorded while a probe is out. `bkUndecided` is the other: a probe ended and recorded
nothing (a dropped future, or an error that is no transient one).

`ReadThrough` is one key in one process. A slot is alive while a caller holds it, which is what the
`Weak` of the map sees; `RtLead` is the OnceCell's permit; `RtDrop` is a future dropped at any of
its awaits, with the write it was waiting for reaching the store or not.

`RateLimit` has the script (`RlStamp`, `RlEval`) and the compare-and-swap loop (`RlGet`,
`RlDecide`, `RlSwap`) on one bucket. A process's clock is up to `RlSkew` behind the store's, and
any time may pass between its reading and the store's call. `rlLate` says that a reading was used
when it was older than a bucket outlives its use.

`Shutdown` is recv as its three steps, trigger as its three, the guards, and serve_on from the
signal to the end. Nobody is sure to end a connection or to drop a guard.

### RefreshTokens, SessionStore

`RefreshTokens` follows an exchange statement by statement: `TkClaim` (the compare-and-set, which
waits for the row), `TkSelect`, then one of insert, burn and expiry, and `TkCommit`. A delete by
family is `TkBurn`, which fixes the rows it saw, and `TkDelete`, which waits for them. The memory
store takes its lock twice (`TkDecide`, `TkRecord`). Any token that was ever handed out may be
presented at any time, by any number of clients.

`SessionStore` takes every call of the store as a step. A load that finds a record past its age
deletes it, call by call, and goes on as a fresh session; a listing reads every record first and
removes the stale identifiers from the index afterwards. `SsExpire` is a record's own time to live.
A call may fail or the request be dropped anywhere (`SsTrouble`). `revived` and `torn` are ghosts:
a record put back by a request that had it in hand when it ended, and one whose request was cut
short before the index.

### Migrate, Transaction, Keyset

`Migrate` is the sequence of migrate: look at the ledger, wait for the lock, look again, then per
file, the lowest version first, renew the lock and apply it, in one transaction or statement by
statement under a dirty row.
What a file has done to the schema is the number of its statements. SQLite's lock row has a lease
and may be reaped from a holder that is alive; `sure` is a ghost that says it was not. A human
resolves a dirty row only while nobody migrates.

`Transaction` is what the database keeps of an open transaction, and the bodies that write to it:
the savepoints, the writes, and for each the savepoints that were there before it. Rolling back to a
savepoint undoes what came after it, releasing one forgets it and the later savepoints. Savepoints
may nest, overlap, and be dropped half way; on PostgreSQL a failed statement aborts the transaction,
and its commit is a rollback that reports no error.

`Keyset` is a walk through the pages of a query that sorts by one nullable column and the primary
key, in each direction and with NULLs at each end, while other connections insert, change and
delete rows. `KeysetExpr` and `StrictlyAfter` are what page.rs renders, as SQL evaluates it;
`Before` is what the database's `order by` means. A page is said by what it is (`IsPage`): rows past
the cursor, in order, as many as there are up to the limit, and none left out before the last.

## 3. What is checked

Each property carries a comment in its module; `PROJECT.json` also names, for each, a plausible bug
in the code that breaks it.

| run | instance | shows |
|---|---|---|
| `memory_queue` | 3 rows on 2 queues, two sharing a unique key and two of one serial type, 3 tokens, delays and leases of 1 tick | `TypeOK`, `LeaseCoherent`, `UniqueUnlessRevived`, `SerialPull`, and that the memory queue implements `LeaseQueue` |
| `job_worker` | 2 workers of one permit each, 2 rows of one serial type on 2 queues, 1 fault of any kind, 1 deployment | `FleetCoherent` (types, and leases fit permits), `WithinBudget`, `NoOverlapWithoutFault`, `DoneOnlyByItsBody` |
| `job_worker_live` | 1 worker over 2 queues, 2 rows, one of a type only the next version knows, 1 fault other than a panic, 1 deployment | `EverySettles` |
| `job_worker_stop` | 2 workers, 1 row, 1 fault, 1 deployment, and bodies that may never end | `LostBodiesStop`, `ShutdownEnds` |
| `redis_queue` | 3 rows, two of one serial type and two of one unique key, 2 calls in flight, 1 maintenance, every operation but cancel and retry, 1 mishap (a call cut short or a client dead) | `IndexCoherent` (types, and one place per row), `SerialOneHolder`, `UniqueInFlight`, and that the Redis queue implements `LeaseQueue` under those conditions |
| `redis_stall` | 1 row, 2 calls in flight, 2 maintenances, every operation, 1 stall past a lease | `Accounted`: calls that run to their end never lose a row, however they interleave |
| `redis_live` | 2 rows of one serial type, 1 client that dies | `EveryRowSettles` |
| `database_claims` | `PgQueue`: 2 rows, every assignment of 2 names (one serial) and 1 key, 2 connections, leases of 1 tick. `Migrate`: 2 processes, 2 files of 2 statements, in a transaction or not, both databases, 1 trouble, 1 rollback. `Once`: 3 callers, both stores, 2 troubles. `Transaction`: 2 savepoints, side by side and nested, 1 retry, 1 failed statement. `RefreshTokens`: 2 clients, 3 tokens, both stores. `Keyset`: 3 rows, 2 values and NULL, pages of 1 and 2, 2 changes during the walk | `ClaimsCoherent` (types; tables, row locks, unique index and advisory locks agree), `SerialPullUnlessOverlapped`, `ImplementsLeaseQueue` for the SQL queue; `LedgerTruth`, `OneAtATime`; `BodiesApart`; `CommitsWhatReturnedOk`; `OneHeir`; `WalkIsExact` |
| `loops` | `Outbox`: 2 jobs, 2 relays, any rows undecodable, 1 pass cut short. `Scheduler`: 2 processes, 3 occurrences, every mode, 1 fault. `Breaker`: 2 callers, threshold 2, 4 failures, 1 dropped call. `ReadThrough`: 3 callers, 2 versions, 1 trouble. `Shutdown`: 3 receivers, 1 guard | `LoopsTypeOK`; `DeliveredBounded`, `ReachedUnlessBlocked`; `InOrderOnce`, `FiresUnlessFault`; `OneProbe`, `Recovers`; `OneComputation`, `FreshUnlessOverlapped`, `WaitersEnd`; `ShutsDown` |
| `stores` | `RateLimit`: 2 callers, burst 2, skew 1, 7 moments, both paths. `SessionStore`: 2 requests, 2 identifiers, 1 operation per handler, 1 trouble | `StoresCoherent` (types; an ended session stays ended, the index misses none), `RateHolds` |

`ImplementsLeaseQueue` of the Redis queue holds because the save of the blob is the moment each
operation takes effect, and a claimed member is in nobody else's reach until then. It needs its
three conditions, and section 4 shows each of them at work: a cancel claims nothing
(`CancelSticks`), a client that outlives its lease writes back an old copy (`SettlesNoOthersRun`),
and a second maintenance claims by a list that is out of date (`TakesExpiredOnly`). Retry is left
out of this run for `UniqueInFlight` alone: it puts a row back without its marker.

`ImplementsLeaseQueue` of the SQL queue needs one: nobody takes a row between the two statements of
its burial (`MaxCrossings = 0`).

Some properties state an exception, and the exception is the finding: what the code does in that
case is in section 4. `SerialPullUnlessOverlapped` excepts a type that gained a live lease after
the snapshot of the pull, `FreshUnlessOverlapped` an invalidation beside a computation, `OneProbe`
a straggler, `Recovers` a probe without a verdict, `OneHeir` a burn beside an open rotation,
`CommitsWhatReturnedOk` savepoints that overlap or are dropped and errors that are swallowed,
`StoresCoherent` a request that had the session in hand. `RateHolds` excepts a reading older than
a bucket outlives its use; `FiresUnlessFault` everything after the first fault.

### Bounds

`MaxFaults` and `MaxDeploys` bound the faults and shutdowns of a behaviour; `MaxDelay` the delay
of a push or a retry; `MaxOverdue` how far past its time a waiting row is told apart, which only
the order of pulls can see; `Tokens` how many leases can be outstanding. A token is a random
number in the code and is reused in the model once no row and no client holds it. Two rows
are the least that can compete for a serial type, a unique key or a permit, and a third makes a
pull choose; two workers are the least that can race; one fault at any point is what the claims
about a single failure speak of. `LeaseLen` is 2 in the worker runs, so that a lease has an
age at which it is neither fresh nor due. An operator redrives a row once in the worker runs. The
safety run gives each worker one permit: with two, a worker runs both rows itself, and the run
takes longer than the five minutes a run may take.

In the Redis runs, `Callers` bounds the calls in flight and `MaxMishaps` the mishaps; two calls are
the least that interleave, and a lease of two ticks has an age at which it must be renewed. A pull
starts only while a token is left for it (`TokensLeft`), so that the small set of tokens cannot
block a call half way; with that, deadlock is checked in the Redis runs.

In the database run, three callers of `Once` are one that holds a claim, one that takes it over and
one that comes later; two savepoints are the least that nest or overlap; three tokens are a family
whose first token was rotated twice, or rotated and replayed; three rows let a page end at a tie or
at a NULL with a row beyond it, and two changes let the row of the cursor move away and another
take its place. In the loops, two relays are the least that read the same rows; the clock of the
scheduler runs for three occurrences, so that catch-up has more to replay than `ScLimit`;
`BkMaxFailures` is enough to open the breaker twice and to reach the ceiling of the cooldown; three
callers of the cache are a leader, a waiter and a newcomer. In the stores, the clock of the rate
limiter is longer than a bucket lives without being used.

In the other runs deadlock is not checked: with every token handed out, every row settled and no
fault or deployment left, an idle system does stop. What must not stop is stated as liveness.

Tokens are interchangeable and are the symmetry set of the safety runs, with connections in
`database_claims`, and requests and identifiers in `stores`. The liveness runs use no symmetry.

### Fairness

`Turning` says what a runtime that is alive does: each loop takes its next step, each heartbeat
task gets its tick, each finished body its answer, a cancelled body its cancellation (the select
in `execute` polls it first), and time passes. Maintenance is strongly fair, because the loop
looks at its timer on every turn and the timer only ever becomes due, while the action itself is
enabled only between rounds; it is owed only while a permit is free, because a loop with every
permit taken is parked on the semaphore. Nothing is assumed of operators, producers,
faults or deployments. `BodiesEnd` adds, for `EverySettles` alone, that a body ends: each job type
has a timeout. `job_worker_stop` is checked without it. `EverySettles` leaves panics out: a body
that panics leaves its heartbeat running, the lease is renewed until the process ends, and the row
is not settled (section 4, `RenewedOnlyWhileRunning`).

`redis_live` assumes that a call in progress goes on, that time passes, and that some worker keeps
pulling, some worker keeps reclaiming and every body ends and is settled. The last three are
strong: a renewal or another caller's operation may get in between any number of times, and a
worker polls again each time.

In `loops` everything is weakly fair, per caller: a relay's loop goes round while its process
lives; a scheduler passes, pushes what it planned, is started again and wakes from a stall, and its
clock moves; callers of the breaker go on calling, a call ends, and time passes; a future of the
cache that is not dropped is polled on; a task that waits for the signal is polled, the thread in
`trigger` goes on, and serve_on's select and its timer run. No failure, drop, fault, commit,
connection or guard is owed anything.

## 4. Findings

Two runs end in a counterexample, each to a sentence of the documentation.

| run | the text | what the code does |
|---|---|---|
| `redis_interrupt` | "At-least-once." (`worker.rs:232`) | `AtLeastOnce`: a job whose push returned Ok and whose pull was cut short after its zrem (`redis.rs:440`) is in no index, and reclaim looks at the leased set only. A push cut short between its save (`redis.rs:397`) and its zadd (`:404`) leaves a record in no index too, but it has promised nothing, and the property excepts it |
| `schedule_twice` | "never duplicated and never dropped" (`schedule.rs:760`) | a standby takes over with a cursor of its own and fires an occurrence whose job is done |

Other sentences do not hold either. Each is stated as a definition, for which no run is kept; to
see the behaviour, put the definition in place of the properties of the configuration named.

| definition | the text | what the code does | instance |
|---|---|---|---|
| `SerialOneLive` | a serial backend "will not lease a second row of a named job while one is leased" (`queue.rs:415`) | a pull looks past an expired lease, and a renewal revives it: two live leases | `memory_queue` |
| `ChainOneRunning` | "A unique key already running blocks the rest of its chain" (`memory.rs:219`) | a redriven dead letter shares its key with a newer row, and one pull leases both | `memory_queue` |
| `RenewedOnlyWhileRunning` | renewed "for as long as the job runs" (`worker.rs:364`) | a panic leaves the heartbeat task running | `job_worker` |
| `DrainNeverBuries` | "Put unfinished jobs back on the queue" (`worker.rs:209`) | a drained job on its last attempt is dead-lettered | `job_worker` |
| `OneLostBeatIsHarmless` | "Two consecutive heartbeats can be lost" (`worker.rs:366`) | the first failed renewal cancels the body | `job_worker` |
| `SerialOneBody` | "never has two instances running at once" (`worker.rs:240`) | a cancel frees the row while its body runs on | `job_worker` |
| `DrainTellsEveryBody` | "Tell the jobs to stop" (`worker.rs:735`) | the in-flight map holds one entry per job id; a worker may run two leases of one job | `job_worker`, `Slots <- MCSlots` |
| `TakesExpiredOnly` | reclaim "must be safe to run concurrently" (`queue.rs`, `Queue::reclaim`) | a slower reclaim removes, by name, a lease taken after it made its list | `redis_stall`, `Mishaps = {}` |
| `SettlesNoOthersRun` | a dropped token makes a dead worker's ack "fail rather than complete somebody else's run" (`redis.rs:640`) | the token is compared on a copy, several calls before the write | `redis_interrupt`, `Mishaps = {"stall"}` |
| `SlotKeptByHolder` | a worker that was reclaimed "must not free the slot the worker that took over is holding" (`redis.rs:239`) | the slot is compared with the job's id, which both have | the same, and `SerialNames = {n1}` |
| `CancelSticks` | dropping the token "is what makes cancelling mean something" (`redis.rs:734`) | a pull between its claim and its save writes a new token over the cancelled row | `redis_interrupt`, `Mishaps = {}`, `Ops <- AllOps` |
| `MarkerMeansActive` | what is dropped is "a duplicate under an active" key (`Queue::push`) | a cancelled row leaves its marker, and pushes are dropped for a day | the same, and `KeyOf <- AllKeyed` |
| `NotBeforeRunAt` | "Not before this time." (`queue.rs:105`) | ten days are taken off the score of a High row, so its delay is not seen | `redis_interrupt`, `Priority <- SomeHigh`, `MaxDelay = 2` |
| `DueIsSeen` | "Runs when nothing else is waiting." (`retry.rs`, `Priority::Low`) | ten days are added to the score of a Low row, so a pull does not see it when it is due | `redis_interrupt`, `Priority <- SomeLow` |
| `StarvingWins` | a normal job "ready for more than a day" wins over High (`redis.rs:48`) | High is 10 steps of a day, not one | `redis_interrupt`, `Priority <- SomeHigh`, `Jobs = {j1, j2}`, `MaxOverdue = 2` |
| `SerialPull` of `PgQueue` | three conditions make the serial claim "airtight" (`pg.rs:386`), since of two statements that overlap "exactly one of them gets past" the advisory lock | a pull whose snapshot is older than the winner's commit asks for the lock after that commit, which has released it | `database_claims` |
| `BuriesOwnRunOnly` | "another worker owns the job now and this one must not bury it" (`pg.rs:628`) | the delete of a burial names the row by id: a reclaim and a new lease between its two statements are buried with it | `database_claims`, `MaxCrossings = 2` |
| `MovedOnce` | "the drain uses `FOR UPDATE SKIP LOCKED`, so a row is moved once" (`outbox.rs:201`) | the select runs in no transaction; two relays push the row, and the second push is a second row once the first is done | `loops` |
| `NeverDropped` | "never duplicated and never dropped" (`schedule.rs:760`) | a push that fails drops the rest of the plan, whose cursor has moved on; a process that is started again begins after now, with catch-up on too | `loops` |
| `FirstOutcomeStays` | a later call "returns the first call's stored outcome" (`job.rs:725`) | a slow holder whose claim was taken over records over the outcome | `database_claims` |
| `ProbeDecides` | "If the probe succeeds the breaker closes; if it fails the cooldown doubles" (`breaker.rs:19`) | a probe whose future is dropped, or fails for good, does neither: the breaker stays half open | `loops` |
| `ErrorIsShared` | "the error goes to every waiter" (`flight.rs:24`) | each waiter runs its own computation in turn | `loops` |
| `SettlesToZero` | the count of flights "should return to zero once everything settles" (`flight.rs:105`) | callers that are dropped do not sweep; the entry stays until the next call of the key | `loops` |
| `FreshAfterInvalidate` | a call after `invalidate` recomputes (test `invalidate_makes_the_next_call_recompute`) | a computation that began before the invalidation writes its value after it | `loops` |
| `NoneAfterDirty` | migrate refuses `Error::Dirty` (`runner.rs:768`) | the ledger's state is looked at before the lock; a run that waited applies later files beside a version that became dirty | `database_claims` |
| `CommitsWhatWasAnswered` | a savepoint commits "on `Ok`" and rolls back "on `Err`" (`tx.rs:240`) | two savepoints side by side close each other's; on PostgreSQL a transaction with a swallowed error commits nothing and answers Ok | `database_claims` |

Three more are seen without a definition of their own. A burn "always sees the whole family"
(`store/refresh.rs:43`) while the rotation it races is the one that minted the row it blocks on; a
rotation of another row of the family is not waited for. The rate limiter is said to be "briefly
more permissive" when a clock jumps backwards (`rate.rs:379`); an older reading is further behind
the bucket and refuses more. A burst above the limit "would admit more than the limit in one
period" (`rate.rs:117`); a burst that equals the limit does too, since what drains during the
period is admitted on top of the burst: `RateHolds` states the bound that holds.

## 5. What is proved

The theorems hold for every value of the constants that the assumptions at the head of each module
allow; those give the constants their types and keep "none" values apart from the others. Where an
invariant is not inductive as it stands, the strengthening is named.

`MemoryQueueProofs`:

* `Typing`: `Spec => []TypeOK`.
* `Coherence`: `Spec => []LeaseCoherent`. Together with `TypeOK` it is inductive as it stands. The
  argument is about locks only: every step except a pull either keeps a row's lock (`KeepsLock`:
  same token, still running or still not) or drops it (`DropsLock`), and hands out no lease
  (`LocksOnlyByPull`); a pull hands out tokens that no row and no client uses (`BatchLocks`,
  `BatchCoherent`).
* `Finality`: `Spec => SettledIsFinal`. A done or cancelled row carries no token, no client's token
  is the empty one, so no ack, nack or renewal is current for it.
* `Uniqueness`: `Spec => []UniqueUnlessRevived`. A row enters the active states by a push, which
  looks at the key, or by a retry, which puts it among the revived.
* `SerialPulls`: `Spec => SerialPull`. A pull leases one row of a serial type and none beside a
  live lease.
* `Implementation`: `Spec => ImplementsLeaseQueue`. Initial states map to initial states, and each
  step, classified by `NextSteps`, maps to one of `Push`, `Grant`, `Settle`, `Abandon`, `Lapse`,
  `Cancel` and `Redrive` or to a stutter (`StepSimulation`). The coherence of leases
  is what makes it go through: without it a current lease could name a row that does not run.

`JobWorkerProofs` extends `MemoryQueueProofs`, since a fleet is the queue with clients that are
workers: `FleetStep` and `QueueStep` say which action of the queue, if any, each step of a worker is.

* `FleetImplements`: `SpecW => ImplementsLeaseQueue`. The simulation of `MemoryQueueProofs`, with
  the steps of a worker that touch no row as stutters.
* `Coherent`: `SpecW => []FleetCoherent`. That leases never pass the permits is not inductive: a
  pull is sent with the free permits of its round, and bodies end while it is away. `Room` counts
  both: busy executions and permits reserved for the round fit the slots, and only a worker that is
  pulling has pulled rows it has not started. The total of the queues' shares is a recursive
  function; what is proved of it goes by closed sets of numbers (`ClosedSet`), because the library's
  induction theorems take an operator.
* `NoOverlap`: `SpecW => []NoOverlapWithoutFault`, from `Exclusive`: without a fault every lease a
  worker holds is current, unexpired or cancelled (`Kept`), and two of them are of different jobs
  and different serial types (`Apart`).
* `Budgeted`: `SpecW => []WithinBudget`, from `Budget`: the copy of a row that an execution works
  on has the attempt of the row for as long as its lease is current, so the worker's decision to
  retry, taken on the copy, is right of the row.
* `DoneByBody`: `SpecW => DoneOnlyByItsBody`. A row becomes done by the ack of the lease that is
  current for it, whose body returned Ok.

`PgQueueProofs`:

* `PgTyping` (`Spec => []TypeOK`) and `PgCoherence` (`Spec => []SqlCoherent`). The invariant
  `PgIInv` adds to the types that a row is in one table, that a burial under way has its row and no
  rival, and that an open pull has a token (`Tables`); one active row per unique key, uncommitted
  inserts included (`OneRowPerKey`); and one open pull past the advisory lock of a serial type
  (`Serials`).
* `PgSerialPulls`: `Spec => SerialPullUnlessOverlapped`. What a pull read before it took the
  advisory lock may be old; the theorem says that it leases a serial row beside a live lease only
  if the type got that lease after the snapshot.
* `PgImplementation`: `MaxCrossings = 0` proves `Spec => ImplementsLeaseQueue`. `Leases` says that
  the tokens of open pulls are fresh and distinct and that a burial under way holds the current
  lease of its row. The condition is needed: the delete of a burial names the row by its id alone,
  so a row that is reclaimed and pulled between its two statements is deleted under its new lease
  (section 4).

`RedisQueueProofs`. A call of this queue is a sequence of calls of the store, and whatever other
callers do falls between them. The argument is about *grips*: a call has a row in its grip from the
moment the set it takes it from gave it up until it puts it back, and every row is in one set or in
one grip. `RqIInv` has the shape of every call's remaining route (`Typed`), the one place of each
row (`OneAt`), what the record says while the row is there (`RowAt`, `Says`), and where its lease,
its time and its serial slot are meanwhile (`LeaseAt`, `DueAt`, `SlotAt`). It is inductive under
`Peaceful`: nobody cancels, no client is paused past its lease, and one caller at a time runs
maintenance. Outside these the statements are false, as the runs of section 4 show.

* `RqCoherence`: `Spec => []IndexCoherent`, and `RqSerial`: `Spec => []SerialOneHolder`.
* `RqUnique`: `Spec => []UniqueInFlight`, if no operator retries a dead job either. `Marked`
  follows the marker: whoever pushes owns it before the record is written (`Owns`), and an active
  row keeps it (`Keeps`).
* `RqImplementation`: `Spec => ImplementsLeaseQueue`. The linearisation point of a call is the save
  of the record, or its deletion; every other call of the store is a stutter. `Fresh` says that the
  token a pull is about to write is nobody's.
* `RqAccounted`: `Spec => []Accounted`, under weaker conditions: no call fails half way and no
  client dies in one; cancels, stalls and any number of maintenance loops are allowed, so a row may
  be in many hands at once. `Found` says that an active row is in an index, or that one of those
  hands is past its check and still to put it back or write it off (`Secures`).

`LoopsProofs`, on `Outbox`: `Delivery` (`ObSpec => []DeliveredBounded`). The bound on the starts of a
body is not inductive; what is counted is who may still push (`MayPush`): a relay that finds the row
in the table or has it in its batch, and has not pushed it in this pass. `Bounded` says that starts,
a queued job included, and such relays together are at most the relays and the passes cut short: a
push moves one from the second to the first, the delete takes away everybody who has not read the row,
and only `ObCutShort` puts one back, which is what the fault pays for. `Rows` and `Passes` say
that a job is staged or was pushed exactly if its transaction committed, and that a relay has only
such rows.

On `Scheduler`: `OccurrencesInOrder` (`ScSpec => []InOrderOnce`), from `ByItsCursor`: the cursor of a
process is an occurrence, what it has still to push of its plan is in order and lies between its last
push and its cursor. `PlanIs`, `CursorIs` and `BetweenIs` say what planning returns: nothing before the
cursor it finds and nothing after the one it leaves, with catch-up, without it, and with more
missed occurrences than `ScLimit`.

On `Breaker`: `BreakerTyping` (`BkSpec => []BkTypeOK`, the range of the cooldown
included) and `OneProbeAtATime` (`BkSpec => []OneProbe`), from `SoleProbe`: unless a straggler was
recorded during the probe, a probe is the only one and the state is half open for as long as it is
out, so that the compare-exchange of a second one finds no open state. On `ReadThrough`:
`OneComputes` (`RtSpec => []OneComputation`) from `OneSlot`, which says that every caller that holds
a slot holds the one of the map; a sweep keeps it because it takes only a slot nobody holds.
`FreshReads` (`RtSpec => []FreshUnlessOverlapped`) from `Fresh` and `Computed`: without an overlap no
value anywhere (cache, live cell, or a caller's hands) is older than the last invalidation.

`LoopsKeepTheirWord`: the types of all five (`LoopsTypeOK`, those of `Shutdown` included) and the
four promises, for the parts of `MCLoops` beside each other.

`DatabaseProofs`, on `Once`: `Apart` (`OnSpec => BodiesApart`) and `OutcomeEndsIt` (`OnSpec =>
NoBodyAfterOutcome`). The invariant the first needs is `Covered`: whoever is in its body either
holds the claim, which is then exactly as old as the body, or has been in it for the whole window,
or an outcome is there. A takeover asks for the age of the claim, so `Covered` turns it into the age of
the body. On `Migrate`: `OneMigrator` (`MgSpec => []OneAtATime`) from `MgHeld`: a run that is sure of
its lease is the holder of the lock. `LedgerIsTrue` (`MgSpec => []LedgerTruth`) from `Begun`: as long
as nothing was rolled back, a file without a transaction that is under way has its dirty row, and
one process at a time is inside it, lease or no lease, because the ledger's primary key refuses a
second one.

On `Keyset`, two theorems are about operators. `PastTheCursor`: what
`keyset_expr` renders holds for exactly the rows after the cursor in the order of the page, with
NULL in the cursor or in the row, in either direction. `RowsAreOrdered`: that order is a strict
total order on rows, because the primary key is its last key. With the two, a page and the rest of
the table are a partition, and `Walks` (`KsSpec => []WalkIsExact`) puts the pages together: by
`KsIInv` what was delivered is in order and ends with the cursor's row, and a row nobody touched is
delivered or still past the cursor.

On `Transaction`: `Commits` (`TxSpec => []CommitsWhatReturnedOk`). Its invariant `Calm` is what makes
savepoints a stack, as long as none overlapped and no error was swallowed: the calls under way lie
one within the other (`Nested`); the database has a savepoint of each, and before exactly the writes
made further in (`Placed`); what is written is what no failed call is around (`MadeIs`); and a
transaction that is aborted is so by a statement of the innermost body (`AbortedBy`), which must then
return an error, so that no release and no commit meets an aborted one. `Around`, the path from a body
to the transaction, is defined as the least set that is closed under `txParent` and not by recursion,
so that its lemmas need no induction.

`ClaimsKeepTheirWord`: the types of all six (`ClaimsCoherent`), and `OneAtATime`, `LedgerTruth`,
`CommitsWhatReturnedOk`, `OneHeir` and `WalkIsExact`, for the parts of `MCDatabaseClaims` beside each
other.

`RefreshTokensProofs`: `TokenTyping` (`TkSpec => []TkTypeOK`) and `OneLiveToken` (`TkSpec =>
[]OneHeir`). The invariant is about open calls. In the table, one token is fresh at most, one
rotation is open at most, and the token it has claimed is the fresh one (`OneRotation`); a burn
under way sees the fresh row and meets no rotation, unless one overlapped it (`Burning`). In the
memory store, one caller at most is between its two locks, and no token is fresh while it is
(`OneRecorder`).

`StoresProofs`. `Sessions`: `SsSpec => []SessionsAccounted`. That an ended identifier stays ended is
not inductive: a request writes what it has in hand, whatever the store holds. `SsIInv` says whose
hands an identifier is in. One that has been in the store (`SsKnown`) is there now or has ended, and
what the fields of a request say of each other follows its route through the calls (`SsSays`). One
that was made up and not written yet, or the target of a rename whose old record is still there, is
one request's alone: no cookie names it and nobody else can write under it (`SsOwned`). What a rename
has written under the new identifier is what it read (`SsCopied`). `Quota`: `RlSpec => []RateHolds`,
from `RlPaid`: each admission moves the bucket on by one emission at least, and none moves it
further ahead of its own reading than the tolerance, so the bucket bounds how many were admitted
since any moment; when the store has forgotten it, a mark behind the clock does (`RlMark`). The
window's quotient comes from there by `WithinQuota`. `StoresKeepTheirWord`: `MCSpec =>
[](StoresCoherent /\ RateHolds)`, for the two beside each other.

Every invariant and every action property of a passing run is a theorem, and so are the refinements
(`MemoryQueue`, `PgQueue` and `RedisQueue` of `LeaseQueue`; the fleet's as well). Only model-checked:
the liveness properties, which this prover does not reach (`EverySettles`, `LostBodiesStop`,
`ShutdownEnds`, `EveryRowSettles`, `ReachedUnlessBlocked`, `FiresUnlessFault`, `Recovers`,
`WaitersEnd`, `ShutsDown`). The theorems on `RedisQueue` and `PgImplementation` have the hypotheses
named above. The run `redis_queue` has those of `Peaceful`, and `redis_stall` is inside those of
`RqAccounted`; what happens outside them is in section 4.

## 6. What is left out

In the modelled parts: the SQL, JSON and text of rows; `stats` and `find`, which only read;
`clear`, a test helper; re-registration of serial names while the queue runs; `run_once`, which
drains a queue for tests; boot-time validation; the length and jitter of a backoff, which is any
delay up to `MaxDelay`; wake-up of an idle loop, since a loop may pull at any time (a lost wake-up
costs one poll interval); the schedule record of the backends; the sweep of old entries of the SQL
queue and of the ledger; waiting for a lock and its fencing counter; cron expressions (occurrences
are multiples of a period); `get_or_insert_stale`; `remaining`, `reset` and the HTTP guard of the
rate limiter; checksums, squashed baselines and Rust migrations of the runner; timeouts, isolation
levels and advisory locks of a transaction; totals, preloads and the sealed cursor of a page; what a
shutdown hook does; metrics and traces.

`RefreshTokens` has one family and `SessionStore` one user: neither store reads across them, and a
bulk deletion by user is the same statement for each. `SessionStore` gives records a life time of
their own and the index none. In the code each `index_add` sets the index's time to live to that
of the session at hand, so an index can expire before the longer-lived records it lists; `Indexed`
says nothing of that. What a session carries, the SQL session store and the index's list form are
left out too.

Not modelled at all: the components named at the end of "The other crates" in section 1. They are
most of the repository by lines, and sequential: their correctness is a function's result on its
input, over text, tokens, schemas or bytes, where a model would be the program again.

## 7. Plan

1. `RedisQueue`, further: two queues in one pull, the day-long expiry of a unique marker,
   `record_schedule_run`.
2. `SessionStore`: the time to live of the index, so that the hazard without a property has one.
3. `Backpressure` of `enqueue.rs`, fencing of `lock.rs`, and cron's search over calendar minutes.
4. A statement of safety under the liveness properties: how many steps a drain of the worker and a
   recovery of the breaker take at most, as invariants with a counter, which the prover does reach.
