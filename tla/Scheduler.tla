----------------------------- MODULE Scheduler ------------------------------
(***************************************************************************)
(* schedule.rs, for one schedule, and lock.rs of moso-kv, for its lease.   *)
(* Every process passes over the schedule again and again: it renews or    *)
(* takes the leadership, plans what is due by its own cursor and pushes    *)
(* the planned occurrences one by one.                                     *)
(*                                                                         *)
(* The leadership is a key with an expiry and a background task that renews*)
(* it, or PostgreSQL's advisory lock, which goes with its session.  The    *)
(* queue is what unique keys make of it: a push of an occurrence whose row *)
(* is active is dropped.                                                   *)
(*                                                                         *)
(* Occurrences are the multiples of ScPeriod; a process that is not stalled*)
(* passes at least once per tick.                                          *)
(***************************************************************************)
EXTENDS Integers, FiniteSets, Sequences

CONSTANTS
    ScProcesses,
    ScNobody,
    ScPeriod,
    ScStale,            \* `tick * 4`: how late an occurrence may be without catch-up
    ScLimit,            \* catch_up_limit
    ScLease,
    ScEnd,              \* bound: the clock
    ScMaxFaults         \* bound: crashes, stalls, shutdowns, failed elections, refused
                        \* pushes

ASSUME ScAssumption ==
    /\ ScNobody \notin ScProcesses
    /\ {ScPeriod, ScLimit, ScLease, ScEnd} \subseteq Nat \ {0}
    /\ {ScStale, ScMaxFaults} \subseteq Nat

VARIABLES
    scCatchUp, scSkips, \* catch_up(true), Overlap::Skip
    scAdvisory,         \* Election::Advisory
    scNow,
    scLock, scLeft,     \* the leader's key, and what is left of its lease
    scProc,
    scQueue,            \* the row of each occurrence
    scFired,            \* how many rows each occurrence got
    scFaults

scVars == <<scCatchUp, scSkips, scAdvisory, scNow, scLock, scLeft, scProc, scQueue, scFired, scFaults>>
scConfig == <<scCatchUp, scSkips, scAdvisory>>

Times == 0..(ScEnd + ScPeriod)
Occurrences == {t \in 1..ScEnd : t % ScPeriod = 0}

\* Schedule::next_after.
NextAfter(t) == (t \div ScPeriod + 1) * ScPeriod

\* `next` and `running` are the State of the schedule, `todo` what a pass has
\* planned and not pushed yet, `passed` the last tick with a pass, `last` the
\* newest occurrence this life of the process pushed.
Proc == [alive : BOOLEAN, stalled : BOOLEAN, leads : BOOLEAN, next : Times,
         running : Times, todo : Seq(Occurrences), passed : BOOLEAN, last : Times]

Booted == [alive |-> TRUE, stalled |-> FALSE, leads |-> FALSE, next |-> NextAfter(scNow),
           running |-> 0, todo |-> <<>>, passed |-> FALSE, last |-> 0]

Dead == [alive |-> FALSE, stalled |-> FALSE, leads |-> FALSE, next |-> 0,
         running |-> 0, todo |-> <<>>, passed |-> TRUE, last |-> 0]

ScInit ==
    /\ scCatchUp \in BOOLEAN
    /\ scSkips \in BOOLEAN
    /\ scAdvisory \in BOOLEAN
    /\ scNow = 0
    /\ scLock = ScNobody
    /\ scLeft = 0
    /\ scProc = [p \in ScProcesses |-> Booted]
    /\ scQueue = [k \in Occurrences |-> "none"]
    /\ scFired = [k \in Occurrences |-> 0]
    /\ scFaults = 0

Acts(p) == scProc[p].alive /\ ~scProc[p].stalled
Free == scLock = ScNobody \/ (~scAdvisory /\ scLeft = 0)

-----------------------------------------------------------------------------
(* A pass *)

\* The occurrences from `from`, which is one, to `to`.
Between(from, to) == [i \in 1..((to - from) \div ScPeriod + 1) |-> from + (i - 1) * ScPeriod]

Newest(occurrences) ==
    IF Len(occurrences) > ScLimit
    THEN SubSeq(occurrences, Len(occurrences) - ScLimit + 1, Len(occurrences))
    ELSE occurrences

\* Wrong: an occurrence that is due right now is not due yet, and the cursor
\* passes it.
Plan_Late(due) ==
    IF due >= scNow THEN <<>>
    ELSE IF scCatchUp THEN Newest(Between(due, scNow))
    ELSE IF scNow - due > ScStale THEN <<>> ELSE <<due>>

\* Scheduler::plan, with the cursor at `due`.
Plan(due) ==
    IF due > scNow THEN <<>>
    ELSE IF scCatchUp THEN Newest(Between(due, scNow))
    ELSE IF scNow - due > ScStale THEN <<>> ELSE <<due>>

\* Wrong: the cursor goes to the occurrence after the one that was due.
Cursor_One(due) == IF due > scNow THEN due ELSE NextAfter(due - 1)

Cursor(due) == IF due > scNow THEN due ELSE NextAfter(scNow)

\* previous_is_unfinished, asked once per pass.
Busy(p) == scSkips /\ scProc[p].running # 0 /\ scQueue[scProc[p].running] = "active"

\* The leader by its own account renews, which fails once the key has expired;
\* anyone else tries the lock.
Wins(p) ==
    IF scProc[p].leads THEN scLock = p /\ (scAdvisory \/ scLeft > 0) ELSE Free

\* Who leads plans and moves its cursor before it pushes.
ScPass(p) ==
    LET s == scProc[p]
        plan == Plan(s.next)
    IN
    /\ Acts(p)
    /\ s.todo = <<>>
    /\ ~s.passed
    /\ IF Wins(p)
       THEN /\ scLock' = p
            /\ scLeft' = ScLease
            /\ scProc' = [scProc EXCEPT ![p] =
                 [s EXCEPT !.leads = TRUE, !.passed = TRUE, !.next = Cursor(s.next),
                           !.todo = IF Busy(p) THEN <<>> ELSE plan]]
       ELSE /\ scProc' = [scProc EXCEPT ![p] = [s EXCEPT !.leads = FALSE, !.passed = TRUE]]
            /\ UNCHANGED <<scLock, scLeft>>
    /\ UNCHANGED <<scConfig, scNow, scQueue, scFired, scFaults>>

\* enqueue_occurrence: the row's unique key is the schedule and the occurrence.
\* An identifier whose row was dropped is looked up in vain later.
ScPush(p) ==
    LET s == scProc[p]
        k == Head(s.todo)
        new == scQueue[k] # "active"
    IN
    /\ Acts(p)
    /\ s.todo # <<>>
    /\ scQueue' = [scQueue EXCEPT ![k] = "active"]
    /\ scFired' = IF new THEN [scFired EXCEPT ![k] = @ + 1] ELSE scFired
    /\ scProc' = [scProc EXCEPT ![p] = [s EXCEPT !.todo = Tail(@), !.last = k,
                                                 !.running = IF new THEN k ELSE 0]]
    /\ UNCHANGED <<scConfig, scNow, scLock, scLeft, scFaults>>

\* The push fails: the rest of the plan is dropped.
ScPushFails(p) ==
    /\ Acts(p)
    /\ scProc[p].todo # <<>>
    /\ scFaults < ScMaxFaults
    /\ scFaults' = scFaults + 1
    /\ scProc' = [scProc EXCEPT ![p].todo = <<>>]
    /\ UNCHANGED <<scConfig, scNow, scLock, scLeft, scQueue, scFired>>

ScWork(k) ==
    /\ scQueue[k] = "active"
    /\ scQueue' = [scQueue EXCEPT ![k] = "done"]
    /\ UNCHANGED <<scConfig, scNow, scLock, scLeft, scProc, scFired, scFaults>>

-----------------------------------------------------------------------------
(* Faults and the clock *)

Fault == scFaults < ScMaxFaults /\ scFaults' = scFaults + 1

\* The store fails the renewal or the election: whoever led drops its guard.  What
\* was asked may have been done and its answer lost.  The release the dropped guard
\* spawns may fail as well, and then the key stays until its lease ends.  The
\* holder of an advisory lock asks nobody, and a session that fails has no lock.
ScElectionFails(p) ==
    LET s == scProc[p] IN
    /\ Acts(p)
    /\ s.todo = <<>>
    /\ ~s.passed
    /\ s.leads => ~scAdvisory
    /\ Fault
    /\ \/ UNCHANGED <<scLock, scLeft>>
       \/ ~scAdvisory /\ Wins(p) /\ scLock' = p /\ scLeft' = ScLease
       \/ s.leads /\ scLock = p /\ scLock' = ScNobody /\ UNCHANGED scLeft
    /\ scProc' = [scProc EXCEPT ![p] = [s EXCEPT !.leads = FALSE, !.passed = TRUE]]
    /\ UNCHANGED <<scConfig, scNow, scQueue, scFired>>

\* The signal ends the loop between two passes, and the leases it holds a guard of
\* are given back.
ScShutdown(p) ==
    /\ Acts(p)
    /\ scProc[p].todo = <<>>
    /\ Fault
    /\ scLock' = IF scLock = p /\ scProc[p].leads THEN ScNobody ELSE scLock
    /\ scProc' = [scProc EXCEPT ![p] = Dead]
    /\ UNCHANGED <<scConfig, scNow, scLeft, scQueue, scFired>>

\* The key stays until its lease ends, the session does not.
ScDie(p) ==
    /\ scProc[p].alive
    /\ Fault
    /\ scLock' = IF scLock = p /\ scAdvisory THEN ScNobody ELSE scLock
    /\ scProc' = [scProc EXCEPT ![p] = Dead]
    /\ UNCHANGED <<scConfig, scNow, scLeft, scQueue, scFired>>

ScBoot(p) ==
    /\ ~scProc[p].alive
    /\ scProc' = [scProc EXCEPT ![p] = Booted]
    /\ UNCHANGED <<scConfig, scNow, scLock, scLeft, scQueue, scFired, scFaults>>

\* The process and its renewer are paused for a while.
ScStall(p) ==
    /\ Acts(p)
    /\ Fault
    /\ scProc' = [scProc EXCEPT ![p].stalled = TRUE]
    /\ UNCHANGED <<scConfig, scNow, scLock, scLeft, scQueue, scFired>>

ScResume(p) ==
    /\ scProc[p].stalled
    /\ scProc' = [scProc EXCEPT ![p].stalled = FALSE]
    /\ UNCHANGED <<scConfig, scNow, scLock, scLeft, scQueue, scFired, scFaults>>

\* A tick: whoever is not stalled has passed and pushed, and the renewer of the
\* leader has kept its lease up.
ScTick ==
    /\ scNow < ScEnd
    /\ \A p \in ScProcesses : Acts(p) => scProc[p].passed /\ scProc[p].todo = <<>>
    /\ scNow' = scNow + 1
    /\ scLeft' = IF scLock = ScNobody \/ (Acts(scLock) /\ scProc[scLock].leads) \/ scLeft = 0
                 THEN scLeft ELSE scLeft - 1
    /\ scProc' = [p \in ScProcesses |-> [scProc[p] EXCEPT !.passed = ~scProc[p].alive]]
    /\ UNCHANGED <<scConfig, scLock, scQueue, scFired, scFaults>>

-----------------------------------------------------------------------------
ScMoves(p) == ScPass(p) \/ ScPush(p) \/ ScBoot(p) \/ ScResume(p)

ScNext ==
    \/ \E p \in ScProcesses :
           ScMoves(p) \/ ScPushFails(p) \/ ScElectionFails(p) \/ ScShutdown(p)
               \/ ScDie(p) \/ ScStall(p)
    \/ \E k \in Occurrences : ScWork(k)
    \/ ScTick

\* Loops run, processes are started again, and time passes.
ScFairness ==
    /\ \A p \in ScProcesses : WF_scVars(ScMoves(p))
    /\ WF_scVars(ScTick)

ScSpec == ScInit /\ [][ScNext]_scVars /\ ScFairness

-----------------------------------------------------------------------------
(* Properties *)

ScTypeOK ==
    /\ scConfig \in BOOLEAN \X BOOLEAN \X BOOLEAN
    /\ scNow \in 0..ScEnd
    /\ scLock \in ScProcesses \union {ScNobody}
    /\ scLeft \in 0..ScLease
    /\ scProc \in [ScProcesses -> Proc]
    /\ scQueue \in [Occurrences -> {"none", "active", "done"}]
    /\ scFired \in [Occurrences -> Nat]
    /\ scFaults \in 0..ScMaxFaults

\* Scheduler: "exactly one wins".  A process pushes its occurrences in the order
\* of time and each one once, in one life, stalled or not, leader or not.
InOrderOnce ==
    \A p \in ScProcesses :
        \A i \in DOMAIN scProc[p].todo :
            LET k == scProc[p].todo[i] IN
            scProc[p].last < k /\ \A j \in DOMAIN scProc[p].todo : i < j => k < scProc[p].todo[j]

\* Scheduler: an occurrence is "never dropped".  It is fired, unless something
\* failed, catch-up is off and the leadership moved, or the previous one is still
\* running and the schedule skips.
FiresUnlessFault ==
    \A k \in Occurrences :
        scNow >= k ~> scFired[k] > 0 \/ scFaults > 0 \/ scSkips

\* Scheduler: an occurrence is "never duplicated".
NeverDuplicated == \A k \in Occurrences : scFired[k] <= 1

\* Scheduler: an occurrence is "never dropped", skipped overlaps aside.
NeverDropped == \A k \in Occurrences : scNow >= k ~> scFired[k] > 0 \/ scSkips
=============================================================================
