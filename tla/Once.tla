-------------------------------- MODULE Once --------------------------------
(***************************************************************************)
(* once.rs: the ledger behind JobCtx::once, for one key.  A call claims the*)
(* key, runs its body and records the outcome; a claim without an outcome  *)
(* may be taken over when it is old enough.                                *)
(*                                                                         *)
(* The ledger is a table, where a claim is one statement and a read, or the*)
(* key-value store, where it is a set-if-absent, a read and a              *)
(* compare-and-swap, with other calls in between.  A call that is told to  *)
(* retry is made again, as its job is run again.                           *)
(*                                                                         *)
(* Ages are counted up to the window and no further.                       *)
(***************************************************************************)
EXTENDS Integers, FiniteSets

CONSTANTS
    OnCallers,
    OnNone,             \* no outcome, no caller
    OrphanAfter,
    OnMaxTroubles       \* bound: bodies that fail and processes that die

ASSUME OnAssumption ==
    /\ OnNone \notin OnCallers
    /\ OrphanAfter \in Nat \ {0}
    /\ OnMaxTroubles \in Nat

VARIABLES
    onStore,            \* "table" or "kv"
    entry,              \* the claim, and its outcome when there is one
    calls,
    onTroubles

onVars == <<onStore, entry, calls, onTroubles>>

\* A claim is told from another by its time of claiming: who made it, here.
Claim == [by : OnCallers \union {OnNone}, age : 0..OrphanAfter,
          outcome : OnCallers \union {OnNone}]

Unclaimed == [by |-> OnNone, age |-> 0, outcome |-> OnNone]
Claimed(c) == [by |-> c, age |-> 0, outcome |-> OnNone]

\* `seen` is the claim a take-over found, `age` the time since the call's own.
Call == [stage : {"idle", "reads", "takes", "runs", "ran", "done"},
         seen : OnCallers \union {OnNone}, age : 0..OrphanAfter]

Resting == [stage |-> "idle", seen |-> OnNone, age |-> 0]
Running == [stage |-> "runs", seen |-> OnNone, age |-> 0]

InBody(c) == calls[c].stage \in {"runs", "ran"}

OnInit ==
    /\ onStore \in {"table", "kv"}
    /\ entry = Unclaimed
    /\ calls = [c \in OnCallers |-> Resting]
    /\ onTroubles = 0

Moves(c, call) == calls' = [calls EXCEPT ![c] = call]

Wins(c) ==
    /\ entry' = Claimed(c)
    /\ Moves(c, Running)
    /\ UNCHANGED <<onStore, onTroubles>>

Continues(c, call) ==
    /\ Moves(c, call)
    /\ UNCHANGED <<onStore, entry, onTroubles>>

\* Wrong: a claim of any age is an orphan.
Orphaned_Always == entry # Unclaimed /\ entry.outcome = OnNone

\* `completed_at is null and claimed_at < stale_before`, and in the store an
\* entry without an outcome of at least that age.
Orphaned ==
    /\ entry # Unclaimed
    /\ entry.outcome = OnNone
    /\ entry.age = OrphanAfter

Claimable == entry = Unclaimed \/ (onStore = "table" /\ Orphaned)

\* The first statement: insert if absent, and in the table take over an orphan.
OnClaim(c) ==
    /\ calls[c].stage = "idle"
    /\ IF Claimable THEN Wins(c) ELSE Continues(c, [calls[c] EXCEPT !.stage = "reads"])

\* The second: an outcome is returned, a claim in use sends the caller away.
OnRead(c) ==
    /\ calls[c].stage = "reads"
    /\ IF entry.outcome # OnNone
       THEN Continues(c, [Resting EXCEPT !.stage = "done"])
       ELSE IF onStore = "kv" /\ Orphaned
       THEN Continues(c, [calls[c] EXCEPT !.stage = "takes", !.seen = entry.by])
       ELSE Continues(c, Resting)

\* compare_and_swap of the bytes that were read.
OnTakeOver(c) ==
    /\ calls[c].stage = "takes"
    /\ IF entry.by = calls[c].seen /\ entry.outcome = OnNone /\ entry.age = OrphanAfter
       THEN Wins(c)
       ELSE Continues(c, Resting)

OnBody(c) ==
    /\ calls[c].stage = "runs"
    /\ Continues(c, [calls[c] EXCEPT !.stage = "ran"])

\* The outcome is written by key, whoever holds the claim now; a claim with an
\* outcome has no age any more.
OnRecord(c) ==
    /\ calls[c].stage = "ran"
    /\ entry' = [entry EXCEPT !.outcome = c]
    /\ Moves(c, [Resting EXCEPT !.stage = "done"])
    /\ UNCHANGED <<onStore, onTroubles>>

\* The body returns an error, or the process dies at any point of the call: the
\* claim stays, without an outcome.
OnTrouble(c) ==
    /\ calls[c].stage \notin {"idle", "done"}
    /\ onTroubles < OnMaxTroubles
    /\ onTroubles' = onTroubles + 1
    /\ Moves(c, Resting)
    /\ UNCHANGED <<onStore, entry>>

Older(age) == IF age < OrphanAfter THEN age + 1 ELSE age

\* Store calls take no time beside the window, bodies may outlast it.
OnTick ==
    /\ \A c \in OnCallers : calls[c].stage \notin {"reads", "takes"}
    /\ entry' = IF entry = Unclaimed \/ entry.outcome # OnNone THEN entry
              ELSE [entry EXCEPT !.age = Older(@)]
    /\ calls' = [c \in OnCallers |->
                   IF InBody(c) THEN [calls[c] EXCEPT !.age = Older(@)] ELSE calls[c]]
    /\ UNCHANGED <<onStore, onTroubles>>

OnCall(c) == OnClaim(c) \/ OnRead(c) \/ OnTakeOver(c) \/ OnBody(c) \/ OnRecord(c)

OnNext ==
    \/ \E c \in OnCallers : OnCall(c) \/ OnTrouble(c)
    \/ OnTick

OnSpec == OnInit /\ [][OnNext]_onVars

-----------------------------------------------------------------------------
(* Properties *)

OnTypeOK ==
    /\ onStore \in {"table", "kv"}
    /\ entry \in Claim
    /\ calls \in [OnCallers -> Call]
    /\ onTroubles \in 0..OnMaxTroubles

\* JobCtx::once: "at-least-once for that window and exactly-once outside it".
\* A body starts only when every other body of the key that is still running,
\* or has run and not recorded yet, has outlasted the window.
BodiesApart ==
    [][\A c \in OnCallers : calls[c].stage # "runs" /\ calls'[c].stage = "runs" =>
         \A d \in OnCallers \ {c} : InBody(d) => calls[d].age = OrphanAfter]_onVars

\* ... and a body starts only while no outcome is recorded.
NoBodyAfterOutcome ==
    [][entry.outcome # OnNone =>
         \A c \in OnCallers : calls'[c].stage = "runs" => calls[c].stage = "runs"]_onVars

\* JobCtx::once: "a second call with the same key returns the first call's
\* stored outcome".
FirstOutcomeStays ==
    [][entry.outcome # OnNone => entry'.outcome = entry.outcome]_onVars
=============================================================================
