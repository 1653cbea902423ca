------------------------------ MODULE Breaker -------------------------------
(***************************************************************************)
(* breaker.rs, and guarded and on_failure of kv.rs, which use it: the      *)
(* circuit breaker in front of the key-value store.  Callers share atomics,*)
(* and nothing else orders them: an access is one step, and so is a load   *)
(* with the store that is computed from it, of the cooldown only.          *)
(*                                                                         *)
(* A call asks allow, makes its store call and records a success or a      *)
(* transient failure.  A call that fails for good, or whose future is      *)
(* dropped, records nothing.                                               *)
(***************************************************************************)
EXTENDS Integers, FiniteSets

CONSTANTS
    BkCallers,
    BkThreshold,        \* failures in a row that open the breaker
    BkBase,             \* cooldowns, in ticks
    BkCeiling,
    BkJitter,
    BkMaxFailures,      \* bound: transient failures
    BkMaxDropped        \* bound: calls that record nothing

ASSUME BkAssumption ==
    /\ BkThreshold \in Nat \ {0}
    /\ BkBase \in Nat \ {0}
    /\ BkCeiling \in Nat
    /\ BkBase <= BkCeiling
    /\ {BkJitter, BkMaxFailures, BkMaxDropped} \subseteq Nat

VARIABLES
    bkState,
    bkRow,              \* `failures`: in a row
    bkCooldown,
    bkLeft,             \* `open_until_ms`, as the time that is left of it
    bkCall,
    bkFailed, bkDropped,
    bkStray,            \* a call that is no probe was recorded during a probe
    bkUndecided         \* a probe ended and recorded nothing

bkVars == <<bkState, bkRow, bkCooldown, bkLeft, bkCall, bkFailed, bkDropped, bkStray, bkUndecided>>

\* allow: "saw_open", "elapsed"; the store call: "calls"; record_success: "ok",
\* "closes"; record_failure: "failed", "counts", "doubles"; open: "opens", "opened".
BkCall == [at : {"idle", "saw_open", "elapsed", "calls", "ok", "closes",
                 "failed", "counts", "doubles", "opens", "opened"},
           probe : BOOLEAN]

BkIdle == [at |-> "idle", probe |-> FALSE]

BkInit ==
    /\ bkState = "closed"
    /\ bkRow = 0
    /\ bkCooldown = BkBase
    /\ bkLeft = 0
    /\ bkCall = [c \in BkCallers |-> BkIdle]
    /\ bkFailed = 0
    /\ bkDropped = 0
    /\ bkStray = FALSE
    /\ bkUndecided = FALSE

Probes == {c \in BkCallers : bkCall[c].probe}

At(c, at) == bkCall[c].at = at

\* A stray is recorded: it is about to change the state or what it rests on.
Strays(c) ==
    /\ bkCall[c].at \in {"ok", "closes", "doubles", "opens", "opened"}
    /\ ~bkCall[c].probe
    /\ Probes # {}

Becomes(c, call) ==
    /\ bkCall' = [bkCall EXCEPT ![c] = call]
    /\ bkStray' = ((bkStray \/ Strays(c)) /\ \E d \in BkCallers : bkCall'[d].probe)

To(c, at) == Becomes(c, IF at = "idle" THEN BkIdle ELSE [bkCall[c] EXCEPT !.at = at])

-----------------------------------------------------------------------------
(* allow *)

BkAsk(c) ==
    /\ At(c, "idle")
    /\ \/ bkState = "closed" /\ To(c, "calls")
       \/ bkState = "open" /\ To(c, "saw_open")
       \/ bkState = "half_open" /\ To(c, "idle")
    /\ UNCHANGED <<bkState, bkRow, bkCooldown, bkLeft, bkFailed, bkDropped, bkUndecided>>

BkRemaining(c) ==
    /\ At(c, "saw_open")
    /\ To(c, IF bkLeft > 0 THEN "idle" ELSE "elapsed")
    /\ UNCHANGED <<bkState, bkRow, bkCooldown, bkLeft, bkFailed, bkDropped, bkUndecided>>

\* Wrong: a load and a store.
BkProbe_Stores(c) ==
    /\ At(c, "elapsed")
    /\ bkState' = "half_open"
    /\ Becomes(c, [at |-> "calls", probe |-> TRUE])
    /\ UNCHANGED <<bkRow, bkCooldown, bkLeft, bkFailed, bkDropped, bkUndecided>>

\* The compare_exchange from Open to HalfOpen.
BkProbe(c) ==
    /\ At(c, "elapsed")
    /\ \/ /\ bkState = "open"
          /\ bkState' = "half_open"
          /\ Becomes(c, [at |-> "calls", probe |-> TRUE])
       \/ bkState # "open" /\ To(c, "idle") /\ UNCHANGED bkState
    /\ UNCHANGED <<bkRow, bkCooldown, bkLeft, bkFailed, bkDropped, bkUndecided>>

-----------------------------------------------------------------------------
(* The store call and its outcome *)

BkSucceed(c) ==
    /\ At(c, "calls")
    /\ To(c, "ok")
    /\ UNCHANGED <<bkState, bkRow, bkCooldown, bkLeft, bkFailed, bkDropped, bkUndecided>>

BkFail(c) ==
    /\ At(c, "calls")
    /\ bkFailed < BkMaxFailures
    /\ bkFailed' = bkFailed + 1
    /\ To(c, "failed")
    /\ UNCHANGED <<bkState, bkRow, bkCooldown, bkLeft, bkDropped, bkUndecided>>

\* An error that is no transient one, or a future that is dropped.
BkDrop(c) ==
    /\ At(c, "calls")
    /\ bkDropped < BkMaxDropped
    /\ bkDropped' = bkDropped + 1
    /\ bkUndecided' = (bkUndecided \/ bkCall[c].probe)
    /\ To(c, "idle")
    /\ UNCHANGED <<bkState, bkRow, bkCooldown, bkLeft, bkFailed>>

\* record_success: the run of failures and the cooldown, then the state.
BkReset(c) ==
    /\ At(c, "ok")
    /\ bkRow' = 0
    /\ bkCooldown' = BkBase
    /\ To(c, "closes")
    /\ UNCHANGED <<bkState, bkLeft, bkFailed, bkDropped, bkUndecided>>

BkClose(c) ==
    /\ At(c, "closes")
    /\ bkState' = "closed"
    /\ To(c, "idle")
    /\ UNCHANGED <<bkRow, bkCooldown, bkLeft, bkFailed, bkDropped, bkUndecided>>

\* record_failure: whoever finds HalfOpen backs off further.
BkLoad(c) ==
    /\ At(c, "failed")
    /\ To(c, IF bkState = "half_open" THEN "doubles" ELSE "counts")
    /\ UNCHANGED <<bkState, bkRow, bkCooldown, bkLeft, bkFailed, bkDropped, bkUndecided>>

\* Wrong: no ceiling.
Doubled_Unbounded == 2 * bkCooldown

Doubled == IF 2 * bkCooldown < BkCeiling THEN 2 * bkCooldown ELSE BkCeiling

\* Wrong: a probe that failed does not open the breaker again.
BkDouble_Stays(c) ==
    /\ At(c, "doubles")
    /\ bkCooldown' = Doubled
    /\ To(c, "idle")
    /\ UNCHANGED <<bkState, bkRow, bkLeft, bkFailed, bkDropped, bkUndecided>>

BkDouble(c) ==
    /\ At(c, "doubles")
    /\ bkCooldown' = Doubled
    /\ To(c, "opens")
    /\ UNCHANGED <<bkState, bkRow, bkLeft, bkFailed, bkDropped, bkUndecided>>

\* The count goes no further than the threshold, where it tells nothing more.
BkCount(c) ==
    /\ At(c, "counts")
    /\ bkRow' = IF bkRow < BkThreshold THEN bkRow + 1 ELSE bkRow
    /\ To(c, IF bkRow + 1 >= BkThreshold THEN "opens" ELSE "idle")
    /\ UNCHANGED <<bkState, bkCooldown, bkLeft, bkFailed, bkDropped, bkUndecided>>

\* open: the end of the cooldown, then the state.
BkOpen(c) ==
    /\ At(c, "opens")
    /\ bkLeft' \in bkCooldown..(bkCooldown + BkJitter)
    /\ To(c, "opened")
    /\ UNCHANGED <<bkState, bkRow, bkCooldown, bkFailed, bkDropped, bkUndecided>>

BkOpened(c) ==
    /\ At(c, "opened")
    /\ bkState' = "open"
    /\ To(c, "idle")
    /\ UNCHANGED <<bkRow, bkCooldown, bkLeft, bkFailed, bkDropped, bkUndecided>>

BkTick ==
    /\ bkLeft > 0
    /\ bkLeft' = bkLeft - 1
    /\ UNCHANGED <<bkState, bkRow, bkCooldown, bkCall, bkFailed, bkDropped, bkStray, bkUndecided>>

-----------------------------------------------------------------------------
BkAllow(c) == BkAsk(c) \/ BkRemaining(c) \/ BkProbe(c)
BkRecord(c) == BkReset(c) \/ BkClose(c) \/ BkLoad(c) \/ BkDouble(c) \/ BkCount(c) \/ BkOpen(c) \/ BkOpened(c)
BkCalls(c) == BkAllow(c) \/ BkSucceed(c) \/ BkRecord(c)

BkNext ==
    \/ \E c \in BkCallers : BkCalls(c) \/ BkFail(c) \/ BkDrop(c)
    \/ BkTick

\* Callers go on calling, a call ends, and time passes.
BkFairness == WF_bkVars(BkTick) /\ \A c \in BkCallers : WF_bkVars(BkCalls(c))

BkSpec == BkInit /\ [][BkNext]_bkVars /\ BkFairness

-----------------------------------------------------------------------------
(* Properties *)

BkTypeOK ==
    /\ bkState \in {"closed", "open", "half_open"}
    /\ bkRow \in 0..BkThreshold
    /\ bkCooldown \in BkBase..BkCeiling
    /\ bkLeft \in 0..(BkCeiling + BkJitter)
    /\ bkCall \in [BkCallers -> BkCall]
    /\ bkFailed \in 0..BkMaxFailures
    /\ bkDropped \in 0..BkMaxDropped
    /\ bkStray \in BOOLEAN
    /\ bkUndecided \in BOOLEAN

\* The head of breaker.rs: "Exactly one probe."  So it is unless a call that was
\* let through before the breaker opened is recorded during the probe.
OneProbe == Cardinality(Probes) <= 1 \/ bkStray

\* The head of breaker.rs: "the store gets the quiet it needs", and no more: a
\* breaker that opened closes again, unless a probe ended without a verdict.
Recovers == bkState # "closed" ~> bkState = "closed" \/ bkUndecided

\* The head of breaker.rs: "If the probe succeeds the breaker closes; if it fails
\* the cooldown doubles".
ProbeDecides == bkState = "half_open" ~> bkState # "half_open"
=============================================================================
