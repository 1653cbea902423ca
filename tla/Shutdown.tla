------------------------------ MODULE Shutdown ------------------------------
(***************************************************************************)
(* shutdown.rs, and serve_on of app.rs, which uses it: the signal that ends*)
(* a process, and the drain that waits for what is under way.              *)
(*                                                                         *)
(* Any task may wait for the signal.  recv looks at the flag, registers    *)
(* itself, looks again and parks; trigger stores the time, stores the flag *)
(* and wakes who is registered.                                            *)
(*                                                                         *)
(* The connections and the guards share one grace, counted from the signal.*)
(***************************************************************************)
EXTENDS Integers, FiniteSets

CONSTANTS
    SdTasks,            \* handlers and jobs that wait for the signal
    SdServer, SdDeadline,   \* serve_on's own: its server, and its timer
    SdGuards,           \* shutdown guards, taken at most once each
    SdGrace

ASSUME SdAssumption ==
    /\ SdServer # SdDeadline
    /\ {SdServer, SdDeadline} \intersect SdTasks = {}
    /\ IsFiniteSet(SdGuards)
    /\ SdGrace \in Nat

VARIABLES
    sdTrigger,          \* trigger: "no", "stamped", "flagged", "done"
    sdElapsed,          \* since triggered_at
    sdRecv,             \* each receiver
    sdGuard,            \* each guard
    sdServe,            \* serve_on
    sdOpen              \* connections under way

sdVars == <<sdTrigger, sdElapsed, sdRecv, sdGuard, sdServe, sdOpen>>

SdReceivers == SdTasks \union {SdServer, SdDeadline}

SdInit ==
    /\ sdTrigger = "no"
    /\ sdElapsed = 0
    /\ sdRecv = [r \in SdReceivers |-> "away"]
    /\ sdGuard = [g \in SdGuards |-> "none"]
    /\ sdServe = "serves"
    /\ sdOpen = TRUE

Flagged == sdTrigger \in {"flagged", "done"}

-----------------------------------------------------------------------------
(* Signal *)

SdRecvTo(r, at) ==
    /\ sdRecv' = [sdRecv EXCEPT ![r] = at]
    /\ UNCHANGED <<sdTrigger, sdElapsed, sdGuard, sdServe, sdOpen>>

SdFirstLook(r) ==
    /\ sdRecv[r] = "away"
    /\ SdRecvTo(r, IF Flagged THEN "returned" ELSE "looked")

\* Wrong: registered, it parks.
SdRegister_Parks(r) ==
    /\ sdRecv[r] = "looked"
    /\ SdRecvTo(r, "parked")

SdRegister(r) ==
    /\ sdRecv[r] = "looked"
    /\ SdRecvTo(r, "registered")

SdSecondLook(r) ==
    /\ sdRecv[r] = "registered"
    /\ SdRecvTo(r, IF Flagged THEN "returned" ELSE "parked")

SdTriggerTo(step) ==
    /\ sdTrigger' = step
    /\ UNCHANGED <<sdElapsed, sdGuard, sdServe, sdOpen>>

SdStamp == sdTrigger = "no" /\ SdTriggerTo("stamped") /\ UNCHANGED sdRecv
SdFlag == sdTrigger = "stamped" /\ SdTriggerTo("flagged") /\ UNCHANGED sdRecv

\* notify_waiters: who is registered is woken, parked or not.
SdNotify ==
    /\ sdTrigger = "flagged"
    /\ SdTriggerTo("done")
    /\ sdRecv' = [r \in SdReceivers |->
                    IF sdRecv[r] \in {"registered", "parked"} THEN "returned" ELSE sdRecv[r]]

-----------------------------------------------------------------------------
(* Drain *)

Outstanding == Cardinality({g \in SdGuards : sdGuard[g] = "held"})

SdGuardTo(g, at) ==
    /\ sdGuard' = [sdGuard EXCEPT ![g] = at]
    /\ UNCHANGED <<sdTrigger, sdElapsed, sdRecv, sdServe, sdOpen>>

SdTake(g) == sdGuard[g] = "none" /\ SdGuardTo(g, "held")
SdDropGuard(g) == sdGuard[g] = "held" /\ SdGuardTo(g, "dropped")

-----------------------------------------------------------------------------
(* serve_on *)

SdServeTo(stage) ==
    /\ sdServe' = stage
    /\ UNCHANGED <<sdTrigger, sdElapsed, sdRecv, sdGuard, sdOpen>>

\* The last connection ends.
SdConnectionsEnd ==
    /\ sdOpen
    /\ sdOpen' = FALSE
    /\ UNCHANGED <<sdTrigger, sdElapsed, sdRecv, sdGuard, sdServe>>

\* select!: the server has drained, or the grace is over.
SdServed ==
    /\ sdServe = "serves"
    /\ \/ sdRecv[SdServer] = "returned" /\ ~sdOpen
       \/ sdRecv[SdDeadline] = "returned" /\ sdElapsed >= SdGrace
    /\ SdServeTo("drains")

\* Drain::wait polls the count until its deadline.
SdDrained ==
    /\ sdServe = "drains"
    /\ Outstanding = 0 \/ sdElapsed >= SdGrace
    /\ SdServeTo("hooks")

\* run_shutdown, and the end of the process.
SdHooks == sdServe = "hooks" /\ SdServeTo("down")

SdTick ==
    /\ sdTrigger # "no"
    /\ sdElapsed < SdGrace
    /\ sdElapsed' = sdElapsed + 1
    /\ UNCHANGED <<sdTrigger, sdRecv, sdGuard, sdServe, sdOpen>>

-----------------------------------------------------------------------------
SdReceives(r) == SdFirstLook(r) \/ SdRegister(r) \/ SdSecondLook(r)
SdTriggers == SdStamp \/ SdFlag \/ SdNotify
SdHolds(g) == SdTake(g) \/ SdDropGuard(g)
SdServes == SdServed \/ SdDrained \/ SdHooks

SdNext ==
    \/ \E r \in SdReceivers : SdReceives(r)
    \/ SdTriggers
    \/ \E g \in SdGuards : SdHolds(g)
    \/ SdConnectionsEnd
    \/ SdServes
    \/ SdTick

\* A task that waits is polled, the thread in trigger goes on, and time passes.
\* Nobody is sure to ask for the signal, to end a connection or to drop a guard.
SdFairness ==
    /\ \A r \in SdReceivers : WF_sdVars(SdReceives(r))
    /\ WF_sdVars(SdFlag \/ SdNotify)
    /\ WF_sdVars(SdServes)
    /\ WF_sdVars(SdTick)

SdSpec == SdInit /\ [][SdNext]_sdVars /\ SdFairness

-----------------------------------------------------------------------------
(* Properties *)

SdTypeOK ==
    /\ sdTrigger \in {"no", "stamped", "flagged", "done"}
    /\ sdElapsed \in 0..SdGrace
    /\ sdRecv \in [SdReceivers -> {"away", "looked", "registered", "parked", "returned"}]
    /\ sdGuard \in [SdGuards -> {"none", "held", "dropped"}]
    /\ sdServe \in {"serves", "drains", "hooks", "down"}
    /\ sdOpen \in BOOLEAN

\* Signal::recv: "a task that starts late is not left waiting for an event that
\* has passed", and the grace bounds the rest: once the signal is given every
\* receiver returns and the process ends, whatever stays open.
ShutsDown ==
    sdTrigger # "no" ~> sdServe = "down" /\ \A r \in SdReceivers : sdRecv[r] = "returned"
=============================================================================
