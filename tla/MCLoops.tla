------------------------------ MODULE MCLoops -------------------------------
(***************************************************************************)
(* Small instances of what goes round and must not get stuck: the outbox's *)
(* relays, the scheduler's passes, the circuit breaker, the read-through   *)
(* cache and the shutdown.  They share no state; the instance is one of    *)
(* them at a time, and `part` says which.                                  *)
(***************************************************************************)
EXTENDS Outbox, Scheduler, Breaker, ReadThrough, Shutdown

VARIABLE part

MCVars == <<part, obVars, scVars, bkVars, rtVars, sdVars>>

\* A part that is left out stays at one of its initial states.
MCInit ==
    /\ part \in {"outbox", "scheduler", "breaker", "cache", "shutdown"}
    /\ ObInit /\ ScInit /\ BkInit /\ RtInit /\ SdInit
    /\ part # "outbox" => obKeeps /\ obBad = {}
    /\ part # "scheduler" => ~scCatchUp /\ ~scSkips /\ ~scAdvisory

MCNext ==
    /\ UNCHANGED part
    /\ \/ part = "outbox" /\ ObNext /\ UNCHANGED <<scVars, bkVars, rtVars, sdVars>>
       \/ part = "scheduler" /\ ScNext /\ UNCHANGED <<obVars, bkVars, rtVars, sdVars>>
       \/ part = "breaker" /\ BkNext /\ UNCHANGED <<obVars, scVars, rtVars, sdVars>>
       \/ part = "cache" /\ RtNext /\ UNCHANGED <<obVars, scVars, bkVars, sdVars>>
       \/ part = "shutdown" /\ SdNext /\ UNCHANGED <<obVars, scVars, bkVars, rtVars>>

\* The part that runs is scheduled as its own module says: the same actions,
\* which are disabled in every other part.
MCFairness ==
    /\ \A r \in ObRelays : WF_obVars(part = "outbox" /\ ObMoves(r))
    /\ \A p \in ScProcesses : WF_scVars(part = "scheduler" /\ ScMoves(p))
    /\ WF_scVars(part = "scheduler" /\ ScTick)
    /\ \A c \in BkCallers : WF_bkVars(part = "breaker" /\ BkCalls(c))
    /\ WF_bkVars(part = "breaker" /\ BkTick)
    /\ \A c \in RtCallers : WF_rtVars(part = "cache" /\ RtMoves(c))
    /\ \A r \in SdReceivers : WF_sdVars(part = "shutdown" /\ SdReceives(r))
    /\ WF_sdVars(part = "shutdown" /\ (SdFlag \/ SdNotify))
    /\ WF_sdVars(part = "shutdown" /\ SdServes)
    /\ WF_sdVars(part = "shutdown" /\ SdTick)

MCSpec == MCInit /\ [][MCNext]_MCVars /\ MCFairness

\* Rows, schedules, circuits and slots have the fields and values the code writes.
LoopsTypeOK == ObTypeOK /\ ScTypeOK /\ BkTypeOK /\ RtTypeOK /\ SdTypeOK
=============================================================================
