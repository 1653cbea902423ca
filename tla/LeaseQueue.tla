----------------------------- MODULE LeaseQueue -----------------------------
(***************************************************************************)
(* What the `Queue` trait of moso-jobs promises, whatever the backend: a   *)
(* row is leased to at most one client at a time, only the client holding  *)
(* the current lease settles it, a lease that lapses puts the row back,    *)
(* and a settled row stays settled until an operator acts on it.           *)
(*                                                                         *)
(* A lease is a pair <<job, token>>.  `holder` is the token stored in the  *)
(* row; `leases` are the Lease values clients hold, stale ones included.   *)
(***************************************************************************)
EXTENDS Naturals

CONSTANTS
    Jobs,       \* job identifiers
    Tokens,     \* lock tokens
    NoToken     \* the empty lock_token column

VARIABLES
    phase,      \* where each row is in its life
    holder,     \* the lock token of each row
    leases      \* the leases in clients' hands

vars == <<phase, holder, leases>>

Phases == {"absent", "waiting", "leased", "done", "dead", "cancelled"}

InUse == {holder[j] : j \in Jobs} \union {l[2] : l \in leases}

Init ==
    /\ phase = [j \in Jobs |-> "absent"]
    /\ holder = [j \in Jobs |-> NoToken]
    /\ leases = {}

Move(S, p) ==
    /\ phase' = [j \in Jobs |-> IF j \in S THEN p ELSE phase[j]]
    /\ holder' = [j \in Jobs |-> IF j \in S THEN NoToken ELSE holder[j]]

Push(j) ==
    /\ phase[j] = "absent"
    /\ Move({j}, "waiting")
    /\ UNCHANGED leases

Grant(S) ==
    /\ \A j \in S : phase[j] = "waiting"
    /\ \E f \in [S -> Tokens \ InUse] :
        /\ \A i, j \in S : f[i] = f[j] => i = j
        /\ phase' = [j \in Jobs |-> IF j \in S THEN "leased" ELSE phase[j]]
        /\ holder' = [j \in Jobs |-> IF j \in S THEN f[j] ELSE holder[j]]
        /\ leases' = leases \union {<<j, f[j]>> : j \in S}

\* Ack, nack with a retry, nack without one: only under the current lease.
Settle(l, p) ==
    /\ l \in leases
    /\ phase[l[1]] = "leased"
    /\ holder[l[1]] = l[2]
    /\ Move({l[1]}, p)
    /\ leases' = leases \ {l}

\* A client drops a lease: it crashed, or its ack was refused as stale.
Abandon(L) ==
    /\ leases' = leases \ L
    /\ UNCHANGED <<phase, holder>>

Lapse(S) ==
    /\ \A j \in S : phase[j] = "leased"
    /\ Move(S, "waiting")
    /\ UNCHANGED leases

Cancel(j) ==
    /\ phase[j] \in {"waiting", "leased"}
    /\ Move({j}, "cancelled")
    /\ UNCHANGED leases

\* The operator's half: dead letters are run again or thrown away.
Redrive(S, p) ==
    /\ \A j \in S : phase[j] = "dead"
    /\ Move(S, p)
    /\ UNCHANGED leases

Next ==
    \/ \E j \in Jobs : Push(j) \/ Cancel(j)
    \/ \E l \in leases, p \in {"done", "waiting", "dead"} : Settle(l, p)
    \/ \E L \in SUBSET leases : Abandon(L)
    \/ \E S \in SUBSET Jobs :
        \/ Grant(S)
        \/ Lapse(S)
        \/ \E p \in {"waiting", "absent"} : Redrive(S, p)

Spec == Init /\ [][Next]_vars
=============================================================================
