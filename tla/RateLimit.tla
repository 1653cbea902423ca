----------------------------- MODULE RateLimit -----------------------------
(***************************************************************************)
(* rate.rs of moso-kv: the rate limiter, for one bucket charged by several *)
(* processes.  The bucket is one number in the store, the theoretical      *)
(* arrival time of the next request; it is charged by a script in the      *)
(* store, or read, decided on, and written by a compare-and-swap.          *)
(*                                                                         *)
(* The store forgets the bucket when its time to live is over.  A process  *)
(* reads its own clock, which may be behind the store's by RlSkew, and any *)
(* time may pass between that reading and what the store does with it.     *)
(***************************************************************************)
EXTENDS Integers, FiniteSets

CONSTANTS
    RlCallers,
    RlNone,             \* no bucket in the store
    RlEmission,         \* period / limit
    RlBurst,
    RlSlack,            \* the second a bucket outlives its drain by
    RlSkew,             \* bound: how far a process's clock is behind
    RlAttempts,         \* MAX_CAS_ATTEMPTS
    RlMaxClock          \* bound: the last moment

ASSUME RlAssumption ==
    /\ RlNone \notin Nat
    /\ RlEmission \in Nat \ {0} /\ RlBurst \in Nat \ {0} /\ RlAttempts \in Nat \ {0}
    /\ RlSlack \in Nat /\ RlMaxClock \in Nat
    /\ RlSkew \in 0..RlSlack

VARIABLES
    rlNow,              \* the store's clock
    rlTat,              \* the bucket
    rlDies,             \* when the store forgets it
    rlCalls,
    rlAdmitted,         \* how many requests were let through, by clock reading
    rlLate              \* a reading was used when it was too old

rlVars == <<rlNow, rlTat, rlDies, rlCalls, rlAdmitted, rlLate>>

Clock == 0..RlMaxClock
Tolerance == RlEmission * RlBurst
Tats == 0..(RlMaxClock + Tolerance)

StateTtl == Tolerance + RlEmission + RlSlack

\* `now` is the clock reading, `old` what the bucket held, `tries` the lost
\* races so far.
RlCall == [at : {"idle", "got", "swap", "eval"}, now : Clock,
           old : Tats \union {RlNone}, tries : 0..(RlAttempts - 1)]

RlIdle == [at |-> "idle", now |-> 0, old |-> RlNone, tries |-> 0]

RlInit ==
    /\ rlNow = 0 /\ rlDies = 0
    /\ rlTat = RlNone
    /\ rlCalls = [c \in RlCallers |-> RlIdle]
    /\ rlAdmitted = [t \in Clock |-> 0]
    /\ rlLate = FALSE

\* tat.max(now), the arrival this request would move the bucket to, and whether
\* that is further ahead than the tolerance.
Tat(stored, now) == IF stored = RlNone \/ stored < now THEN now ELSE stored
NewTat(stored, now) == Tat(stored, now) + RlEmission
OverQuota(stored, now) == NewTat(stored, now) - Tolerance > now

Readings == {t \in Clock : t <= rlNow /\ rlNow <= t + RlSkew}

\* A bucket outlives by RlEmission + RlSlack whatever it has promised: a reading
\* older than that may meet a bucket that is missing when it should not be.
TooOld(now) == rlNow - now > RlEmission + RlSlack

Returns(c) == rlCalls' = [rlCalls EXCEPT ![c] = RlIdle]

\* SET with a time to live, and the request goes through.
Charges(c, new) ==
    /\ rlTat' = new
    /\ rlDies' = rlNow + StateTtl
    /\ rlAdmitted' = [rlAdmitted EXCEPT ![rlCalls[c].now] = @ + 1]
    /\ rlLate' = (rlLate \/ TooOld(rlCalls[c].now))
    /\ Returns(c)

Refuses(c) == Returns(c) /\ UNCHANGED <<rlTat, rlDies, rlAdmitted, rlLate>>

-----------------------------------------------------------------------------
(* rate_limit_cas *)

RlGet(c) ==
    /\ rlCalls[c].at = "idle"
    /\ rlCalls' = [rlCalls EXCEPT ![c].at = "got", ![c].old = rlTat]
    /\ UNCHANGED <<rlNow, rlTat, rlDies, rlAdmitted, rlLate>>

\* now_us, and the decision on what get returned.
RlDecide(c) ==
    /\ rlCalls[c].at = "got"
    /\ \E now \in Readings :
        \/ OverQuota(rlCalls[c].old, now) /\ Refuses(c)
        \/ /\ ~OverQuota(rlCalls[c].old, now)
           /\ rlCalls' = [rlCalls EXCEPT ![c].at = "swap", ![c].now = now]
           /\ UNCHANGED <<rlTat, rlDies, rlAdmitted, rlLate>>
    /\ UNCHANGED rlNow

\* Wrong: a plain set.
RlSwap_Sets(c) ==
    /\ rlCalls[c].at = "swap"
    /\ Charges(c, NewTat(rlCalls[c].old, rlCalls[c].now))
    /\ UNCHANGED rlNow

\* compare_and_swap; the race lost, the loop goes round or gives up.
RlSwap(c) ==
    /\ rlCalls[c].at = "swap"
    /\ \/ /\ rlTat = rlCalls[c].old
          /\ Charges(c, NewTat(rlCalls[c].old, rlCalls[c].now))
       \/ /\ rlTat # rlCalls[c].old
          /\ rlCalls[c].tries + 1 < RlAttempts
          /\ rlCalls' = [rlCalls EXCEPT ![c] = [RlIdle EXCEPT !.tries = rlCalls[c].tries + 1]]
          /\ UNCHANGED <<rlTat, rlDies, rlAdmitted, rlLate>>
       \/ rlTat # rlCalls[c].old /\ rlCalls[c].tries + 1 = RlAttempts /\ Refuses(c)
    /\ UNCHANGED rlNow

-----------------------------------------------------------------------------
(* rate_limit_scripted *)

\* The arguments are put together before the store is called.
RlStamp(c) ==
    /\ rlCalls[c] = RlIdle
    /\ \E now \in Readings : rlCalls' = [rlCalls EXCEPT ![c].at = "eval", ![c].now = now]
    /\ UNCHANGED <<rlNow, rlTat, rlDies, rlAdmitted, rlLate>>

\* GCRA_SCRIPT.
RlEval(c) ==
    /\ rlCalls[c].at = "eval"
    /\ LET now == rlCalls[c].now IN
        \/ OverQuota(rlTat, now) /\ Refuses(c)
        \/ ~OverQuota(rlTat, now) /\ Charges(c, NewTat(rlTat, now))
    /\ UNCHANGED rlNow

-----------------------------------------------------------------------------

RlTick ==
    /\ rlNow < RlMaxClock
    /\ rlNow' = rlNow + 1
    /\ IF rlNow' < rlDies THEN UNCHANGED <<rlTat, rlDies>> ELSE rlTat' = RlNone /\ rlDies' = 0
    /\ UNCHANGED <<rlCalls, rlAdmitted, rlLate>>

\* The future is dropped: the client hung up.
RlDrop(c) ==
    /\ rlCalls[c].at # "idle"
    /\ Refuses(c)
    /\ UNCHANGED rlNow

RlNext ==
    \/ RlTick
    \/ \E c \in RlCallers :
        RlGet(c) \/ RlDecide(c) \/ RlSwap(c) \/ RlStamp(c) \/ RlEval(c) \/ RlDrop(c)

RlSpec == RlInit /\ [][RlNext]_rlVars

-----------------------------------------------------------------------------
(* Properties *)

\* The bucket, the calls and the record of the run have their values.
RlTypeOK ==
    /\ rlNow \in Clock
    /\ rlTat \in Tats \union {RlNone}
    /\ rlDies \in 0..(RlMaxClock + StateTtl)
    /\ rlCalls \in [RlCallers -> RlCall]
    /\ rlAdmitted \in [Clock -> Nat]
    /\ rlLate \in BOOLEAN

\* What went through with a reading from s to e, each request as the reading and
\* its number among those that had it.
Admitted(s, e) == UNION {{t} \X (1..rlAdmitted[t]) : t \in s..e}

\* What a quota promises of every window of time, not of fixed periods: the
\* requests let through between two readings are the burst and what drained in
\* between, whoever races for the bucket and whenever the store forgets it.  A
\* call that sat on its reading for longer than a bucket outlives its use is the
\* exception.
RateHolds ==
    rlLate \/ \A s, e \in Clock : s <= e =>
        Cardinality(Admitted(s, e)) <= RlBurst + (e - s) \div RlEmission
=============================================================================
