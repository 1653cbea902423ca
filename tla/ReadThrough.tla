---------------------------- MODULE ReadThrough -----------------------------
(***************************************************************************)
(* flight.rs and Kv::get_or_insert_with: the read-through cache of one key,*)
(* with one computation in flight, in one process.                         *)
(*                                                                         *)
(* A caller reads the cache, and on a miss joins the slot of its key or    *)
(* makes one.  A slot is a OnceCell: one holder at a time may initialise   *)
(* it, by reading the cache again, computing and writing.  The map has a   *)
(* Weak reference to the slot, so that the slot lives as long as a caller  *)
(* holds it, and the last caller out sweeps the map.                       *)
(*                                                                         *)
(* A value is the version of the truth it was computed from.  A service    *)
(* changes the truth and then invalidates the key.                         *)
(***************************************************************************)
EXTENDS Integers, FiniteSets

CONSTANTS
    RtCallers,
    RtNone,             \* no value, no slot
    RtMaxVersion,       \* bound: versions of the truth
    RtMaxTroubles       \* bound: what fails, and futures that are dropped

ASSUME RtAssumption ==
    /\ IsFiniteSet(RtCallers)
    /\ {RtMaxVersion, RtMaxTroubles} \subseteq Nat
    /\ RtNone \notin Nat

VARIABLES
    rtTruth,
    rtCache,
    rtMap,              \* the slot the map refers to, live or not
    rtCell,             \* the value each slot was initialised to
    rtCall,
    rtFloor,            \* the version the last invalidation was about
    rtOverlap,          \* callers were at work at that invalidation
    rtTroubles

rtVars == <<rtTruth, rtCache, rtMap, rtCell, rtCall, rtFloor, rtOverlap, rtTroubles>>

RtVersions == 0..RtMaxVersion

\* As many slots as callers: a slot no caller holds is gone, and its name free.
Slots == 1..Cardinality(RtCallers)

\* `floor` is the last invalidation the call comes after.
RtCall == [at : {"idle", "misses", "waits", "rechecks", "computes", "writes",
                 "leaves", "sweeps", "returns"},
           slot : Slots \union {RtNone}, value : RtVersions \union {RtNone}, floor : RtVersions]

RtIdle == [at |-> "idle", slot |-> RtNone, value |-> RtNone, floor |-> 0]

RtInit ==
    /\ rtTruth = 0
    /\ rtCache = RtNone
    /\ rtMap = RtNone
    /\ rtCell = [s \in Slots |-> RtNone]
    /\ rtCall = [c \in RtCallers |-> RtIdle]
    /\ rtFloor = 0
    /\ rtOverlap = FALSE
    /\ rtTroubles = 0

RtAt(c, at) == rtCall[c].at = at
RtTo(c, call) == rtCall' = [rtCall EXCEPT ![c] = call]

Holders(s) == {c \in RtCallers : rtCall[c].slot = s}

\* Wrong: the map keeps the slot alive.
Alive_Always(s) == TRUE

\* Weak::upgrade succeeds.
Alive(s) == Holders(s) # {}

-----------------------------------------------------------------------------
(* A call *)

RtRead(c) ==
    /\ RtAt(c, "idle")
    /\ RtTo(c, [RtIdle EXCEPT !.at = IF rtCache = RtNone THEN "misses" ELSE "returns",
                              !.value = rtCache, !.floor = rtFloor])
    /\ UNCHANGED <<rtTruth, rtCache, rtMap, rtCell, rtFloor, rtOverlap, rtTroubles>>

\* The store fails, and the namespace degrades to a miss.
RtReadFails(c) ==
    /\ RtAt(c, "idle")
    /\ rtTroubles < RtMaxTroubles
    /\ rtTroubles' = rtTroubles + 1
    /\ RtTo(c, [RtIdle EXCEPT !.at = "misses", !.floor = rtFloor])
    /\ UNCHANGED <<rtTruth, rtCache, rtMap, rtCell, rtFloor, rtOverlap>>

\* SingleFlight::slot, under the lock of the map.
RtJoin(c) ==
    LET known == rtMap # RtNone
        s == IF known /\ Alive(rtMap) THEN rtMap ELSE CHOOSE free \in Slots : Holders(free) = {}
    IN
    /\ RtAt(c, "misses")
    /\ RtTo(c, [rtCall[c] EXCEPT !.at = "waits", !.slot = s])
    /\ rtMap' = s
    /\ rtCell' = IF known /\ Alive(rtMap) THEN rtCell ELSE [rtCell EXCEPT ![s] = RtNone]
    /\ UNCHANGED <<rtTruth, rtCache, rtFloor, rtOverlap, rtTroubles>>

Leading(c) == rtCall[c].at \in {"rechecks", "computes", "writes"}

\* get_or_try_init of an initialised cell.
RtShare(c) ==
    LET value == rtCell[rtCall[c].slot] IN
    /\ RtAt(c, "waits")
    /\ value # RtNone
    /\ RtTo(c, [rtCall[c] EXCEPT !.at = "leaves", !.value = value])
    /\ UNCHANGED <<rtTruth, rtCache, rtMap, rtCell, rtFloor, rtOverlap, rtTroubles>>

\* Wrong: only the one caller of a slot initialises it.
RtLead_Alone(c) ==
    /\ RtAt(c, "waits")
    /\ rtCell[rtCall[c].slot] = RtNone
    /\ Holders(rtCall[c].slot) = {c}
    /\ RtTo(c, [rtCall[c] EXCEPT !.at = "rechecks"])
    /\ UNCHANGED <<rtTruth, rtCache, rtMap, rtCell, rtFloor, rtOverlap, rtTroubles>>

\* ... and of one that is not, when its only permit is free: a leader that failed
\* or was dropped gave it back.
RtLead(c) ==
    /\ RtAt(c, "waits")
    /\ rtCell[rtCall[c].slot] = RtNone
    /\ \A d \in Holders(rtCall[c].slot) : d = c \/ rtCall[d].at \in {"waits", "leaves"}
    /\ RtTo(c, [rtCall[c] EXCEPT !.at = "rechecks"])
    /\ UNCHANGED <<rtTruth, rtCache, rtMap, rtCell, rtFloor, rtOverlap, rtTroubles>>

RtRecheck(c) ==
    /\ RtAt(c, "rechecks")
    /\ IF rtCache = RtNone
       THEN RtTo(c, [rtCall[c] EXCEPT !.at = "computes"]) /\ UNCHANGED rtCell
       ELSE /\ RtTo(c, [rtCall[c] EXCEPT !.at = "leaves", !.value = rtCache])
            /\ rtCell' = [rtCell EXCEPT ![rtCall[c].slot] = rtCache]
    /\ UNCHANGED <<rtTruth, rtCache, rtMap, rtFloor, rtOverlap, rtTroubles>>

RtCompute(c) ==
    /\ RtAt(c, "computes")
    /\ RtTo(c, [rtCall[c] EXCEPT !.at = "writes", !.value = rtTruth])
    /\ UNCHANGED <<rtTruth, rtCache, rtMap, rtCell, rtFloor, rtOverlap, rtTroubles>>

\* An error goes to its caller; the others try for themselves.
RtComputeFails(c) ==
    /\ RtAt(c, "computes")
    /\ rtTroubles < RtMaxTroubles
    /\ rtTroubles' = rtTroubles + 1
    /\ RtTo(c, [rtCall[c] EXCEPT !.at = "leaves"])
    /\ UNCHANGED <<rtTruth, rtCache, rtMap, rtCell, rtFloor, rtOverlap>>

Written(c) ==
    /\ RtTo(c, [rtCall[c] EXCEPT !.at = "leaves"])
    /\ rtCell' = [rtCell EXCEPT ![rtCall[c].slot] = rtCall[c].value]
    /\ UNCHANGED <<rtTruth, rtMap, rtFloor, rtOverlap>>

RtWrite(c) ==
    /\ RtAt(c, "writes")
    /\ rtCache' = rtCall[c].value
    /\ Written(c)
    /\ UNCHANGED rtTroubles

\* The value is returned all the same.
RtWriteFails(c) ==
    /\ RtAt(c, "writes")
    /\ rtTroubles < RtMaxTroubles
    /\ rtTroubles' = rtTroubles + 1
    /\ Written(c)
    /\ UNCHANGED rtCache

\* `drop(slot)`.
RtLeave(c) ==
    /\ RtAt(c, "leaves")
    /\ RtTo(c, [rtCall[c] EXCEPT !.at = "sweeps", !.slot = RtNone])
    /\ UNCHANGED <<rtTruth, rtCache, rtMap, rtCell, rtFloor, rtOverlap, rtTroubles>>

\* Wrong: whoever leaves sweeps.
Swept_Always == RtNone

\* SingleFlight::sweep, under the lock of the map.
Swept == IF rtMap # RtNone /\ Holders(rtMap) = {} THEN RtNone ELSE rtMap

RtSweep(c) ==
    /\ RtAt(c, "sweeps")
    /\ rtMap' = Swept
    /\ RtTo(c, [rtCall[c] EXCEPT !.at = "returns"])
    /\ UNCHANGED <<rtTruth, rtCache, rtCell, rtFloor, rtOverlap, rtTroubles>>

RtReturn(c) ==
    /\ RtAt(c, "returns")
    /\ RtTo(c, RtIdle)
    /\ UNCHANGED <<rtTruth, rtCache, rtMap, rtCell, rtFloor, rtOverlap, rtTroubles>>

\* The future is dropped at an await: its slot and permit go with it, nobody
\* sweeps, and a write it was waiting for may still reach the store.
RtDrop(c) ==
    /\ rtCall[c].at \in {"waits", "rechecks", "computes", "writes"}
    /\ rtTroubles < RtMaxTroubles
    /\ rtTroubles' = rtTroubles + 1
    /\ rtCache' \in {rtCache} \union (IF RtAt(c, "writes") THEN {rtCall[c].value} ELSE {})
    /\ RtTo(c, RtIdle)
    /\ UNCHANGED <<rtTruth, rtMap, rtCell, rtFloor, rtOverlap>>

-----------------------------------------------------------------------------
(* The service and the store *)

RtChange ==
    /\ rtTruth < RtMaxVersion
    /\ rtTruth' = rtTruth + 1
    /\ UNCHANGED <<rtCache, rtMap, rtCell, rtCall, rtFloor, rtOverlap, rtTroubles>>

RtInvalidate ==
    /\ rtFloor < rtTruth
    /\ rtCache' = RtNone
    /\ rtFloor' = rtTruth
    /\ rtOverlap' = (\E c \in RtCallers : ~RtAt(c, "idle"))
    /\ UNCHANGED <<rtTruth, rtMap, rtCell, rtCall, rtTroubles>>

RtExpire ==
    /\ rtCache # RtNone
    /\ rtCache' = RtNone
    /\ UNCHANGED <<rtTruth, rtMap, rtCell, rtCall, rtFloor, rtOverlap, rtTroubles>>

-----------------------------------------------------------------------------
RtMoves(c) ==
    \/ RtJoin(c) \/ RtShare(c) \/ RtLead(c) \/ RtRecheck(c) \/ RtCompute(c) \/ RtWrite(c)
    \/ RtLeave(c) \/ RtSweep(c) \/ RtReturn(c)

RtNext ==
    \/ \E c \in RtCallers :
           RtRead(c) \/ RtReadFails(c) \/ RtMoves(c) \/ RtComputeFails(c) \/ RtWriteFails(c) \/ RtDrop(c)
    \/ RtChange \/ RtInvalidate \/ RtExpire

\* A future that is not dropped is polled on.
RtFairness == \A c \in RtCallers : WF_rtVars(RtMoves(c))

RtSpec == RtInit /\ [][RtNext]_rtVars /\ RtFairness

-----------------------------------------------------------------------------
(* Properties *)

RtTypeOK ==
    /\ rtTruth \in RtVersions
    /\ rtCache \in RtVersions \union {RtNone}
    /\ rtMap \in Slots \union {RtNone}
    /\ rtCell \in [Slots -> RtVersions \union {RtNone}]
    /\ rtCall \in [RtCallers -> RtCall]
    /\ rtFloor \in RtVersions
    /\ rtOverlap \in BOOLEAN
    /\ rtTroubles \in 0..RtMaxTroubles

\* The head of flight.rs: "one computation per key, however many callers ask for
\* it", whoever fails, is dropped, leaves or comes meanwhile.
OneComputation == \A c, d \in RtCallers : Leading(c) /\ Leading(d) => c = d

\* The head of flight.rs: a leader that fails or is dropped hands over; nobody
\* waits for ever.
WaitersEnd == \A c \in RtCallers : RtAt(c, "waits") ~> ~RtAt(c, "waits")

\* cached.rs: invalidation is "explicit".  A call that starts after it returns a
\* value of that version or a later one, if no call was at work meanwhile.
FreshUnlessOverlapped ==
    \A c \in RtCallers :
        RtAt(c, "returns") /\ rtCall[c].value # RtNone =>
            rtCall[c].value >= rtCall[c].floor \/ rtOverlap

\* test invalidate_makes_the_next_call_recompute, for callers that overlap.
FreshAfterInvalidate ==
    \A c \in RtCallers :
        RtAt(c, "returns") /\ rtCall[c].value # RtNone => rtCall[c].value >= rtCall[c].floor

\* SingleFlight::in_flight: "it should return to zero once everything settles".
SettlesToZero == (\A c \in RtCallers : RtAt(c, "idle")) => rtMap = RtNone

\* The head of flight.rs: "Nothing is cached, the error goes to every waiter".
ErrorIsShared ==
    [][\A c, d \in RtCallers :
         RtAt(c, "computes") /\ rtCall'[c].at = "leaves" /\ RtAt(d, "waits")
         /\ rtCall[d].slot = rtCall[c].slot => rtCall'[d].at = "leaves"]_rtVars
=============================================================================
