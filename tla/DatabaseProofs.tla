--------------------------- MODULE DatabaseProofs ---------------------------
(***************************************************************************)
(* What holds of tables that several processes share: the ledger of side   *)
(* effects, the ledger of migrations and the order of a paged walk.        *)
(***************************************************************************)
EXTENDS MCDatabaseClaims, PgQueueProofs, RefreshTokensProofs, SequenceTheorems

-----------------------------------------------------------------------------
(***************************************************************************)
(* What Once promises, for any set of callers, any window and any number of*)
(* failures.                                                               *)
(*                                                                         *)
(* Apartness of the bodies is not inductive alone: a body says nothing of  *)
(* the claim it runs under.  `Covered` ties the two together: while no     *)
(* outcome is recorded, a body younger than the window is the body of the  *)
(* claim that is in the ledger, and of the same age.                       *)
(***************************************************************************)

\* A body that has not outlasted the window has the claim, or its key has an
\* outcome.
Covered ==
    \A d \in OnCallers : InBody(d) =>
        \/ entry.outcome # OnNone
        \/ calls[d].age = OrphanAfter
        \/ entry.by = d /\ entry.age = calls[d].age

OnIInv == OnTypeOK /\ Covered

-----------------------------------------------------------------------------

\* The records the actions write have the fields they should.
LEMMA OnShapes ==
    /\ Unclaimed \in Claim /\ Resting \in Call /\ Running \in Call
    /\ [Resting EXCEPT !.stage = "done"] \in Call
    /\ \A c \in OnCallers : Claimed(c) \in Claim
    /\ \A call \in Call :
        /\ \A s \in {"reads", "ran"} : [call EXCEPT !.stage = s] \in Call
        /\ \A seen \in OnCallers \union {OnNone} :
             [call EXCEPT !.stage = "takes", !.seen = seen] \in Call
<1>1. 0 \in 0..OrphanAfter
  BY OnAssumption
<1>2. Unclaimed \in Claim /\ \A c \in OnCallers : Claimed(c) \in Claim
  BY <1>1 DEF Unclaimed, Claimed, Claim
<1>3. Resting \in Call /\ Running \in Call /\ [Resting EXCEPT !.stage = "done"] \in Call
  BY <1>1 DEF Resting, Running, Call
<1>4. \A call \in Call, s \in {"reads", "ran"} : [call EXCEPT !.stage = s] \in Call
  BY DEF Call
<1>5. \A call \in Call, seen \in OnCallers \union {OnNone} :
        [call EXCEPT !.stage = "takes", !.seen = seen] \in Call
  BY DEF Call
<1> QED BY <1>2, <1>3, <1>4, <1>5

\* Time moves an age on, or leaves it at the window.
LEMMA OnAges == \A age \in 0..OrphanAfter : Older(age) \in 0..OrphanAfter
  BY OnAssumption DEF Older

\* Rows and calls keep their types.
LEMMA OnTypeStep == OnTypeOK /\ [OnNext]_onVars => OnTypeOK'
<1> SUFFICES ASSUME OnTypeOK, [OnNext]_onVars PROVE OnTypeOK'
  OBVIOUS
<1> USE DEF OnTypeOK
<1>1. ASSUME NEW c \in OnCallers, Wins(c) PROVE OnTypeOK'
  BY <1>1, OnShapes DEF Wins, Moves
<1>2. ASSUME NEW c \in OnCallers, NEW call \in Call, Continues(c, call) PROVE OnTypeOK'
  BY <1>2 DEF Continues, Moves
<1>3. ASSUME NEW c \in OnCallers, OnClaim(c) PROVE OnTypeOK'
  <2>1. CASE Claimable BY <2>1, <1>3, <1>1 DEF OnClaim
  <2>2. CASE ~Claimable
    <3>1. [calls[c] EXCEPT !.stage = "reads"] \in Call BY OnShapes
    <3> QED BY <2>2, <3>1, <1>3, <1>2 DEF OnClaim
  <2> QED BY <2>1, <2>2
<1>4. ASSUME NEW c \in OnCallers, OnRead(c) PROVE OnTypeOK'
  <2>1. /\ [Resting EXCEPT !.stage = "done"] \in Call
        /\ [calls[c] EXCEPT !.stage = "takes", !.seen = entry.by] \in Call
        /\ Resting \in Call
    BY OnShapes DEF Claim
  <2> QED BY <2>1, <1>4, <1>2 DEF OnRead
<1>5. ASSUME NEW c \in OnCallers, OnTakeOver(c) PROVE OnTypeOK'
  BY <1>5, <1>1, <1>2, OnShapes DEF OnTakeOver
<1>6. ASSUME NEW c \in OnCallers, OnBody(c) PROVE OnTypeOK'
  <2>1. [calls[c] EXCEPT !.stage = "ran"] \in Call BY OnShapes
  <2> QED BY <2>1, <1>6, <1>2 DEF OnBody
<1>7. ASSUME NEW c \in OnCallers, OnRecord(c) PROVE OnTypeOK'
  <2>1. [entry EXCEPT !.outcome = c] \in Claim BY DEF Claim
  <2> QED BY <2>1, <1>7, OnShapes DEF OnRecord, Moves
<1>8. ASSUME NEW c \in OnCallers, OnTrouble(c) PROVE OnTypeOK'
  <2>1. onTroubles' \in 0..OnMaxTroubles BY <1>8, OnAssumption DEF OnTrouble
  <2> QED BY <2>1, <1>8, OnShapes DEF OnTrouble, Moves
<1>9. ASSUME OnTick PROVE OnTypeOK'
  <2>1. entry' \in Claim
    <3>1. [entry EXCEPT !.age = Older(@)] \in Claim BY OnAges DEF Claim
    <3> QED BY <3>1, <1>9 DEF OnTick
  <2>2. ASSUME NEW c \in OnCallers PROVE [calls[c] EXCEPT !.age = Older(@)] \in Call
    BY OnAges DEF Call
  <2> QED BY <2>1, <2>2, <1>9 DEF OnTick
<1>10. CASE UNCHANGED onVars BY <1>10 DEF onVars
<1> QED
  BY <1>3, <1>4, <1>5, <1>6, <1>7, <1>8, <1>9, <1>10 DEF OnNext, OnCall

\* The ledger's types hold from start to end.
THEOREM OnceTyping == OnSpec => []OnTypeOK
<1>1. ASSUME OnInit PROVE OnTypeOK
  <2>1. calls \in [OnCallers -> Call] /\ entry \in Claim
    BY <1>1, OnShapes DEF OnInit
  <2> QED BY <1>1, <2>1, OnAssumption DEF OnInit, OnTypeOK
<1> QED BY <1>1, OnTypeStep, PTL DEF OnSpec

-----------------------------------------------------------------------------
(* Bodies apart *)

\* The claim can be made, or taken over.
OnFree == entry = Unclaimed \/ (entry.outcome = OnNone /\ entry.age = OrphanAfter)

\* What runs besides a claim that is made has outlasted the window.
LEMMA FreeOfYoungBodies ==
    Covered /\ OnFree => \A d \in OnCallers : InBody(d) => calls[d].age = OrphanAfter
  BY OnAssumption DEF Covered, OnFree, Unclaimed

\* Every step, as what it does to the claim and the bodies.
LEMMA OnStepShapes ==
    ASSUME OnTypeOK, [OnNext]_onVars
    PROVE  \/ \E c \in OnCallers : OnFree /\ Wins(c)
           \/ \E c \in OnCallers, call \in Call :
                 Continues(c, call) /\ call.stage \notin {"runs", "ran"}
           \/ \E c \in OnCallers : OnBody(c) \/ OnRecord(c) \/ OnTrouble(c)
           \/ OnTick
           \/ UNCHANGED onVars
<1> USE DEF OnTypeOK
<1>1. ASSUME NEW c \in OnCallers, OnClaim(c)
      PROVE  \/ OnFree /\ Wins(c)
             \/ \E call \in Call : Continues(c, call) /\ call.stage \notin {"runs", "ran"}
  <2>1. CASE Claimable BY <2>1, <1>1 DEF OnClaim, Claimable, Orphaned, OnFree
  <2>2. CASE ~Claimable
    <3>1. [calls[c] EXCEPT !.stage = "reads"] \in Call
      BY OnShapes
    <3>2. [calls[c] EXCEPT !.stage = "reads"].stage = "reads"
      BY DEF Call
    <3> QED BY <2>2, <3>1, <3>2, <1>1 DEF OnClaim
  <2> QED BY <2>1, <2>2
<1>2. ASSUME NEW c \in OnCallers, OnRead(c)
      PROVE  \E call \in Call : Continues(c, call) /\ call.stage \notin {"runs", "ran"}
  <2>1. /\ [Resting EXCEPT !.stage = "done"] \in Call /\ Resting \in Call
        /\ [calls[c] EXCEPT !.stage = "takes", !.seen = entry.by] \in Call
    BY OnShapes DEF Claim
  <2>2. /\ [Resting EXCEPT !.stage = "done"].stage = "done" /\ Resting.stage = "idle"
        /\ [calls[c] EXCEPT !.stage = "takes", !.seen = entry.by].stage = "takes"
    BY DEF Call, Resting
  <2> QED BY <2>1, <2>2, <1>2 DEF OnRead
<1>3. ASSUME NEW c \in OnCallers, OnTakeOver(c)
      PROVE  \/ OnFree /\ Wins(c)
             \/ \E call \in Call : Continues(c, call) /\ call.stage \notin {"runs", "ran"}
  <2>1. Resting \in Call /\ Resting.stage = "idle"
    BY OnShapes DEF Resting
  <2> QED BY <2>1, <1>3 DEF OnTakeOver, OnFree
<1> QED BY <1>1, <1>2, <1>3 DEF OnNext, OnCall

\* Every step keeps the claim and the bodies tied.
LEMMA OnCoveredStep == OnTypeOK /\ Covered /\ [OnNext]_onVars => Covered'
<1> SUFFICES ASSUME OnTypeOK, Covered, [OnNext]_onVars, NEW d \in OnCallers, InBody(d)'
             PROVE  \/ entry'.outcome # OnNone
                    \/ calls'[d].age = OrphanAfter
                    \/ entry'.by = d /\ entry'.age = calls'[d].age
  BY DEF Covered
<1> USE DEF OnTypeOK
<1>1. ASSUME NEW c \in OnCallers, OnFree, Wins(c)
      PROVE  \/ calls'[d].age = OrphanAfter
             \/ entry'.by = d /\ entry'.age = calls'[d].age
  <2>1. CASE d = c
    BY <2>1, <1>1 DEF Wins, Moves, Running, Claimed
  <2>2. CASE d # c
    <3>1. calls'[d] = calls[d] BY <2>2, <1>1 DEF Wins, Moves
    <3> QED BY <3>1, <1>1, FreeOfYoungBodies DEF InBody
  <2> QED BY <2>1, <2>2
<1>2. ASSUME NEW c \in OnCallers, NEW call \in Call, Continues(c, call),
             call.stage \notin {"runs", "ran"}
      PROVE  calls'[d] = calls[d] /\ InBody(d) /\ entry' = entry
  BY <1>2 DEF Continues, Moves, InBody
<1>3. ASSUME NEW c \in OnCallers, OnBody(c)
      PROVE  calls'[d].age = calls[d].age /\ InBody(d) /\ entry' = entry
  <2>1. CASE d = c
    <3>1. calls'[c] = [calls[c] EXCEPT !.stage = "ran"]
      BY <1>3 DEF OnBody, Continues, Moves
    <3>2. calls'[c].age = calls[c].age BY <3>1 DEF Call
    <3> QED BY <2>1, <3>2, <1>3 DEF OnBody, Continues, InBody
  <2>2. CASE d # c BY <2>2, <1>3 DEF OnBody, Continues, Moves, InBody
  <2> QED BY <2>1, <2>2
<1>4. ASSUME NEW c \in OnCallers, OnRecord(c) PROVE entry'.outcome # OnNone
  <2>1. entry'.outcome = c BY <1>4 DEF OnRecord, Claim
  <2> QED BY <2>1, OnAssumption
<1>5. ASSUME NEW c \in OnCallers, OnTrouble(c)
      PROVE  calls'[d] = calls[d] /\ InBody(d) /\ entry' = entry
  BY <1>5 DEF OnTrouble, Moves, Resting, InBody
<1>6. ASSUME OnTick
      PROVE  \/ entry'.outcome # OnNone
             \/ calls'[d].age = OrphanAfter
             \/ entry'.by = d /\ entry'.age = calls'[d].age
  <2>1. InBody(d) /\ calls'[d].age = Older(calls[d].age)
    <3>1. CASE InBody(d)
      <4>1. calls'[d] = [calls[d] EXCEPT !.age = Older(@)] BY <3>1, <1>6 DEF OnTick
      <4> QED BY <4>1, <3>1 DEF Call
    <3>2. CASE ~InBody(d)
      <4>1. calls'[d] = calls[d] BY <3>2, <1>6 DEF OnTick
      <4> QED BY <4>1, <3>2 DEF InBody
    <3> QED BY <3>1, <3>2
  <2>2. CASE entry.outcome # OnNone
    BY <2>2, <1>6 DEF OnTick
  <2>3. CASE calls[d].age = OrphanAfter
    BY <2>1, <2>3, OnAssumption DEF Older
  <2>4. CASE entry.outcome = OnNone /\ entry.by = d /\ entry.age = calls[d].age
    <3>1. entry # Unclaimed BY <2>4, OnAssumption DEF Unclaimed
    <3>2. entry' = [entry EXCEPT !.age = Older(@)] BY <3>1, <2>4, <1>6 DEF OnTick
    <3>3. entry'.by = entry.by /\ entry'.age = Older(entry.age) BY <3>2 DEF Claim
    <3> QED BY <2>1, <2>4, <3>3
  <2> QED BY <2>1, <2>2, <2>3, <2>4 DEF Covered
<1>7. ASSUME UNCHANGED onVars
      PROVE  calls'[d] = calls[d] /\ InBody(d) /\ entry' = entry
  BY <1>7 DEF onVars, InBody
<1> QED
  BY <1>1, <1>2, <1>3, <1>4, <1>5, <1>6, <1>7, OnStepShapes DEF Covered

\* A body starts only as a claim that was free.
LEMMA StartsFree ==
    ASSUME OnTypeOK, [OnNext]_onVars, NEW c \in OnCallers,
           calls[c].stage # "runs", calls'[c].stage = "runs"
    PROVE  OnFree /\ Wins(c)
<1> USE DEF OnTypeOK
<1>1. ASSUME NEW d \in OnCallers, OnFree, Wins(d) PROVE OnFree /\ Wins(c)
  BY <1>1 DEF Wins, Moves
<1>2. ASSUME NEW d \in OnCallers, NEW call \in Call, Continues(d, call),
             call.stage \notin {"runs", "ran"}
      PROVE  FALSE
  BY <1>2 DEF Continues, Moves
<1>3. ASSUME NEW d \in OnCallers, OnBody(d) PROVE FALSE
  <2>1. CASE d = c
    <3>1. calls'[c] = [calls[c] EXCEPT !.stage = "ran"]
      BY <2>1, <1>3 DEF OnBody, Continues, Moves
    <3>2. calls'[c].stage = "ran" BY <3>1 DEF Call
    <3> QED BY <3>2
  <2>2. CASE d # c BY <2>2, <1>3 DEF OnBody, Continues, Moves
  <2> QED BY <2>1, <2>2
<1>4. ASSUME NEW d \in OnCallers, OnRecord(d) PROVE FALSE
  BY <1>4 DEF OnRecord, Moves, Resting
<1>5. ASSUME NEW d \in OnCallers, OnTrouble(d) PROVE FALSE
  BY <1>5 DEF OnTrouble, Moves, Resting
<1>6. ASSUME OnTick PROVE FALSE
  <2>1. calls'[c] = IF InBody(c) THEN [calls[c] EXCEPT !.age = Older(@)] ELSE calls[c]
    BY <1>6 DEF OnTick
  <2>2. calls'[c].stage = calls[c].stage BY <2>1 DEF Call
  <2> QED BY <2>2
<1>7. CASE UNCHANGED onVars BY <1>7 DEF onVars
<1> QED BY <1>1, <1>2, <1>3, <1>4, <1>5, <1>6, <1>7, OnStepShapes

\* The invariant holds initially and is kept.
LEMMA OnInvInit == OnInit => OnIInv
<1>1. ASSUME OnInit PROVE OnTypeOK
  <2>1. calls \in [OnCallers -> Call] /\ entry \in Claim
    BY <1>1, OnShapes DEF OnInit
  <2> QED BY <1>1, <2>1, OnAssumption DEF OnInit, OnTypeOK
<1>2. ASSUME OnInit, NEW d \in OnCallers PROVE ~InBody(d)
  BY <1>2 DEF OnInit, InBody, Resting
<1> QED BY <1>1, <1>2 DEF OnIInv, Covered

LEMMA OnInvStep == OnIInv /\ [OnNext]_onVars => OnIInv'
  BY OnTypeStep, OnCoveredStep DEF OnIInv

LEMMA OnInductive == OnSpec => []OnIInv
  BY OnInvInit, OnInvStep, PTL DEF OnSpec

\* JobCtx::once: two bodies of one key overlap only if the older has outlasted
\* the window.
THEOREM Apart == OnSpec => BodiesApart
<1>1. OnIInv /\ [OnNext]_onVars =>
        [\A c \in OnCallers : calls[c].stage # "runs" /\ calls'[c].stage = "runs" =>
             \A d \in OnCallers \ {c} : InBody(d) => calls[d].age = OrphanAfter]_onVars
  BY StartsFree, FreeOfYoungBodies DEF OnIInv
<1> QED BY <1>1, OnInductive, PTL DEF OnSpec, BodiesApart

\* A body never starts once an outcome is recorded: a retry gets the outcome.
THEOREM OutcomeEndsIt == OnSpec => NoBodyAfterOutcome
<1>1. OnIInv /\ [OnNext]_onVars =>
        [entry.outcome # OnNone =>
           \A c \in OnCallers : calls'[c].stage = "runs" => calls[c].stage = "runs"]_onVars
  BY StartsFree DEF OnIInv, OnFree, Unclaimed
<1> QED BY <1>1, OnInductive, PTL DEF OnSpec, NoBodyAfterOutcome

-----------------------------------------------------------------------------
(***************************************************************************)
(* What Migrate promises of processes that migrate one database at once,   *)
(* for any number of processes, files and statements.                      *)
(*                                                                         *)
(* Both properties rest on what a process may assume while it is at work:  *)
(* `MgHeld`, that the lock is its own for as long as its lease has not run *)
(* out; and `Begun`, that the row of the plain file it applies is dirty,   *)
(* and that nobody else is in that file, lease or no lease: the primary key*)
(* of the ledger is what keeps them apart then.                            *)
(***************************************************************************)

\* A run, whatever its files.
RunOf(todos) ==
    [at : {"idle", "waits", "locked", "next", "file", "inside", "releases"},
     up : BOOLEAN, todo : todos, sure : BOOLEAN]

MgShaped == \E todos : mgRun \in [MgRunners -> RunOf(todos)]

MgHeld ==
    \A r \in MgRunners :
        /\ mgRun[r].sure => mgLock = r /\ (mgSqlite => mgLeft > 0)
        /\ ~mgSqlite /\ mgRun[r].at \in {"locked", "next", "file", "inside", "releases"} => mgLock = r

InPlain(r) == mgRun[r].at = "inside" /\ MgFile(r) \in mgPlain

Begun ==
    mgRollbacks = 0 =>
        /\ \A r \in MgRunners : mgRun[r].up
        /\ \A r \in MgRunners : InPlain(r) => mgRow[MgFile(r)] = "dirty"
        /\ \A r, s \in MgRunners : InPlain(r) /\ InPlain(s) /\ MgFile(r) = MgFile(s) => r = s

\* The types the proofs need.
MgTyped ==
    /\ MgShaped
    /\ mgPlain \subseteq MgFiles
    /\ mgRow \in [MgFiles -> {"none", "dirty", "clean"}]
    /\ mgDone \in [MgFiles -> 0..MgStatements]
    /\ mgLeft \in Nat
    /\ mgRollbacks \in Nat

MgIInv == MgTyped /\ MgHeld /\ Begun /\ LedgerTruth

-----------------------------------------------------------------------------

Places == {"idle", "waits", "locked", "next", "file", "inside", "releases"}

\* One run goes on, and the others are as they were.
MgMoves(r, at, up, todo, sure) ==
    /\ MgShaped'
    /\ mgRun'[r].at = at /\ mgRun'[r].up = up /\ mgRun'[r].todo = todo /\ mgRun'[r].sure = sure
    /\ \A s \in MgRunners : s # r => mgRun'[s] = mgRun[s]

\* Writing one run is such a move.
LEMMA MgMovesShape ==
    ASSUME MgShaped, NEW r \in MgRunners, NEW todos, NEW run \in RunOf(todos),
           mgRun' = [mgRun EXCEPT ![r] = run]
    PROVE  MgMoves(r, run.at, run.up, run.todo, run.sure)
<1>1. PICK old : mgRun \in [MgRunners -> RunOf(old)] BY DEF MgShaped
<1>2. RunOf(old) \subseteq RunOf(old \union todos) /\ RunOf(todos) \subseteq RunOf(old \union todos)
  BY DEF RunOf
<1>3. mgRun' \in [MgRunners -> RunOf(old \union todos)] BY <1>1, <1>2
<1>4. MgShaped' BY <1>3 DEF MgShaped
<1> QED BY <1>1, <1>4 DEF MgMoves

\* The ways in which a step writes a run.
LEMMA Writes ==
    ASSUME MgShaped, NEW r \in MgRunners
    PROVE  /\ \A at \in Places :
                MgTo(r, at) => MgMoves(r, at, mgRun[r].up, mgRun[r].todo, mgRun[r].sure)
           /\ \A at \in Places, sure \in BOOLEAN :
                mgRun' = [mgRun EXCEPT ![r].at = at, ![r].sure = sure] =>
                    MgMoves(r, at, mgRun[r].up, mgRun[r].todo, sure)
           /\ \A at \in Places : \A todo :
                mgRun' = [mgRun EXCEPT ![r].at = at, ![r].todo = todo] =>
                    MgMoves(r, at, mgRun[r].up, todo, mgRun[r].sure)
           /\ \A at \in Places, up \in BOOLEAN : \A todo :
                mgRun' = [mgRun EXCEPT ![r] = [MgIdle EXCEPT !.at = at, !.up = up, !.todo = todo]] =>
                    MgMoves(r, at, up, todo, FALSE)
           /\ \A at \in Places : \A todo :
                mgRun' = [mgRun EXCEPT ![r] = [MgIdle EXCEPT !.at = at, !.todo = todo]] =>
                    MgMoves(r, at, TRUE, todo, FALSE)
           /\ mgRun' = [mgRun EXCEPT ![r] = MgIdle] => MgMoves(r, "idle", TRUE, {}, FALSE)
<1>1. PICK todos : mgRun \in [MgRunners -> RunOf(todos)] BY DEF MgShaped
<1>2. mgRun[r] \in RunOf(todos) BY <1>1
<1>3. ASSUME NEW at \in Places, MgTo(r, at)
      PROVE  MgMoves(r, at, mgRun[r].up, mgRun[r].todo, mgRun[r].sure)
  <2> DEFINE run == [mgRun[r] EXCEPT !.at = at]
  <2>1. mgRun' = [mgRun EXCEPT ![r] = run] BY <1>1, <1>3 DEF MgTo
  <2>2. run \in RunOf(todos) /\ run.at = at /\ run.up = mgRun[r].up /\ run.todo = mgRun[r].todo
        /\ run.sure = mgRun[r].sure
    BY <1>2 DEF RunOf, Places
  <2> HIDE DEF run
  <2>3. MgMoves(r, run.at, run.up, run.todo, run.sure) BY <2>1, <2>2, MgMovesShape
  <2> QED BY <2>2, <2>3
<1>4. ASSUME NEW at \in Places, NEW sure \in BOOLEAN,
             mgRun' = [mgRun EXCEPT ![r].at = at, ![r].sure = sure]
      PROVE  MgMoves(r, at, mgRun[r].up, mgRun[r].todo, sure)
  <2> DEFINE run == [mgRun[r] EXCEPT !.at = at, !.sure = sure]
  <2>1. mgRun' = [mgRun EXCEPT ![r] = run] BY <1>1, <1>4
  <2>2. run \in RunOf(todos) /\ run.at = at /\ run.up = mgRun[r].up /\ run.todo = mgRun[r].todo
        /\ run.sure = sure
    BY <1>2 DEF RunOf, Places
  <2> HIDE DEF run
  <2>3. MgMoves(r, run.at, run.up, run.todo, run.sure) BY <2>1, <2>2, MgMovesShape
  <2> QED BY <2>2, <2>3
<1>5. ASSUME NEW at \in Places, NEW todo,
             mgRun' = [mgRun EXCEPT ![r].at = at, ![r].todo = todo]
      PROVE  MgMoves(r, at, mgRun[r].up, todo, mgRun[r].sure)
  <2> DEFINE run == [mgRun[r] EXCEPT !.at = at, !.todo = todo]
  <2>1. mgRun' = [mgRun EXCEPT ![r] = run] BY <1>1, <1>5
  <2>2. run \in RunOf({todo}) /\ run.at = at /\ run.up = mgRun[r].up /\ run.todo = todo
        /\ run.sure = mgRun[r].sure
    BY <1>2 DEF RunOf, Places
  <2> HIDE DEF run
  <2>3. MgMoves(r, run.at, run.up, run.todo, run.sure) BY <2>1, <2>2, MgMovesShape
  <2> QED BY <2>2, <2>3
<1>6. ASSUME NEW at \in Places, NEW up \in BOOLEAN, NEW todo,
             mgRun' = [mgRun EXCEPT ![r] = [MgIdle EXCEPT !.at = at, !.up = up, !.todo = todo]]
      PROVE  MgMoves(r, at, up, todo, FALSE)
  <2> DEFINE run == [MgIdle EXCEPT !.at = at, !.up = up, !.todo = todo]
  <2>1. run \in RunOf({todo}) /\ run.at = at /\ run.up = up /\ run.todo = todo /\ run.sure = FALSE
    BY DEF MgIdle, RunOf, Places
  <2>2. mgRun' = [mgRun EXCEPT ![r] = run] BY <1>6
  <2> HIDE DEF run
  <2>3. MgMoves(r, run.at, run.up, run.todo, run.sure) BY <2>1, <2>2, MgMovesShape
  <2> QED BY <2>1, <2>3
<1>7. ASSUME mgRun' = [mgRun EXCEPT ![r] = MgIdle] PROVE MgMoves(r, "idle", TRUE, {}, FALSE)
  <2>1. MgIdle \in RunOf({{}}) /\ MgIdle.at = "idle" /\ MgIdle.up = TRUE /\ MgIdle.todo = {}
        /\ MgIdle.sure = FALSE
    BY DEF MgIdle, RunOf
  <2>2. MgMoves(r, MgIdle.at, MgIdle.up, MgIdle.todo, MgIdle.sure) BY <1>7, <2>1, MgMovesShape
  <2> QED BY <2>1, <2>2
<1>8. ASSUME NEW at \in Places, NEW todo,
             mgRun' = [mgRun EXCEPT ![r] = [MgIdle EXCEPT !.at = at, !.todo = todo]]
      PROVE  MgMoves(r, at, TRUE, todo, FALSE)
  <2> DEFINE run == [MgIdle EXCEPT !.at = at, !.todo = todo]
  <2>1. run \in RunOf({todo}) /\ run.at = at /\ run.up = TRUE /\ run.todo = todo /\ run.sure = FALSE
    BY DEF MgIdle, RunOf, Places
  <2>2. mgRun' = [mgRun EXCEPT ![r] = run] BY <1>8
  <2> HIDE DEF run
  <2>3. MgMoves(r, run.at, run.up, run.todo, run.sure) BY <2>1, <2>2, MgMovesShape
  <2> QED BY <2>1, <2>3
<1> QED BY <1>3, <1>4, <1>5, <1>6, <1>7, <1>8

\* Flags of a run are flags.
LEMMA Flags ==
    ASSUME MgShaped, NEW r \in MgRunners
    PROVE  mgRun[r].up \in BOOLEAN /\ mgRun[r].sure \in BOOLEAN /\ mgRun[r].at \in Places
<1>1. PICK todos : mgRun \in [MgRunners -> RunOf(todos)] BY DEF MgShaped
<1>2. mgRun[r] \in RunOf(todos) BY <1>1
<1> QED BY <1>2 DEF RunOf, Places

-----------------------------------------------------------------------------
(* The lock *)

Locked == {"locked", "next", "file", "inside", "releases"}

\* A move that leaves the lock alone, and claims no more of it than before.
LEMMA MgHeldMove ==
    ASSUME MgHeld, NEW r \in MgRunners, NEW at, NEW up, NEW todo, NEW sure, MgMoves(r, at, up, todo, sure),
           UNCHANGED <<mgSqlite, mgLock, mgLeft>>,
           sure => mgRun[r].sure,
           at \in Locked => mgRun[r].at \in Locked
    PROVE  MgHeld'
<1>1. ASSUME NEW s \in MgRunners
      PROVE  /\ mgRun'[s].sure => mgRun[s].sure
             /\ mgRun'[s].at \in Locked => mgRun[s].at \in Locked
  <2>1. CASE s = r BY <2>1 DEF MgMoves
  <2>2. CASE s # r BY <2>2 DEF MgMoves
  <2> QED BY <2>1, <2>2
<1> QED BY <1>1 DEF MgHeld, Locked

\* Whoever takes the lock finds that nobody relies on it.
LEMMA AcquireHeld ==
    ASSUME MgTyped, MgHeld, NEW r \in MgRunners, MgAcquire(r) PROVE MgHeld' /\ MgShaped'
<1>1. /\ LockFree /\ mgLock' = r /\ mgLeft' = MgLease /\ mgSqlite' = mgSqlite
      /\ MgMoves(r, "locked", mgRun[r].up, mgRun[r].todo, TRUE)
  BY Writes DEF MgAcquire, MgTyped, Places
<1>2. MgLease > 0 BY MgAssumption
<1>3. ASSUME NEW s \in MgRunners, s # r
      PROVE  ~mgRun'[s].sure /\ (mgSqlite' \/ mgRun'[s].at \notin Locked)
  <2>1. mgRun'[s] = mgRun[s] BY <1>1, <1>3 DEF MgMoves
  <2>2. s # MgNobody BY MgAssumption
  <2>3. ~mgRun[s].sure BY <1>1, <2>2 DEF LockFree, MgHeld, MgTyped
  <2>4. mgSqlite \/ mgRun[s].at \notin Locked BY <1>1, <2>2 DEF LockFree, MgHeld, Locked
  <2> QED BY <1>1, <2>1, <2>3, <2>4
<1>4. MgHeld' BY <1>1, <1>2, <1>3 DEF MgHeld, Locked
<1> QED BY <1>1, <1>4 DEF MgMoves

\* A renewal is of the lock a process holds, expired or not.
LEMMA RefreshHeld ==
    ASSUME MgTyped, MgHeld, NEW r \in MgRunners, MgRefresh(r) PROVE MgHeld' /\ MgShaped'
<1> DEFINE mine == ~mgSqlite \/ mgLock = r
<1>1. mgRun[r].at = "next" /\ UNCHANGED <<mgSqlite, mgLock>>
      /\ mgLeft' = IF mgSqlite /\ mine THEN MgLease ELSE mgLeft
  BY DEF MgRefresh, MgAt
<1>2. mine \in BOOLEAN BY Zenon
<1>3. MgMoves(r, IF mine THEN "file" ELSE "releases", mgRun[r].up, mgRun[r].todo, mine)
  BY <1>2, Writes DEF MgRefresh, MgTyped, Places
<1>4. MgLease > 0 BY MgAssumption
<1>5. mgRun'[r].sure = mine /\ (mgSqlite' \/ mgLock' = r)
  BY <1>1, <1>3 DEF MgMoves, MgHeld
<1>6. ASSUME NEW s \in MgRunners PROVE
        /\ mgRun'[s].sure => mgLock' = s /\ (mgSqlite' => mgLeft' > 0)
        /\ ~mgSqlite' /\ mgRun'[s].at \in Locked => mgLock' = s
  <2>1. CASE s = r BY <1>1, <1>4, <1>5, <2>1
  <2>2. CASE s # r
    <3>1. mgRun'[s] = mgRun[s] BY <1>3, <2>2 DEF MgMoves
    <3> QED BY <1>1, <1>4, <3>1 DEF MgHeld, Locked
  <2> QED BY <2>1, <2>2
<1>7. MgHeld' BY <1>6 DEF MgHeld, Locked
<1> QED BY <1>3, <1>7 DEF MgMoves

\* A lock is given back by its owner, or lost with it.
LEMMA ReleaseHeld ==
    ASSUME MgTyped, MgHeld, NEW r \in MgRunners, MgRelease(r) \/ MgDie(r) PROVE MgHeld' /\ MgShaped'
<1>1. MgMoves(r, "idle", TRUE, {}, FALSE)
  BY Writes DEF MgRelease, MgDie, MgTyped
<1>2. UNCHANGED <<mgSqlite, mgLeft>> /\ mgLock' \in {mgLock, IF mgLock = r THEN MgNobody ELSE mgLock}
  BY DEF MgRelease, MgDie, Released
<1>3. ASSUME NEW s \in MgRunners PROVE
        /\ mgRun'[s].sure => mgLock' = s /\ (mgSqlite' => mgLeft' > 0)
        /\ ~mgSqlite' /\ mgRun'[s].at \in Locked => mgLock' = s
  <2>1. CASE s = r BY <1>1, <2>1 DEF MgMoves, Locked
  <2>2. CASE s # r
    <3>1. mgRun'[s] = mgRun[s] BY <1>1, <2>2 DEF MgMoves
    <3> QED BY <1>2, <2>2, <3>1 DEF MgHeld, Locked
  <2> QED BY <2>1, <2>2
<1>4. MgHeld' BY <1>3 DEF MgHeld, Locked
<1> QED BY <1>1, <1>4 DEF MgMoves

\* Nobody relies on a lease that has run out.
LEMMA TickHeld == ASSUME MgTyped, MgHeld, MgTick PROVE MgHeld' /\ MgShaped'
<1>1. /\ mgSqlite /\ mgLeft > 0 /\ mgLeft' = mgLeft - 1 /\ UNCHANGED <<mgSqlite, mgLock>>
      /\ mgRun' = [r \in MgRunners |->
             IF mgLeft = 1 /\ mgLock = r THEN [mgRun[r] EXCEPT !.sure = FALSE] ELSE mgRun[r]]
  BY DEF MgTick
<1>2. PICK todos : mgRun \in [MgRunners -> RunOf(todos)] BY DEF MgTyped, MgShaped
<1>3. \A r \in MgRunners : [mgRun[r] EXCEPT !.sure = FALSE] \in RunOf(todos)
                           /\ ~[mgRun[r] EXCEPT !.sure = FALSE].sure
  BY <1>2 DEF RunOf
<1>4. mgRun' \in [MgRunners -> RunOf(todos)] BY <1>1, <1>2, <1>3
<1>5. ASSUME NEW s \in MgRunners, mgRun'[s].sure PROVE mgLock' = s /\ mgLeft' > 0
  <2>1. mgRun'[s] = mgRun[s] /\ ~(mgLeft = 1 /\ mgLock = s) BY <1>1, <1>3, <1>5
  <2>2. mgLock = s BY <2>1, <1>5 DEF MgHeld
  <2> QED BY <1>1, <2>1, <2>2 DEF MgTyped
<1>6. MgHeld' BY <1>1, <1>5 DEF MgHeld
<1>7. MgShaped' BY <1>4 DEF MgShaped
<1> QED BY <1>6, <1>7

-----------------------------------------------------------------------------
(* The ledger *)

\* A move that leaves ledger and schema alone and enters no plain file.
LEMMA RowsMove ==
    ASSUME MgTyped, Begun, LedgerTruth,
           NEW r \in MgRunners, NEW at, NEW up, NEW todo, NEW sure, MgMoves(r, at, up, todo, sure),
           UNCHANGED <<mgPlain, mgRow, mgDone, mgRollbacks>>,
           mgRun[r].up => up,
           at = "inside" => Least(todo) \notin mgPlain
    PROVE  Begun' /\ LedgerTruth'
<1>1. ASSUME NEW s \in MgRunners
      PROVE  /\ mgRun[s].up => mgRun'[s].up
             /\ InPlain(s)' => s # r /\ InPlain(s) /\ MgFile(s)' = MgFile(s)
  <2>1. CASE s = r BY <2>1 DEF MgMoves, InPlain, MgFile
  <2>2. CASE s # r BY <2>2 DEF MgMoves, InPlain, MgFile
  <2> QED BY <2>1, <2>2
<1>2. Begun'
  <2> SUFFICES ASSUME mgRollbacks = 0 PROVE
        /\ \A s \in MgRunners : mgRun'[s].up
        /\ \A s \in MgRunners : InPlain(s)' => mgRow'[MgFile(s)'] = "dirty"
        /\ \A s, t \in MgRunners : InPlain(s)' /\ InPlain(t)' /\ MgFile(s)' = MgFile(t)' => s = t
    BY DEF Begun
  <2> QED BY <1>1 DEF Begun
<1>3. LedgerTruth' BY DEF LedgerTruth
<1> QED BY <1>2, <1>3

\* Before the lock, around it, and between the files: only the run moves.
LEMMA OutsideStep ==
    ASSUME MgIInv, NEW r \in MgRunners,
           \/ MgMigrate(r) \/ MgTimeout(r) \/ MgLastDone(r) \/ MgFilter(r)
           \/ MgBusy(r) \/ MgStatementFails(r) \/ MgBegin(r)
    PROVE  MgIInv'
<1> USE DEF MgIInv
<1>1. UNCHANGED <<mgSqlite, mgPlain, mgRow, mgDone, mgLock, mgLeft, mgRollbacks>>
  BY DEF MgMigrate, MgTimeout, MgLastDone, MgFilter, MgBusy, MgStatementFails, MgBegin
<1>2. ASSUME NEW at, NEW up, NEW todo, NEW sure, MgMoves(r, at, up, todo, sure),
             sure => mgRun[r].sure,
             at \in Locked => mgRun[r].at \in Locked,
             mgRun[r].up => up,
             at = "inside" => Least(todo) \notin mgPlain
      PROVE  MgIInv'
  <2>1. MgHeld' BY <1>1, <1>2, MgHeldMove
  <2>2. Begun' /\ LedgerTruth' BY <1>1, <1>2, RowsMove
  <2>3. MgTyped' BY <1>1, <1>2 DEF MgTyped, MgMoves
  <2> QED BY <2>1, <2>2, <2>3
<1>3. "waits" \notin Locked /\ "idle" \notin Locked BY DEF Locked
<1> USE DEF MgTyped
<1>4. CASE MgMigrate(r)
  <2>1. MgMoves(r, "waits", TRUE, MgFiles \ Known, FALSE)
    BY <1>4, Writes DEF MgMigrate, Places
  <2> HIDE DEF MgIInv, MgTyped
  <2> QED BY <1>2, <1>3, <2>1
<1>5. CASE MgTimeout(r)
  <2>1. MgMoves(r, "idle", TRUE, {}, FALSE) BY <1>5, Writes DEF MgTimeout
  <2> HIDE DEF MgIInv, MgTyped
  <2> QED BY <1>2, <1>3, <2>1
<1>6. CASE MgLastDone(r) \/ MgBusy(r) \/ MgStatementFails(r)
  <2>1. MgTo(r, "releases") /\ mgRun[r].at \in Locked
    BY <1>6 DEF MgLastDone, MgBusy, MgStatementFails, MgAt, Locked
  <2>2. MgMoves(r, "releases", mgRun[r].up, mgRun[r].todo, mgRun[r].sure)
    BY <2>1, Writes DEF Places
  <2> HIDE DEF MgIInv, MgTyped
  <2> QED BY <1>2, <2>1, <2>2
<1>7. CASE MgFilter(r)
  <2>1. \E todo : mgRun' = [mgRun EXCEPT ![r].at = "next", ![r].todo = todo]
    BY <1>7, Zenon DEF MgFilter
  <2>2. mgRun[r].at \in Locked BY <1>7 DEF MgFilter, MgAt, Locked
  <2>3. PICK todo : MgMoves(r, "next", mgRun[r].up, todo, mgRun[r].sure)
    BY <2>1, Writes DEF Places
  <2> HIDE DEF MgIInv, MgTyped
  <2> QED BY <1>2, <2>2, <2>3
<1>8. CASE MgBegin(r)
  <2>1. /\ MgTo(r, "releases") \/ MgTo(r, "inside")
        /\ mgRun[r].at \in Locked /\ Least(mgRun[r].todo) \notin mgPlain
    BY <1>8 DEF MgBegin, MgAt, Locked, MgPlain, MgFile
  <2>2. \E at \in {"releases", "inside"} : MgMoves(r, at, mgRun[r].up, mgRun[r].todo, mgRun[r].sure)
    BY <2>1, Writes DEF Places
  <2> HIDE DEF MgIInv, MgTyped
  <2> QED BY <1>2, <2>1, <2>2
<1> QED BY <1>4, <1>5, <1>6, <1>7, <1>8

\* The lock changes hands: no row does.
LEMMA LockStep ==
    ASSUME MgIInv, NEW r \in MgRunners,
           MgAcquire(r) \/ MgRefresh(r) \/ MgRelease(r) \/ MgDie(r)
    PROVE  MgIInv'
<1> USE DEF MgIInv
<1>1. UNCHANGED <<mgPlain, mgRow, mgDone, mgRollbacks>>
  BY DEF MgAcquire, MgRefresh, MgRelease, MgDie
<1>2. MgHeld' /\ MgShaped' BY AcquireHeld, RefreshHeld, ReleaseHeld
<1>3. ASSUME NEW at, NEW up, NEW todo, NEW sure, MgMoves(r, at, up, todo, sure),
             mgRun[r].up => up, at # "inside"
      PROVE  Begun' /\ LedgerTruth'
  BY <1>1, <1>3, RowsMove
<1>4. Begun' /\ LedgerTruth'
  <2> USE DEF MgTyped
  <2>1. CASE MgAcquire(r)
    <3>1. MgMoves(r, "locked", mgRun[r].up, mgRun[r].todo, TRUE)
      BY <2>1, Writes DEF MgAcquire, Places
    <3> HIDE DEF MgIInv, MgTyped
    <3> QED BY <1>3, <3>1
  <2>2. CASE MgRefresh(r)
    <3> DEFINE mine == ~mgSqlite \/ mgLock = r
               at == IF mine THEN "file" ELSE "releases"
    <3>1. mine \in BOOLEAN BY Zenon
    <3>2. MgMoves(r, at, mgRun[r].up, mgRun[r].todo, mine)
      BY <2>2, <3>1, Writes DEF MgRefresh, Places
    <3>3. at # "inside" OBVIOUS
    <3> HIDE DEF MgIInv, MgTyped, mine, at
    <3> QED BY <1>3, <3>2, <3>3
  <2>3. CASE MgRelease(r) \/ MgDie(r)
    <3>1. MgMoves(r, "idle", TRUE, {}, FALSE) BY <2>3, Writes DEF MgRelease, MgDie
    <3> HIDE DEF MgIInv, MgTyped
    <3> QED BY <1>3, <3>1
  <2> QED BY <2>1, <2>2, <2>3
<1>5. mgLeft' \in Nat
  BY MgAssumption DEF MgTyped, MgAcquire, MgRefresh, MgRelease, MgDie
<1> QED BY <1>1, <1>2, <1>4, <1>5 DEF MgTyped

\* A rollback is called: from then on the ledger is trusted for files that run in
\* a transaction only.
LEMMA RollbackStep == ASSUME MgIInv, NEW r \in MgRunners, MgRollback(r) PROVE MgIInv'
<1> USE DEF MgIInv, MgTyped
<1>1. UNCHANGED <<mgSqlite, mgPlain, mgRow, mgDone, mgLock, mgLeft>> /\ mgRollbacks' = mgRollbacks + 1
  BY DEF MgRollback
<1>2. \E todo : MgMoves(r, "waits", FALSE, todo, FALSE)
  BY Writes DEF MgRollback, Places
<1>3. MgHeld' BY <1>1, <1>2, MgHeldMove DEF Locked
<1>4. mgRollbacks' > 0 BY <1>1
<1>5. Begun' BY <1>4 DEF Begun
<1>6. LedgerTruth' BY <1>1, <1>4 DEF LedgerTruth
<1>7. MgTyped' BY <1>1, <1>2 DEF MgMoves
<1> QED BY <1>3, <1>5, <1>6, <1>7

\* A transactional file: ledger and schema change together.
LEMMA MgCommitStep == ASSUME MgIInv, NEW r \in MgRunners, MgCommit(r) PROVE MgIInv'
<1> USE DEF MgIInv, MgTyped
<1> DEFINE v == MgFile(r)
<1>1. /\ mgRun[r].at = "inside" /\ v \notin mgPlain
      /\ mgRow' = [mgRow EXCEPT ![v] = IF mgRun[r].up THEN "clean" ELSE "none"]
      /\ mgDone' = [mgDone EXCEPT ![v] = IF mgRun[r].up THEN MgStatements ELSE 0]
      /\ UNCHANGED <<mgSqlite, mgPlain, mgLock, mgLeft, mgRollbacks>>
  BY DEF MgCommit, MgAt, MgPlain
<1>2. \E todo : mgRun' = [mgRun EXCEPT ![r].at = "next", ![r].todo = todo]
  BY Zenon DEF MgCommit, NextFile
<1>3. PICK todo : MgMoves(r, "next", mgRun[r].up, todo, mgRun[r].sure)
  BY <1>2, Writes DEF Places
<1> HIDE DEF v
<1>4. \A w \in MgFiles : w # v => mgRow'[w] = mgRow[w] /\ mgDone'[w] = mgDone[w]
  BY <1>1
<1>5. MgHeld' BY <1>1, <1>3, MgHeldMove DEF Locked
<1>6. ASSUME NEW s \in MgRunners
      PROVE  /\ mgRun[s].up => mgRun'[s].up
             /\ InPlain(s)' => InPlain(s) /\ MgFile(s)' = MgFile(s)
  <2>1. CASE s = r BY <1>3, <2>1 DEF MgMoves, InPlain
  <2>2. CASE s # r BY <1>1, <1>3, <2>2 DEF MgMoves, InPlain, MgFile
  <2> QED BY <2>1, <2>2
<1>7. \A s \in MgRunners : InPlain(s)' => mgRow'[MgFile(s)] = mgRow[MgFile(s)]
  BY <1>1, <1>6 DEF InPlain
<1>8. Begun'
  <2> SUFFICES ASSUME mgRollbacks = 0 PROVE
        /\ \A s \in MgRunners : mgRun'[s].up
        /\ \A s \in MgRunners : InPlain(s)' => mgRow'[MgFile(s)'] = "dirty"
        /\ \A s, t \in MgRunners : InPlain(s)' /\ InPlain(t)' /\ MgFile(s)' = MgFile(t)' => s = t
    BY <1>1 DEF Begun
  <2> QED BY <1>6, <1>7 DEF Begun
<1>9. LedgerTruth'
  <2>1. MgStatements \in 0..MgStatements BY MgAssumption
  <2>2. v \in MgFiles =>
          \/ mgRow'[v] = "clean" /\ mgDone'[v] = MgStatements
          \/ mgRow'[v] = "none" /\ mgDone'[v] = 0
    BY <1>1
  <2> QED BY <1>1, <1>4, <2>2 DEF LedgerTruth
<1>10. MgTyped'
  <2>1. MgStatements \in 0..MgStatements /\ 0 \in 0..MgStatements BY MgAssumption
  <2> QED BY <1>1, <1>3, <2>1 DEF MgMoves
<1> QED BY <1>5, <1>8, <1>9, <1>10

\* A plain file is begun with its row.
LEMMA BeginPlainStep == ASSUME MgIInv, NEW r \in MgRunners, MgBeginPlain(r) PROVE MgIInv'
<1> USE DEF MgIInv, MgTyped
<1> DEFINE v == MgFile(r)
<1>1. /\ mgRun[r].at = "file" /\ v \in mgPlain
      /\ UNCHANGED <<mgSqlite, mgPlain, mgDone, mgLock, mgLeft, mgRollbacks>>
  BY DEF MgBeginPlain, MgAt, MgPlain
<1>2. \/ MgTo(r, "releases") /\ mgRow' = mgRow
      \/ MgTo(r, "inside") /\ mgRow' = mgRow /\ ~mgRun[r].up
      \/ MgTo(r, "inside") /\ mgRow[v] = "none" /\ mgRow' = [mgRow EXCEPT ![v] = "dirty"]
  <2>1. CASE ~mgRun[r].up BY <2>1 DEF MgBeginPlain
  <2>2. CASE mgRun[r].up /\ mgRow[v] # "none" BY <2>2 DEF MgBeginPlain
  <2>3. CASE mgRun[r].up /\ mgRow[v] = "none" BY <2>3 DEF MgBeginPlain
  <2> QED BY <2>1, <2>2, <2>3
<1>3. PICK at \in {"releases", "inside"} : MgTo(r, at) BY <1>2
<1>4. MgMoves(r, at, mgRun[r].up, mgRun[r].todo, mgRun[r].sure) BY <1>3, Writes DEF Places
<1>5. MgHeld' BY <1>1, <1>4, MgHeldMove DEF Locked
<1> HIDE DEF v
<1>6. CASE MgTo(r, "releases") /\ mgRow' = mgRow
  <2>1. MgMoves(r, "releases", mgRun[r].up, mgRun[r].todo, mgRun[r].sure) BY <1>6, Writes DEF Places
  <2>2. Begun' /\ LedgerTruth' BY <1>1, <1>6, <2>1, RowsMove
  <2> QED BY <1>1, <1>5, <1>6, <2>1, <2>2 DEF MgMoves
<1>7. CASE MgTo(r, "inside") /\ mgRow' = mgRow /\ ~mgRun[r].up
  <2>1. mgRollbacks # 0 BY <1>7 DEF Begun
  <2>2. Begun' BY <1>1, <2>1 DEF Begun
  <2>3. LedgerTruth' BY <1>1, <1>7 DEF LedgerTruth
  <2> QED BY <1>1, <1>4, <1>5, <1>7, <2>2, <2>3 DEF MgMoves
<1>8. CASE MgTo(r, "inside") /\ mgRow[v] = "none" /\ mgRow' = [mgRow EXCEPT ![v] = "dirty"]
  <2>1. MgMoves(r, "inside", mgRun[r].up, mgRun[r].todo, mgRun[r].sure) BY <1>8, Writes DEF Places
  <2>2. Begun'
    <3> SUFFICES ASSUME mgRollbacks = 0 PROVE
          /\ \A s \in MgRunners : mgRun'[s].up
          /\ \A s \in MgRunners : InPlain(s)' => mgRow'[MgFile(s)'] = "dirty"
          /\ \A s, t \in MgRunners : InPlain(s)' /\ InPlain(t)' /\ MgFile(s)' = MgFile(t)' => s = t
      BY <1>1 DEF Begun
    <3>1. ASSUME NEW s \in MgRunners PROVE MgFile(s)' = MgFile(s) /\ mgRun'[s].up
      <4>1. CASE s = r BY <2>1, <4>1 DEF MgMoves, MgFile, Begun
      <4>2. CASE s # r BY <2>1, <4>2 DEF MgMoves, MgFile, Begun
      <4> QED BY <4>1, <4>2
    <3>2. ASSUME NEW s \in MgRunners, s # r, InPlain(s)'
          PROVE  InPlain(s) /\ mgRow[MgFile(s)] = "dirty" /\ MgFile(s) # v
      BY <1>1, <1>8, <2>1, <3>2 DEF MgMoves, InPlain, MgFile, Begun
    <3>3. mgRow'[v] = "dirty" BY <1>1, <1>8
    <3>4. \A s \in MgRunners : s # r /\ InPlain(s)' => mgRow'[MgFile(s)] = "dirty"
      BY <1>8, <3>2
    <3>5. MgFile(r) = v BY DEF v
    <3>6. \A s \in MgRunners : InPlain(s)' => mgRow'[MgFile(s)'] = "dirty"
      BY <3>1, <3>3, <3>4, <3>5
    <3>7. ASSUME NEW s \in MgRunners, NEW t \in MgRunners, InPlain(s)', InPlain(t)',
                 MgFile(s) = MgFile(t)
          PROVE  s = t
      <4>1. CASE s # r /\ t # r BY <4>1, <3>2, <3>7 DEF Begun
      <4>2. CASE s = r \/ t = r BY <4>2, <3>2, <3>5, <3>7
      <4> QED BY <4>1, <4>2
    <3> QED BY <3>1, <3>6, <3>7
  <2>3. LedgerTruth' BY <1>1, <1>8 DEF LedgerTruth
  <2> QED BY <1>1, <1>5, <1>8, <2>1, <2>2, <2>3 DEF MgMoves
<1> QED BY <1>2, <1>6, <1>7, <1>8

\* A statement of a plain file: its row is dirty.
LEMMA StatementStep == ASSUME MgIInv, NEW r \in MgRunners, MgStatement(r) PROVE MgIInv'
<1> USE DEF MgIInv, MgTyped
<1> DEFINE v == MgFile(r)
<1>1. /\ mgRun[r].at = "inside" /\ v \in mgPlain
      /\ IF mgRun[r].up THEN mgDone[v] < MgStatements ELSE mgDone[v] > 0
      /\ mgDone' = [mgDone EXCEPT ![v] = IF mgRun[r].up THEN @ + 1 ELSE @ - 1]
      /\ UNCHANGED <<mgSqlite, mgPlain, mgRow, mgLock, mgLeft, mgRun, mgRollbacks>>
  BY DEF MgStatement, MgAt, MgPlain
<1> HIDE DEF v
<1>2. mgDone' \in [MgFiles -> 0..MgStatements] BY <1>1, MgAssumption
<1>3. MgTyped' BY <1>1, <1>2 DEF MgShaped
<1>4. MgHeld' /\ Begun' BY <1>1 DEF MgHeld, Begun, InPlain, MgFile
<1>5. mgRollbacks = 0 => mgRow[v] = "dirty" BY <1>1 DEF Begun, InPlain, v
<1>6. \A w \in MgFiles : w # v => mgDone'[w] = mgDone[w] BY <1>1
<1>7. LedgerTruth' BY <1>1, <1>5, <1>6 DEF LedgerTruth
<1> QED BY <1>3, <1>4, <1>7

\* The last statement has run: the row says so.
LEMMA FinishStep == ASSUME MgIInv, NEW r \in MgRunners, MgFinish(r) PROVE MgIInv'
<1> USE DEF MgIInv, MgTyped
<1> DEFINE v == MgFile(r)
<1>1. /\ mgRun[r].at = "inside" /\ v \in mgPlain
      /\ mgDone[v] = (IF mgRun[r].up THEN MgStatements ELSE 0)
      /\ UNCHANGED <<mgSqlite, mgPlain, mgDone, mgLock, mgLeft, mgRollbacks>>
  BY DEF MgFinish, MgAt, MgPlain
<1>2. PICK to \in {"none", "clean"} :
        mgRow' = [mgRow EXCEPT ![v] = to] /\ (mgRun[r].up /\ mgRow[v] = "dirty" => to = "clean")
  <2>1. CASE ~mgRun[r].up BY <2>1 DEF MgFinish
  <2>2. CASE mgRun[r].up /\ mgRow[v] = "none" BY <2>2 DEF MgFinish
  <2>3. CASE mgRun[r].up /\ mgRow[v] # "none" BY <2>3 DEF MgFinish
  <2> QED BY <2>1, <2>2, <2>3
<1>3. \E todo : mgRun' = [mgRun EXCEPT ![r].at = "next", ![r].todo = todo]
  BY Zenon DEF MgFinish, NextFile
<1>4. PICK todo : MgMoves(r, "next", mgRun[r].up, todo, mgRun[r].sure)
  BY <1>3, Writes DEF Places
<1>5. MgFile(r) = v OBVIOUS
<1> HIDE DEF v
<1>6. MgHeld' BY <1>1, <1>4, MgHeldMove DEF Locked
<1>7. \A w \in MgFiles : w # v => mgRow'[w] = mgRow[w] BY <1>2
<1>8. v \in MgFiles /\ mgRow'[v] = to BY <1>1, <1>2
<1>9. ASSUME NEW s \in MgRunners, InPlain(s)'
      PROVE  s # r /\ InPlain(s) /\ MgFile(s)' = MgFile(s)
  <2>1. s # r BY <1>4, <1>9 DEF MgMoves, InPlain
  <2> QED BY <2>1, <1>1, <1>4, <1>9 DEF MgMoves, InPlain, MgFile
<1>10. InPlain(r) BY <1>1, <1>5 DEF InPlain
<1>11. Begun'
  <2> SUFFICES ASSUME mgRollbacks = 0 PROVE
        /\ \A s \in MgRunners : mgRun'[s].up
        /\ \A s \in MgRunners : InPlain(s)' => mgRow'[MgFile(s)'] = "dirty"
        /\ \A s, t \in MgRunners : InPlain(s)' /\ InPlain(t)' /\ MgFile(s)' = MgFile(t)' => s = t
    BY <1>1 DEF Begun
  <2>1. \A s \in MgRunners : mgRun'[s].up BY <1>4 DEF Begun, MgMoves
  <2>2. \A s \in MgRunners : InPlain(s)' => MgFile(s) # v BY <1>5, <1>9, <1>10 DEF Begun
  <2>3. \A s \in MgRunners : InPlain(s)' => mgRow'[MgFile(s)] = "dirty"
    BY <1>2, <1>9, <2>2 DEF Begun
  <2> QED BY <1>9, <2>1, <2>3 DEF Begun
<1>12. LedgerTruth'
  <2>1. mgRollbacks = 0 => to = "clean" /\ mgDone[v] = MgStatements
    BY <1>1, <1>2, <1>5, <1>10 DEF Begun
  <2> QED BY <1>1, <1>7, <1>8, <2>1 DEF LedgerTruth
<1>13. MgTyped' BY <1>1, <1>2, <1>4 DEF MgMoves
<1> QED BY <1>6, <1>11, <1>12, <1>13

\* A person finishes a file; a lease gets shorter.
LEMMA WorldStep ==
    ASSUME MgIInv, MgTick \/ \E v \in MgFiles : MgResolve(v)
    PROVE  MgIInv'
<1> USE DEF MgIInv, MgTyped
<1>1. CASE MgTick
  <2>1. MgHeld' /\ MgShaped' BY <1>1, TickHeld
  <2>2. UNCHANGED <<mgPlain, mgRow, mgDone, mgRollbacks>> /\ mgLeft' \in Nat
    BY <1>1 DEF MgTick
  <2>3. PICK todos : mgRun \in [MgRunners -> RunOf(todos)] BY DEF MgShaped
  <2>4. ASSUME NEW r \in MgRunners
        PROVE  mgRun'[r].at = mgRun[r].at /\ mgRun'[r].up = mgRun[r].up /\ mgRun'[r].todo = mgRun[r].todo
    <3>1. mgRun[r] \in RunOf(todos) BY <2>3
    <3>2. mgRun'[r] \in {mgRun[r], [mgRun[r] EXCEPT !.sure = FALSE]} BY <1>1 DEF MgTick
    <3> QED BY <3>1, <3>2 DEF RunOf
  <2>5. Begun' BY <2>2, <2>4 DEF Begun, InPlain, MgFile
  <2>6. LedgerTruth' BY <2>2 DEF LedgerTruth
  <2> QED BY <2>1, <2>2, <2>5, <2>6
<1>2. ASSUME NEW v \in MgFiles, MgResolve(v) PROVE MgIInv'
  <2>1. /\ \A r \in MgRunners : mgRun[r].at = "idle"
        /\ mgRow' = [mgRow EXCEPT ![v] = "clean"] /\ mgDone' = [mgDone EXCEPT ![v] = MgStatements]
        /\ UNCHANGED <<mgSqlite, mgPlain, mgLock, mgLeft, mgRun, mgRollbacks>>
    BY <1>2 DEF MgResolve, MgAt
  <2>2. MgStatements \in 0..MgStatements BY MgAssumption
  <2>3. MgTyped' BY <2>1, <2>2 DEF MgShaped
  <2>4. MgHeld' /\ Begun' BY <2>1 DEF MgHeld, Begun, InPlain, MgFile
  <2>5. LedgerTruth' BY <2>1, <2>2 DEF LedgerTruth
  <2> QED BY <2>3, <2>4, <2>5
<1> QED BY <1>1, <1>2

-----------------------------------------------------------------------------

\* The invariant holds initially and is kept.
LEMMA MgInvInit == MgInit => MgIInv
<1> SUFFICES ASSUME MgInit PROVE MgIInv OBVIOUS
<1>1. MgIdle \in RunOf({{}}) BY DEF MgIdle, RunOf
<1>2. MgShaped BY <1>1 DEF MgInit, MgShaped
<1>3. 0 \in 0..MgStatements BY MgAssumption
<1>4. MgTyped BY <1>2, <1>3 DEF MgInit, MgTyped
<1>5. MgHeld /\ Begun BY DEF MgInit, MgHeld, Begun, InPlain, MgIdle
<1>6. LedgerTruth BY DEF MgInit, LedgerTruth
<1> QED BY <1>4, <1>5, <1>6 DEF MgIInv

LEMMA MgInvStep == MgIInv /\ [MgNext]_mgVars => MgIInv'
<1> SUFFICES ASSUME MgIInv, [MgNext]_mgVars PROVE MgIInv' OBVIOUS
<1>1. CASE UNCHANGED mgVars
  BY <1>1 DEF mgVars, MgIInv, MgTyped, MgShaped, MgHeld, Begun, InPlain, MgFile, LedgerTruth
<1>2. CASE MgNext
  BY <1>2, OutsideStep, LockStep, RollbackStep, MgCommitStep, BeginPlainStep,
       StatementStep, FinishStep, WorldStep DEF MgNext
<1> QED BY <1>1, <1>2

LEMMA MgInductive == MgSpec => []MgIInv
  BY MgInvInit, MgInvStep, PTL DEF MgSpec

\* MigrationLock: one process is at work on the files at a time, unless a file took
\* longer than the lease.
THEOREM OneMigrator == MgSpec => []OneAtATime
<1>1. MgIInv => OneAtATime
  BY DEF MgIInv, MgHeld, OneAtATime
<1> QED BY <1>1, MgInductive, PTL

\* The ledger: what it calls clean is in the schema as a whole, and what it does
\* not know is not there at all, whoever dies, fails or outlasts the lease; plain
\* files aside once something was rolled back.
THEOREM LedgerIsTrue == MgSpec => []LedgerTruth
<1>1. MgIInv => LedgerTruth BY DEF MgIInv
<1> QED BY <1>1, MgInductive, PTL

-----------------------------------------------------------------------------

\* What the columns of the ledger and of the lock hold.
LEMMA MgTypeInit == MgInit => MgTypeOK
<1> SUFFICES ASSUME MgInit PROVE MgTypeOK OBVIOUS
<1>1. MgIdle \in MgRun BY DEF MgIdle, MgRun
<1>2. 0 \in 0..MgStatements /\ 0 \in 0..MgLease /\ 0 \in 0..MgMaxTroubles /\ 0 \in 0..MgMaxRollbacks
  BY MgAssumption
<1> QED BY <1>1, <1>2 DEF MgInit, MgTypeOK

LEMMA MgRunTypes ==
    ASSUME MgTypeOK, NEW r \in MgRunners, NEW at \in Places, NEW up \in BOOLEAN, NEW sure \in BOOLEAN,
           NEW todo \in SUBSET MgFiles,
           \/ mgRun' = [mgRun EXCEPT ![r] = MgIdle]
           \/ mgRun' = [mgRun EXCEPT ![r] = [MgIdle EXCEPT !.at = at, !.todo = todo]]
           \/ mgRun' = [mgRun EXCEPT ![r] = [MgIdle EXCEPT !.at = at, !.up = up, !.todo = todo]]
           \/ mgRun' = [mgRun EXCEPT ![r].at = at]
           \/ mgRun' = [mgRun EXCEPT ![r].at = at, ![r].sure = sure]
           \/ mgRun' = [mgRun EXCEPT ![r].at = at, ![r].todo = todo]
    PROVE  mgRun' \in [MgRunners -> MgRun]
<1>1. mgRun[r] \in MgRun BY DEF MgTypeOK
<1>2. MgIdle \in MgRun BY DEF MgIdle, MgRun
<1>3. /\ [MgIdle EXCEPT !.at = at, !.todo = todo] \in MgRun
      /\ [MgIdle EXCEPT !.at = at, !.up = up, !.todo = todo] \in MgRun
      /\ [mgRun[r] EXCEPT !.at = at] \in MgRun
      /\ [mgRun[r] EXCEPT !.at = at, !.sure = sure] \in MgRun
      /\ [mgRun[r] EXCEPT !.at = at, !.todo = todo] \in MgRun
  BY <1>1, <1>2 DEF MgRun, Places
<1>4. /\ [mgRun EXCEPT ![r].at = at] = [mgRun EXCEPT ![r] = [mgRun[r] EXCEPT !.at = at]]
      /\ [mgRun EXCEPT ![r].at = at, ![r].sure = sure] =
             [mgRun EXCEPT ![r] = [mgRun[r] EXCEPT !.at = at, !.sure = sure]]
      /\ [mgRun EXCEPT ![r].at = at, ![r].todo = todo] =
             [mgRun EXCEPT ![r] = [mgRun[r] EXCEPT !.at = at, !.todo = todo]]
  BY DEF MgTypeOK
<1> DEFINE Good == [MgRunners -> MgRun]
<1>5. \A run \in MgRun : [mgRun EXCEPT ![r] = run] \in Good BY DEF MgTypeOK
<1>6. PICK run \in MgRun : mgRun' = [mgRun EXCEPT ![r] = run] BY <1>2, <1>3, <1>4
<1> QED BY <1>5, <1>6

LEMMA MgTypeStep == MgTypeOK /\ [MgNext]_mgVars => MgTypeOK'
<1> SUFFICES ASSUME MgTypeOK, [MgNext]_mgVars PROVE MgTypeOK' OBVIOUS
<1> DEFINE Rest == /\ mgSqlite' \in BOOLEAN /\ mgPlain' \subseteq MgFiles
                   /\ mgRow' \in [MgFiles -> {"none", "dirty", "clean"}]
                   /\ mgDone' \in [MgFiles -> 0..MgStatements]
                   /\ mgWriter' \in MgRunners \union {MgNobody}
                   /\ mgLock' \in MgRunners \union {MgNobody}
                   /\ mgLeft' \in 0..MgLease
                   /\ mgTroubles' \in 0..MgMaxTroubles
                   /\ mgRollbacks' \in 0..MgMaxRollbacks
           Ran == mgRun' \in [MgRunners -> MgRun]
<1>1. ASSUME Rest, Ran PROVE MgTypeOK' BY <1>1 DEF MgTypeOK
<1>2. ASSUME NEW r \in MgRunners PROVE mgRun[r].todo \in SUBSET MgFiles /\ mgRun[r] \in MgRun
  BY <1>2 DEF MgTypeOK, MgRun
<1>3. ASSUME NEW r \in MgRunners, NEW at \in Places, MgTo(r, at) PROVE Ran
  BY <1>2, <1>3, MgRunTypes DEF MgTo
<1>4. ASSUME NEW r \in MgRunners, mgRun' = [mgRun EXCEPT ![r] = MgIdle] PROVE Ran
  <2>1. "idle" \in Places /\ TRUE \in BOOLEAN BY DEF Places
  <2> QED BY <2>1, <1>2, <1>4, MgRunTypes
<1>5. ASSUME NEW r \in MgRunners, NEW at \in Places, NEW todo \in SUBSET MgFiles,
             mgRun' = [mgRun EXCEPT ![r].at = at, ![r].todo = todo]
      PROVE  Ran
  BY <1>5, MgRunTypes
<1>6. MgLease \in 0..MgLease /\ MgStatements \in 0..MgStatements /\ 0 \in 0..MgStatements
      /\ "waits" \in Places /\ "locked" \in Places /\ "next" \in Places /\ "file" \in Places
      /\ "inside" \in Places /\ "releases" \in Places
  BY MgAssumption DEF Places
<1>7. MgFiles \ Known \in SUBSET MgFiles /\ \A v \in Known : {v} \in SUBSET MgFiles BY DEF Known
<1>8. \A troubles : troubles \in 0..MgMaxTroubles /\ troubles < MgMaxTroubles => troubles + 1 \in 0..MgMaxTroubles
  BY MgAssumption
<1>9. ASSUME NEW r \in MgRunners PROVE NextFile(r) => Ran
  <2> SUFFICES ASSUME NextFile(r) PROVE Ran OBVIOUS
  <2>1. PICK todo : todo = mgRun[r].todo \ {MgFile(r)} OBVIOUS
  <2>2. todo \in SUBSET MgFiles BY <2>1, <1>2
  <2>3. mgRun' = [mgRun EXCEPT ![r].at = "next", ![r].todo = todo] BY <2>1 DEF NextFile, MgTypeOK
  <2> QED BY <2>2, <2>3, <1>5, <1>6
<1>10. ASSUME NEW r \in MgRunners, MgMigrate(r) PROVE MgTypeOK'
  <2>1. Rest BY <1>10 DEF MgMigrate, MgTypeOK
  <2>2. PICK todo \in SUBSET MgFiles : todo = MgFiles \ Known BY <1>7
  <2>3. mgRun' = [mgRun EXCEPT ![r] = [MgIdle EXCEPT !.at = "waits", !.todo = todo]]
    BY <1>10, <2>2 DEF MgMigrate
  <2> QED BY <2>1, <2>2, <2>3, <1>1, <1>6, MgRunTypes
<1>11. ASSUME NEW r \in MgRunners, MgRollback(r) PROVE MgTypeOK'
  <2>1. Rest BY <1>11, MgAssumption DEF MgRollback, MgTypeOK
  <2>2. PICK newest \in Known :
            mgRun' = [mgRun EXCEPT ![r] = [MgIdle EXCEPT !.at = "waits", !.up = FALSE, !.todo = {newest}]]
    BY <1>11 DEF MgRollback
  <2>3. PICK todo \in SUBSET MgFiles : todo = {newest} BY <2>2, <1>7
  <2>4. mgRun' = [mgRun EXCEPT ![r] = [MgIdle EXCEPT !.at = "waits", !.up = FALSE, !.todo = todo]]
    BY <2>2, <2>3
  <2> QED BY <2>1, <2>3, <2>4, <1>1, <1>6, MgRunTypes
<1>12. ASSUME NEW r \in MgRunners, MgAcquire(r) PROVE MgTypeOK'
  <2>1. Rest BY <1>12, <1>6 DEF MgAcquire, MgTypeOK
  <2>2. mgRun' = [mgRun EXCEPT ![r].at = "locked", ![r].sure = TRUE] BY <1>12 DEF MgAcquire
  <2>3. Ran BY <2>2, <1>2, <1>6, MgRunTypes
  <2> QED BY <2>1, <2>3, <1>1
<1>13. ASSUME NEW r \in MgRunners, MgTimeout(r) \/ MgRelease(r) \/ MgDie(r) PROVE MgTypeOK'
  <2>1. Rest BY <1>13, <1>8 DEF MgTimeout, MgRelease, MgDie, Released, MgTypeOK
  <2>2. Ran BY <1>13, <1>4 DEF MgTimeout, MgRelease, MgDie
  <2> QED BY <2>1, <2>2, <1>1
<1>14. ASSUME NEW r \in MgRunners, MgRefresh(r) PROVE MgTypeOK'
  <2>1. Rest BY <1>14, <1>6 DEF MgRefresh, MgTypeOK
  <2>2. PICK mine \in BOOLEAN : mine = (~mgSqlite \/ mgLock = r) BY Zenon
  <2>3. PICK at \in Places : at = IF mine THEN "file" ELSE "releases" BY <1>6
  <2>4. mgRun' = [mgRun EXCEPT ![r].at = at, ![r].sure = mine] BY <1>14, <2>2, <2>3 DEF MgRefresh
  <2>5. Ran BY <2>2, <2>3, <2>4, <1>2, MgRunTypes
  <2> QED BY <2>1, <2>5, <1>1
<1>15. ASSUME NEW r \in MgRunners, MgLastDone(r) \/ MgBusy(r) \/ MgStatementFails(r) \/ MgBegin(r) PROVE MgTypeOK'
  <2>1. Rest BY <1>15, <1>8 DEF MgLastDone, MgBusy, MgStatementFails, MgBegin, MgTypeOK
  <2>2. MgTo(r, "releases") \/ MgTo(r, "inside") BY <1>15 DEF MgLastDone, MgBusy, MgStatementFails, MgBegin
  <2> QED BY <2>1, <2>2, <1>1, <1>3, <1>6
<1>16. ASSUME NEW r \in MgRunners, MgFilter(r) PROVE MgTypeOK'
  <2>1. Rest BY <1>16 DEF MgFilter, MgTypeOK
  <2>2. PICK todo : todo = IF mgRun[r].up THEN {v \in mgRun[r].todo : mgRow[v] = "none"} ELSE mgRun[r].todo
    OBVIOUS
  <2>3. todo \in SUBSET MgFiles BY <2>2, <1>2
  <2>4. mgRun' = [mgRun EXCEPT ![r].at = "next", ![r].todo = todo]
    BY <1>16, <2>2 DEF MgFilter, MgTypeOK
  <2> QED BY <2>1, <2>3, <2>4, <1>1, <1>5, <1>6
<1>17. ASSUME NEW r \in MgRunners, MgCommit(r) PROVE MgTypeOK'
  <2>1. Rest BY <1>17, <1>6 DEF MgCommit, MgTypeOK
  <2> QED BY <2>1, <1>17, <1>1, <1>9 DEF MgCommit
<1>18. ASSUME NEW r \in MgRunners, MgBeginPlain(r) PROVE MgTypeOK'
  <2>1. (mgRow' = mgRow \/ mgRow' = [mgRow EXCEPT ![MgFile(r)] = "dirty"])
        /\ (MgTo(r, "releases") \/ MgTo(r, "inside"))
    BY <1>18 DEF MgBeginPlain
  <2>2. Rest BY <1>18, <2>1 DEF MgBeginPlain, MgTypeOK
  <2> QED BY <2>1, <2>2, <1>1, <1>3, <1>6
<1>19. ASSUME NEW r \in MgRunners, MgStatement(r) PROVE MgTypeOK'
  <2>2. PICK v : v = MgFile(r) OBVIOUS
  <2>3. /\ v \in MgFiles
        /\ IF mgRun[r].up THEN mgDone[v] < MgStatements ELSE mgDone[v] > 0
        /\ mgDone' = [mgDone EXCEPT ![v] = IF mgRun[r].up THEN @ + 1 ELSE @ - 1]
    BY <1>19, <2>2 DEF MgStatement, MgPlain, MgTypeOK
  <2>1. mgDone' \in [MgFiles -> 0..MgStatements] BY <2>3, MgAssumption DEF MgTypeOK
  <2> QED BY <1>19, <2>1, <1>1 DEF MgStatement, MgTypeOK
<1>20. ASSUME NEW r \in MgRunners, MgFinish(r) PROVE MgTypeOK'
  <2>1. PICK to \in {"none", "clean"} : mgRow' = [mgRow EXCEPT ![MgFile(r)] = to]
    <3>1. CASE ~mgRun[r].up BY <1>20, <3>1 DEF MgFinish
    <3>2. CASE mgRun[r].up /\ mgRow[MgFile(r)] = "none" BY <1>20, <3>2 DEF MgFinish
    <3>3. CASE mgRun[r].up /\ mgRow[MgFile(r)] # "none" BY <1>20, <3>3 DEF MgFinish
    <3> QED BY <3>1, <3>2, <3>3
  <2>2. Rest BY <1>20, <2>1 DEF MgFinish, MgTypeOK
  <2> QED BY <2>2, <1>20, <1>1, <1>9 DEF MgFinish
<1>21. ASSUME NEW v \in MgFiles, MgResolve(v) PROVE MgTypeOK'
  BY <1>21, <1>6 DEF MgResolve, MgTypeOK
<1>22. CASE MgTick
  <2>4. mgLeft - 1 \in 0..MgLease BY <1>22, MgAssumption DEF MgTick, MgTypeOK
  <2>1. Rest BY <1>22, <2>4 DEF MgTick, MgTypeOK
  <2>2. \A r \in MgRunners : [mgRun[r] EXCEPT !.sure = FALSE] \in MgRun BY <1>2 DEF MgRun
  <2>3. Ran BY <1>22, <1>2, <2>2 DEF MgTick
  <2> QED BY <2>1, <2>3, <1>1
<1>23. CASE UNCHANGED mgVars BY <1>23 DEF mgVars, MgTypeOK
<1> QED BY <1>10, <1>11, <1>12, <1>13, <1>14, <1>15, <1>16, <1>17, <1>18, <1>19, <1>20, <1>21, <1>22, <1>23 DEF MgNext
-----------------------------------------------------------------------------
(***************************************************************************)
(* That the predicate page.rs writes selects what the database sorts after *)
(* the cursor, and that this order is a strict total one, for any columns, *)
(* directions and places of the NULLs.                                     *)
(*                                                                         *)
(* The key has two columns.  `Lex` states the predicate and the order      *)
(* without the quantifiers over its places, which the lemmas then compare  *)
(* column by column.                                                       *)
(***************************************************************************)

Directions == ksOrder \in {"asc", "desc"} /\ ksNulls \in {"first", "last"}

ValColumn(forward) == KeyColumn(forward, "val")
IdColumn(forward) == KeyColumn(forward, "id")

-----------------------------------------------------------------------------

\* The order, unfolded.
LEMMA BeforeUnfolded ==
    ASSUME NEW forward \in BOOLEAN, NEW r \in KsRow, NEW s \in KsRow
    PROVE  Before(forward, r, s) <=>
              \/ Precedes(ValColumn(forward), r.val, s.val)
              \/ r.val = s.val /\ Precedes(IdColumn(forward), r.id, s.id)
<1> DEFINE k == Key(forward)
<1>1. DOMAIN k = 1..2 /\ k[1] = ValColumn(forward) /\ k[2] = IdColumn(forward)
  BY DEF Key, ValColumn, IdColumn
<1>2. ValColumn(forward).field = "val" /\ IdColumn(forward).field = "id"
  BY DEF ValColumn, IdColumn, KeyColumn
<1>3. r["val"] = r.val /\ s["val"] = s.val /\ r["id"] = r.id /\ s["id"] = s.id
  OBVIOUS
<1>4. Before(forward, r, s) <=>
        \E n \in 1..2 : /\ \A i \in 1..(n - 1) : r[k[i].field] = s[k[i].field]
                        /\ Precedes(k[n], r[k[n].field], s[k[n].field])
  BY <1>1 DEF Before
<1> HIDE DEF k
<1>5. (\A i \in 1..(1 - 1) : r[k[i].field] = s[k[i].field]) <=> TRUE
  OBVIOUS
<1>6. (\A i \in 1..(2 - 1) : r[k[i].field] = s[k[i].field]) <=> r.val = s.val
  BY <1>1, <1>2
<1>7. 1..2 = {1, 2} OBVIOUS
<1> QED BY <1>1, <1>2, <1>4, <1>5, <1>6, <1>7

\* The predicate, unfolded.
LEMMA ExprUnfolded ==
    ASSUME NEW forward \in BOOLEAN, NEW r \in KsRow, NEW s \in KsRow
    PROVE  KeysetExpr(forward, r, s) <=>
              \/ StrictlyAfter(ValColumn(forward), r.val, s.val)
              \/ r.val = s.val /\ StrictlyAfter(IdColumn(forward), r.id, s.id)
<1> DEFINE k == Key(forward)
<1>1. DOMAIN k = 1..2 /\ k[1] = ValColumn(forward) /\ k[2] = IdColumn(forward)
  BY DEF Key, ValColumn, IdColumn
<1>2. ValColumn(forward).field = "val" /\ IdColumn(forward).field = "id"
  BY DEF ValColumn, IdColumn, KeyColumn
<1>4. KeysetExpr(forward, r, s) <=>
        \E n \in 1..2 : /\ \A i \in 1..(n - 1) : r[k[i].field] = s[k[i].field]
                        /\ StrictlyAfter(k[n], r[k[n].field], s[k[n].field])
  BY <1>1 DEF KeysetExpr
<1> HIDE DEF k
<1>5. (\A i \in 1..(1 - 1) : r[k[i].field] = s[k[i].field]) <=> TRUE
  OBVIOUS
<1>6. (\A i \in 1..(2 - 1) : r[k[i].field] = s[k[i].field]) <=> r.val = s.val
  BY <1>1, <1>2
<1>7. 1..2 = {1, 2} OBVIOUS
<1> QED BY <1>1, <1>2, <1>4, <1>5, <1>6, <1>7

\* The order of a column, case by case.
LEMMA PrecedesCases ==
    ASSUME NEW k, NEW a, NEW b
    PROVE  /\ a = KsNull /\ b = KsNull => ~Precedes(k, a, b)
           /\ a = KsNull /\ b # KsNull => (Precedes(k, a, b) <=> k.nulls = "first")
           /\ a # KsNull /\ b = KsNull => (Precedes(k, a, b) <=> k.nulls = "last")
           /\ a # KsNull /\ b # KsNull =>
                (Precedes(k, a, b) <=> IF k.order = "asc" THEN a < b ELSE a > b)
<1>1. CASE a = KsNull /\ b = KsNull BY <1>1 DEF Precedes
<1>2. CASE a = KsNull /\ b # KsNull BY <1>2 DEF Precedes
<1>3. CASE a # KsNull /\ b = KsNull BY <1>3 DEF Precedes
<1>4. CASE a # KsNull /\ b # KsNull BY <1>4 DEF Precedes
<1> QED BY <1>1, <1>2, <1>3, <1>4

\* strictly_after is the database's order, column by column: of the nullable
\* one, and of the primary key, which has no NULL.
LEMMA AfterIsPrecedes ==
    ASSUME Directions, NEW forward \in BOOLEAN
    PROVE  /\ \A x, v \in Columns :
                StrictlyAfter(ValColumn(forward), x, v) <=> Precedes(ValColumn(forward), v, x)
           /\ \A x, v \in KsIds :
                StrictlyAfter(IdColumn(forward), x, v) <=> Precedes(IdColumn(forward), v, x)
<1>1. /\ ValColumn(forward).order \in {"asc", "desc"} /\ ValColumn(forward).nulls \in {"first", "last"}
      /\ ValColumn(forward).nullable
  BY DEF ValColumn, KeyColumn, Flip, Directions
<1>2. IdColumn(forward).order \in {"asc", "desc"} /\ ~IdColumn(forward).nullable
  BY DEF IdColumn, KeyColumn, Flip, Directions
<1>3. ASSUME NEW x \in Columns, NEW v \in Columns
      PROVE  StrictlyAfter(ValColumn(forward), x, v) <=> Precedes(ValColumn(forward), v, x)
  <2>1. CASE v = KsNull
    BY <1>1, <2>1, PrecedesCases DEF StrictlyAfter
  <2>2. CASE v # KsNull /\ x = KsNull
    BY <1>1, <2>2, PrecedesCases DEF StrictlyAfter
  <2>3. CASE v # KsNull /\ x # KsNull
    <3>1. x \in Nat /\ v \in Nat BY <2>3, KsAssumption DEF Columns
    <3>2. Precedes(ValColumn(forward), v, x)
            <=> IF ValColumn(forward).order = "asc" THEN v < x ELSE v > x
      BY <2>3, PrecedesCases
    <3>3. StrictlyAfter(ValColumn(forward), x, v)
            <=> IF ValColumn(forward).order = "asc" THEN x > v ELSE x < v
      BY <1>1, <2>3 DEF StrictlyAfter
    <3> QED BY <3>1, <3>2, <3>3
  <2> QED BY <2>1, <2>2, <2>3
<1>4. ASSUME NEW x \in KsIds, NEW v \in KsIds
      PROVE  StrictlyAfter(IdColumn(forward), x, v) <=> Precedes(IdColumn(forward), v, x)
  <2>1. x \in Nat /\ v \in Nat /\ x # KsNull /\ v # KsNull BY KsAssumption
  <2>2. StrictlyAfter(IdColumn(forward), x, v)
          <=> IF IdColumn(forward).order = "asc" THEN x > v ELSE x < v
    BY <1>2, <2>1 DEF StrictlyAfter
  <2>3. Precedes(IdColumn(forward), v, x)
          <=> IF IdColumn(forward).order = "asc" THEN v < x ELSE v > x
    BY <2>1, PrecedesCases
  <2> QED BY <2>1, <2>2, <2>3
<1> QED BY <1>3, <1>4

\* keyset_expr: what a page asks for is what comes after its cursor, NULLs and
\* ties among it, forward and backward.
THEOREM PastTheCursor ==
    ASSUME Directions, NEW forward \in BOOLEAN, NEW row \in KsRow, NEW at \in KsRow
    PROVE  KeysetExpr(forward, row, at) <=> Before(forward, at, row)
<1>1. row.val \in Columns /\ at.val \in Columns /\ row.id \in KsIds /\ at.id \in KsIds
  BY DEF KsRow
<1> QED BY <1>1, BeforeUnfolded, ExprUnfolded, AfterIsPrecedes

-----------------------------------------------------------------------------

\* The order of one column.
LEMMA ColumnOrder ==
    ASSUME Directions, NEW forward \in BOOLEAN,
           NEW k \in {ValColumn(forward), IdColumn(forward)},
           NEW a \in Columns \union KsIds, NEW b \in Columns \union KsIds, NEW c \in Columns \union KsIds
    PROVE  /\ ~Precedes(k, a, a)
           /\ Precedes(k, a, b) /\ Precedes(k, b, c) => Precedes(k, a, c)
           /\ Precedes(k, a, b) \/ Precedes(k, b, a) \/ a = b
<1>1. k.order \in {"asc", "desc"} /\ k.nulls \in {"first", "last"}
  BY DEF ValColumn, IdColumn, KeyColumn, Flip, Directions
<1>2. \A x \in {a, b, c} : x \in Nat \/ x = KsNull
  BY KsAssumption DEF Columns
<1>3. KsNull \notin Nat BY KsAssumption
<1>4. ~Precedes(k, a, a)
  <2>1. CASE a = KsNull BY <2>1, PrecedesCases
  <2>2. CASE a # KsNull
    <3>1. a \in Nat BY <1>2, <2>2
    <3>2. Precedes(k, a, a) <=> IF k.order = "asc" THEN a < a ELSE a > a BY <2>2, PrecedesCases
    <3> QED BY <3>1, <3>2
  <2> QED BY <2>1, <2>2
<1>5. Precedes(k, a, b) /\ Precedes(k, b, c) => Precedes(k, a, c)
  <2>1. CASE a # KsNull /\ b # KsNull /\ c # KsNull
    <3>1. a \in Nat /\ b \in Nat /\ c \in Nat BY <1>2, <2>1
    <3>2. /\ Precedes(k, a, b) <=> IF k.order = "asc" THEN a < b ELSE a > b
          /\ Precedes(k, b, c) <=> IF k.order = "asc" THEN b < c ELSE b > c
          /\ Precedes(k, a, c) <=> IF k.order = "asc" THEN a < c ELSE a > c
      BY <2>1, PrecedesCases
    <3> QED BY <3>1, <3>2
  <2>2. CASE a = KsNull BY <1>1, <2>2, PrecedesCases
  <2>3. CASE b = KsNull BY <1>1, <2>3, PrecedesCases
  <2>4. CASE c = KsNull BY <1>1, <2>4, PrecedesCases
  <2> QED BY <2>1, <2>2, <2>3, <2>4
<1>6. Precedes(k, a, b) \/ Precedes(k, b, a) \/ a = b
  <2>1. CASE a # KsNull /\ b # KsNull
    <3>1. a \in Nat /\ b \in Nat BY <1>2, <2>1
    <3>2. /\ Precedes(k, a, b) <=> IF k.order = "asc" THEN a < b ELSE a > b
          /\ Precedes(k, b, a) <=> IF k.order = "asc" THEN b < a ELSE b > a
      BY <2>1, PrecedesCases
    <3> QED BY <3>1, <3>2
  <2>2. CASE a = KsNull \/ b = KsNull BY <1>1, <2>2, PrecedesCases
  <2> QED BY <2>1, <2>2
<1> QED BY <1>4, <1>5, <1>6

\* The order of rows is strict and total on the primary key: a walk can neither
\* stop at ties nor go round, and two rows that are different are never tied.
THEOREM RowsAreOrdered ==
    ASSUME Directions, NEW forward \in BOOLEAN,
           NEW r \in KsRow, NEW s \in KsRow, NEW t \in KsRow
    PROVE  /\ ~Before(forward, r, r)
           /\ Before(forward, r, s) /\ Before(forward, s, t) => Before(forward, r, t)
           /\ r.id # s.id => Before(forward, r, s) \/ Before(forward, s, r)
<1>1. \A row \in KsRow : row.val \in Columns \union KsIds /\ row.id \in Columns \union KsIds
  BY DEF KsRow
<1> DEFINE V == ValColumn(forward)
           I == IdColumn(forward)
<1>2. \A row \in KsRow : ~Precedes(V, row.val, row.val) /\ ~Precedes(I, row.id, row.id)
  BY <1>1, ColumnOrder
<1>3. /\ Precedes(V, r.val, s.val) /\ Precedes(V, s.val, t.val) => Precedes(V, r.val, t.val)
      /\ Precedes(I, r.id, s.id) /\ Precedes(I, s.id, t.id) => Precedes(I, r.id, t.id)
  BY <1>1, ColumnOrder
<1>4. /\ Precedes(V, r.val, s.val) \/ Precedes(V, s.val, r.val) \/ r.val = s.val
      /\ Precedes(I, r.id, s.id) \/ Precedes(I, s.id, r.id) \/ r.id = s.id
  BY <1>1, ColumnOrder
<1> HIDE DEF V, I
<1>5. \A x, y \in KsRow : Before(forward, x, y) <=>
         Precedes(V, x.val, y.val) \/ (x.val = y.val /\ Precedes(I, x.id, y.id))
  BY BeforeUnfolded DEF V, I
<1> QED BY <1>2, <1>3, <1>4, <1>5

-----------------------------------------------------------------------------
(***************************************************************************)
(* The walk.  What was delivered ends with the row the cursor was minted   *)
(* from, so the next page goes after all of it; and a row nobody touches   *)
(* is either delivered or past the cursor, as long as there is a link.     *)
(***************************************************************************)

Delivered == ToSet(ksLog)

\* The rows the client may still be given.
ToCome(row) == ~ksDone /\ (ksCursor = <<>> \/ Before(ksForward, Last(ksCursor), row))

KsIInv ==
    /\ KsTypeOK
    /\ \A m, n \in DOMAIN ksLog : m < n => Before(ksForward, ksLog[m], ksLog[n])
    /\ IF ksCursor = <<>> THEN ksDone \/ ksLog = <<>>
       ELSE ksLog # <<>> /\ Last(ksCursor) = Last(ksLog)
    /\ \A row \in ksTable : row.id \notin ksTouched => (row \in Delivered \/ ToCome(row))

LEMMA KsInvInit == KsInit => KsIInv
<1> SUFFICES ASSUME KsInit PROVE KsIInv OBVIOUS
<1>1. ksTable \subseteq KsRow
  <2>1. PICK ids \in SUBSET KsIds : \E f \in [ids -> Columns] :
            ksTable = {[id |-> i, val |-> f[i]] : i \in ids}
    BY DEF KsInit
  <2>2. PICK f \in [ids -> Columns] : ksTable = {[id |-> i, val |-> f[i]] : i \in ids}
    BY <2>1
  <2> QED BY <2>2 DEF KsRow
<1>2. ksLimit \in 1..KsMaxLimit /\ ksCursor = <<>> /\ ksLog = <<>> /\ ksTouched = {} /\ ksChanges = 0
      /\ ksDone = FALSE
  BY DEF KsInit
<1>3. <<>> \in Seq(KsRow) /\ Len(<<>>) = 0 BY EmptySeq
<1>4. KsTypeOK
  <2>1. ksCursor \in Seq(KsRow) /\ ksLog \in Seq(KsRow) /\ Len(ksCursor) <= ksLimit
    BY <1>2, <1>3, KsAssumption
  <2>2. ksOrder \in {"asc", "desc"} /\ ksNulls \in {"first", "last"} /\ ksForward \in BOOLEAN
    BY DEF KsInit
  <2>3. ksChanges \in 0..KsMaxChanges BY <1>2, KsAssumption
  <2>4. ksTouched \subseteq KsIds /\ ksDone \in BOOLEAN BY <1>2
  <2> QED BY <1>1, <1>2, <2>1, <2>2, <2>3, <2>4 DEF KsTypeOK
<1> QED BY <1>2, <1>4 DEF KsIInv, ToCome

\* Another connection's write leaves the walk alone and touches its row.
LEMMA KsChangeStep == ASSUME KsIInv, NEW i \in KsIds, KsChange(i) PROVE KsIInv'
<1>1. /\ UNCHANGED <<ksOrder, ksNulls, ksForward, ksLimit, ksCursor, ksDone, ksLog>>
      /\ ksTouched' = ksTouched \union {i} /\ ksChanges' = ksChanges + 1 /\ ksChanges < KsMaxChanges
  BY DEF KsChange
<1>2. ksTable' \subseteq KsRow /\ \A row \in ksTable' : row.id # i => row \in ksTable
  <2>1. PICK others : others = {row \in ksTable : row.id # i} OBVIOUS
  <2>2. CASE ksTable' = others BY <2>1, <2>2 DEF KsIInv, KsTypeOK
  <2>3. CASE \E v \in Columns : ksTable' = others \union {[id |-> i, val |-> v]}
    <3>1. PICK v \in Columns : ksTable' = others \union {[id |-> i, val |-> v]} BY <2>3
    <3>2. [id |-> i, val |-> v] \in KsRow /\ [id |-> i, val |-> v].id = i BY DEF KsRow
    <3> QED BY <2>1, <3>1, <3>2 DEF KsIInv, KsTypeOK
  <2> QED BY <2>1, <2>2, <2>3 DEF KsChange
<1>3. KsTypeOK'
  <2>1. ksTouched' \subseteq KsIds BY <1>1 DEF KsIInv, KsTypeOK
  <2>2. ksChanges' \in 0..KsMaxChanges BY <1>1, KsAssumption DEF KsIInv, KsTypeOK
  <2> QED BY <1>1, <1>2, <2>1, <2>2 DEF KsIInv, KsTypeOK
<1>4. \A row \in ksTable' : row.id \notin ksTouched' => (row \in Delivered' \/ ToCome(row)')
  <2>1. \A row : (ToCome(row) => ToCome(row)') /\ Delivered' = Delivered
    BY <1>1 DEF ToCome, Before, Key, KeyColumn, Precedes, Delivered
  <2> QED BY <1>1, <1>2, <2>1 DEF KsIInv
<1>5. \A m, n \in DOMAIN ksLog' : m < n => Before(ksForward, ksLog[m], ksLog[n])'
  BY <1>1 DEF KsIInv, Before, Key, KeyColumn, Precedes
<1> QED BY <1>1, <1>3, <1>4, <1>5 DEF KsIInv

\* The configuration of the walk does not change, nor does the order of its rows.
LEMMA OrderStays ==
    ASSUME UNCHANGED <<ksOrder, ksNulls>>
    PROVE  \A forward, r, s : Before(forward, r, s)' = Before(forward, r, s)
  BY DEF Before, Key, KeyColumn, Precedes

\* A page that is added to the walk goes after all of it.
LEMMA KsFetchStep == ASSUME KsIInv, KsFetch PROVE KsIInv'
<1>1. PICK n \in 0..ksLimit, page \in Seq(KsRow) :
         /\ Len(page) = n /\ \A m \in 1..n : page[m] \in Past
         /\ DOMAIN page = 1..n
         /\ IsPage(page, Past)
         /\ ksLog' = ksLog \o page /\ ksCursor' = page /\ ksDone' = (ToSet(page) = Past)
  <2>1. PICK n \in 0..ksLimit : \E page \in [1..n -> Past] :
           /\ IsPage(page, Past)
           /\ ksLog' = ksLog \o page /\ ksCursor' = page /\ ksDone' = (ToSet(page) = Past)
    BY DEF KsFetch
  <2>2. PICK page \in [1..n -> Past] :
           /\ IsPage(page, Past)
           /\ ksLog' = ksLog \o page /\ ksCursor' = page /\ ksDone' = (ToSet(page) = Past)
    BY <2>1
  <2>3. Past \subseteq KsRow /\ n \in Nat BY KsAssumption DEF Past, KsIInv, KsTypeOK
  <2>4. page \in [1..n -> KsRow] BY <2>3
  <2>5. page \in Seq(KsRow) BY <2>3, <2>4, SeqDef
  <2>6. Len(page) = n BY <2>3, <2>4, <2>5, LenProperties
  <2> QED BY <2>2, <2>4, <2>5, <2>6
<1>2. /\ ~ksDone /\ UNCHANGED <<ksOrder, ksNulls, ksForward, ksLimit, ksTable, ksTouched, ksChanges>>
      /\ ksForward \in BOOLEAN /\ Directions /\ n \in Nat /\ n <= ksLimit /\ ksLimit \in Nat \ {0}
  BY KsAssumption DEF KsFetch, KsIInv, KsTypeOK, Directions
<1>3. PICK l \in Nat : l = Len(ksLog) /\ DOMAIN ksLog = 1..l /\ \A m \in 1..l : ksLog[m] \in KsRow
  BY LenProperties, ElementOfSeq DEF KsIInv, KsTypeOK
<1>4. /\ ksLog' \in Seq(KsRow) /\ Len(ksLog') = l + n /\ DOMAIN ksLog' = 1..(l + n)
      /\ \A m \in 1..(l + n) : ksLog'[m] = IF m <= l THEN ksLog[m] ELSE page[m - l]
  <2>1. ksLog \in Seq(KsRow) BY DEF KsIInv, KsTypeOK
  <2>2. /\ ksLog \o page \in Seq(KsRow) /\ Len(ksLog \o page) = l + n
        /\ \A m \in 1..(l + n) : (ksLog \o page)[m] = IF m <= l THEN ksLog[m] ELSE page[m - l]
    BY <1>1, <1>3, <2>1, ConcatProperties
  <2>3. DOMAIN (ksLog \o page) = 1..(l + n) BY <2>2, LenProperties
  <2> QED BY <1>1, <2>2, <2>3
<1>5. KsTypeOK' BY <1>1, <1>2, <1>4 DEF KsIInv, KsTypeOK
<1>6. \A f, r, s : Before(f, r, s)' = Before(f, r, s) BY <1>2, OrderStays
\* Every row past the cursor is after everything delivered.
<1>7. ASSUME NEW m \in 1..l, NEW row \in Past
      PROVE  Before(ksForward, ksLog[m], row)
  <2>1. row \in KsRow BY DEF Past, KsIInv, KsTypeOK
  <2>2. ksCursor # <<>> /\ Last(ksCursor) = ksLog[l] /\ l \in 1..l
    <3>1. ksLog # <<>> /\ l \in 1..l BY <1>3, EmptySeq DEF KsIInv, KsTypeOK
    <3> QED BY <1>2, <1>3, <3>1 DEF KsIInv, Last
  <2>3. Before(ksForward, ksLog[l], row)
    <3>1. KeysetExpr(ksForward, row, ksLog[l]) BY <2>2 DEF Past
    <3> QED BY <1>2, <1>3, <2>1, <2>2, <3>1, PastTheCursor
  <2>4. CASE m = l BY <2>3, <2>4
  <2>5. CASE m # l
    <3>1. m < l BY <2>5
    <3>2. Before(ksForward, ksLog[m], ksLog[l]) BY <1>3, <2>2, <3>1 DEF KsIInv
    <3> QED BY <1>2, <1>3, <2>1, <2>2, <2>3, <3>2, RowsAreOrdered
  <2> QED BY <2>4, <2>5
<1>8. ASSUME NEW m \in DOMAIN ksLog', NEW k \in DOMAIN ksLog', m < k
      PROVE  Before(ksForward, ksLog[m], ksLog[k])'
  <2>1. m \in 1..(l + n) /\ k \in 1..(l + n) BY <1>4
  <2>2. CASE k <= l
    <3>1. m \in 1..l /\ k \in 1..l BY <1>8, <2>1, <2>2
    <3>2. Before(ksForward, ksLog[m], ksLog[k]) BY <1>3, <1>8, <3>1 DEF KsIInv
    <3>3. ksLog'[m] = ksLog[m] /\ ksLog'[k] = ksLog[k] BY <1>4, <2>1, <3>1
    <3> QED BY <1>2, <1>6, <3>2, <3>3
  <2>3. CASE m <= l /\ ~(k <= l)
    <3>1. m \in 1..l /\ k - l \in 1..n BY <2>1, <2>3
    <3>2. ksLog'[m] = ksLog[m] /\ ksLog'[k] = page[k - l] BY <1>4, <2>1, <2>3
    <3>3. page[k - l] \in Past BY <1>1, <3>1
    <3>4. Before(ksForward, ksLog[m], page[k - l]) BY <1>7, <3>1, <3>3
    <3> QED BY <1>2, <1>6, <3>2, <3>4
  <2>4. CASE ~(m <= l)
    <3>1. m - l \in 1..n /\ k - l \in 1..n /\ m - l < k - l /\ ~(k <= l) BY <1>8, <2>1, <2>4
    <3>2. ksLog'[m] = page[m - l] /\ ksLog'[k] = page[k - l] BY <1>4, <2>1, <2>4, <3>1
    <3>3. Before(ksForward, page[m - l], page[k - l]) BY <1>1, <3>1 DEF IsPage
    <3> QED BY <1>2, <1>6, <3>2, <3>3
  <2> QED BY <2>1, <2>2, <2>3, <2>4
<1>9. IF ksCursor' = <<>> THEN ksDone' \/ ksLog' = <<>>
      ELSE ksLog' # <<>> /\ Last(ksCursor') = Last(ksLog')
  <2>1. CASE n = 0
    <3>1. page = <<>> /\ ToSet(page) = Past BY <1>1, <1>2, <2>1, EmptySeq DEF IsPage
    <3> QED BY <1>1, <3>1
  <2>2. CASE n # 0
    <3>1. page # <<>> /\ n \in 1..n /\ l + n \in 1..(l + n) /\ ~(l + n <= l) /\ (l + n) - l = n
      BY <1>1, <1>2, <2>2
    <3>2. ksLog'[l + n] = page[n] BY <1>4, <3>1
    <3>3. ksLog' # <<>> BY <1>4, <3>1, EmptySeq
    <3> QED BY <1>1, <1>4, <3>1, <3>2, <3>3 DEF Last
  <2> QED BY <2>1, <2>2
<1>10. ASSUME NEW row \in ksTable, row.id \notin ksTouched
       PROVE  row \in Delivered' \/ ToCome(row)'
  <2>1. CASE row \in Delivered
    <3>1. PICK m \in 1..l : row = ksLog[m] BY <1>3, <2>1 DEF Delivered, ToSet
    <3>2. m \in 1..(l + n) /\ ksLog'[m] = row BY <1>2, <1>4, <3>1
    <3> QED BY <1>4, <3>2 DEF Delivered, ToSet
  <2>2. CASE row \in ToSet(page)
    <3>1. PICK m \in 1..n : row = page[m] BY <1>1, <2>2 DEF ToSet
    <3>2. l + m \in 1..(l + n) /\ ~(l + m <= l) /\ (l + m) - l = m BY <1>2
    <3>3. ksLog'[l + m] = row BY <1>4, <3>1, <3>2
    <3> QED BY <1>4, <3>2, <3>3 DEF Delivered, ToSet
  <2>3. CASE row \notin Delivered /\ row \notin ToSet(page)
    <3>1. row \in KsRow /\ ToCome(row) BY <1>10, <2>3 DEF KsIInv, KsTypeOK
    <3>2. row \in Past
      <4>1. CASE ksCursor = <<>> BY <4>1 DEF Past
      <4>2. CASE ksCursor # <<>>
        <5>1. Last(ksCursor) \in KsRow
          <6>1. ksCursor \in Seq(KsRow) BY DEF KsIInv, KsTypeOK
          <6>2. Len(ksCursor) \in 1..Len(ksCursor) BY <4>2, <6>1, EmptySeq
          <6> QED BY <6>1, <6>2, ElementOfSeq DEF Last
        <5>2. Before(ksForward, Last(ksCursor), row) BY <3>1, <4>2 DEF ToCome
        <5>3. KeysetExpr(ksForward, row, Last(ksCursor)) BY <1>2, <3>1, <5>1, <5>2, PastTheCursor
        <5> QED BY <5>3 DEF Past
      <4> QED BY <4>1, <4>2
    <3>3. ~ksDone' BY <1>1, <2>3, <3>2
    <3>4. ASSUME page # <<>> PROVE Before(ksForward, Last(page), row)
      <4>1. n \in DOMAIN page BY <1>1, <1>2, <3>4, EmptySeq
      <4> QED BY <1>1, <2>3, <3>2, <4>1 DEF IsPage, Last
    <3> QED BY <1>1, <1>2, <1>6, <3>3, <3>4 DEF ToCome
  <2> QED BY <2>1, <2>2, <2>3
<1> QED BY <1>2, <1>5, <1>8, <1>9, <1>10 DEF KsIInv

LEMMA KsInvStep == KsIInv /\ [KsNext]_ksVars => KsIInv'
<1> SUFFICES ASSUME KsIInv, [KsNext]_ksVars PROVE KsIInv' OBVIOUS
<1>1. CASE UNCHANGED ksVars
  <2>1. UNCHANGED <<ksOrder, ksNulls, ksForward, ksLimit, ksTable, ksCursor, ksDone, ksLog, ksTouched, ksChanges>>
    BY <1>1 DEF ksVars
  <2>2. \A f, r, s : Before(f, r, s)' = Before(f, r, s) BY <2>1, OrderStays
  <2>3. \A row : ToCome(row)' = ToCome(row) BY <2>1, <2>2 DEF ToCome
  <2>4. Delivered' = Delivered BY <2>1 DEF Delivered
  <2>5. KsTypeOK' BY <2>1 DEF KsIInv, KsTypeOK
  <2>6. \A m, n \in DOMAIN ksLog' : m < n => Before(ksForward, ksLog[m], ksLog[n])'
    BY <2>1, <2>2 DEF KsIInv
  <2> QED BY <2>1, <2>3, <2>4, <2>5, <2>6 DEF KsIInv
<1> QED BY <1>1, KsFetchStep, KsChangeStep DEF KsNext

LEMMA ExactNow == KsIInv => WalkIsExact
  BY DEF KsIInv, WalkIsExact, ToCome, Delivered, ToSet

\* page.rs: a walk delivers every row that nobody touches, once and in the order
\* of the query, whatever happens to the rows around it.
THEOREM Walks == KsSpec => []WalkIsExact
  BY KsInvInit, KsInvStep, ExactNow, PTL DEF KsSpec

-----------------------------------------------------------------------------
(***************************************************************************)
(* What Transaction promises of a body and the savepoints it opens, however*)
(* deep they are nested, as long as no two of them overlap.                *)
(*                                                                         *)
(* `Calm` is what makes the stack of savepoints a stack: the calls under   *)
(* way lie one within the other (`Nested`), the database has a savepoint of*)
(* each, before whatever was written further in (`Placed`), what is written*)
(* is what no failed call is around (`MadeIs`), and a transaction that is  *)
(* aborted is so by a statement of the innermost body (`AbortedBy`), which *)
(* must then return an error: so no release ever meets an aborted one.     *)
(***************************************************************************)

\* The bodies that are under way or were, and the calls that are.
Opened == {b \in TxBodies : ~TxAt(b, "none")}
Live == {c \in TxCalls : Unfinished(c)}

Rooted ==
    /\ 0 \in Opened
    /\ \A b \in Opened : Around(b) \subseteq Opened /\ 0 \in Around(b)
    /\ \A b \in TxBodies : (txBody[b].wrote => b \in Opened) /\ txSince[b] \subseteq Opened
    /\ \A c \in TxCalls : ~TxAt(c, "client") /\ txUnder[c] \subseteq Opened
    /\ txSaved \subseteq Opened

Nested ==
    /\ \A c \in Live : \A p \in Around(c) \ {c} : TxAt(p, "runs")
    /\ \A c \in Live, d \in Live : c \in Around(d) \/ d \in Around(c)

Placed ==
    /\ Live \subseteq txSaved
    /\ \A c \in Live, d \in Live : c \in txUnder[d] => c \in Around(d) \ {d}
    /\ \A c \in Live, w \in txMade : (c \in txSince[w]) <=> (c \in Around(w))

MadeIs ==
    txMade = {w \in TxBodies : txBody[w].wrote /\ \A d \in Around(w) \ {0} : ~TxAt(d, "failed")}

AbortedBy ==
    txAborted =>
        /\ txPostgres
        /\ \E b \in TxBodies :
              /\ txBody[b].at \in {"runs", "err"} /\ txBody[b].hurt
              /\ \A c \in Live : b \in Around(c) => c = b

Calm == Rooted /\ Nested /\ Placed /\ MadeIs /\ AbortedBy

TxIInv ==
    /\ TxTypeOK
    /\ txWhole = "open" => txStored = {}
    /\ CommitsWhatReturnedOk
    /\ txWhole = "open" /\ ~txOverlap => Calm

-----------------------------------------------------------------------------
(* Bodies and the bodies around them *)

LEMMA AroundItself == ASSUME NEW c \in TxBodies PROVE c \in Around(c)
BY DEF Around

LEMMA AroundZero == ASSUME TxAssumption PROVE Around(0) = {0}
<1>1. 0 \in TxBodies BY DEF TxAssumption, TxBodies
<1>2. \A b \in Around(0) : b \in {0}
  <2> SUFFICES ASSUME NEW b \in Around(0) PROVE b \in {0} OBVIOUS
  <2>1. {0} \in SUBSET TxBodies BY <1>1
  <2>2. \A d \in {0} \ {0} : txParent[d] \in {0} OBVIOUS
  <2> QED BY <2>1, <2>2 DEF Around
<1> QED BY <1>1, <1>2, AroundItself

LEMMA AroundCloses ==
    ASSUME NEW c \in TxBodies, NEW b \in Around(c) \ {0}, txParent \in [TxCalls -> TxBodies]
    PROVE  txParent[b] \in Around(c)
<1>1. b \in TxBodies /\ b \in TxCalls BY DEF Around, TxBodies, TxCalls
<1>2. txParent[b] \in TxBodies BY <1>1
<1> QED BY <1>1, <1>2 DEF Around

LEMMA AroundLeast ==
    ASSUME NEW c \in TxBodies, NEW S \in SUBSET TxBodies, c \in S,
           \A d \in S \ {0} : txParent[d] \in S
    PROVE  Around(c) \subseteq S
BY DEF Around

LEMMA AroundIn == ASSUME NEW c PROVE Around(c) \subseteq TxBodies
BY DEF Around

LEMMA AroundInside ==
    ASSUME NEW c \in TxBodies, NEW b \in Around(c), txParent \in [TxCalls -> TxBodies]
    PROVE  Around(b) \subseteq Around(c)
<1>1. b \in TxBodies BY AroundIn
<1>2. \A d \in Around(c) \ {0} : txParent[d] \in Around(c) BY AroundCloses
<1> QED BY <1>1, <1>2, AroundLeast, AroundIn

LEMMA AroundCall ==
    ASSUME NEW c \in TxCalls, txParent \in [TxCalls -> TxBodies]
    PROVE  /\ c \in TxBodies /\ txParent[c] \in TxBodies /\ c # 0
           /\ Around(c) = {c} \union Around(txParent[c])
<1>1. c \in TxBodies /\ txParent[c] \in TxBodies /\ c # 0 BY DEF TxBodies, TxCalls
<1>2. c \in Around(c) BY <1>1, AroundItself
<1>3. txParent[c] \in Around(c) BY <1>1, <1>2, AroundCloses
<1>4. Around(txParent[c]) \subseteq Around(c) BY <1>1, <1>3, AroundInside
<1> DEFINE S == {c} \union Around(txParent[c])
<1>5. S \in SUBSET TxBodies BY <1>1, AroundIn
<1>6. \A d \in S \ {0} : txParent[d] \in S
  <2> SUFFICES ASSUME NEW d \in S \ {0} PROVE txParent[d] \in S OBVIOUS
  <2>1. CASE d = c BY <2>1, <1>1, AroundItself
  <2>2. CASE d \in Around(txParent[c]) BY <2>2, <1>1, AroundCloses
  <2> QED BY <2>1, <2>2
<1>7. Around(c) \subseteq S
  <2> HIDE DEF S
  <2>1. c \in S BY DEF S
  <2> QED BY <1>1, <1>5, <1>6, <2>1, AroundLeast
<1> QED BY <1>1, <1>2, <1>4, <1>7

\* Between a body and one further in there is a call of the first.
LEMMA AroundThrough ==
    ASSUME NEW d \in TxBodies, NEW p \in Around(d) \ {d}, txParent \in [TxCalls -> TxBodies]
    PROVE  \E e \in TxCalls : txParent[e] = p /\ e \in Around(d)
<1> SUFFICES ASSUME \A e \in TxCalls : ~(txParent[e] = p /\ e \in Around(d)) PROVE FALSE OBVIOUS
<1> DEFINE S == Around(d) \ {p}
<1>1. S \in SUBSET TxBodies BY AroundIn
<1>2. d \in S BY AroundItself
<1>3. \A e \in S \ {0} : txParent[e] \in S
  <2> SUFFICES ASSUME NEW e \in S \ {0} PROVE txParent[e] \in S OBVIOUS
  <2>1. e \in Around(d) \ {0} /\ e \in TxCalls BY <1>1 DEF TxBodies, TxCalls
  <2>2. txParent[e] \in Around(d) BY <2>1, AroundCloses
  <2> QED BY <2>1, <2>2
<1> HIDE DEF S
<1>4. Around(d) \subseteq S BY <1>1, <1>2, <1>3, AroundLeast
<1> QED BY <1>4 DEF S

-----------------------------------------------------------------------------
(* Calls under way, while none overlaps *)

\* With no call of c's body under way there is none in a body inside it either.
LEMMA NoneInside ==
    ASSUME TxTypeOK, Calm, NEW c \in TxBodies, Inner(c) = {}
    PROVE  \A d \in Live : c \in Around(d) => d = c
<1> SUFFICES ASSUME NEW d \in Live, c \in Around(d), d # c PROVE FALSE OBVIOUS
<1>1. d \in TxBodies BY DEF Live, TxBodies, TxCalls
<1>2. PICK e \in TxCalls : txParent[e] = c /\ e \in Around(d) BY <1>1, AroundThrough DEF TxTypeOK
<1>3. Unfinished(e)
  <2>1. CASE e = d BY <2>1 DEF Live
  <2>2. CASE e # d
    <3>1. TxAt(e, "runs") BY <1>2, <2>2 DEF Calm, Nested
    <3> QED BY <3>1 DEF TxAt, Unfinished
  <2> QED BY <2>1, <2>2
<1> QED BY <1>2, <1>3 DEF Inner

\* The calls under way are then those around it.
LEMMA AllAround ==
    ASSUME TxTypeOK, TxAssumption, Calm, NEW c \in TxBodies, c = 0 \/ c \in Live, Inner(c) = {}
    PROVE  \A d \in Live : d \in Around(c)
<1> SUFFICES ASSUME NEW d \in Live PROVE d \in Around(c) OBVIOUS
<1>1. d \in TxCalls /\ d \in TxBodies /\ d # 0 /\ Unfinished(d) BY DEF Live, TxBodies, TxCalls
<1>2. CASE c = 0
  <2>1. d \in Opened BY <1>1 DEF Opened, Unfinished, TxAt
  <2>2. 0 \in Around(d) BY <2>1 DEF Calm, Rooted
  <2> QED BY <1>1, <1>2, <2>2, NoneInside
<1>3. CASE c \in Live
  <2>1. d \in Around(c) \/ c \in Around(d) BY <1>3 DEF Calm, Nested
  <2> QED BY <2>1, <1>1, NoneInside, AroundItself
<1> QED BY <1>2, <1>3

LEMMA NoneBelow ==
    ASSUME TxTypeOK, NEW c \in TxBodies, Below(c) = {}
    PROVE  Inner(c) \subseteq {c} /\ Dropped(Below(c)) = txBody
<1>1. \A d \in Inner(c) : d = c
  <2> SUFFICES ASSUME NEW d \in Inner(c), d # c PROVE FALSE OBVIOUS
  <2>1. d \in TxCalls /\ txParent[d] = c /\ Unfinished(d) BY DEF Inner
  <2>2. c \in Around(d) BY <2>1, AroundCall, AroundItself DEF TxTypeOK
  <2> QED BY <2>1, <2>2 DEF Below
<1>2. Dropped({}) = txBody BY DEF Dropped, TxTypeOK
<1> QED BY <1>1, <1>2

-----------------------------------------------------------------------------
(* Typing *)

LEMMA TxTypeInit == ASSUME TxAssumption, TxInit PROVE TxTypeOK
<1>1. TxFresh \in [TxBodies -> TxBody] BY DEF TxFresh, TxNone, TxBody
<1>2. txBody \in [TxBodies -> TxBody] BY <1>1 DEF TxInit
<1>3. txPostgres \in BOOLEAN /\ txParent \in [TxCalls -> TxBodies] BY DEF TxInit
<1>4. txSaved \subseteq TxCalls /\ txMade \subseteq TxBodies BY DEF TxInit
<1>5. txUnder \in [TxCalls -> SUBSET TxCalls] /\ txSince \in [TxBodies -> SUBSET TxCalls] BY DEF TxInit
<1>6. txTries \in 0..TxMaxRetries /\ txFaults \in 0..TxMaxFaults BY DEF TxInit, TxAssumption
<1> QED BY <1>2, <1>3, <1>4, <1>5, <1>6 DEF TxInit, TxTypeOK

LEMMA TxTypeUndone ==
    ASSUME TxTypeOK, TxAssumption, txWhole' \in {"open", "ok", "client", "err", "gone"},
           txTries' \in 0..TxMaxRetries, txFaults' \in 0..TxMaxFaults, Undone,
           UNCHANGED <<txConfig, txStored, txOverlap>>
    PROVE  TxTypeOK'
<1>1. TxFresh \in [TxBodies -> TxBody] BY DEF TxFresh, TxNone, TxBody
<1>2. txBody' \in [TxBodies -> TxBody] BY <1>1 DEF Undone
<1>3. txPostgres' \in BOOLEAN /\ txParent' \in [TxCalls -> TxBodies] BY DEF TxTypeOK, txConfig
<1>4. txSaved' \subseteq TxCalls /\ txMade' \subseteq TxBodies /\ txAborted' \in BOOLEAN BY DEF Undone
<1>5. txUnder' \in [TxCalls -> SUBSET TxCalls] /\ txSince' \in [TxBodies -> SUBSET TxCalls] BY DEF Undone
<1>6. txStored' \subseteq TxBodies /\ txOverlap' \in BOOLEAN BY DEF TxTypeOK
<1> QED BY <1>2, <1>3, <1>4, <1>5, <1>6 DEF TxTypeOK

LEMMA TxTypeDropped ==
    ASSUME TxTypeOK, NEW dropped PROVE Dropped(dropped) \in [TxBodies -> TxBody]
<1>1. \A d \in TxBodies : [txBody[d] EXCEPT !.at = "failed"] \in TxBody BY DEF TxTypeOK, TxBody
<1> QED BY <1>1 DEF Dropped, TxTypeOK

LEMMA TxTypeStep == ASSUME TxTypeOK, TxAssumption, [TxNext]_txVars PROVE TxTypeOK'
<1> USE DEF TxAt, txConfig, txLog
<1>0. TxCalls \subseteq TxBodies /\ 0 \in TxBodies BY DEF TxCalls, TxBodies, TxAssumption
<1>1. \A c \in TxBodies, at \in {"none", "runs", "ok", "client", "err", "kept", "failed"} :
          [txBody[c] EXCEPT !.at = at] \in TxBody BY DEF TxTypeOK, TxBody
<1>15. \A c \in TxBodies, at \in {"none", "runs", "ok", "client", "err", "kept", "failed"} :
          [txBody EXCEPT ![c].at = at] \in [TxBodies -> TxBody] BY <1>1 DEF TxTypeOK
<1>2. ASSUME NEW c \in TxCalls, TxOpen(c) PROVE TxTypeOK'
  <2>1. txBody' = [txBody EXCEPT ![c].at = "failed"] \/ txBody' = [txBody EXCEPT ![c].at = "runs"]
    BY <1>2 DEF TxOpen
  <2>6. [txBody EXCEPT ![c].at = "failed"] \in [TxBodies -> TxBody] BY <1>0, <1>15
  <2>7. [txBody EXCEPT ![c].at = "runs"] \in [TxBodies -> TxBody] BY <1>0, <1>15
  <2>5. txBody' \in [TxBodies -> TxBody] BY <2>1, <2>6, <2>7
  <2>2. txSaved' \subseteq TxCalls BY <1>2 DEF TxOpen, TxTypeOK
  <2>3. txUnder' \in [TxCalls -> SUBSET TxCalls] BY <1>2 DEF TxOpen, TxTypeOK
  <2>4. txOverlap' \in BOOLEAN BY <1>2 DEF TxOpen, TxTypeOK
  <2> QED BY <1>2, <2>5, <2>2, <2>3, <2>4 DEF TxOpen, TxTypeOK
<1>3. ASSUME NEW c \in TxCalls, TxRelease(c) PROVE TxTypeOK'
  <2>3. txBody' = [txBody EXCEPT ![c].at = "failed"] \/ txBody' = [txBody EXCEPT ![c].at = "kept"]
    BY <1>3 DEF TxRelease
  <2>6. [txBody EXCEPT ![c].at = "failed"] \in [TxBodies -> TxBody] BY <1>0, <1>15
  <2>7. [txBody EXCEPT ![c].at = "kept"] \in [TxBodies -> TxBody] BY <1>0, <1>15
  <2>1. txBody' \in [TxBodies -> TxBody] BY <2>3, <2>6, <2>7
  <2>2. txSaved' \subseteq TxCalls /\ txAborted' \in BOOLEAN BY <1>3 DEF TxRelease, TxTypeOK
  <2> QED BY <1>3, <2>1, <2>2 DEF TxRelease, TxTypeOK
<1>4. ASSUME NEW c \in TxCalls, TxRollbackTo(c) PROVE TxTypeOK'
  <2>1. txBody' \in [TxBodies -> TxBody] BY <1>0, <1>1, <1>4 DEF TxRollbackTo, TxTypeOK
  <2>2. txSaved' \subseteq TxCalls /\ txMade' \subseteq TxBodies /\ txAborted' \in BOOLEAN
    BY <1>4 DEF TxRollbackTo, TxTypeOK
  <2> QED BY <1>4, <2>1, <2>2 DEF TxRollbackTo, TxTypeOK
<1>5. ASSUME NEW c \in TxCalls, TxDrop(c) PROVE TxTypeOK'
  <2>1. txBody' \in [TxBodies -> TxBody] BY <1>5, TxTypeDropped DEF TxDrop
  <2> QED BY <1>5, <2>1 DEF TxDrop, TxTypeOK
<1>6. ASSUME NEW c \in TxBodies, TxWrite(c) PROVE TxTypeOK'
  <2>1. [txBody[c] EXCEPT !.wrote = TRUE] \in TxBody BY DEF TxTypeOK, TxBody
  <2>2. txBody' \in [TxBodies -> TxBody] BY <2>1, <1>6 DEF TxWrite, TxTypeOK
  <2>3. txMade' \subseteq TxBodies /\ txOverlap' \in BOOLEAN BY <1>6 DEF TxWrite, TxTypeOK
  <2>4. txSince' \in [TxBodies -> SUBSET TxCalls] BY <1>6 DEF TxWrite, TxTypeOK
  <2> QED BY <1>6, <2>2, <2>3, <2>4 DEF TxWrite, TxTypeOK
<1>7. ASSUME NEW c \in TxBodies, TxStatementFails(c) PROVE TxTypeOK'
  <2>1. [txBody[c] EXCEPT !.hurt = TRUE] \in TxBody BY DEF TxTypeOK, TxBody
  <2>2. txBody' \in [TxBodies -> TxBody] BY <2>1, <1>7 DEF TxStatementFails, TxTypeOK
  <2>3. txAborted' \in BOOLEAN /\ txOverlap' \in BOOLEAN BY <1>7 DEF TxStatementFails, TxTypeOK
  <2>4. txFaults' \in 0..TxMaxFaults BY <1>7 DEF TxStatementFails, TxTypeOK, TxAssumption
  <2> QED BY <1>7, <2>2, <2>3, <2>4 DEF TxStatementFails, TxTypeOK
<1>8. ASSUME NEW c \in TxBodies, NEW outcome \in {"ok", "client", "err"}, TxReturn(c, outcome) PROVE TxTypeOK'
  <2>1. PICK b \in [TxBodies -> TxBody] : b = Dropped(Below(c)) BY TxTypeDropped
  <2>2. txBody' = [b EXCEPT ![c].at = outcome] BY <1>8, <2>1 DEF TxReturn
  <2>3. [b[c] EXCEPT !.at = outcome] \in TxBody BY <2>1 DEF TxBody
  <2>4. txBody' \in [TxBodies -> TxBody] BY <2>1, <2>2, <2>3
  <2>5. txOverlap' \in BOOLEAN BY <1>8 DEF TxReturn
  <2> QED BY <1>8, <2>4, <2>5 DEF TxReturn, TxTypeOK
<1>9. CASE TxCommit
  <2>1. txBody[0].at \in {"ok", "client"} BY <1>9 DEF TxCommit, MayCommit
  <2>2. txWhole' \in {"open", "ok", "client", "err", "gone"} BY <1>9, <2>1 DEF TxCommit
  <2>3. txStored' \subseteq TxBodies BY <1>9 DEF TxCommit, TxTypeOK
  <2> QED BY <1>9, <2>2, <2>3 DEF TxCommit, TxTypeOK
<1>10. ASSUME Again PROVE txTries' \in 0..TxMaxRetries /\ txWhole' = txWhole /\ Undone
  BY <1>10 DEF Again, TxTypeOK, TxAssumption
<1>11. CASE TxCommitFails
  <2>1. txFaults' \in 0..TxMaxFaults BY <1>11 DEF TxCommitFails, TxTypeOK, TxAssumption
  <2>2. UNCHANGED <<txConfig, txStored, txOverlap>> BY <1>11 DEF TxCommitFails
  <2>3. CASE Again BY <1>10, <2>1, <2>2, <2>3, TxTypeUndone DEF TxTypeOK
  <2>4. CASE Told(IF txBody[0].at = "ok" THEN "err" ELSE "client")
    <3>1. txWhole' \in {"err", "client"} /\ Undone /\ txTries' = txTries BY <2>4 DEF Told
    <3> QED BY <2>1, <2>2, <3>1, TxTypeUndone DEF TxTypeOK
  <2> QED BY <1>11, <2>3, <2>4 DEF TxCommitFails
<1>12. CASE TxRollback
  <2>1. UNCHANGED <<txConfig, txStored, txOverlap>> /\ txFaults' \in 0..TxMaxFaults BY <1>12 DEF TxRollback, TxTypeOK
  <2>2. CASE Again BY <1>10, <2>1, <2>2, TxTypeUndone DEF TxTypeOK
  <2>3. CASE Told(txBody[0].at)
    <3>1. txWhole' \in {"err", "client"} /\ Undone /\ txTries' = txTries
      BY <1>12, <2>3 DEF Told, TxRollback, MayRollBack
    <3> QED BY <2>1, <3>1, TxTypeUndone DEF TxTypeOK
  <2> QED BY <1>12, <2>2, <2>3 DEF TxRollback
<1>13. CASE TxGone
  <2>1. UNCHANGED <<txConfig, txStored, txOverlap>> /\ txFaults' \in 0..TxMaxFaults BY <1>13 DEF TxGone, TxTypeOK
  <2>2. txWhole' = "gone" /\ Undone /\ txTries' = txTries BY <1>13 DEF Told, TxGone
  <2> QED BY <2>1, <2>2, TxTypeUndone DEF TxTypeOK
<1>14. CASE UNCHANGED txVars BY <1>14 DEF txVars, TxTypeOK
<1> QED BY <1>2, <1>3, <1>4, <1>5, <1>6, <1>7, <1>8, <1>9, <1>11, <1>12, <1>13, <1>14 DEF TxNext

-----------------------------------------------------------------------------
(* Steps *)

LEMMA StillAround == ASSUME UNCHANGED txConfig PROVE \A c \in TxBodies : Around(c)' = Around(c)
BY DEF Around, txConfig

LEMMA OneMoves ==
    ASSUME TxTypeOK, NEW c \in TxBodies, NEW at, txBody' = [txBody EXCEPT ![c].at = at]
    PROVE  /\ \A b \in TxBodies \ {c} : txBody'[b] = txBody[b]
           /\ txBody'[c].at = at /\ txBody'[c].wrote = txBody[c].wrote /\ txBody'[c].hurt = txBody[c].hurt
BY DEF TxTypeOK, TxBody

LEMMA OpenCalm ==
    ASSUME TxTypeOK, TxAssumption, Calm, NEW c \in TxCalls, TxOpen(c), ~txOverlap'
    PROVE  Calm'
<1> DEFINE p == txParent[c]
<1>0. UNCHANGED <<txConfig, txMade, txSince>> /\ txAborted' = txAborted /\ txPostgres' = txPostgres
  BY DEF TxOpen, txConfig
<1>1. \A b \in TxBodies : Around(b)' = Around(b) BY <1>0, StillAround
<1>2. c \in TxBodies /\ p \in TxBodies /\ c # 0 /\ Around(c) = {c} \union Around(p)
  BY AroundCall DEF TxTypeOK
<1>3. TxAt(p, "runs") /\ TxAt(c, "none") /\ Inner(p) = {} BY DEF TxOpen
<1>4. p \in Opened /\ c \notin Opened /\ c \notin Live BY <1>2, <1>3 DEF Opened, Live, TxAt, Unfinished
<1>5. \A d \in Live : d \in Around(p)
  <2>1. p = 0 \/ p \in Live BY <1>2, <1>3 DEF Live, Unfinished, TxAt, TxBodies, TxCalls
  <2> QED BY <1>2, <1>3, <2>1, AllAround
<1>6. \A b \in Opened : c \notin Around(b) BY <1>4 DEF Calm, Rooted
<1>7. ~txBody[c].wrote BY <1>2, <1>4 DEF Calm, Rooted
<1>8. \A w \in TxBodies : txBody[w].wrote => c \notin Around(w) BY <1>6 DEF Calm, Rooted
<1>9. Live \subseteq Opened BY DEF Live, Opened, Unfinished, TxAt, TxBodies, TxCalls
<1>20. TxCalls \subseteq TxBodies BY DEF TxBodies, TxCalls
<1>21. \A b \in TxBodies : Around(b) \subseteq TxBodies BY AroundIn
<1>10. CASE txAborted
  <2>1. txBody' = [txBody EXCEPT ![c].at = "failed"] /\ txSaved' = txSaved /\ txUnder' = txUnder
    BY <1>10 DEF TxOpen
  <2>2. /\ \A b \in TxBodies \ {c} : txBody'[b] = txBody[b]
        /\ txBody'[c].at = "failed" /\ txBody'[c].wrote = txBody[c].wrote
    BY <2>1, <1>2, OneMoves
  <2>3. Opened' = Opened \union {c} BY <1>2, <2>2 DEF Opened, TxAt
  <2>4. Live' = Live BY <1>2, <1>4, <1>20, <2>2 DEF Live, Unfinished
  <2>5. Rooted'
    <3>1. 0 \in Opened' BY <2>3 DEF Calm, Rooted
    <3>2. ASSUME NEW b \in Opened' PROVE Around(b)' \subseteq Opened' /\ 0 \in Around(b)'
      <4>1. CASE b \in Opened BY <4>1, <2>3, <1>1 DEF Calm, Rooted, Opened
      <4>2. CASE b = c BY <4>2, <2>3, <1>1, <1>2, <1>4 DEF Calm, Rooted
      <4> QED BY <4>1, <4>2, <2>3
    <3>3. ASSUME NEW b \in TxBodies PROVE (txBody'[b].wrote => b \in Opened') /\ txSince'[b] \subseteq Opened'
      BY <1>0, <2>2, <2>3 DEF Calm, Rooted
    <3>4. ASSUME NEW d \in TxCalls PROVE ~(txBody'[d].at = "client") /\ txUnder'[d] \subseteq Opened'
      BY <1>20, <2>1, <2>2, <2>3 DEF Calm, Rooted, TxAt
    <3>5. txSaved' \subseteq Opened' BY <2>1, <2>3 DEF Calm, Rooted
    <3> QED BY <3>1, <3>2, <3>3, <3>4, <3>5 DEF Rooted, TxAt
  <2>6. Nested'
    <3>1. ASSUME NEW d \in Live, NEW q \in Around(d) \ {d} PROVE txBody'[q].at = "runs"
      <4>1. q \in TxBodies /\ q # c BY <1>9, <1>6, <1>20, <1>21 DEF Live
      <4> QED BY <4>1, <2>2 DEF Calm, Nested, TxAt
    <3> QED BY <3>1, <2>4, <1>1, <1>20 DEF Calm, Nested, TxAt, Live
  <2>7. Placed'
    BY <2>1, <2>4, <1>0, <1>1, <1>20 DEF Calm, Placed, Live, TxTypeOK
  <2>8. MadeIs'
    <3>1. ASSUME NEW w \in TxBodies
          PROVE  (txBody'[w].wrote /\ \A d \in Around(w) \ {0} : txBody'[d].at # "failed")
                 <=> (txBody[w].wrote /\ \A d \in Around(w) \ {0} : txBody[d].at # "failed")
      <4>1. txBody'[w].wrote = txBody[w].wrote BY <2>2
      <4>2. CASE txBody[w].wrote BY <4>1, <4>2, <1>8, <1>21, <2>2
      <4> QED BY <4>1, <4>2
    <3> QED BY <3>1, <1>0, <1>1 DEF Calm, MadeIs, TxAt
  <2>9. AbortedBy'
    <3>1. PICK b \in TxBodies :
              /\ txPostgres /\ txBody[b].at \in {"runs", "err"} /\ txBody[b].hurt
              /\ \A d \in Live : b \in Around(d) => d = b BY <1>10 DEF Calm, AbortedBy
    <3>2. txBody'[b] = txBody[b] BY <3>1, <2>2, <1>3 DEF TxAt
    <3>3. \A d \in Live' : b \in Around(d)' => d = b BY <3>1, <2>4, <1>1, <1>20 DEF Live
    <3> QED BY <3>1, <3>2, <3>3, <1>0 DEF AbortedBy
  <2> QED BY <2>5, <2>6, <2>7, <2>8, <2>9 DEF Calm
<1>11. CASE ~txAborted
  <2>1. /\ txBody' = [txBody EXCEPT ![c].at = "runs"] /\ txSaved' = txSaved \union {c}
        /\ txUnder' = [txUnder EXCEPT ![c] = txSaved]
    BY <1>11 DEF TxOpen
  <2>2. /\ \A b \in TxBodies \ {c} : txBody'[b] = txBody[b]
        /\ txBody'[c].at = "runs" /\ txBody'[c].wrote = txBody[c].wrote
    BY <2>1, <1>2, OneMoves
  <2>3. Opened' = Opened \union {c} BY <1>2, <2>2 DEF Opened, TxAt
  <2>4. Live' = Live \union {c} BY <1>2, <1>4, <1>20, <2>2 DEF Live, Unfinished
  <2>10. txUnder'[c] = txSaved /\ \A d \in TxCalls \ {c} : txUnder'[d] = txUnder[d]
    BY <2>1 DEF TxTypeOK
  <2>5. Rooted'
    <3>1. 0 \in Opened' BY <2>3 DEF Calm, Rooted
    <3>2. ASSUME NEW b \in Opened' PROVE Around(b)' \subseteq Opened' /\ 0 \in Around(b)'
      <4>1. CASE b \in Opened BY <4>1, <2>3, <1>1 DEF Calm, Rooted, Opened
      <4>2. CASE b = c BY <4>2, <2>3, <1>1, <1>2, <1>4 DEF Calm, Rooted
      <4> QED BY <4>1, <4>2, <2>3
    <3>3. ASSUME NEW b \in TxBodies PROVE (txBody'[b].wrote => b \in Opened') /\ txSince'[b] \subseteq Opened'
      BY <1>0, <2>2, <2>3 DEF Calm, Rooted
    <3>4. ASSUME NEW d \in TxCalls PROVE ~(txBody'[d].at = "client") /\ txUnder'[d] \subseteq Opened'
      BY <1>20, <2>10, <2>2, <2>3 DEF Calm, Rooted, TxAt
    <3>5. txSaved' \subseteq Opened' BY <2>1, <2>3 DEF Calm, Rooted
    <3> QED BY <3>1, <3>2, <3>3, <3>4, <3>5 DEF Rooted, TxAt
  <2>6. Nested'
    <3>1. ASSUME NEW d \in Live, NEW q \in Around(d) \ {d} PROVE txBody'[q].at = "runs"
      <4>1. q \in TxBodies /\ q # c BY <1>9, <1>6, <1>20, <1>21 DEF Live
      <4> QED BY <4>1, <2>2 DEF Calm, Nested, TxAt
    <3>2. ASSUME NEW q \in Around(c) \ {c} PROVE txBody'[q].at = "runs"
      <4>1. q \in TxBodies /\ q \in Around(p) BY <1>2, <1>21
      <4>2. TxAt(q, "runs")
        <5>1. CASE q = p BY <5>1, <1>3
        <5>2. CASE q # p /\ p \in Live BY <5>2, <4>1 DEF Calm, Nested
        <5>3. CASE q # p /\ p = 0 BY <5>3, <4>1, AroundZero
        <5> QED BY <5>1, <5>2, <5>3, <1>2, <1>3 DEF Live, Unfinished, TxAt, TxBodies, TxCalls
      <4> QED BY <4>1, <4>2, <2>2 DEF TxAt
    <3>3. ASSUME NEW d \in Live', NEW e \in Live' PROVE d \in Around(e) \/ e \in Around(d)
      BY <2>4, <1>5, <1>2, AroundItself DEF Calm, Nested
    <3> QED BY <3>1, <3>2, <3>3, <2>4, <1>1, <1>2, <1>20 DEF Nested, TxAt, Live
  <2>7. Placed'
    <3>1. Live' \subseteq txSaved' BY <2>1, <2>4 DEF Calm, Placed
    <3>2. ASSUME NEW d \in Live', NEW e \in Live', d \in txUnder'[e] PROVE d \in Around(e) \ {e}
      <4>1. d # c BY <3>2, <2>4, <2>10, <1>4 DEF Calm, Rooted, Live
      <4>2. d \in Live BY <4>1, <2>4
      <4>3. CASE e = c
        <5>2. d \in Around(p) BY <4>2, <1>5
        <5>1. d \in Around(c) BY <5>2, <1>2
        <5> QED BY <4>1, <4>3, <5>1
      <4>4. CASE e \in Live
        <5>1. txUnder'[e] = txUnder[e] BY <4>4, <1>4, <2>10 DEF Live
        <5> QED BY <4>2, <4>4, <5>1, <3>2 DEF Calm, Placed
      <4> QED BY <4>3, <4>4, <2>4
    <3>3. ASSUME NEW d \in Live', NEW w \in txMade PROVE (d \in txSince[w]) <=> (d \in Around(w))
      <4>1. CASE d \in Live BY <4>1 DEF Calm, Placed
      <4>2. CASE d = c
        <5>1. w \in TxBodies /\ txBody[w].wrote BY DEF Calm, MadeIs
        <5>2. c \notin txSince[w] BY <5>1, <1>4 DEF Calm, Rooted
        <5> QED BY <4>2, <5>1, <5>2, <1>8
      <4> QED BY <4>1, <4>2, <2>4
    <3>4. txMade \subseteq TxBodies /\ Live' \subseteq TxBodies BY <2>4, <1>20, <1>2 DEF TxTypeOK, Live
    <3> QED BY <3>1, <3>2, <3>3, <3>4, <1>0, <1>1 DEF Placed
  <2>8. MadeIs'
    <3>1. ASSUME NEW w \in TxBodies
          PROVE  (txBody'[w].wrote /\ \A d \in Around(w) \ {0} : txBody'[d].at # "failed")
                 <=> (txBody[w].wrote /\ \A d \in Around(w) \ {0} : txBody[d].at # "failed")
      <4>1. txBody'[w].wrote = txBody[w].wrote BY <2>2
      <4>2. CASE txBody[w].wrote BY <4>1, <4>2, <1>8, <1>21, <2>2
      <4> QED BY <4>1, <4>2
    <3> QED BY <3>1, <1>0, <1>1 DEF Calm, MadeIs, TxAt
  <2>9. AbortedBy' BY <1>11, <1>0 DEF AbortedBy
  <2> QED BY <2>5, <2>6, <2>7, <2>8, <2>9 DEF Calm
<1> QED BY <1>10, <1>11

LEMMA WriteCalm ==
    ASSUME TxTypeOK, TxAssumption, Calm, NEW c \in TxBodies, TxWrite(c), ~txOverlap'
    PROVE  Calm'
<1>0. /\ UNCHANGED <<txConfig, txSaved, txUnder>> /\ ~txAborted /\ ~txAborted'
      /\ txMade' = txMade \union {c} /\ TxAt(c, "runs") /\ ~txBody[c].wrote /\ Inner(c) = {}
  BY DEF TxWrite
<1>1. \A b \in TxBodies : Around(b)' = Around(b) BY <1>0, StillAround
<1>2. TxCalls \subseteq TxBodies /\ \A b \in TxBodies : Around(b) \subseteq TxBodies
  BY AroundIn DEF TxBodies, TxCalls
<1>3. /\ \A b \in TxBodies \ {c} : txBody'[b] = txBody[b]
      /\ txBody'[c].at = txBody[c].at /\ txBody'[c].wrote /\ txBody'[c].hurt = txBody[c].hurt
  BY DEF TxWrite, TxTypeOK, TxBody
<1>4. \A b \in TxBodies : txBody'[b].at = txBody[b].at BY <1>3
<1>5. Opened' = Opened /\ Live' = Live BY <1>2, <1>4 DEF Opened, Live, Unfinished, TxAt
<1>6. c \in Opened /\ (c = 0 \/ c \in Live) BY <1>0 DEF Opened, Live, Unfinished, TxAt, TxBodies, TxCalls
<1>7. \A d \in Live : d \in Around(c) BY <1>0, <1>6, AllAround
<1>8. txSince'[c] = txSaved /\ \A b \in TxBodies \ {c} : txSince'[b] = txSince[b]
  BY DEF TxWrite, TxTypeOK
<1>9. c \notin txMade BY <1>0 DEF Calm, MadeIs
<1>10. Rooted'
  <2>1. 0 \in Opened' /\ \A b \in Opened' : Around(b)' \subseteq Opened' /\ 0 \in Around(b)'
    BY <1>1, <1>5 DEF Calm, Rooted, Opened
  <2>2. ASSUME NEW b \in TxBodies PROVE (txBody'[b].wrote => b \in Opened') /\ txSince'[b] \subseteq Opened'
    BY <1>3, <1>5, <1>6, <1>8 DEF Calm, Rooted
  <2>3. ASSUME NEW d \in TxCalls PROVE ~(txBody'[d].at = "client") /\ txUnder'[d] \subseteq Opened'
    BY <1>0, <1>2, <1>4, <1>5 DEF Calm, Rooted, TxAt
  <2>4. txSaved' \subseteq Opened' BY <1>0, <1>5 DEF Calm, Rooted
  <2> QED BY <2>1, <2>2, <2>3, <2>4 DEF Rooted, TxAt
<1>11. Nested' BY <1>1, <1>2, <1>4, <1>5 DEF Calm, Nested, TxAt, Live
<1>12. Placed'
  <2>1. ASSUME NEW d \in Live, NEW w \in txMade' PROVE (d \in txSince'[w]) <=> (d \in Around(w))
    <3>1. CASE w = c BY <3>1, <1>7, <1>8 DEF Calm, Placed
    <3>2. CASE w \in txMade
      <4>1. w \in TxBodies /\ w # c BY <3>2, <1>9 DEF TxTypeOK
      <4> QED BY <3>2, <4>1, <1>8 DEF Calm, Placed
    <3> QED BY <3>1, <3>2, <1>0
  <2>2. txMade' \subseteq TxBodies BY <1>0 DEF TxTypeOK
  <2>3. Live \subseteq TxBodies BY <1>2 DEF Live
  <2>4. \A d \in Live, e \in Live : d \in txUnder'[e] => d \in Around(e) \ {e} BY <1>0 DEF Calm, Placed
  <2>5. Live \subseteq txSaved' BY <1>0 DEF Calm, Placed
  <2> QED BY <2>1, <2>2, <2>3, <2>4, <2>5, <1>1, <1>5 DEF Placed
<1>13. MadeIs'
  <2>1. \A d \in Around(c) \ {0} : ~TxAt(d, "failed")
    <3> SUFFICES ASSUME NEW d \in Around(c) \ {0} PROVE ~TxAt(d, "failed") OBVIOUS
    <3>1. CASE d = c BY <3>1, <1>0 DEF TxAt
    <3>2. CASE d # c /\ c = 0 BY <3>2, AroundZero
    <3>3. CASE d # c /\ c \in Live
      <4>1. TxAt(d, "runs") BY <3>3 DEF Calm, Nested
      <4> QED BY <4>1 DEF TxAt
    <3> QED BY <3>1, <3>2, <3>3, <1>6
  <2>2. ASSUME NEW w \in TxBodies
        PROVE  (txBody'[w].wrote /\ \A d \in Around(w) \ {0} : txBody'[d].at # "failed")
               <=> (w = c \/ (txBody[w].wrote /\ \A d \in Around(w) \ {0} : ~TxAt(d, "failed")))
    <3>1. \A d \in Around(w) \ {0} : txBody'[d].at = txBody[d].at BY <1>2, <1>4
    <3> QED BY <3>1, <2>1, <1>3 DEF TxAt
  <2>3. txMade' = {w \in TxBodies : txBody'[w].wrote /\ \A d \in Around(w) \ {0} : txBody'[d].at # "failed"}
    BY <2>2, <1>0 DEF Calm, MadeIs
  <2> QED BY <2>3, <1>1 DEF MadeIs, TxAt
<1>14. AbortedBy' BY <1>0 DEF AbortedBy
<1> QED BY <1>10, <1>11, <1>12, <1>13, <1>14 DEF Calm

LEMMA StatementFailsCalm ==
    ASSUME TxTypeOK, TxAssumption, Calm, NEW c \in TxBodies, TxStatementFails(c), ~txOverlap'
    PROVE  Calm'
<1>0. /\ UNCHANGED <<txConfig, txSaved, txUnder, txMade, txSince>> /\ txAborted' = (txAborted \/ txPostgres)
      /\ TxAt(c, "runs") /\ Inner(c) = {} /\ txPostgres' = txPostgres
  BY DEF TxStatementFails, txLog, txConfig
<1>1. \A b \in TxBodies : Around(b)' = Around(b) BY <1>0, StillAround
<1>2. TxCalls \subseteq TxBodies /\ \A b \in TxBodies : Around(b) \subseteq TxBodies
  BY AroundIn DEF TxBodies, TxCalls
<1>3. /\ \A b \in TxBodies : txBody'[b].at = txBody[b].at /\ txBody'[b].wrote = txBody[b].wrote
      /\ txBody'[c].hurt
  BY DEF TxStatementFails, TxTypeOK, TxBody
<1>5. Opened' = Opened /\ Live' = Live BY <1>2, <1>3 DEF Opened, Live, Unfinished, TxAt
<1>10. Rooted'
  <2>1. 0 \in Opened' /\ \A b \in Opened' : Around(b)' \subseteq Opened' /\ 0 \in Around(b)'
    BY <1>1, <1>5 DEF Calm, Rooted, Opened
  <2>2. ASSUME NEW b \in TxBodies PROVE (txBody'[b].wrote => b \in Opened') /\ txSince'[b] \subseteq Opened'
    BY <1>0, <1>3, <1>5 DEF Calm, Rooted
  <2>3. ASSUME NEW d \in TxCalls PROVE ~(txBody'[d].at = "client") /\ txUnder'[d] \subseteq Opened'
    BY <1>0, <1>2, <1>3, <1>5 DEF Calm, Rooted, TxAt
  <2>4. txSaved' \subseteq Opened' BY <1>0, <1>5 DEF Calm, Rooted
  <2> QED BY <2>1, <2>2, <2>3, <2>4 DEF Rooted, TxAt
<1>11. Nested' BY <1>1, <1>2, <1>3, <1>5 DEF Calm, Nested, TxAt, Live
<1>12. Placed' BY <1>0, <1>1, <1>2, <1>5 DEF Calm, Placed, Live, TxTypeOK
<1>13. MadeIs'
  <2>2. ASSUME NEW w \in TxBodies
        PROVE  (txBody'[w].wrote /\ \A d \in Around(w) \ {0} : txBody'[d].at # "failed")
               <=> (txBody[w].wrote /\ \A d \in Around(w) \ {0} : ~TxAt(d, "failed"))
    <3>1. \A d \in Around(w) \ {0} : txBody'[d].at = txBody[d].at BY <1>2, <1>3
    <3> QED BY <3>1, <1>3 DEF TxAt
  <2> QED BY <2>2, <1>0, <1>1 DEF Calm, MadeIs, TxAt
<1>14. AbortedBy'
  <2>1. CASE txPostgres
    <3>1. \A d \in Live' : c \in Around(d)' => d = c BY <1>0, <1>1, <1>2, <1>5, NoneInside DEF Live
    <3>2. txBody'[c].at = "runs" BY <1>0, <1>3 DEF TxAt
    <3> QED BY <3>1, <3>2, <2>1, <1>0, <1>3 DEF AbortedBy
  <2>2. CASE ~txPostgres BY <2>2, <1>0 DEF Calm, AbortedBy
  <2> QED BY <2>1, <2>2
<1> QED BY <1>10, <1>11, <1>12, <1>13, <1>14 DEF Calm

LEMMA ReturnCalm ==
    ASSUME TxTypeOK, TxAssumption, Calm, NEW c \in TxBodies, NEW outcome \in {"ok", "client", "err"},
           TxReturn(c, outcome), ~txOverlap'
    PROVE  Calm'
<1>0. /\ UNCHANGED <<txConfig, txSaved, txUnder, txMade, txSince, txAborted>> /\ TxAt(c, "runs")
      /\ txPostgres' = txPostgres /\ Below(c) = {} /\ (outcome = "client" => c = 0)
      /\ ~(txPostgres /\ txBody[c].hurt /\ outcome # "err")
  BY DEF TxReturn, txLog, txConfig
<1>1. \A b \in TxBodies : Around(b)' = Around(b) BY <1>0, StillAround
<1>2. TxCalls \subseteq TxBodies /\ (\A b \in TxBodies : Around(b) \subseteq TxBodies) /\ 0 \notin TxCalls
  BY AroundIn DEF TxBodies, TxCalls
<1>3. txBody' = [txBody EXCEPT ![c].at = outcome] BY <1>0, NoneBelow DEF TxReturn
<1>4. /\ \A b \in TxBodies \ {c} : txBody'[b] = txBody[b]
      /\ txBody'[c].at = outcome /\ txBody'[c].wrote = txBody[c].wrote /\ txBody'[c].hurt = txBody[c].hurt
  BY <1>3, OneMoves
<1>5. Opened' = Opened BY <1>0, <1>4 DEF Opened, TxAt
<1>6. Live' = Live
  <2>1. ASSUME NEW d \in TxCalls
        PROVE  txBody'[d].at \in {"runs", "ok", "err"} <=> txBody[d].at \in {"runs", "ok", "err"}
    BY <1>0, <1>2, <1>4 DEF TxAt
  <2> QED BY <2>1 DEF Live, Unfinished
<1>7. \A d \in Live : c \in Around(d) => d = c BY <1>0 DEF Below, Live
<1>10. Rooted'
  <2>1. 0 \in Opened' /\ \A b \in Opened' : Around(b)' \subseteq Opened' /\ 0 \in Around(b)'
    BY <1>1, <1>5 DEF Calm, Rooted, Opened
  <2>2. ASSUME NEW b \in TxBodies PROVE (txBody'[b].wrote => b \in Opened') /\ txSince'[b] \subseteq Opened'
    BY <1>0, <1>4, <1>5 DEF Calm, Rooted
  <2>3. ASSUME NEW d \in TxCalls PROVE ~(txBody'[d].at = "client") /\ txUnder'[d] \subseteq Opened'
    BY <1>0, <1>2, <1>4, <1>5 DEF Calm, Rooted, TxAt
  <2>4. txSaved' \subseteq Opened' BY <1>0, <1>5 DEF Calm, Rooted
  <2> QED BY <2>1, <2>2, <2>3, <2>4 DEF Rooted, TxAt
<1>11. Nested'
  <2>1. ASSUME NEW d \in Live, NEW q \in Around(d) \ {d} PROVE txBody'[q].at = "runs"
    <3>1. q \in TxBodies /\ q # c BY <1>2, <1>7 DEF Live
    <3> QED BY <3>1, <1>4 DEF Calm, Nested, TxAt
  <2> QED BY <2>1, <1>1, <1>2, <1>6 DEF Calm, Nested, TxAt, Live
<1>12. Placed' BY <1>0, <1>1, <1>2, <1>6 DEF Calm, Placed, Live, TxTypeOK
<1>13. MadeIs'
  <2>2. ASSUME NEW w \in TxBodies
        PROVE  (txBody'[w].wrote /\ \A d \in Around(w) \ {0} : txBody'[d].at # "failed")
               <=> (txBody[w].wrote /\ \A d \in Around(w) \ {0} : ~TxAt(d, "failed"))
    <3>1. \A d \in Around(w) \ {0} : txBody'[d].at = "failed" <=> TxAt(d, "failed") BY <1>0, <1>2, <1>4 DEF TxAt
    <3> QED BY <3>1, <1>4
  <2> QED BY <2>2, <1>0, <1>1 DEF Calm, MadeIs, TxAt
<1>14. AbortedBy'
  <2>1. CASE txAborted
    <3>1. PICK b \in TxBodies :
              /\ txPostgres /\ txBody[b].at \in {"runs", "err"} /\ txBody[b].hurt
              /\ \A d \in Live : b \in Around(d) => d = b BY <2>1 DEF Calm, AbortedBy
    <3>2. txBody'[b].at \in {"runs", "err"} /\ txBody'[b].hurt BY <3>1, <1>0, <1>4
    <3>3. \A d \in Live' : b \in Around(d)' => d = b BY <3>1, <1>6, <1>1, <1>2 DEF Live
    <3> QED BY <3>1, <3>2, <3>3, <1>0 DEF AbortedBy
  <2>2. CASE ~txAborted BY <2>2, <1>0 DEF AbortedBy
  <2> QED BY <2>1, <2>2
<1> QED BY <1>10, <1>11, <1>12, <1>13, <1>14 DEF Calm

\* A call whose body has ended ends, its savepoint and those after it going.
LEMMA EndCalm ==
    ASSUME TxTypeOK, TxAssumption, Calm, NEW c \in Live, ~TxAt(c, "runs"), NEW at \in {"kept", "failed"},
           txBody' = [txBody EXCEPT ![c].at = at],
           txSaved' \subseteq txSaved, txSaved \ ({c} \union After(c)) \subseteq txSaved',
           txMade' = IF at = "kept" THEN txMade ELSE {d \in txMade : c \notin txSince[d]},
           ~txAborted', UNCHANGED <<txConfig, txUnder, txSince>>
    PROVE  Calm'
<1>0. TxCalls \subseteq TxBodies /\ (\A b \in TxBodies : Around(b) \subseteq TxBodies) /\ 0 \notin TxCalls
  BY AroundIn DEF TxBodies, TxCalls
<1>1. \A b \in TxBodies : Around(b)' = Around(b) BY StillAround
<1>2. c \in TxBodies /\ c # 0 /\ c \in TxCalls /\ Unfinished(c) BY <1>0 DEF Live
<1>4. /\ \A b \in TxBodies \ {c} : txBody'[b] = txBody[b]
      /\ txBody'[c].at = at /\ txBody'[c].wrote = txBody[c].wrote
  BY <1>2, OneMoves
<1>5. Opened' = Opened BY <1>2, <1>4 DEF Opened, TxAt, Unfinished
<1>6. Live' = Live \ {c} BY <1>0, <1>4 DEF Live, Unfinished
<1>7. \A d \in Live \ {c} : c \notin Around(d) BY DEF Calm, Nested
<1>10. Rooted'
  <2>1. 0 \in Opened' /\ \A b \in Opened' : Around(b)' \subseteq Opened' /\ 0 \in Around(b)'
    BY <1>1, <1>5 DEF Calm, Rooted, Opened
  <2>2. ASSUME NEW b \in TxBodies PROVE (txBody'[b].wrote => b \in Opened') /\ txSince'[b] \subseteq Opened'
    BY <1>4, <1>5 DEF Calm, Rooted
  <2>3. ASSUME NEW d \in TxCalls PROVE ~(txBody'[d].at = "client") /\ txUnder'[d] \subseteq Opened'
    BY <1>0, <1>4, <1>5 DEF Calm, Rooted, TxAt
  <2>4. txSaved' \subseteq Opened' BY <1>5 DEF Calm, Rooted
  <2> QED BY <2>1, <2>2, <2>3, <2>4 DEF Rooted, TxAt
<1>11. Nested'
  <2>1. ASSUME NEW d \in Live \ {c}, NEW q \in Around(d) \ {d} PROVE txBody'[q].at = "runs"
    <3>1. q \in TxBodies /\ q # c BY <1>0, <1>7 DEF Live
    <3> QED BY <3>1, <1>4 DEF Calm, Nested, TxAt
  <2> QED BY <2>1, <1>1, <1>0, <1>6 DEF Calm, Nested, TxAt, Live
<1>12. Placed'
  <2>1. Live' \subseteq txSaved'
    <3> SUFFICES ASSUME NEW d \in Live \ {c} PROVE d \in txSaved' BY <1>6
    <3>1. d \in txSaved BY DEF Calm, Placed
    <3>2. d \notin After(c) BY <1>7 DEF Calm, Placed, After
    <3> QED BY <3>1, <3>2
  <2>2. \A d \in Live', e \in Live' : d \in txUnder'[e] => d \in Around(e) \ {e} BY <1>6 DEF Calm, Placed
  <2>3. \A d \in Live', w \in txMade' : (d \in txSince'[w]) <=> (d \in Around(w)) BY <1>6 DEF Calm, Placed
  <2>4. Live' \subseteq TxBodies /\ txMade' \subseteq TxBodies BY <1>0, <1>6 DEF Live, TxTypeOK
  <2> QED BY <2>1, <2>2, <2>3, <2>4, <1>1 DEF Placed
<1>13. MadeIs'
  <2>1. ASSUME NEW w \in TxBodies
        PROVE  (txBody'[w].wrote /\ \A d \in Around(w) \ {0} : txBody'[d].at # "failed")
               <=> (w \in txMade /\ (at = "failed" => c \notin Around(w)))
    <3>1. \A d \in Around(w) \ {0} : txBody'[d].at = "failed" <=> (IF d = c THEN at = "failed" ELSE TxAt(d, "failed"))
      BY <1>0, <1>4 DEF TxAt
    <3>2. ~TxAt(c, "failed") BY <1>2 DEF TxAt, Unfinished
    <3>3. txBody'[w].wrote = txBody[w].wrote BY <1>4
    <3>4. w \in txMade <=> (txBody[w].wrote /\ \A d \in Around(w) \ {0} : ~TxAt(d, "failed"))
      BY DEF Calm, MadeIs
    <3> QED BY <3>1, <3>2, <3>3, <3>4, <1>2
  <2>2. txMade \subseteq TxBodies /\ \A w \in txMade : (c \in txSince[w]) <=> (c \in Around(w))
    BY DEF Calm, Placed, TxTypeOK
  <2>3. txMade' = {w \in TxBodies : w \in txMade /\ (at = "failed" => c \notin Around(w))}
    BY <2>2
  <2>4. txMade' = {w \in TxBodies : txBody'[w].wrote /\ \A d \in Around(w) \ {0} : txBody'[d].at # "failed"}
    BY <2>1, <2>3
  <2> QED BY <2>4, <1>1 DEF MadeIs, TxAt
<1>14. AbortedBy' BY DEF AbortedBy
<1> QED BY <1>10, <1>11, <1>12, <1>13, <1>14 DEF Calm

\* A call whose body returned Ok is not released in an aborted transaction.
LEMMA ReleaseFinds ==
    ASSUME TxTypeOK, TxAssumption, Calm, NEW c \in Live, TxAt(c, "ok")
    PROVE  c \in txSaved /\ ~txAborted
<1>1. c \in TxBodies /\ c # 0 BY DEF Live, TxBodies, TxCalls
<1> SUFFICES ASSUME txAborted PROVE FALSE BY DEF Calm, Placed
<1>2. PICK b \in TxBodies :
          /\ txBody[b].at \in {"runs", "err"}
          /\ \A d \in Live : b \in Around(d) => d = b BY DEF Calm, AbortedBy
<1>3. b # c BY <1>2 DEF TxAt
<1>4. CASE b = 0
  <2>1. c \in Opened BY <1>1 DEF Opened, TxAt
  <2>2. 0 \in Around(c) BY <2>1 DEF Calm, Rooted
  <2> QED BY <1>2, <1>3, <1>4, <2>2
<1>5. CASE b # 0
  <2>1. b \in Live BY <1>2, <1>5 DEF Live, Unfinished, TxBodies, TxCalls
  <2>2. b \in Around(c) \/ c \in Around(b) BY <2>1 DEF Calm, Nested
  <2>3. c \in Around(b) \ {b} BY <2>2, <1>2, <1>3
  <2>4. TxAt(c, "runs") BY <2>1, <2>3 DEF Calm, Nested
  <2> QED BY <2>4 DEF TxAt
<1> QED BY <1>4, <1>5

LEMMA ReleaseCalm ==
    ASSUME TxTypeOK, TxAssumption, Calm, NEW c \in TxCalls, TxRelease(c) PROVE Calm'
<1>1. c \in Live /\ TxAt(c, "ok") /\ ~TxAt(c, "runs") BY DEF TxRelease, Live, TxAt, Unfinished
<1>2. Has(c) /\ ~txAborted BY <1>1, ReleaseFinds DEF Has
<1>3. /\ txSaved' = txSaved \ ({c} \union After(c)) /\ txBody' = [txBody EXCEPT ![c].at = "kept"]
      /\ ~txAborted' /\ txMade' = txMade /\ UNCHANGED <<txConfig, txUnder, txSince>>
  BY <1>2 DEF TxRelease
<1>4. PICK at \in {"kept", "failed"} : at = "kept" OBVIOUS
<1> QED BY <1>1, <1>3, <1>4, EndCalm

LEMMA RollbackToCalm ==
    ASSUME TxTypeOK, TxAssumption, Calm, NEW c \in TxCalls, TxRollbackTo(c) PROVE Calm'
<1>1. c \in Live /\ ~TxAt(c, "runs") BY DEF TxRollbackTo, Live, TxAt, Unfinished
<1>2. Has(c) BY <1>1 DEF Calm, Placed, Has
<1>3. /\ txSaved' = txSaved \ After(c) /\ txBody' = [txBody EXCEPT ![c].at = "failed"]
      /\ ~txAborted' /\ txMade' = {d \in txMade : c \notin txSince[d]}
      /\ UNCHANGED <<txConfig, txUnder, txSince>>
  BY <1>2 DEF TxRollbackTo
<1>4. PICK at \in {"kept", "failed"} : at = "failed" OBVIOUS
<1> QED BY <1>1, <1>3, <1>4, EndCalm

NothingDone ==
    /\ txBody = TxFresh /\ txSaved = {} /\ txMade = {} /\ ~txAborted
    /\ txUnder = [c \in TxCalls |-> {}] /\ txSince = [c \in TxBodies |-> {}]

\* A try begins with nothing done.
LEMMA FreshCalm == NothingDone => Calm
<1> SUFFICES ASSUME NothingDone PROVE Calm OBVIOUS
<1> USE TxAssumption DEF NothingDone
<1>1. 0 \in TxBodies /\ TxCalls \subseteq TxBodies /\ 0 \notin TxCalls BY DEF TxBodies, TxCalls, TxAssumption
<1>2. /\ txBody[0].at = "runs" /\ ~txBody[0].wrote
      /\ \A b \in TxBodies \ {0} : txBody[b].at = "none" /\ ~txBody[b].wrote
  BY <1>1 DEF TxFresh, TxNone
<1>3. Opened = {0} /\ Live = {} BY <1>1, <1>2 DEF Opened, Live, TxAt, Unfinished
<1>4. Rooted
  <2>1. Around(0) = {0} BY AroundZero
  <2>2. \A b \in TxBodies : ~txBody[b].wrote BY <1>2
  <2>3. \A c \in TxCalls : ~TxAt(c, "client") BY <1>1, <1>2 DEF TxAt
  <2> QED BY <1>3, <2>1, <2>2, <2>3 DEF Rooted
<1>5. MadeIs BY <1>2 DEF MadeIs
<1> QED BY <1>3, <1>4, <1>5 DEF Calm, Nested, Placed, AbortedBy

\* When the transaction's own body has returned and may commit, every call has
\* ended and what was written and not rolled back is what the bodies that
\* returned Ok wrote.
LEMMA CommitFinds ==
    ASSUME TxTypeOK, TxAssumption, Calm, MayCommit
    PROVE  txMade = Kept /\ (TxAt(0, "ok") => ~txAborted)
<1>1. 0 \in TxBodies /\ TxCalls \subseteq TxBodies BY DEF TxBodies, TxCalls, TxAssumption
<1>2. ~TxAt(0, "runs") BY DEF MayCommit, TxAt
<1>3. Live = {}
  <2> SUFFICES ASSUME NEW d \in Live PROVE FALSE OBVIOUS
  <2>1. d \in Opened /\ d # 0 BY <1>1 DEF Live, Opened, Unfinished, TxAt, TxCalls
  <2>2. 0 \in Around(d) \ {d} BY <2>1 DEF Calm, Rooted
  <2> QED BY <2>2, <1>2 DEF Calm, Nested
<1>4. ASSUME NEW w \in TxBodies, txBody[w].wrote, NEW d \in Around(w) \ {0}
      PROVE  TxAt(d, "kept") <=> ~TxAt(d, "failed")
  <2>1. d \in Opened BY <1>4 DEF Calm, Rooted
  <2>2. d \in TxCalls /\ d \in TxBodies BY AroundIn DEF TxBodies, TxCalls
  <2>3. ~Unfinished(d) BY <2>2, <1>3 DEF Live
  <2>4. txBody[d].at # "none" /\ txBody[d].at # "client" BY <2>1, <2>2 DEF Opened, TxAt, Calm, Rooted
  <2>5. txBody[d].at \in {"none", "runs", "ok", "client", "err", "kept", "failed"} BY <2>2 DEF TxTypeOK, TxBody
  <2> QED BY <2>3, <2>4, <2>5 DEF Unfinished, TxAt
<1>5. txMade = Kept BY <1>4 DEF Calm, MadeIs, Kept
<1>6. ASSUME TxAt(0, "ok"), txAborted PROVE FALSE
  <2>1. PICK b \in TxBodies : txBody[b].at \in {"runs", "err"} BY <1>6 DEF Calm, AbortedBy
  <2>2. b # 0 BY <2>1, <1>6 DEF TxAt
  <2>3. b \in Live BY <2>1, <2>2 DEF Live, Unfinished, TxBodies, TxCalls
  <2> QED BY <2>3, <1>3
<1> QED BY <1>5, <1>6

LEMMA TxStart == ASSUME TxAssumption, TxInit PROVE TxIInv
<1>1. TxTypeOK BY TxTypeInit
<1>2. NothingDone BY DEF TxInit, NothingDone
<1>3. Calm BY <1>2, FreshCalm
<1> QED BY <1>1, <1>3 DEF TxIInv, TxInit, CommitsWhatReturnedOk

LEMMA TxStep == ASSUME TxAssumption, TxIInv, [TxNext]_txVars PROVE TxIInv'
<1>1. TxTypeOK' BY TxTypeStep DEF TxIInv
<1> DEFINE Open == txWhole = "open" /\ txWhole' = "open" /\ txStored' = txStored
           GoesOn == Open /\ (txOverlap => txOverlap')
<1>2. ASSUME GoesOn, ~txOverlap' => Calm' PROVE TxIInv'
  BY <1>1, <1>2 DEF TxIInv, CommitsWhatReturnedOk
<1>3. ASSUME txWhole = "open", txWhole' \in {"err", "client", "gone"}, txStored' = txStored PROVE TxIInv'
  BY <1>1, <1>3 DEF TxIInv, CommitsWhatReturnedOk
<1>4. ASSUME Undone PROVE Calm'
  <2>1. NothingDone' BY <1>4 DEF Undone, NothingDone
  <2>2. (NothingDone => Calm)' BY FreshCalm, PTL
  <2> QED BY <2>1, <2>2
<1>5. ASSUME NEW c \in TxCalls, TxOpen(c) PROVE TxIInv'
  <2>1. GoesOn BY <1>5 DEF TxOpen
  <2>2. ~txOverlap' => Calm' BY <2>1, <1>5, OpenCalm DEF TxIInv
  <2> QED BY <2>1, <2>2, <1>2
<1>6. ASSUME NEW c \in TxCalls, TxRelease(c) PROVE TxIInv'
  <2>1. GoesOn BY <1>6 DEF TxRelease
  <2>2. ~txOverlap' => Calm' BY <2>1, <1>6, ReleaseCalm DEF TxIInv
  <2> QED BY <2>1, <2>2, <1>2
<1>7. ASSUME NEW c \in TxCalls, TxRollbackTo(c) PROVE TxIInv'
  <2>1. GoesOn BY <1>7 DEF TxRollbackTo
  <2>2. ~txOverlap' => Calm' BY <2>1, <1>7, RollbackToCalm DEF TxIInv
  <2> QED BY <2>1, <2>2, <1>2
<1>8. ASSUME NEW c \in TxCalls, TxDrop(c) PROVE TxIInv'
  <2>1. GoesOn /\ txOverlap' BY <1>8 DEF TxDrop
  <2> QED BY <2>1, <1>2
<1>9. ASSUME NEW c \in TxBodies, TxWrite(c) PROVE TxIInv'
  <2>1. GoesOn BY <1>9 DEF TxWrite
  <2>2. ~txOverlap' => Calm' BY <2>1, <1>9, WriteCalm DEF TxIInv
  <2> QED BY <2>1, <2>2, <1>2
<1>10. ASSUME NEW c \in TxBodies, TxStatementFails(c) PROVE TxIInv'
  <2>1. GoesOn BY <1>10 DEF TxStatementFails
  <2>2. ~txOverlap' => Calm' BY <2>1, <1>10, StatementFailsCalm DEF TxIInv
  <2> QED BY <2>1, <2>2, <1>2
<1>11. ASSUME NEW c \in TxBodies, NEW outcome \in {"ok", "client", "err"}, TxReturn(c, outcome) PROVE TxIInv'
  <2>1. GoesOn BY <1>11 DEF TxReturn
  <2>2. ~txOverlap' => Calm' BY <2>1, <1>11, ReturnCalm DEF TxIInv
  <2> QED BY <2>1, <2>2, <1>2
<1>12. CASE TxCommit
  <2>1. /\ txWhole = "open" /\ MayCommit /\ txWhole' = txBody[0].at /\ txOverlap' = txOverlap
        /\ txStored' = IF txAborted THEN {} ELSE txMade
    BY <1>12 DEF TxCommit
  <2>2. txWhole' \in {"ok", "client"} BY <2>1 DEF MayCommit
  <2>3. Kept' = Kept BY <1>12 DEF TxCommit, Kept, Around, TxAt, txConfig
  <2>4. ~txOverlap => txMade = Kept /\ (TxAt(0, "ok") => ~txAborted) BY <2>1, CommitFinds DEF TxIInv
  <2>5. CommitsWhatReturnedOk' BY <2>1, <2>2, <2>3, <2>4 DEF CommitsWhatReturnedOk, TxAt
  <2> QED BY <1>1, <2>2, <2>5 DEF TxIInv
<1>13. ASSUME Again PROVE txWhole' = txWhole /\ Undone BY <1>13 DEF Again
<1>14. CASE TxCommitFails
  <2>1. txWhole = "open" /\ UNCHANGED <<txStored, txOverlap>> BY <1>14 DEF TxCommitFails
  <2>2. CASE Again BY <2>1, <2>2, <1>2, <1>4, <1>13
  <2>3. CASE Told(IF txBody[0].at = "ok" THEN "err" ELSE "client") BY <2>1, <2>3, <1>3 DEF Told
  <2> QED BY <2>2, <2>3, <1>14 DEF TxCommitFails
<1>15. CASE TxRollback
  <2>1. txWhole = "open" /\ UNCHANGED <<txStored, txOverlap>> BY <1>15 DEF TxRollback
  <2>2. CASE Again BY <2>1, <2>2, <1>2, <1>4, <1>13
  <2>3. CASE Told(txBody[0].at) BY <1>15, <2>1, <2>3, <1>3 DEF Told, TxRollback, MayRollBack
  <2> QED BY <2>2, <2>3, <1>15 DEF TxRollback
<1>16. CASE TxGone BY <1>16, <1>3 DEF TxGone, Told
<1>17. CASE UNCHANGED txVars
  <2>1. Kept' = Kept BY <1>17 DEF txVars, Kept, Around, TxAt
  <2>2. CommitsWhatReturnedOk' BY <2>1, <1>17 DEF TxIInv, CommitsWhatReturnedOk, txVars
  <2>3. Calm => Calm'
    <3>1. \A c \in TxBodies : Around(c)' = Around(c) BY <1>17 DEF txVars, Around
    <3>2. Opened' = Opened /\ Live' = Live BY <1>17 DEF txVars, Opened, Live, Unfinished, TxAt
    <3>3. Opened \subseteq TxBodies /\ Live \subseteq TxBodies BY DEF Opened, Live, TxBodies, TxCalls
    <3>4. Rooted => Rooted' BY <3>1, <3>2, <3>3, <1>17 DEF txVars, Rooted, TxAt
    <3>5. Nested => Nested' BY <3>1, <3>2, <3>3, <1>17 DEF txVars, Nested, TxAt
    <3>6. Placed => Placed' BY <3>1, <3>2, <3>3, <1>17 DEF txVars, Placed, TxIInv, TxTypeOK
    <3>7. MadeIs => MadeIs' BY <3>1, <1>17 DEF txVars, MadeIs, TxAt
    <3>8. AbortedBy => AbortedBy' BY <3>1, <3>2, <3>3, <1>17 DEF txVars, AbortedBy
    <3> QED BY <3>4, <3>5, <3>6, <3>7, <3>8 DEF Calm
  <2> QED BY <1>1, <1>17, <2>2, <2>3 DEF TxIInv, txVars
<1> QED BY <1>5, <1>6, <1>7, <1>8, <1>9, <1>10, <1>11, <1>12, <1>14, <1>15, <1>16, <1>17 DEF TxNext

\* Tx::savepoint and the layer: however a body's savepoints nest and fail, a
\* caller told of a success finds what the bodies that returned Ok wrote, and any
\* other finds nothing.
THEOREM Commits == TxSpec => []CommitsWhatReturnedOk
<1>1. TxInit => TxIInv BY TxAssumption, TxStart
<1>2. TxIInv /\ [TxNext]_txVars => TxIInv' BY TxAssumption, TxStep
<1>3. TxIInv => CommitsWhatReturnedOk BY DEF TxIInv
<1> QED BY <1>1, <1>2, <1>3, PTL DEF TxSpec

-----------------------------------------------------------------------------
(* The parts beside each other. *)

ClaimsIInv == PgIInv /\ MgTypeOK /\ MgIInv /\ OnIInv /\ TxIInv /\ TkIInv /\ KsIInv

\* The queue, the migrations, the ledger, the transaction, the tokens and the pages
\* keep their types, and what each promises holds beside the others.
THEOREM ClaimsKeepTheirWord ==
    MCSpec => [](/\ ClaimsCoherent
                 /\ OneAtATime /\ LedgerTruth /\ CommitsWhatReturnedOk /\ OneHeir /\ WalkIsExact)
<1>1. MCInit => ClaimsIInv
  BY TxAssumption, PgInvInit, MgTypeInit, MgInvInit, OnInvInit, TxStart, TkInvInit, KsInvInit
     DEF MCInit, ClaimsIInv
<1>2. ClaimsIInv /\ [MCNext]_MCVars => ClaimsIInv'
  <2>1. ASSUME [MCNext]_MCVars
        PROVE  /\ [Next]_vars /\ [MgNext]_mgVars /\ [OnNext]_onVars
               /\ [TxNext]_txVars /\ [TkNext]_tkVars /\ [KsNext]_ksVars
    BY <2>1 DEF MCNext, MCVars
  <2> QED BY <2>1, TxAssumption, PgInvStep, MgTypeStep, MgInvStep, OnInvStep, TxStep, TkInvStep, KsInvStep
          DEF ClaimsIInv
<1>3. ClaimsIInv => /\ ClaimsCoherent
                    /\ OneAtATime /\ LedgerTruth /\ CommitsWhatReturnedOk /\ OneHeir /\ WalkIsExact
  <2>1. ClaimsIInv => ClaimsCoherent
    BY SqlNow DEF ClaimsIInv, ClaimsCoherent, ClaimsTypeOK, PgIInv, OnIInv, TxIInv, TkIInv, KsIInv
  <2>2. MgIInv => OneAtATime /\ LedgerTruth BY DEF MgIInv, MgHeld, OneAtATime
  <2> QED BY <2>1, <2>2, OneHeirNow, ExactNow DEF ClaimsIInv, TxIInv
<1> QED BY <1>1, <1>2, <1>3, PTL DEF MCSpec
=============================================================================
