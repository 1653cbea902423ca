---------------------------- MODULE LoopsProofs -----------------------------
(***************************************************************************)
(* What callers may rely on of the parts that go round: the outbox, for    *)
(* any number of relays, the scheduler, for any number of processes and    *)
(* any period, the circuit breaker and the read-through cache, for any     *)
(* number of callers, and the types of all of them and of the shutdown,    *)
(* beside each other.                                                      *)
(***************************************************************************)
EXTENDS MCLoops, SequenceTheorems, FiniteSetTheorems, TLAPS

-----------------------------------------------------------------------------
(***************************************************************************)
(* The outbox.                                                             *)
(*                                                                         *)
(* How often a body is started is bounded by who may still push its row:   *)
(* a relay that finds the row in the table, or read it, and that has not   *)
(* pushed it in this pass.  A push takes the relay out of these, the       *)
(* delete takes everybody out who has not read the row, and only a pass    *)
(* that is cut short between the two puts a relay back.                    *)
(***************************************************************************)

\* The relay's push of j is done and its delete is not.
Pushed(r, j) == obRelay[r].pushed /\ j \in Oldest(obRelay[r].batch)

MayPush(j) ==
    {r \in ObRelays : (j \in obTable \/ j \in obRelay[r].batch) /\ ~Pushed(r, j)}

\* Bodies started, and the one that waits for a worker.
Starts(j) == obRuns[j] + IF obInner[j] = "waiting" THEN 1 ELSE 0

Reached(j) == obInner[j] # "absent" \/ obRuns[j] > 0

Rows ==
    \A j \in ObJobs :
        /\ j \in obTable => obTx[j] \in {"open", "committed"}
        /\ obTx[j] = "open" => j \in obTable
        /\ obInner[j] = "leased" => obRuns[j] > 0
        /\ IF obTx[j] = "committed"
           THEN j \in obTable \/ Reached(j)
           ELSE obInner[j] = "absent" /\ obRuns[j] = 0
        /\ \A i \in ObJobs :
              (i # j /\ obTx[i] # "none" /\ obTx[j] # "none") => (i \in obBefore[j] \/ j \in obBefore[i])

Passes ==
    \A r \in ObRelays :
        /\ obRelay[r].pushed => Passing(r)
        /\ \A j \in obRelay[r].batch : obTx[j] = "committed"
        /\ \A j \in ObJobs : Pushed(r, j) => Reached(j)

Bounded ==
    \A j \in ObJobs : Starts(j) + Cardinality(MayPush(j)) <= Cardinality(ObRelays) + obFaults

ObIInv == ObTypeOK /\ Rows /\ Passes /\ Bounded

\* The sizes there are.
LEMMA Sizes ==
    ASSUME NEW S \in SUBSET ObRelays
    PROVE  /\ IsFiniteSet(S) /\ Cardinality(S) \in Nat /\ Cardinality(ObRelays) \in Nat
           /\ Cardinality(S) <= Cardinality(ObRelays)
           /\ \A T \in SUBSET S : Cardinality(T) \in Nat /\ Cardinality(T) <= Cardinality(S)
  BY ObAssumption, FS_Subset, FS_CardinalityType

\* Of the rows of a pass one is the oldest.
LEMMA OneOldest ==
    ASSUME ObIInv, NEW r \in ObRelays, NEW i \in Oldest(obRelay[r].batch),
           NEW j \in Oldest(obRelay[r].batch)
    PROVE  i = j
<1>1. i \in obRelay[r].batch /\ j \in obRelay[r].batch BY DEF Oldest
<1>2. i \in ObJobs /\ j \in ObJobs BY <1>1 DEF ObIInv, ObTypeOK, Pass
<1>3. obTx[i] = "committed" /\ obTx[j] = "committed" BY <1>1 DEF ObIInv, Passes
<1>4. i \notin obBefore[j] /\ j \notin obBefore[i] BY <1>1 DEF Oldest
<1> QED BY <1>2, <1>3, <1>4 DEF ObIInv, Rows

\* The records of a relay.
LEMMA PassIs ==
    ASSUME ObTypeOK, NEW r \in ObRelays
    PROVE  /\ obRelay[r] \in Pass /\ obRelay[r].batch \subseteq ObJobs
           /\ Over(r) \in Pass /\ Over(r).batch = {} /\ ~Over(r).pushed
           /\ Over(r).stage \in {"loop", "down"}
  BY DEF ObTypeOK, Pass, Over, InLoop

\* A step of the relay r: the bound is kept for the rows that leave it no more
\* chances than it had.
LEMMA ObKeepsBound ==
    ASSUME ObIInv, NEW j \in ObJobs, Starts(j)' \in Nat, obFaults' \in Nat,
           Starts(j)' <= Starts(j), MayPush(j)' \subseteq MayPush(j), obFaults <= obFaults'
    PROVE  Starts(j)' + Cardinality(MayPush(j)') <= Cardinality(ObRelays) + obFaults'
<1>1. Starts(j) \in Nat /\ obFaults \in Nat BY ObAssumption DEF ObIInv, ObTypeOK, Starts
<1>2. MayPush(j) \subseteq ObRelays BY DEF MayPush
<1>3. Cardinality(MayPush(j)') \in Nat /\ Cardinality(MayPush(j)) \in Nat /\ Cardinality(ObRelays) \in Nat
      /\ Cardinality(MayPush(j)') <= Cardinality(MayPush(j))
  BY <1>2, Sizes
<1>4. Starts(j) + Cardinality(MayPush(j)) <= Cardinality(ObRelays) + obFaults BY DEF ObIInv, Bounded
<1> QED BY <1>1, <1>3, <1>4

LEMMA StartsIs ==
    ASSUME ObTypeOK, NEW j \in ObJobs
    PROVE  Starts(j) \in Nat /\ obFaults \in Nat /\ obRuns[j] \in Nat
  BY ObAssumption DEF ObTypeOK, Starts

\* A job that is not committed was never started, and keeps the bound.
LEMMA NotYetStarted ==
    ASSUME ObIInv, ObTypeOK', NEW j \in ObJobs, obRuns'[j] = 0, obInner'[j] = "absent"
    PROVE  Starts(j)' + Cardinality(MayPush(j)') <= Cardinality(ObRelays) + obFaults'
<1>1. Starts(j)' = 0 /\ obFaults' \in Nat BY ObAssumption DEF Starts, ObTypeOK
<1>2. MayPush(j)' \subseteq ObRelays BY DEF MayPush
<1>3. Cardinality(MayPush(j)') \in Nat /\ Cardinality(ObRelays) \in Nat
      /\ Cardinality(MayPush(j)') <= Cardinality(ObRelays)
  BY <1>2, Sizes
<1> QED BY <1>1, <1>3

LEMMA PushTxStep == ASSUME ObIInv, NEW k \in ObJobs, ObPushTx(k) PROVE ObIInv'
<1>1. ObTypeOK'
  <2>1. obTx' \in [ObJobs -> {"none", "open", "committed", "rolled_back"}]
    BY DEF ObPushTx, ObIInv, ObTypeOK
  <2>2. obBefore' \in [ObJobs -> SUBSET ObJobs] BY DEF ObPushTx, ObIInv, ObTypeOK
  <2> QED BY <2>1, <2>2 DEF ObPushTx, ObIInv, ObTypeOK
<1>2. \A j \in ObJobs : obTx'[j] = IF j = k THEN "open" ELSE obTx[j]
  BY DEF ObPushTx, ObIInv, ObTypeOK
<1>3. /\ \A j \in ObJobs : j # k => obBefore'[j] = obBefore[j]
      /\ obBefore'[k] = {i \in ObJobs : obTx[i] # "none"}
  BY DEF ObPushTx, ObIInv, ObTypeOK
<1>4. obTx[k] = "none" /\ obInner[k] = "absent" /\ obRuns[k] = 0 /\ obTable' = obTable \union {k}
      /\ UNCHANGED <<obRelay, obInner, obRuns, obFaults>>
  BY DEF ObPushTx, ObIInv, Rows
<1>5. ASSUME NEW r \in ObRelays
      PROVE  k \notin obRelay[r].batch /\ obRelay[r].batch \subseteq ObJobs
             /\ Oldest(obRelay[r].batch)' = Oldest(obRelay[r].batch)
  <2>1. k \notin obRelay[r].batch BY <1>4 DEF ObIInv, Passes
  <2>2. obRelay[r].batch \subseteq ObJobs BY PassIs DEF ObIInv
  <2> QED BY <1>3, <1>4, <2>1, <2>2 DEF Oldest
<1>6. Rows'
  <2>1. ASSUME NEW j \in ObJobs, NEW i \in ObJobs, i # j, obTx'[i] # "none", obTx'[j] # "none"
        PROVE  i \in obBefore'[j] \/ j \in obBefore'[i]
    BY <1>2, <1>3, <2>1 DEF ObIInv, Rows
  <2> QED BY <1>2, <1>4, <2>1 DEF ObIInv, Rows, Reached
<1>7. Passes'
  <2> SUFFICES ASSUME NEW r \in ObRelays
               PROVE  /\ obRelay'[r].pushed => Passing(r)'
                      /\ \A j \in obRelay'[r].batch : obTx'[j] = "committed"
                      /\ \A j \in ObJobs : Pushed(r, j)' => Reached(j)'
    BY DEF Passes
  <2>1. obRelay'[r].pushed => Passing(r)' BY <1>4 DEF ObIInv, Passes, Passing
  <2>2. \A j \in obRelay'[r].batch : obTx'[j] = "committed" BY <1>2, <1>4, <1>5 DEF ObIInv, Passes
  <2>3. \A j \in ObJobs : Pushed(r, j)' => Reached(j)'
    BY <1>4, <1>5 DEF ObIInv, Passes, Pushed, Reached
  <2> QED BY <2>1, <2>2, <2>3
<1>8. ASSUME NEW j \in ObJobs
      PROVE  Starts(j)' + Cardinality(MayPush(j)') <= Cardinality(ObRelays) + obFaults'
  <2>1. CASE j = k BY <1>1, <1>4, <2>1, NotYetStarted
  <2>2. CASE j # k
    <3>1. Starts(j)' = Starts(j) /\ obFaults' = obFaults BY <1>4 DEF Starts
    <3>2. MayPush(j)' \subseteq MayPush(j)
      BY <1>4, <1>5, <2>2 DEF MayPush, Pushed
    <3>3. Starts(j) \in Nat /\ obFaults \in Nat BY StartsIs DEF ObIInv
    <3> QED BY <3>1, <3>2, <3>3, ObKeepsBound
  <2> QED BY <2>1, <2>2
<1> QED BY <1>1, <1>6, <1>7, <1>8 DEF ObIInv, Bounded

\* The other steps leave the order of the rows alone.
LEMMA OldestStays ==
    ASSUME obBefore' = obBefore, NEW r \in ObRelays, obRelay'[r] = obRelay[r]
    PROVE  \A j : Pushed(r, j)' = Pushed(r, j)
  BY DEF Pushed, Oldest

\* A caller's transaction ends.
LEMMA EndTxStep == ASSUME ObIInv, NEW k \in ObJobs, ObCommit(k) \/ ObRollback(k) PROVE ObIInv'
<1>1. ObTypeOK'
  <2>1. obTx' \in [ObJobs -> {"none", "open", "committed", "rolled_back"}]
    BY DEF ObCommit, ObRollback, ObIInv, ObTypeOK
  <2> QED BY <2>1 DEF ObCommit, ObRollback, ObIInv, ObTypeOK, obFixed
<1>2. /\ obTx[k] = "open" /\ obTx'[k] \in {"committed", "rolled_back"}
      /\ \A j \in ObJobs : j # k => obTx'[j] = obTx[j]
      /\ obTable' \subseteq obTable /\ \A j \in ObJobs : (j # k /\ j \in obTable) => j \in obTable'
      /\ obTx'[k] = "committed" => obTable' = obTable
      /\ obTx'[k] = "rolled_back" => k \notin obTable'
      /\ UNCHANGED <<obBefore, obRelay, obInner, obRuns, obFaults>>
  BY DEF ObCommit, ObRollback, obFixed, ObIInv, ObTypeOK
<1>3. Rows' BY <1>2 DEF ObIInv, Rows, Reached
<1>4. \A r \in ObRelays, j \in ObJobs : Pushed(r, j)' = Pushed(r, j) BY <1>2, OldestStays
<1>5. Passes'
  <2> SUFFICES ASSUME NEW r \in ObRelays
               PROVE  /\ obRelay'[r].pushed => Passing(r)'
                      /\ \A j \in obRelay'[r].batch : obTx'[j] = "committed"
                      /\ \A j \in ObJobs : Pushed(r, j)' => Reached(j)'
    BY DEF Passes
  <2>1. obRelay'[r].pushed => Passing(r)' BY <1>2 DEF ObIInv, Passes, Passing
  <2>2. \A j \in obRelay'[r].batch : obTx'[j] = "committed"
    BY <1>2, PassIs DEF ObIInv, Passes
  <2>3. \A j \in ObJobs : Pushed(r, j)' => Reached(j)'
    BY <1>2, <1>4 DEF ObIInv, Passes, Reached
  <2> QED BY <2>1, <2>2, <2>3
<1>6. ASSUME NEW j \in ObJobs
      PROVE  Starts(j)' + Cardinality(MayPush(j)') <= Cardinality(ObRelays) + obFaults'
  <2>1. Starts(j)' = Starts(j) /\ obFaults' = obFaults BY <1>2 DEF Starts
  <2>2. MayPush(j)' \subseteq MayPush(j) BY <1>2, <1>4 DEF MayPush
  <2>3. Starts(j) \in Nat /\ obFaults \in Nat BY StartsIs DEF ObIInv
  <2> QED BY <2>1, <2>2, <2>3, ObKeepsBound
<1> QED BY <1>1, <1>3, <1>5, <1>6 DEF ObIInv, Bounded

\* A worker starts the body, or ends it.
LEMMA WorkStep == ASSUME ObIInv, NEW k \in ObJobs, ObStart(k) \/ ObFinish(k) PROVE ObIInv'
<1>1. /\ UNCHANGED <<obKeeps, obBad, obTx, obTable, obBefore, obRelay, obFaults>>
      /\ \A j \in ObJobs : j # k => obInner'[j] = obInner[j] /\ obRuns'[j] = obRuns[j]
      /\ obInner' \in [ObJobs -> {"absent", "waiting", "leased"}]
      /\ obRuns' \in [ObJobs -> Nat]
  BY DEF ObStart, ObFinish, obFixed, ObIInv, ObTypeOK
<1>2. ObTypeOK' BY <1>1 DEF ObIInv, ObTypeOK
<1>3. obRuns[k] \in Nat BY DEF ObIInv, ObTypeOK
<1>4. /\ \/ obInner[k] = "waiting" /\ obInner'[k] = "leased" /\ obRuns'[k] = obRuns[k] + 1
         \/ obInner[k] = "leased" /\ obInner'[k] = "absent" /\ obRuns'[k] = obRuns[k]
      /\ obRuns'[k] > 0 /\ obTx[k] = "committed"
  BY <1>3 DEF ObStart, ObFinish, ObIInv, ObTypeOK, Rows
<1>5. \A j \in ObJobs : Reached(j) => Reached(j)' BY <1>1, <1>4 DEF Reached
<1>6. Rows'
  <2> SUFFICES ASSUME NEW j \in ObJobs
               PROVE  /\ j \in obTable' => obTx'[j] \in {"open", "committed"}
                      /\ obTx'[j] = "open" => j \in obTable'
                      /\ obInner'[j] = "leased" => obRuns'[j] > 0
                      /\ IF obTx'[j] = "committed"
                         THEN j \in obTable' \/ Reached(j)'
                         ELSE obInner'[j] = "absent" /\ obRuns'[j] = 0
                      /\ \A i \in ObJobs :
                            (i # j /\ obTx'[i] # "none" /\ obTx'[j] # "none")
                                => (i \in obBefore'[j] \/ j \in obBefore'[i])
    BY DEF Rows
  <2>1. obTx[j] = "committed" => (j \in obTable' \/ Reached(j)') BY <1>1, <1>5 DEF ObIInv, Rows
  <2>2. j # k => /\ obInner'[j] = "leased" => obRuns'[j] > 0
                 /\ obTx[j] # "committed" => obInner'[j] = "absent" /\ obRuns'[j] = 0
    BY <1>1 DEF ObIInv, Rows
  <2> QED BY <1>1, <1>4, <2>1, <2>2 DEF ObIInv, Rows
<1>7. \A r \in ObRelays, j \in ObJobs : Pushed(r, j)' = Pushed(r, j) BY <1>1, OldestStays
<1>8. Passes' BY <1>1, <1>5, <1>7 DEF ObIInv, Passes, Passing
<1>9. ASSUME NEW j \in ObJobs
      PROVE  Starts(j)' + Cardinality(MayPush(j)') <= Cardinality(ObRelays) + obFaults'
  <2>1. obRuns[j] \in Nat /\ obRuns'[j] \in Nat BY <1>1 DEF ObIInv, ObTypeOK
  <2>2. Starts(j)' <= Starts(j) /\ Starts(j)' \in Nat
    BY <1>1, <1>4, <2>1 DEF Starts
  <2>3. MayPush(j)' \subseteq MayPush(j) BY <1>1, <1>7 DEF MayPush
  <2>4. obFaults' = obFaults /\ obFaults \in Nat BY <1>1, StartsIs DEF ObIInv
  <2> QED BY <2>2, <2>3, <2>4, ObKeepsBound
<1> QED BY <1>2, <1>6, <1>8, <1>9 DEF ObIInv, Bounded

\* A relay goes on with the record p.
LEMMA TurnsStep ==
    ASSUME ObIInv, NEW r \in ObRelays, NEW p \in Pass, Goto(r, p),
           UNCHANGED <<obFixed, obTx, obRuns>>,
           obFaults' \in 0..ObMaxFaults,
           obInner' \in [ObJobs -> {"absent", "waiting", "leased"}],
           p.pushed => p.stage \in {"pass", "last"},
           \A j \in p.batch : obTx[j] = "committed",
           p.pushed => \A j \in Oldest(p.batch) : Reached(j)',
           \A j \in ObJobs : /\ Reached(j) => Reached(j)'
                             /\ obInner'[j] = "leased" => obInner[j] = "leased"
                             /\ obTx[j] # "committed" => obInner'[j] = obInner[j],
           obTable' \subseteq obTable,
           \A j \in obTable \ obTable' : obTx[j] = "committed" /\ Reached(j)',
           Bounded'
    PROVE  ObIInv'
<1>1. /\ \A q \in ObRelays : obRelay'[q] = IF q = r THEN p ELSE obRelay[q]
      /\ obRelay' \in [ObRelays -> Pass]
      /\ UNCHANGED <<obKeeps, obBad, obBefore, obTx, obRuns>>
  BY DEF Goto, obFixed, ObIInv, ObTypeOK
<1>2. ObTypeOK' BY <1>1 DEF ObIInv, ObTypeOK
<1>3. Rows'
  <2> SUFFICES ASSUME NEW j \in ObJobs
               PROVE  /\ j \in obTable' => obTx'[j] \in {"open", "committed"}
                      /\ obTx'[j] = "open" => j \in obTable'
                      /\ obInner'[j] = "leased" => obRuns'[j] > 0
                      /\ IF obTx'[j] = "committed"
                         THEN j \in obTable' \/ Reached(j)'
                         ELSE obInner'[j] = "absent" /\ obRuns'[j] = 0
                      /\ \A i \in ObJobs :
                            (i # j /\ obTx'[i] # "none" /\ obTx'[j] # "none")
                                => (i \in obBefore'[j] \/ j \in obBefore'[i])
    BY DEF Rows
  <2>1. j \in obTable' => obTx'[j] \in {"open", "committed"} BY <1>1 DEF ObIInv, Rows
  <2>2. obTx'[j] = "open" => j \in obTable' BY <1>1 DEF ObIInv, Rows
  <2>3. obInner'[j] = "leased" => obRuns'[j] > 0 BY <1>1 DEF ObIInv, Rows
  <2>4. obTx'[j] = "committed" => (j \in obTable' \/ Reached(j)') BY <1>1 DEF ObIInv, Rows
  <2>5. obTx'[j] # "committed" => obInner'[j] = "absent" /\ obRuns'[j] = 0 BY <1>1 DEF ObIInv, Rows
  <2>6. \A i \in ObJobs : (i # j /\ obTx'[i] # "none" /\ obTx'[j] # "none")
                              => (i \in obBefore'[j] \/ j \in obBefore'[i])
    BY <1>1 DEF ObIInv, Rows
  <2> QED BY <2>1, <2>2, <2>3, <2>4, <2>5, <2>6
<1>4. Passes'
  <2> SUFFICES ASSUME NEW q \in ObRelays
               PROVE  /\ obRelay'[q].pushed => Passing(q)'
                      /\ \A j \in obRelay'[q].batch : obTx'[j] = "committed"
                      /\ \A j \in ObJobs : Pushed(q, j)' => Reached(j)'
    BY DEF Passes
  <2>1. CASE q = r BY <1>1, <2>1 DEF Passing, Pushed, Oldest
  <2>2. CASE q # r
    <3>1. obRelay'[q] = obRelay[q] BY <1>1, <2>2
    <3>2. \A j : Pushed(q, j)' = Pushed(q, j) BY <1>1, <3>1, OldestStays
    <3> QED BY <1>1, <3>1, <3>2 DEF ObIInv, Passes, Passing
  <2> QED BY <2>1, <2>2
<1> QED BY <1>2, <1>3, <1>4 DEF ObIInv

\* Whether the others may push a row is a matter of the table.
LEMMA OthersMayPush ==
    ASSUME ObIInv, NEW r \in ObRelays, NEW p \in Pass, Goto(r, p), UNCHANGED obFixed,
           obTable' \subseteq obTable, NEW j \in ObJobs
    PROVE  /\ MayPush(j)' \subseteq MayPush(j) \union {r}
           /\ r \in MayPush(j)' <=>
                (j \in obTable' \/ j \in p.batch) /\ ~(p.pushed /\ j \in Oldest(p.batch))
<1>1. /\ \A q \in ObRelays : obRelay'[q] = IF q = r THEN p ELSE obRelay[q]
      /\ obBefore' = obBefore
  BY DEF Goto, obFixed, ObIInv, ObTypeOK
<1>2. \A q \in ObRelays : q # r => (Pushed(q, j)' = Pushed(q, j)) BY <1>1, OldestStays
<1>3. Pushed(r, j)' = (p.pushed /\ j \in Oldest(p.batch)) BY <1>1 DEF Pushed, Oldest
<1>4. MayPush(j)' \subseteq MayPush(j) \union {r} BY <1>1, <1>2 DEF MayPush
<1>5. r \in MayPush(j)' <=>
         (j \in obTable' \/ j \in p.batch) /\ ~(p.pushed /\ j \in Oldest(p.batch))
  BY <1>1, <1>3 DEF MayPush
<1> QED BY <1>4, <1>5

\* A step that starts no body and gives r no chance it had not.
LEMMA NoNewChance ==
    ASSUME ObIInv, NEW r \in ObRelays, NEW p \in Pass, Goto(r, p),
           UNCHANGED <<obFixed, obRuns, obInner, obFaults>>, obTable' \subseteq obTable,
           \A j \in ObJobs : r \in MayPush(j)' => r \in MayPush(j)
    PROVE  Bounded'
<1> SUFFICES ASSUME NEW j \in ObJobs
             PROVE  Starts(j)' + Cardinality(MayPush(j)') <= Cardinality(ObRelays) + obFaults'
  BY DEF Bounded
<1>1. Starts(j)' = Starts(j) /\ obFaults' = obFaults BY DEF Starts
<1>2. MayPush(j)' \subseteq MayPush(j) BY OthersMayPush
<1>3. Starts(j) \in Nat /\ obFaults \in Nat BY StartsIs DEF ObIInv
<1> QED BY <1>1, <1>2, <1>3, ObKeepsBound

LEMMA SelectStep == ASSUME ObIInv, NEW r \in ObRelays, ObSelect(r) \/ ObLastPass(r) PROVE ObIInv'
<1>1. obRelay[r].stage = "loop" /\ UNCHANGED <<obFixed, obTx, obTable, obInner, obRuns, obFaults>>
  BY DEF ObSelect, ObLastPass, Selects
<1>2. PICK p \in Pass : Goto(r, p) /\ ~p.pushed /\ p.batch \subseteq Visible
  <2>1. Firsts(Visible) \subseteq ObJobs /\ Firsts(Visible) \subseteq Visible BY DEF Firsts, Visible
  <2>2. \A stage \in {"pass", "last", "down"} :
           [stage |-> stage, batch |-> Firsts(Visible), pushed |-> FALSE] \in Pass
    BY <2>1 DEF Pass
  <2> QED BY <2>1, <2>2 DEF ObSelect, ObLastPass, Selects
<1>3. \A j \in p.batch : j \in obTable /\ obTx[j] = "committed" BY <1>2 DEF Visible, Staged
<1>4. ~obRelay[r].pushed BY <1>1 DEF ObIInv, Passes, Passing
<1>5. \A j \in ObJobs : r \in MayPush(j)' => r \in MayPush(j)
  BY <1>1, <1>2, <1>3, <1>4, OthersMayPush DEF MayPush, Pushed
<1>6. Bounded' BY <1>1, <1>2, <1>5, NoNewChance
<1>7. \A j \in ObJobs : Reached(j)' = Reached(j) BY <1>1 DEF Reached
<1> QED BY <1>1, <1>2, <1>3, <1>6, <1>7, TurnsStep DEF ObIInv, ObTypeOK

LEMMA DecodeFailsStep == ASSUME ObIInv, NEW r \in ObRelays, ObDecodeFails(r) PROVE ObIInv'
<1>1. /\ ~obRelay[r].pushed /\ Goto(r, Over(r))
      /\ UNCHANGED <<obFixed, obTx, obTable, obInner, obRuns, obFaults>>
  BY DEF ObDecodeFails
<1>2. PICK p \in Pass : p = Over(r) /\ ~p.pushed /\ p.batch = {} BY PassIs DEF ObIInv
<1>3. \A j \in ObJobs : r \in MayPush(j)' => r \in MayPush(j)
  BY <1>1, <1>2, OthersMayPush DEF MayPush, Pushed
<1>4. Bounded' BY <1>1, <1>2, <1>3, NoNewChance
<1>5. \A j \in ObJobs : Reached(j)' = Reached(j) BY <1>1 DEF Reached
<1> QED BY <1>1, <1>2, <1>4, <1>5, TurnsStep DEF ObIInv, ObTypeOK

LEMMA CutShortStep == ASSUME ObIInv, NEW r \in ObRelays, ObCutShort(r) PROVE ObIInv'
<1>1. /\ obFaults < ObMaxFaults /\ obFaults' = obFaults + 1 /\ Goto(r, Over(r))
      /\ UNCHANGED <<obFixed, obTx, obTable, obInner, obRuns>>
  BY DEF ObCutShort
<1>2. PICK p \in Pass : p = Over(r) /\ ~p.pushed /\ p.batch = {} BY PassIs DEF ObIInv
<1>3. obFaults \in Nat /\ obFaults' \in 0..ObMaxFaults
  BY <1>1, ObAssumption DEF ObIInv, ObTypeOK
<1>4. ASSUME NEW j \in ObJobs
      PROVE  Starts(j)' + Cardinality(MayPush(j)') <= Cardinality(ObRelays) + obFaults'
  <2>1. Starts(j)' = Starts(j) /\ Starts(j) \in Nat BY <1>1, StartsIs DEF Starts, ObIInv
  <2>2. MayPush(j) \subseteq ObRelays /\ MayPush(j)' \subseteq MayPush(j) \union {r}
    BY <1>1, <1>2, OthersMayPush DEF MayPush
  <2>3. IsFiniteSet(MayPush(j)) /\ Cardinality(MayPush(j)) \in Nat /\ Cardinality(ObRelays) \in Nat
    BY <2>2, Sizes
  <2>4. /\ Cardinality(MayPush(j) \union {r}) \in Nat
        /\ Cardinality(MayPush(j) \union {r}) <= Cardinality(MayPush(j)) + 1
    <3>1. PICK n \in Nat : n = Cardinality(MayPush(j)) BY <2>3
    <3>2. Cardinality(MayPush(j) \union {r}) = IF r \in MayPush(j) THEN n ELSE n + 1
      BY <2>3, <3>1, FS_AddElement
    <3> QED BY <3>1, <3>2
  <2>5. Cardinality(MayPush(j)') <= Cardinality(MayPush(j) \union {r}) /\ Cardinality(MayPush(j)') \in Nat
    BY <2>2, Sizes
  <2>6. Starts(j) + Cardinality(MayPush(j)) <= Cardinality(ObRelays) + obFaults BY DEF ObIInv, Bounded
  <2> QED BY <1>1, <1>3, <2>1, <2>3, <2>4, <2>5, <2>6
<1>5. Bounded' BY <1>4 DEF Bounded
<1>6. \A j \in ObJobs : Reached(j)' = Reached(j) BY <1>1 DEF Reached
<1> QED BY <1>1, <1>2, <1>3, <1>5, <1>6, TurnsStep DEF ObIInv, ObTypeOK

LEMMA PushStep == ASSUME ObIInv, NEW r \in ObRelays, ObPush(r) PROVE ObIInv'
<1>1. PICK k \in Oldest(obRelay[r].batch) :
         /\ Passing(r) /\ ~obRelay[r].pushed
         /\ obInner' = Accepts(k)
         /\ Goto(r, [obRelay[r] EXCEPT !.pushed = TRUE])
         /\ UNCHANGED <<obFixed, obTx, obTable, obRuns, obFaults>>
  BY DEF ObPush
<1>2. k \in obRelay[r].batch /\ k \in ObJobs /\ obTx[k] = "committed"
  BY <1>1, PassIs DEF Oldest, ObIInv, Passes
<1>3. PICK p \in Pass :
         /\ p = [obRelay[r] EXCEPT !.pushed = TRUE]
         /\ p.pushed /\ p.batch = obRelay[r].batch /\ p.stage = obRelay[r].stage
  <2>1. PICK s \in Pass : s = obRelay[r] BY PassIs DEF ObIInv
  <2>2. PICK p : p = [s EXCEPT !.pushed = TRUE] OBVIOUS
  <2>3. p \in Pass /\ p.pushed /\ p.batch = s.batch /\ p.stage = s.stage BY <2>1, <2>2 DEF Pass
  <2> QED BY <2>1, <2>2, <2>3
<1>4. /\ obInner' \in [ObJobs -> {"absent", "waiting", "leased"}]
      /\ obInner'[k] # "absent"
      /\ \A j \in ObJobs : j # k => obInner'[j] = obInner[j]
      /\ obInner'[k] = "leased" => obInner[k] = "leased"
  BY <1>1, <1>2 DEF Accepts, ObIInv, ObTypeOK
<1>5. \A j \in ObJobs : Reached(j) => Reached(j)' BY <1>1, <1>4 DEF Reached
<1>6. Reached(k)' BY <1>4 DEF Reached
<1>7. \A j \in Oldest(p.batch) : j = k BY <1>1, <1>3, OneOldest
<1>8. ASSUME NEW j \in ObJobs
      PROVE  Starts(j)' + Cardinality(MayPush(j)') <= Cardinality(ObRelays) + obFaults'
  <2>1. MayPush(j)' \subseteq MayPush(j) \union {r} /\ (r \in MayPush(j)' => r \in MayPush(j))
    <3>1. r \in MayPush(j)' => r \in MayPush(j)
      BY <1>1, <1>3, OthersMayPush DEF MayPush, Pushed
    <3> QED BY <1>1, <1>3, <3>1, OthersMayPush
  <2>2. obFaults' = obFaults /\ obFaults \in Nat /\ Starts(j) \in Nat BY <1>1, StartsIs DEF ObIInv
  <2>3. CASE j # k
    <3>1. Starts(j)' = Starts(j) BY <1>1, <1>4, <2>3 DEF Starts
    <3> QED BY <2>1, <2>2, <3>1, ObKeepsBound
  <2>4. CASE j = k
    <3>0. obTable' \subseteq obTable /\ Goto(r, p) /\ UNCHANGED obFixed BY <1>1, <1>3
    <3>1. r \in MayPush(k) /\ r \notin MayPush(k)'
      <4>1. r \in MayPush(k) BY <1>1, <1>2 DEF MayPush, Pushed
      <4>2. p.pushed /\ k \in Oldest(p.batch) BY <1>1, <1>3
      <4>3. r \notin MayPush(k)' BY <1>2, <3>0, <4>2, OthersMayPush
      <4> QED BY <4>1, <4>3
    <3>2. MayPush(k)' \subseteq MayPush(k) \ {r} BY <2>1, <2>4, <3>1
    <3>3. MayPush(k) \subseteq ObRelays BY DEF MayPush
    <3>4. IsFiniteSet(MayPush(k)) /\ Cardinality(MayPush(k)) \in Nat /\ Cardinality(ObRelays) \in Nat
      BY <3>3, Sizes
    <3>5. Cardinality(MayPush(k) \ {r}) = Cardinality(MayPush(k)) - 1
      BY <3>1, <3>4, FS_RemoveElement
    <3>6. MayPush(k) \ {r} \subseteq ObRelays BY <3>3
    <3>7. Cardinality(MayPush(k)') \in Nat /\ Cardinality(MayPush(k)') <= Cardinality(MayPush(k)) - 1
      BY <3>2, <3>5, <3>6, Sizes
    <3>8. Starts(k)' \in Nat /\ Starts(k)' <= Starts(k) + 1
      <4>1. obRuns[k] \in Nat /\ obRuns' = obRuns BY <1>1, <1>2 DEF ObIInv, ObTypeOK
      <4> QED BY <4>1 DEF Starts
    <3>9. Starts(k) + Cardinality(MayPush(k)) <= Cardinality(ObRelays) + obFaults
      BY <1>2 DEF ObIInv, Bounded
    <3> QED BY <2>2, <2>4, <3>4, <3>7, <3>8, <3>9
  <2> QED BY <2>3, <2>4
<1>9. Bounded' BY <1>8 DEF Bounded
<1>10. \A j \in p.batch : obTx[j] = "committed" BY <1>3 DEF ObIInv, Passes
<1>11. p.stage \in {"pass", "last"} BY <1>1, <1>3 DEF Passing
<1>12. obFaults' \in 0..ObMaxFaults BY <1>1 DEF ObIInv, ObTypeOK
<1>13. \A j \in ObJobs : /\ obInner'[j] = "leased" => obInner[j] = "leased"
                         /\ obTx[j] # "committed" => obInner'[j] = obInner[j]
  BY <1>2, <1>4
<1> QED BY <1>1, <1>3, <1>4, <1>5, <1>6, <1>7, <1>9, <1>10, <1>11, <1>12, <1>13, TurnsStep

LEMMA DeleteStep == ASSUME ObIInv, NEW r \in ObRelays, ObDelete(r) PROVE ObIInv'
<1>1. PICK k \in Oldest(obRelay[r].batch) :
         /\ Passing(r) /\ obRelay[r].pushed
         /\ obTable' = obTable \ {k}
         /\ Goto(r, IF obRelay[r].batch = {k} THEN Over(r)
                    ELSE [obRelay[r] EXCEPT !.batch = @ \ {k}, !.pushed = FALSE])
         /\ UNCHANGED <<obFixed, obTx, obInner, obRuns, obFaults>>
  BY DEF ObDelete
<1>2. k \in obRelay[r].batch /\ k \in ObJobs /\ obTx[k] = "committed"
  BY <1>1, PassIs DEF Oldest, ObIInv, Passes
<1>3. PICK p \in Pass : Goto(r, p) /\ ~p.pushed /\ p.batch = obRelay[r].batch \ {k}
  <2>1. CASE obRelay[r].batch = {k} BY <1>1, <2>1, PassIs DEF ObIInv
  <2>2. CASE obRelay[r].batch # {k}
    <3>1. PICK s \in Pass : s = obRelay[r] BY PassIs DEF ObIInv
    <3>2. PICK b \in SUBSET ObJobs : b = s.batch \ {k} BY <3>1 DEF Pass
    <3>3. PICK p : p = [s EXCEPT !.batch = b, !.pushed = FALSE] OBVIOUS
    <3>4. p \in Pass /\ ~p.pushed /\ p.batch = b BY <3>1, <3>2, <3>3 DEF Pass
    <3> QED BY <1>1, <2>2, <3>1, <3>2, <3>3, <3>4
  <2> QED BY <2>1, <2>2
<1>4. \A j \in Oldest(obRelay[r].batch) : j = k BY <1>1, OneOldest
<1>5. ASSUME NEW j \in ObJobs, r \in MayPush(j)' PROVE r \in MayPush(j)
  <2>1. j # k /\ (j \in obTable \/ j \in obRelay[r].batch)
    BY <1>1, <1>3, <1>5, OthersMayPush
  <2>2. ~Pushed(r, j) BY <1>4, <2>1 DEF Pushed
  <2> QED BY <2>1, <2>2 DEF MayPush
<1>6. Bounded' BY <1>1, <1>3, <1>5, NoNewChance
<1>7. \A j \in ObJobs : Reached(j)' = Reached(j) BY <1>1 DEF Reached
<1>8. Reached(k)'
  <2>1. Pushed(r, k) BY <1>1 DEF Pushed
  <2> QED BY <1>2, <1>7, <2>1 DEF ObIInv, Passes
<1>9. \A j \in p.batch : obTx[j] = "committed" BY <1>3 DEF ObIInv, Passes
<1>10. \A j \in obTable \ obTable' : j = k BY <1>1
<1> QED BY <1>1, <1>2, <1>3, <1>6, <1>7, <1>8, <1>9, <1>10, TurnsStep DEF ObIInv, ObTypeOK

LEMMA ObInvInit == ObInit => ObIInv
<1> SUFFICES ASSUME ObInit PROVE ObIInv OBVIOUS
<1>1. ObTypeOK BY ObAssumption DEF ObInit, ObTypeOK, InLoop, Pass
<1>2. Rows BY DEF ObInit, Rows, Reached
<1>3. Passes BY DEF ObInit, Passes, InLoop, Pushed, Oldest
<1>4. ASSUME NEW j \in ObJobs
      PROVE  Starts(j) + Cardinality(MayPush(j)) <= Cardinality(ObRelays) + obFaults
  <2>1. Starts(j) = 0 /\ obFaults = 0 BY DEF ObInit, Starts
  <2>2. MayPush(j) \subseteq ObRelays BY DEF MayPush
  <2>3. Cardinality(MayPush(j)) \in Nat /\ Cardinality(ObRelays) \in Nat
        /\ Cardinality(MayPush(j)) <= Cardinality(ObRelays)
    BY <2>2, Sizes
  <2> QED BY <2>1, <2>3
<1> QED BY <1>1, <1>2, <1>3, <1>4 DEF ObIInv, Bounded

LEMMA ObInvStep == ObIInv /\ [ObNext]_obVars => ObIInv'
<1> SUFFICES ASSUME ObIInv, [ObNext]_obVars PROVE ObIInv' OBVIOUS
<1>1. CASE UNCHANGED obVars
  <2>1. UNCHANGED <<obKeeps, obBad, obTx, obTable, obBefore, obRelay, obInner, obRuns, obFaults>>
    BY <1>1 DEF obVars
  <2>2. ObTypeOK' BY <2>1 DEF ObIInv, ObTypeOK
  <2>3. Rows' BY <2>1 DEF ObIInv, Rows, Reached
  <2>4. \A r \in ObRelays, j \in ObJobs : Pushed(r, j)' = Pushed(r, j) BY <2>1, OldestStays
  <2>5. Passes' BY <2>1, <2>4 DEF ObIInv, Passes, Passing, Reached
  <2>6. \A j \in ObJobs : MayPush(j)' = MayPush(j) /\ Starts(j)' = Starts(j)
    BY <2>1, <2>4 DEF MayPush, Starts
  <2>7. Bounded' BY <2>1, <2>6 DEF ObIInv, Bounded
  <2> QED BY <2>2, <2>3, <2>5, <2>7 DEF ObIInv
<1> QED BY <1>1, PushTxStep, EndTxStep, WorkStep, SelectStep, PushStep, DecodeFailsStep, DeleteStep,
           CutShortStep DEF ObNext, ObMoves

LEMMA DeliveredNow == ObIInv => DeliveredBounded
<1> SUFFICES ASSUME ObIInv, NEW j \in ObJobs
             PROVE  /\ IF obTx[j] = "committed"
                       THEN j \in obTable \/ obInner[j] # "absent" \/ obRuns[j] > 0
                       ELSE obInner[j] = "absent" /\ obRuns[j] = 0
                    /\ obRuns[j] <= Cardinality(ObRelays) + obFaults
  BY DEF DeliveredBounded
<1>1. MayPush(j) \subseteq ObRelays BY DEF MayPush
<1>2. Cardinality(MayPush(j)) \in Nat /\ Cardinality(ObRelays) \in Nat BY <1>1, Sizes
<1>3. obRuns[j] \in Nat /\ obRuns[j] <= Starts(j) /\ obFaults \in Nat /\ Starts(j) \in Nat
  <2>1. obRuns[j] \in Nat BY DEF ObIInv, ObTypeOK
  <2> QED BY <2>1, StartsIs DEF Starts, ObIInv
<1>4. Starts(j) + Cardinality(MayPush(j)) <= Cardinality(ObRelays) + obFaults
  BY DEF ObIInv, Bounded
<1>5. obRuns[j] <= Cardinality(ObRelays) + obFaults BY <1>2, <1>3, <1>4
<1> QED BY <1>5 DEF ObIInv, Rows, Reached

\* outbox.rs: a job whose transaction committed is staged, queued or was run, no
\* other job is, and a body is started at most once for each relay and once more
\* for each pass that was cut short.
THEOREM Delivery == ObSpec => []DeliveredBounded
  BY ObInvInit, ObInvStep, DeliveredNow, PTL DEF ObSpec

-----------------------------------------------------------------------------
(***************************************************************************)
(* The scheduler.                                                          *)
(*                                                                         *)
(* The order of a process's pushes rests on its cursor: the cursor is an   *)
(* occurrence, everything planned is between the last push and the cursor, *)
(* and a pass plans nothing before the cursor it finds and nothing after   *)
(* the one it leaves.                                                      *)
(***************************************************************************)

\* s is a process.
ByItsCursor(s) ==
    /\ s.alive => s.next > 0 /\ s.next % ScPeriod = 0 /\ s.last < s.next
    /\ \A i \in DOMAIN s.todo : s.last < s.todo[i] /\ s.todo[i] < s.next
    /\ \A i, j \in DOMAIN s.todo : i < j => s.todo[i] < s.todo[j]

ScIInv == ScTypeOK /\ \A p \in ScProcesses : ByItsCursor(scProc[p])

\* Multiples of a period, and the first one after a moment.
LEMMA Multiples ==
    ASSUME NEW n \in Nat
    PROVE  /\ n * ScPeriod \in Nat
           /\ (n * ScPeriod) % ScPeriod = 0
           /\ n # 0 => n * ScPeriod > 0
<1>1. PICK P \in Nat \ {0} : P = ScPeriod BY ScAssumption
<1>2. n * P \in Nat /\ (n # 0 => n * P > 0) BY <1>1
<1>3. (n * P) % P = 0 BY <1>1
<1> QED BY <1>1, <1>2, <1>3

LEMMA IsMultiple ==
    ASSUME NEW t \in Nat, t % ScPeriod = 0
    PROVE  \E n \in Nat : t = n * ScPeriod
<1>1. PICK P \in Nat \ {0} : P = ScPeriod BY ScAssumption
<1>2. t \div P \in Nat /\ t = (t \div P) * P BY <1>1
<1> QED BY <1>1, <1>2

LEMMA NextAfterIs ==
    ASSUME NEW t \in Nat
    PROVE  /\ NextAfter(t) \in Nat /\ NextAfter(t) % ScPeriod = 0
           /\ t < NextAfter(t) /\ NextAfter(t) <= t + ScPeriod
<1>1. PICK P \in Nat \ {0} : P = ScPeriod BY ScAssumption
<1>2. PICK q \in Nat : q = t \div P /\ q * P <= t /\ t < q * P + P
  <2>1. t \div P \in Nat /\ (t \div P) * P <= t /\ t < (t \div P) * P + P
    OBVIOUS
  <2> QED BY <2>1
<1>3. NextAfter(t) = (q + 1) * P BY <1>1, <1>2 DEF NextAfter
<1>4. (q + 1) * P = q * P + P /\ q * P \in Nat BY <1>2
<1>5. NextAfter(t) % ScPeriod = 0 BY <1>1, <1>3, Multiples
<1> QED BY <1>1, <1>2, <1>3, <1>4, <1>5

-----------------------------------------------------------------------------

Planned(plan, from, to) ==
    /\ plan \in Seq(Occurrences)
    /\ \A i \in DOMAIN plan : from <= plan[i] /\ plan[i] <= to
    /\ \A i, j \in DOMAIN plan : i < j => plan[i] < plan[j]

LEMMA BetweenIs ==
    ASSUME NEW from \in Nat, NEW to \in 0..ScEnd, from <= to, from > 0, from % ScPeriod = 0
    PROVE  Planned(Between(from, to), from, to)
<1>1. PICK P \in Nat \ {0} : P = ScPeriod BY ScAssumption
<1>2. PICK n \in Nat : from = n * P BY <1>1, IsMultiple
<1>3. PICK q \in Nat : q = (to - from) \div P /\ q * P <= to - from
  <2>1. to - from \in Nat BY ScAssumption
  <2>2. (to - from) \div P \in Nat /\ ((to - from) \div P) * P <= to - from BY <2>1
  <2> QED BY <2>2
<1>4. Between(from, to) = [i \in 1..(q + 1) |-> from + (i - 1) * P]
  BY <1>1, <1>3 DEF Between
<1>5. ASSUME NEW i \in 1..(q + 1)
      PROVE  from <= from + (i - 1) * P /\ from + (i - 1) * P <= to
             /\ from + (i - 1) * P \in Occurrences
  <2>1. PICK k \in Nat, d \in Nat : k = i - 1 /\ q = k + d
    <3>1. i - 1 \in Nat /\ q - (i - 1) \in Nat /\ q = (i - 1) + (q - (i - 1)) BY <1>3
    <3> QED BY <3>1
  <2>2. k * P \in Nat /\ d * P \in Nat /\ q * P = k * P + d * P BY <2>1
  <2>3. from <= from + k * P /\ from + k * P <= to BY <1>3, <2>2, ScAssumption
  <2>4. from + k * P = (n + k) * P BY <1>2
  <2>5. (from + k * P) % ScPeriod = 0
    <3>1. n + k \in Nat BY <1>2, <2>1
    <3>2. ((n + k) * ScPeriod) % ScPeriod = 0 BY <3>1, Multiples
    <3> QED BY <1>1, <2>4, <3>2
  <2>6. from + k * P \in 1..ScEnd BY <2>2, <2>3, ScAssumption
  <2> QED BY <2>1, <2>3, <2>5, <2>6 DEF Occurrences
<1>6. ASSUME NEW i \in 1..(q + 1), NEW j \in 1..(q + 1), i < j
      PROVE  from + (i - 1) * P < from + (j - 1) * P
  <2>1. PICK k \in Nat, d \in Nat : k = i - 1 /\ j - 1 = k + 1 + d
    <3>1. i - 1 \in Nat /\ (j - 1) - i \in Nat /\ j - 1 = (i - 1) + 1 + ((j - 1) - i) BY <1>3, <1>6
    <3> QED BY <3>1
  <2>2. k * P \in Nat /\ d * P \in Nat /\ (k + 1 + d) * P = k * P + P + d * P BY <2>1
  <2> QED BY <2>1, <2>2
<1>7. Between(from, to) \in Seq(Occurrences)
  <2>1. PICK m \in Nat : m = q + 1 BY <1>3
  <2>2. Between(from, to) \in [1..m -> Occurrences] BY <1>4, <1>5, <2>1
  <2> QED BY <2>2, SeqDef
<1>8. DOMAIN Between(from, to) = 1..(q + 1)
      /\ \A i \in 1..(q + 1) : Between(from, to)[i] = from + (i - 1) * P
  BY <1>4
<1>9. \A i \in DOMAIN Between(from, to) : from <= Between(from, to)[i] /\ Between(from, to)[i] <= to
  BY <1>5, <1>8
<1>10. \A i, j \in DOMAIN Between(from, to) : i < j => Between(from, to)[i] < Between(from, to)[j]
  <2> SUFFICES ASSUME NEW i \in 1..(q + 1), NEW j \in 1..(q + 1), i < j
               PROVE  Between(from, to)[i] < Between(from, to)[j]
    BY <1>8
  <2> QED BY <1>6, <1>8
<1> QED BY <1>7, <1>9, <1>10 DEF Planned

LEMMA NewestIs ==
    ASSUME NEW plan, NEW from, NEW to, Planned(plan, from, to)
    PROVE  Planned(Newest(plan), from, to)
<1>1. CASE Len(plan) > ScLimit
  <2>1. PICK n \in Nat, k \in Nat : Len(plan) = n /\ k = n - ScLimit /\ k < n
    BY <1>1, LenProperties, ScAssumption DEF Planned
  <2>2. Newest(plan) = SubSeq(plan, k + 1, n) BY <1>1, <2>1 DEF Newest
  <2>3. \A i \in (k + 1)..n : i \in DOMAIN plan /\ plan[i] \in Occurrences
    BY <2>1, LenProperties, ElementOfSeq DEF Planned
  <2>4. /\ SubSeq(plan, k + 1, n) \in Seq(Occurrences)
        /\ Len(SubSeq(plan, k + 1, n)) = n - k
        /\ \A i \in 1..(n - k) : SubSeq(plan, k + 1, n)[i] = plan[k + i]
    BY <2>1, <2>3, SubSeqProperties, SMT
  <2>5. DOMAIN SubSeq(plan, k + 1, n) = 1..(n - k) BY <2>4, LenProperties
  <2>6. \A i \in 1..(n - k) : k + i \in (k + 1)..n BY <2>1
  <2>7. \A i \in DOMAIN Newest(plan) : from <= Newest(plan)[i] /\ Newest(plan)[i] <= to
    BY <2>2, <2>3, <2>4, <2>5, <2>6 DEF Planned
  <2>8. ASSUME NEW i \in DOMAIN Newest(plan), NEW j \in DOMAIN Newest(plan), i < j
        PROVE  Newest(plan)[i] < Newest(plan)[j]
    <3>1. i \in 1..(n - k) /\ j \in 1..(n - k) /\ k + i < k + j BY <2>1, <2>2, <2>5, <2>8
    <3>2. k + i \in DOMAIN plan /\ k + j \in DOMAIN plan BY <2>3, <2>6, <3>1
    <3>3. plan[k + i] < plan[k + j] BY <3>1, <3>2 DEF Planned
    <3> QED BY <2>2, <2>4, <3>1, <3>3
  <2> QED BY <2>2, <2>4, <2>7, <2>8 DEF Planned
<1>2. CASE ~(Len(plan) > ScLimit)
  BY <1>2 DEF Newest
<1> QED BY <1>1, <1>2

LEMMA PlanIs ==
    ASSUME ScTypeOK, NEW due \in Times, due > 0, due % ScPeriod = 0
    PROVE  Planned(Plan(due), due, scNow)
<1>1. scNow \in 0..ScEnd /\ due \in Nat BY ScAssumption DEF ScTypeOK, Times
<1>2. Planned(<<>>, due, scNow) BY DEF Planned
<1>3. CASE due <= scNow
  <2>1. Planned(Newest(Between(due, scNow)), due, scNow) BY <1>1, <1>3, BetweenIs, NewestIs
  <2>2. due \in Occurrences BY <1>1, <1>3, ScAssumption DEF Occurrences
  <2>3. Planned(<<due>>, due, scNow) BY <1>1, <1>3, <2>2 DEF Planned
  <2> QED BY <1>1, <1>2, <2>1, <2>3 DEF Plan
<1> QED BY <1>1, <1>2, <1>3 DEF Plan

LEMMA CursorIs ==
    ASSUME ScTypeOK, NEW due \in Times, due > 0, due % ScPeriod = 0
    PROVE  /\ Cursor(due) \in Times /\ Cursor(due) > 0 /\ Cursor(due) % ScPeriod = 0
           /\ due <= Cursor(due) /\ scNow < Cursor(due)
<1>1. scNow \in Nat /\ scNow <= ScEnd /\ due \in Nat /\ ScEnd \in Nat /\ ScPeriod \in Nat
  BY ScAssumption DEF ScTypeOK, Times
<1>2. NextAfter(scNow) \in Times BY <1>1, NextAfterIs DEF Times
<1> QED BY <1>1, <1>2, NextAfterIs DEF Cursor

-----------------------------------------------------------------------------

\* What the fields of a process are.
LEMMA ProcIs ==
    ASSUME NEW s \in Proc
    PROVE  /\ s.next \in Nat /\ s.last \in Nat /\ s.next \in Times /\ s.last \in Times
           /\ s.todo \in Seq(Occurrences) /\ DOMAIN s.todo = 1..Len(s.todo) /\ Len(s.todo) \in Nat
           /\ \A i \in DOMAIN s.todo : s.todo[i] \in Occurrences
           /\ Occurrences \subseteq Nat /\ Occurrences \subseteq Times /\ 0 \in Times
<1>1. Occurrences \subseteq Nat /\ Occurrences \subseteq Times /\ 0 \in Times /\ Times \subseteq Nat
  BY ScAssumption DEF Occurrences, Times
<1>2. s.next \in Times /\ s.last \in Times /\ s.todo \in Seq(Occurrences) BY DEF Proc
<1>3. DOMAIN s.todo = 1..Len(s.todo) /\ Len(s.todo) \in Nat BY <1>2, LenProperties
<1>4. \A i \in DOMAIN s.todo : s.todo[i] \in Occurrences BY <1>2, <1>3, ElementOfSeq
<1> QED BY <1>1, <1>2, <1>3, <1>4

\* A step gives p another record, and the rest of the state keeps its types.
ScTurns(p, s) ==
    /\ scProc' = [scProc EXCEPT ![p] = s]
    /\ s \in Proc /\ ByItsCursor(s)

ScRest ==
    /\ UNCHANGED scConfig
    /\ scNow' \in 0..ScEnd
    /\ scLock' \in ScProcesses \union {ScNobody}
    /\ scLeft' \in 0..ScLease
    /\ scQueue' \in [Occurrences -> {"none", "active", "done"}]
    /\ scFired' \in [Occurrences -> Nat]
    /\ scFaults' \in 0..ScMaxFaults

LEMMA ScTurnsStep ==
    ASSUME ScIInv, NEW p \in ScProcesses, NEW s, ScTurns(p, s), ScRest
    PROVE  ScIInv'
<1>1. ScTypeOK' BY DEF ScIInv, ScTypeOK, ScTurns, ScRest, scConfig
<1>2. ASSUME NEW q \in ScProcesses PROVE ByItsCursor(scProc[q])'
  <2>1. scProc'[q] = IF q = p THEN s ELSE scProc[q] BY DEF ScIInv, ScTypeOK, ScTurns
  <2>2. ByItsCursor(scProc'[q]) BY <2>1 DEF ScIInv, ScTurns
  <2> QED BY <2>2 DEF ByItsCursor
<1> QED BY <1>1, <1>2 DEF ScIInv

LEMMA ScRestStays ==
    ASSUME ScTypeOK, UNCHANGED scConfig,
           scNow' = scNow, scQueue' = scQueue, scFired' = scFired, Fault \/ scFaults' = scFaults,
           scLock' \in ScProcesses \union {ScNobody}, scLeft' = scLeft
    PROVE  ScRest
  BY ScAssumption DEF ScTypeOK, ScRest, Fault

LEMMA ScPassStep ==
    ASSUME ScIInv, NEW p \in ScProcesses, ScPass(p)
    PROVE  ScIInv'
<1>1. PICK s \in Proc : s = scProc[p] /\ s.alive /\ s.todo = <<>> /\ ByItsCursor(s)
  BY DEF ScIInv, ScTypeOK, ScPass, Acts
<1>2. s.next \in Times /\ s.next > 0 /\ s.next % ScPeriod = 0 /\ s.last \in Nat /\ s.next \in Nat
      /\ s.last < s.next
  BY <1>1, ProcIs DEF ByItsCursor
<1>3. PICK next \in Times : next = Cursor(s.next) /\ next > 0 /\ next % ScPeriod = 0
                            /\ s.next <= next /\ scNow < next /\ next \in Nat /\ scNow \in Nat
  BY <1>2, CursorIs, ScAssumption DEF ScIInv, ScTypeOK, Times
<1>4. PICK todo \in Seq(Occurrences) :
         todo = (IF Busy(p) THEN <<>> ELSE Plan(s.next)) /\ Planned(todo, s.next, scNow)
  <2>1. Planned(Plan(s.next), s.next, scNow) BY <1>2, PlanIs DEF ScIInv
  <2>2. Planned(<<>>, s.next, scNow) BY DEF Planned
  <2> QED BY <2>1, <2>2 DEF Planned
<1>5. CASE scProc' = [scProc EXCEPT ![p] = [s EXCEPT !.leads = TRUE, !.passed = TRUE,
                                                     !.next = next, !.todo = todo]]
           /\ scLock' = p /\ scLeft' = ScLease
  <2>1. PICK t : t = [s EXCEPT !.leads = TRUE, !.passed = TRUE, !.next = next, !.todo = todo]
    OBVIOUS
  <2>2. t \in Proc /\ t.next = next /\ t.todo = todo /\ t.last = s.last /\ t.alive
    BY <1>1, <2>1 DEF Proc
  <2>3. \A i \in DOMAIN todo : s.last < todo[i] /\ todo[i] < next
    <3>1. \A i \in DOMAIN todo : todo[i] \in Nat BY <2>2, ProcIs
    <3> QED BY <1>2, <1>3, <1>4, <3>1 DEF Planned
  <2>4. ByItsCursor(t) BY <1>2, <1>3, <1>4, <2>2, <2>3 DEF ByItsCursor, Planned
  <2>5. ScRest BY <1>5, ScAssumption DEF ScIInv, ScTypeOK, ScRest, ScPass
  <2> QED BY <1>5, <2>1, <2>2, <2>4, <2>5, ScTurnsStep DEF ScTurns
<1>6. CASE scProc' = [scProc EXCEPT ![p] = [s EXCEPT !.leads = FALSE, !.passed = TRUE]]
           /\ scLock' = scLock /\ scLeft' = scLeft
  <2>1. PICK t : t = [s EXCEPT !.leads = FALSE, !.passed = TRUE] OBVIOUS
  <2>2. t \in Proc /\ t.next = s.next /\ t.todo = s.todo /\ t.last = s.last /\ t.alive
    BY <1>1, <2>1 DEF Proc
  <2>3. ByItsCursor(t) BY <1>1, <2>2 DEF ByItsCursor
  <2>4. ScRest BY <1>6 DEF ScIInv, ScTypeOK, ScRest, ScPass
  <2> QED BY <1>6, <2>1, <2>2, <2>3, <2>4, ScTurnsStep DEF ScTurns
<1> QED BY <1>1, <1>3, <1>4, <1>5, <1>6 DEF ScPass, Wins

LEMMA ScPushStep ==
    ASSUME ScIInv, NEW p \in ScProcesses, ScPush(p)
    PROVE  ScIInv'
<1>1. PICK s \in Proc : s = scProc[p] /\ s.alive /\ s.todo # <<>> /\ ByItsCursor(s)
  BY DEF ScIInv, ScTypeOK, ScPush, Acts
<1>2. PICK k \in Occurrences, todo \in Seq(Occurrences) :
         /\ k = Head(s.todo) /\ todo = Tail(s.todo)
         /\ Len(todo) = Len(s.todo) - 1
         /\ \A i \in 1..Len(todo) : todo[i] = s.todo[i + 1]
  <2>1. s.todo \in Seq(Occurrences) BY <1>1, ProcIs
  <2>2. /\ Head(s.todo) \in Occurrences /\ Tail(s.todo) \in Seq(Occurrences)
        /\ Len(Tail(s.todo)) = Len(s.todo) - 1
        /\ \A i \in 1..Len(Tail(s.todo)) : Tail(s.todo)[i] = s.todo[i + 1]
    BY <1>1, <2>1, HeadTailProperties
  <2> QED BY <2>2
<1>3. k = s.todo[1] /\ Len(s.todo) \in Nat \ {0} BY <1>1, <1>2, ProcIs, EmptySeq
<1>4. PICK running \in Times : running = IF scQueue[k] # "active" THEN k ELSE 0 BY ProcIs
<1>5. PICK t : t = [s EXCEPT !.todo = todo, !.last = k, !.running = running] OBVIOUS
<1>6. t \in Proc /\ t.next = s.next /\ t.todo = todo /\ t.last = k /\ t.alive = s.alive
  BY <1>1, <1>5, ProcIs DEF Proc
<1>7. DOMAIN todo = 1..Len(todo) /\ DOMAIN s.todo = 1..Len(s.todo) BY <1>6, ProcIs
<1>8. \A i \in DOMAIN todo : 1 \in DOMAIN s.todo /\ i + 1 \in DOMAIN s.todo /\ 1 < i + 1
  BY <1>2, <1>3, <1>7
<1>9. ByItsCursor(t)
  <2>1. 1 \in DOMAIN s.todo BY <1>3, <1>7
  <2>2. \A i \in DOMAIN todo : k < todo[i] /\ todo[i] < s.next
    BY <1>1, <1>2, <1>3, <1>7, <1>8 DEF ByItsCursor
  <2>3. \A i, j \in DOMAIN todo : i < j => todo[i] < todo[j]
    <3>1. \A i, j \in DOMAIN todo : i < j => i + 1 < j + 1 BY <1>7
    <3> QED BY <1>1, <1>2, <1>7, <1>8, <3>1 DEF ByItsCursor
  <2>4. k < s.next BY <1>1, <1>3, <2>1 DEF ByItsCursor
  <2> QED BY <1>1, <1>6, <2>2, <2>3, <2>4 DEF ByItsCursor
<1>10. ScRest
  <2>1. scFired' \in [Occurrences -> Nat] BY <1>1, <1>2 DEF ScPush, ScIInv, ScTypeOK
  <2>2. scQueue' \in [Occurrences -> {"none", "active", "done"}]
    BY <1>1, <1>2 DEF ScPush, ScIInv, ScTypeOK
  <2> QED BY <2>1, <2>2 DEF ScRest, ScPush, ScIInv, ScTypeOK
<1>11. scProc' = [scProc EXCEPT ![p] = t] BY <1>1, <1>2, <1>4, <1>5 DEF ScPush
<1> QED BY <1>6, <1>9, <1>10, <1>11, ScTurnsStep DEF ScTurns

LEMMA ScElectionFailsStep ==
    ASSUME ScIInv, NEW p \in ScProcesses, ScElectionFails(p)
    PROVE  ScIInv'
<1>1. PICK s \in Proc : s = scProc[p] /\ ByItsCursor(s) BY DEF ScIInv, ScTypeOK
<1>2. PICK t : t = [s EXCEPT !.leads = FALSE, !.passed = TRUE] OBVIOUS
<1>3. t \in Proc /\ t.next = s.next /\ t.todo = s.todo /\ t.last = s.last /\ t.alive = s.alive
  BY <1>1, <1>2 DEF Proc
<1>4. ByItsCursor(t) BY <1>1, <1>3 DEF ByItsCursor
<1>5. ScRest
  <2>1. scLock' \in ScProcesses \union {ScNobody} /\ scLeft' \in 0..ScLease
    BY ScAssumption DEF ScElectionFails, ScIInv, ScTypeOK
  <2> QED BY <2>1, ScAssumption DEF ScElectionFails, Fault, ScRest, ScIInv, ScTypeOK
<1>6. scProc' = [scProc EXCEPT ![p] = t] BY <1>1, <1>2 DEF ScElectionFails
<1> QED BY <1>3, <1>4, <1>5, <1>6, ScTurnsStep DEF ScTurns

\* A process that is started, stopped or paused, and a push that fails.
LEMMA ScLifeStep ==
    ASSUME ScIInv, NEW p \in ScProcesses,
           ScPushFails(p) \/ ScShutdown(p) \/ ScDie(p) \/ ScStall(p) \/ ScBoot(p) \/ ScResume(p)
    PROVE  ScIInv'
<1>1. PICK s \in Proc : s = scProc[p] /\ ByItsCursor(s) BY DEF ScIInv, ScTypeOK
<1>2. ScTypeOK /\ scLock \in ScProcesses \union {ScNobody} BY DEF ScIInv, ScTypeOK
<1>3. ScRest
  BY <1>2, ScRestStays DEF ScPushFails, ScShutdown, ScDie, ScStall, ScBoot, ScResume, Fault
<1>4. CASE ScPushFails(p)
  <2>0. PICK e \in Seq(Occurrences) : e = <<>> BY EmptySeq
  <2>1. PICK t : t = [s EXCEPT !.todo = e] OBVIOUS
  <2>2. t \in Proc /\ t.next = s.next /\ t.todo = <<>> /\ t.last = s.last /\ t.alive = s.alive
    BY <1>1, <2>0, <2>1 DEF Proc
  <2>3. ByItsCursor(t) BY <1>1, <2>2 DEF ByItsCursor
  <2>4. scProc' = [scProc EXCEPT ![p] = t] BY <1>1, <1>4, <2>0, <2>1 DEF ScPushFails
  <2> QED BY <1>3, <2>2, <2>3, <2>4, ScTurnsStep DEF ScTurns
<1>5. CASE ScStall(p) \/ ScResume(p)
  <2>1. PICK b \in BOOLEAN : scProc' = [scProc EXCEPT ![p] = [s EXCEPT !.stalled = b]]
    BY <1>1, <1>5 DEF ScStall, ScResume
  <2>2. PICK t : t = [s EXCEPT !.stalled = b] OBVIOUS
  <2>3. t \in Proc /\ t.next = s.next /\ t.todo = s.todo /\ t.last = s.last /\ t.alive = s.alive
    BY <1>1, <2>2 DEF Proc
  <2>4. ByItsCursor(t) BY <1>1, <2>3 DEF ByItsCursor
  <2> QED BY <1>3, <2>1, <2>2, <2>3, <2>4, ScTurnsStep DEF ScTurns
<1>6. CASE ScShutdown(p) \/ ScDie(p)
  <2>1. Dead \in Proc BY ProcIs, <1>1 DEF Dead, Proc
  <2>2. ByItsCursor(Dead) BY DEF Dead, ByItsCursor
  <2> QED BY <1>3, <1>6, <2>1, <2>2, ScTurnsStep DEF ScTurns, ScShutdown, ScDie
<1>7. CASE ScBoot(p)
  <2>1. scNow \in Nat /\ scNow <= ScEnd BY <1>2, ScAssumption DEF ScTypeOK
  <2>2. NextAfter(scNow) \in Times BY <2>1, NextAfterIs, ScAssumption DEF Times
  <2>3. Booted \in Proc BY <1>1, <2>2, ProcIs DEF Booted, Proc
  <2>4. ByItsCursor(Booted) BY <2>1, NextAfterIs DEF Booted, ByItsCursor
  <2> QED BY <1>3, <1>7, <2>3, <2>4, ScTurnsStep DEF ScTurns, ScBoot
<1> QED BY <1>4, <1>5, <1>6, <1>7

LEMMA ScTickStep == ASSUME ScIInv, ScTick PROVE ScIInv'
<1>1. \A p \in ScProcesses :
        /\ scProc'[p] \in Proc
        /\ scProc'[p].next = scProc[p].next /\ scProc'[p].todo = scProc[p].todo
        /\ scProc'[p].last = scProc[p].last /\ scProc'[p].alive = scProc[p].alive
  <2> SUFFICES ASSUME NEW p \in ScProcesses
               PROVE  /\ scProc'[p] \in Proc
                      /\ scProc'[p].next = scProc[p].next /\ scProc'[p].todo = scProc[p].todo
                      /\ scProc'[p].last = scProc[p].last /\ scProc'[p].alive = scProc[p].alive
    OBVIOUS
  <2>1. PICK s \in Proc : s = scProc[p] BY DEF ScIInv, ScTypeOK
  <2>2. PICK b \in BOOLEAN : b = ~s.alive OBVIOUS
  <2>3. scProc'[p] = [s EXCEPT !.passed = b] BY <2>1, <2>2 DEF ScTick
  <2> QED BY <2>1, <2>3 DEF Proc
<1>2. ScTypeOK'
  <2>1. scProc' \in [ScProcesses -> Proc] BY <1>1 DEF ScTick
  <2>2. scNow' \in 0..ScEnd /\ scLeft' \in 0..ScLease BY ScAssumption DEF ScTick, ScIInv, ScTypeOK
  <2> QED BY <2>1, <2>2 DEF ScTick, ScIInv, ScTypeOK, scConfig
<1>3. ASSUME NEW p \in ScProcesses PROVE ByItsCursor(scProc[p])'
  BY <1>1 DEF ScIInv, ByItsCursor
<1> QED BY <1>2, <1>3 DEF ScIInv

LEMMA ScInvInit == ScInit => ScIInv
<1> SUFFICES ASSUME ScInit PROVE ScIInv OBVIOUS
<1>1. scNow = 0 /\ 0 \in Nat BY DEF ScInit
<1>2. NextAfter(scNow) \in Times BY <1>1, NextAfterIs, ScAssumption DEF Times
<1>3. 0 \in Times BY ScAssumption DEF Times
<1>4. Booted \in Proc BY <1>2, <1>3 DEF Booted, Proc
<1>5. ByItsCursor(Booted) BY <1>1, NextAfterIs DEF Booted, ByItsCursor
<1>6. ScTypeOK BY <1>4, ScAssumption DEF ScInit, ScTypeOK, scConfig
<1>7. \A p \in ScProcesses : scProc[p] = Booted BY DEF ScInit
<1> QED BY <1>5, <1>6, <1>7 DEF ScIInv

LEMMA ScInvStep == ScIInv /\ [ScNext]_scVars => ScIInv'
<1> SUFFICES ASSUME ScIInv, [ScNext]_scVars PROVE ScIInv' OBVIOUS
<1>1. ASSUME NEW k \in Occurrences, ScWork(k) PROVE ScIInv'
  <2>1. ScTypeOK' BY <1>1 DEF ScWork, ScIInv, ScTypeOK, scConfig
  <2>2. \A p \in ScProcesses : ByItsCursor(scProc[p])' BY <1>1 DEF ScWork, ScIInv, ByItsCursor
  <2> QED BY <2>1, <2>2 DEF ScIInv
<1>2. CASE UNCHANGED scVars
  <2>1. ScTypeOK' BY <1>2 DEF ScIInv, ScTypeOK, scConfig, scVars
  <2>2. \A p \in ScProcesses : ByItsCursor(scProc[p])' BY <1>2 DEF scVars, ScIInv, ByItsCursor
  <2> QED BY <2>1, <2>2 DEF ScIInv
<1> QED BY <1>1, <1>2, ScPassStep, ScPushStep, ScElectionFailsStep, ScLifeStep, ScTickStep
        DEF ScNext, ScMoves

LEMMA InOrderNow == ScIInv => InOrderOnce
  BY DEF ScIInv, ByItsCursor, InOrderOnce

\* schedule.rs: one life of a process pushes its occurrences in the order of time
\* and each one once, whoever leads, and whatever fails, dies or is paused.
THEOREM OccurrencesInOrder == ScSpec => []InOrderOnce
  BY ScInvInit, ScInvStep, InOrderNow, PTL DEF ScSpec

-----------------------------------------------------------------------------
(***************************************************************************)
(* What Breaker promises, for any set of callers, threshold and cooldowns. *)
(*                                                                         *)
(* That there is one probe is not inductive alone: it rests on the state,  *)
(* which only the compare_exchange leaves "open" for "half_open".          *)
(* `SoleProbe` says so: while a probe runs and nothing else was recorded   *)
(* meanwhile, the state is "half_open", so nobody can start a second one.  *)
(***************************************************************************)

SoleProbe ==
    \/ bkStray
    \/ Probes = {}
    \/ bkState = "half_open" /\ \E p \in BkCallers : Probes = {p}

BkIInv == BkTypeOK /\ SoleProbe

-----------------------------------------------------------------------------

\* The records the actions write have the fields they should.
LEMMA BkCallShapes ==
    /\ BkIdle \in BkCall
    /\ [at |-> "calls", probe |-> TRUE] \in BkCall
    /\ \A call \in BkCall :
         \A at \in {"saw_open", "elapsed", "calls", "ok", "closes",
                    "failed", "counts", "doubles", "opens", "opened"} :
            /\ [call EXCEPT !.at = at] \in BkCall
            /\ [call EXCEPT !.at = at].probe = call.probe
  BY DEF BkIdle, BkCall

\* A call that goes on keeps its type, and starts no probe.
LEMMA ToShape ==
    ASSUME BkTypeOK, NEW c \in BkCallers,
           NEW at \in {"idle", "saw_open", "elapsed", "calls", "ok", "closes",
                       "failed", "counts", "doubles", "opens", "opened"},
           To(c, at)
    PROVE  \E call \in BkCall :
              /\ Becomes(c, call)
              /\ call.probe => bkCall[c].probe
<1>1. CASE at = "idle"
  BY <1>1, BkCallShapes DEF To, BkIdle
<1>2. CASE at # "idle"
  <2>1. bkCall[c] \in BkCall BY DEF BkTypeOK
  <2>2. /\ [bkCall[c] EXCEPT !.at = at] \in BkCall
        /\ [bkCall[c] EXCEPT !.at = at].probe = bkCall[c].probe
    BY <1>2, <2>1, BkCallShapes
  <2> QED BY <1>2, <2>2 DEF To
<1> QED BY <1>1, <1>2

\* The cooldown stays within its bounds.
LEMMA Cooldowns == BkTypeOK => Doubled \in BkBase..BkCeiling
  BY BkAssumption DEF BkTypeOK, Doubled

\* Every step, as what it does to the calls and to the state.
LEMMA BkStepShapes ==
    ASSUME BkTypeOK, [BkNext]_bkVars
    PROVE  \/ \E c \in BkCallers, call \in BkCall :
                /\ Becomes(c, call)
                /\ call.probe => bkCall[c].probe
                /\ \/ bkState' = bkState
                   \/ At(c, "closes") /\ bkState' = "closed" /\ ~call.probe
                   \/ At(c, "opened") /\ bkState' = "open" /\ ~call.probe
           \/ \E c \in BkCallers :
                /\ bkState = "open" /\ bkState' = "half_open"
                /\ Becomes(c, [at |-> "calls", probe |-> TRUE])
           \/ UNCHANGED <<bkState, bkCall, bkStray>>
<1>1. ASSUME NEW c \in BkCallers, NEW at, To(c, at), bkState' = bkState,
             at \in {"idle", "saw_open", "elapsed", "calls", "ok", "closes",
                     "failed", "counts", "doubles", "opens", "opened"}
      PROVE  \E call \in BkCall :
                /\ Becomes(c, call)
                /\ call.probe => bkCall[c].probe
                /\ bkState' = bkState
  BY <1>1, ToShape
<1>2. ASSUME NEW c \in BkCallers, BkAsk(c) \/ BkRemaining(c)
      PROVE  \E at \in {"idle", "calls", "saw_open", "elapsed"} : To(c, at) /\ bkState' = bkState
  BY <1>2 DEF BkAsk, BkRemaining
<1>3. ASSUME NEW c \in BkCallers, BkSucceed(c) \/ BkFail(c) \/ BkDrop(c)
      PROVE  \E at \in {"idle", "ok", "failed"} : To(c, at) /\ bkState' = bkState
  BY <1>3 DEF BkSucceed, BkFail, BkDrop
<1>4. ASSUME NEW c \in BkCallers, BkReset(c) \/ BkLoad(c) \/ BkDouble(c) \/ BkCount(c) \/ BkOpen(c)
      PROVE  \E at \in {"closes", "doubles", "counts", "opens", "opened", "idle"} :
                To(c, at) /\ bkState' = bkState
  BY <1>4 DEF BkReset, BkLoad, BkDouble, BkCount, BkOpen
<1>5. ASSUME NEW c \in BkCallers, BkClose(c)
      PROVE  \E call \in BkCall :
                Becomes(c, call) /\ At(c, "closes") /\ bkState' = "closed" /\ ~call.probe
  BY <1>5, BkCallShapes DEF BkClose, To, BkIdle
<1>6. ASSUME NEW c \in BkCallers, BkOpened(c)
      PROVE  \E call \in BkCall :
                Becomes(c, call) /\ At(c, "opened") /\ bkState' = "open" /\ ~call.probe
  BY <1>6, BkCallShapes DEF BkOpened, To, BkIdle
<1>7. ASSUME NEW c \in BkCallers, BkProbe(c)
      PROVE  \/ /\ bkState = "open" /\ bkState' = "half_open"
                /\ Becomes(c, [at |-> "calls", probe |-> TRUE])
             \/ To(c, "idle") /\ bkState' = bkState
  BY <1>7 DEF BkProbe
<1>8. CASE BkTick BY <1>8 DEF BkTick
<1>9. CASE UNCHANGED bkVars BY <1>9 DEF bkVars
<1>10. ASSUME NEW c \in BkCallers,
              NEW at \in {"idle", "saw_open", "elapsed", "calls", "ok", "closes",
                          "failed", "counts", "doubles", "opens", "opened"},
              To(c, at), bkState' = bkState
       PROVE  \E d \in BkCallers, call \in BkCall :
                 /\ Becomes(d, call)
                 /\ call.probe => bkCall[d].probe
                 /\ bkState' = bkState
  BY <1>10, <1>1
<1>11. ASSUME NEW c \in BkCallers, BkCalls(c) \/ BkFail(c) \/ BkDrop(c)
       PROVE  \/ BkAsk(c) \/ BkRemaining(c) \/ BkProbe(c)
              \/ BkSucceed(c) \/ BkFail(c) \/ BkDrop(c)
              \/ BkReset(c) \/ BkLoad(c) \/ BkDouble(c) \/ BkCount(c) \/ BkOpen(c)
              \/ BkClose(c) \/ BkOpened(c)
  BY <1>11 DEF BkCalls, BkAllow, BkRecord
<1>12. CASE \E c \in BkCallers : BkCalls(c) \/ BkFail(c) \/ BkDrop(c)
  <2>1. PICK c \in BkCallers : BkCalls(c) \/ BkFail(c) \/ BkDrop(c)
    BY <1>12
  <2>2. CASE BkAsk(c) \/ BkRemaining(c) BY <2>2, <1>2, <1>10
  <2>3. CASE BkSucceed(c) \/ BkFail(c) \/ BkDrop(c) BY <2>3, <1>3, <1>10
  <2>4. CASE BkReset(c) \/ BkLoad(c) \/ BkDouble(c) \/ BkCount(c) \/ BkOpen(c)
    BY <2>4, <1>4, <1>10
  <2>5. CASE BkClose(c) BY <2>5, <1>5
  <2>6. CASE BkOpened(c) BY <2>6, <1>6
  <2>7. CASE BkProbe(c) BY <2>7, <1>7, <1>10
  <2> QED BY <2>1, <2>2, <2>3, <2>4, <2>5, <2>6, <2>7, <1>11
<1> QED BY <1>8, <1>9, <1>12 DEF BkNext

\* The counters and the cooldown keep their types, whatever the call.
LEMMA BkCounterStep ==
    ASSUME BkTypeOK, [BkNext]_bkVars
    PROVE  /\ bkRow' \in 0..BkThreshold
           /\ bkCooldown' \in BkBase..BkCeiling
           /\ bkLeft' \in 0..(BkCeiling + BkJitter)
           /\ bkFailed' \in 0..BkMaxFailures
           /\ bkDropped' \in 0..BkMaxDropped
           /\ bkUndecided' \in BOOLEAN
<1> USE BkAssumption DEF BkTypeOK
<1>1. ASSUME NEW c \in BkCallers, BkAllow(c) \/ BkSucceed(c) \/ BkClose(c) \/ BkLoad(c) \/ BkOpened(c)
      PROVE  UNCHANGED <<bkRow, bkCooldown, bkLeft, bkFailed, bkDropped, bkUndecided>>
  BY <1>1 DEF BkAllow, BkAsk, BkRemaining, BkProbe, BkSucceed, BkClose, BkLoad, BkOpened
<1>2. ASSUME NEW c \in BkCallers, BkFail(c) PROVE
         /\ bkFailed' \in 0..BkMaxFailures
         /\ UNCHANGED <<bkRow, bkCooldown, bkLeft, bkDropped, bkUndecided>>
  BY <1>2 DEF BkFail
<1>3. ASSUME NEW c \in BkCallers, BkDrop(c) PROVE
         /\ bkDropped' \in 0..BkMaxDropped
         /\ bkUndecided' \in BOOLEAN
         /\ UNCHANGED <<bkRow, bkCooldown, bkLeft, bkFailed>>
  <2>1. bkUndecided' \in BOOLEAN BY <1>3, Zenon DEF BkDrop
  <2> QED BY <2>1, <1>3 DEF BkDrop
<1>4. ASSUME NEW c \in BkCallers, BkReset(c) PROVE
         /\ bkRow' \in 0..BkThreshold /\ bkCooldown' \in BkBase..BkCeiling
         /\ UNCHANGED <<bkLeft, bkFailed, bkDropped, bkUndecided>>
  BY <1>4 DEF BkReset
<1>5. ASSUME NEW c \in BkCallers, BkDouble(c) PROVE
         /\ bkCooldown' \in BkBase..BkCeiling
         /\ UNCHANGED <<bkRow, bkLeft, bkFailed, bkDropped, bkUndecided>>
  BY <1>5, Cooldowns DEF BkDouble
<1>6. ASSUME NEW c \in BkCallers, BkCount(c) PROVE
         /\ bkRow' \in 0..BkThreshold
         /\ UNCHANGED <<bkCooldown, bkLeft, bkFailed, bkDropped, bkUndecided>>
  BY <1>6 DEF BkCount
<1>7. ASSUME NEW c \in BkCallers, BkOpen(c) PROVE
         /\ bkLeft' \in 0..(BkCeiling + BkJitter)
         /\ UNCHANGED <<bkRow, bkCooldown, bkFailed, bkDropped, bkUndecided>>
  BY <1>7 DEF BkOpen
<1>8. ASSUME BkTick PROVE
         /\ bkLeft' \in 0..(BkCeiling + BkJitter)
         /\ UNCHANGED <<bkRow, bkCooldown, bkFailed, bkDropped, bkUndecided>>
  BY <1>8 DEF BkTick
<1>9. CASE UNCHANGED bkVars BY <1>9 DEF bkVars
<1> QED
  BY <1>1, <1>2, <1>3, <1>4, <1>5, <1>6, <1>7, <1>8, <1>9
     DEF BkNext, BkCalls, BkRecord

\* The state, the calls and the mark of a stray keep their types.
LEMMA BkTypeStep == BkTypeOK /\ [BkNext]_bkVars => BkTypeOK'
<1> SUFFICES ASSUME BkTypeOK, [BkNext]_bkVars PROVE BkTypeOK'
  OBVIOUS
<1>1. ASSUME NEW c \in BkCallers, NEW call \in BkCall, Becomes(c, call)
      PROVE  bkCall' \in [BkCallers -> BkCall] /\ bkStray' \in BOOLEAN
  <2>1. bkCall' \in [BkCallers -> BkCall] BY <1>1 DEF Becomes, BkTypeOK
  <2>2. bkStray' \in BOOLEAN BY <1>1, Zenon DEF Becomes
  <2> QED BY <2>1, <2>2
<1>2. [at |-> "calls", probe |-> TRUE] \in BkCall BY BkCallShapes
<1>3. /\ bkState' \in {"closed", "open", "half_open"}
      /\ bkCall' \in [BkCallers -> BkCall] /\ bkStray' \in BOOLEAN
  BY <1>1, <1>2, BkStepShapes DEF BkTypeOK
<1> QED BY <1>3, BkCounterStep DEF BkTypeOK

LEMMA BkTypeInit == BkInit => BkTypeOK
<1> SUFFICES ASSUME BkInit PROVE BkTypeOK OBVIOUS
<1>1. bkCall \in [BkCallers -> BkCall] BY BkCallShapes DEF BkInit
<1>2. /\ bkRow \in 0..BkThreshold /\ bkCooldown \in BkBase..BkCeiling
      /\ bkLeft \in 0..(BkCeiling + BkJitter)
  BY BkAssumption DEF BkInit
<1>3. bkFailed \in 0..BkMaxFailures /\ bkDropped \in 0..BkMaxDropped
  BY BkAssumption DEF BkInit
<1>4. bkState \in {"closed", "open", "half_open"} /\ bkStray \in BOOLEAN /\ bkUndecided \in BOOLEAN
  BY DEF BkInit
<1> QED BY <1>1, <1>2, <1>3, <1>4 DEF BkTypeOK

\* The breaker's types hold from start to end; the cooldown never exceeds the
\* ceiling, however often it doubles.
THEOREM BreakerTyping == BkSpec => []BkTypeOK
  BY BkTypeInit, BkTypeStep, PTL DEF BkSpec

-----------------------------------------------------------------------------
(* One probe *)

\* A call that starts no probe leaves as many as there were, or one fewer.
LEMMA FewerProbes ==
    ASSUME BkTypeOK, SoleProbe, NEW c \in BkCallers, NEW call \in BkCall,
           Becomes(c, call), call.probe => bkCall[c].probe,
           \/ bkState' = bkState
           \/ At(c, "closes") /\ bkState' = "closed" /\ ~call.probe
           \/ At(c, "opened") /\ bkState' = "open" /\ ~call.probe
    PROVE  SoleProbe'
<1>1. bkCall' = [bkCall EXCEPT ![c] = call] BY DEF Becomes
<1>2. Probes' \subseteq Probes
  BY <1>1 DEF Probes, BkTypeOK
<1>3. CASE Probes' = {} BY <1>3 DEF SoleProbe
<1>4. CASE Probes' # {}
  <2>1. \E d \in BkCallers : bkCall'[d].probe BY <1>4 DEF Probes
  <2>2. CASE bkStray \/ Strays(c)
    <3>1. bkStray' BY <2>1, <2>2, Zenon DEF Becomes
    <3> QED BY <3>1 DEF SoleProbe
  <2>3. CASE ~bkStray /\ ~Strays(c)
    <3>1. PICK p \in BkCallers : Probes = {p} /\ bkState = "half_open"
      BY <2>3, <1>2, <1>4 DEF SoleProbe
    <3>2. Probes' = {p} BY <3>1, <1>2, <1>4
    <3>3. CASE bkState' = bkState BY <3>1, <3>2, <3>3 DEF SoleProbe
    <3>4. CASE (At(c, "closes") \/ At(c, "opened")) /\ ~call.probe
      <4>1. bkCall[c].probe BY <3>1, <3>4, <2>3 DEF Strays, At
      <4>2. c = p BY <4>1, <3>1 DEF Probes
      <4>3. ~bkCall'[p].probe BY <4>2, <3>4, <1>1 DEF BkTypeOK
      <4> QED BY <4>3, <3>2 DEF Probes
    <3> QED BY <3>3, <3>4
  <2> QED BY <2>2, <2>3
<1> QED BY <1>3, <1>4

\* A probe starts only when none runs that anything still rests on.
LEMMA FirstProbe ==
    ASSUME BkTypeOK, SoleProbe, NEW c \in BkCallers,
           bkState = "open", bkState' = "half_open",
           Becomes(c, [at |-> "calls", probe |-> TRUE])
    PROVE  SoleProbe'
<1>1. bkCall' = [bkCall EXCEPT ![c] = [at |-> "calls", probe |-> TRUE]] BY DEF Becomes
<1>2. bkCall'[c].probe BY <1>1 DEF BkTypeOK
<1>3. CASE bkStray
  <2>1. bkStray' BY <1>2, <1>3, Zenon DEF Becomes
  <2> QED BY <2>1 DEF SoleProbe
<1>4. CASE Probes = {}
  <2>1. Probes' = {c} BY <1>1, <1>2, <1>4 DEF Probes, BkTypeOK
  <2> QED BY <2>1 DEF SoleProbe
<1> QED BY <1>3, <1>4 DEF SoleProbe

\* Every step keeps the probe alone.
LEMMA SoleProbeStep == BkIInv /\ [BkNext]_bkVars => SoleProbe'
<1> SUFFICES ASSUME BkTypeOK, SoleProbe, [BkNext]_bkVars PROVE SoleProbe'
  BY DEF BkIInv
<1>1. CASE UNCHANGED <<bkState, bkCall, bkStray>>
  <2>1. Probes' = Probes BY <1>1 DEF Probes
  <2> QED BY <2>1, <1>1 DEF SoleProbe
<1> QED BY <1>1, BkStepShapes, FewerProbes, FirstProbe

LEMMA BkInvInit == BkInit => BkIInv
<1>1. BkInit => BkTypeOK BY BkTypeInit
<1>2. BkInit => SoleProbe
  BY DEF BkInit, SoleProbe, Probes, BkIdle
<1> QED BY <1>1, <1>2 DEF BkIInv

LEMMA BkInvStep == BkIInv /\ [BkNext]_bkVars => BkIInv'
  BY BkTypeStep, SoleProbeStep DEF BkIInv

LEMMA OneProbeNow == BkIInv => OneProbe
<1>1. Cardinality({}) = 0 BY FS_EmptySet
<1>2. \A p : Cardinality({p}) = 1 BY FS_Singleton
<1> QED BY <1>1, <1>2, 0 <= 1, 1 <= 1 DEF BkIInv, SoleProbe, OneProbe

\* breaker.rs: at most one probe tests the store at a time, unless a call from
\* before the breaker opened was recorded during the probe.
THEOREM OneProbeAtATime == BkSpec => []OneProbe
  BY BkInvInit, BkInvStep, OneProbeNow, PTL DEF BkSpec

-----------------------------------------------------------------------------
(***************************************************************************)
(* What ReadThrough promises, for any finite set of callers and any number *)
(* of versions and failures.                                               *)
(*                                                                         *)
(* That one caller computes rests on where the callers wait: `OneSlot` says*)
(* that whoever holds a slot holds the one the map refers to, so the permit*)
(* of that slot is the only one.  That values are fresh rests on `Fresh`:  *)
(* unless callers were at work at the last invalidation, nothing older than*)
(* it is in the cache, in a slot that is held or in the hands of a caller. *)
(***************************************************************************)

Holding == {"waits", "rechecks", "computes", "writes", "leaves"}

OneSlot ==
    \A c \in RtCallers :
        IF rtCall[c].at \in Holding
        THEN rtCall[c].slot \in Slots /\ rtCall[c].slot = rtMap
        ELSE rtCall[c].slot = RtNone

Recent(v) == v = RtNone \/ v >= rtFloor

Fresh ==
    /\ rtFloor <= rtTruth
    /\ \A c \in RtCallers : rtCall[c].floor <= rtFloor
    /\ ~rtOverlap =>
        /\ Recent(rtCache)
        /\ \A c \in RtCallers :
              /\ Recent(rtCall[c].value)
              /\ rtCall[c].slot # RtNone => Recent(rtCell[rtCall[c].slot])

\* What is to be written has been computed, and a caller starts with nothing.
Computed ==
    \A c \in RtCallers :
        /\ rtCall[c].at = "writes" => rtCall[c].value \in RtVersions
        /\ rtCall[c].at = "idle" => rtCall[c].value = RtNone

RtIInv == RtTypeOK /\ OneSlot /\ OneComputation /\ Fresh /\ Computed

-----------------------------------------------------------------------------

\* There is a slot for whoever asks.
LEMMA SomeSlot == ASSUME NEW c \in RtCallers PROVE 1 \in Slots
<1>1. Cardinality(RtCallers) \in Nat /\ Cardinality(RtCallers) # 0
  BY RtAssumption, FS_CardinalityType, FS_EmptySet
<1> QED BY <1>1 DEF Slots

\* A slot is not the absence of one.
LEMMA SlotsAreNot == RtNone \notin Slots /\ RtNone \notin RtVersions /\ RtVersions \subseteq Nat
  BY RtAssumption, FS_CardinalityType DEF Slots, RtVersions

\* The records the actions write have the fields they should.
LEMMA RtCallShapes ==
    /\ RtIdle \in RtCall
    /\ \A call \in RtCall, at \in {"misses", "waits", "rechecks", "computes", "writes",
                                   "leaves", "sweeps", "returns"} :
        /\ [call EXCEPT !.at = at] \in RtCall
        /\ \A v \in RtVersions \union {RtNone} : [call EXCEPT !.at = at, !.value = v] \in RtCall
        /\ \A s \in Slots \union {RtNone} : [call EXCEPT !.at = at, !.slot = s] \in RtCall
    /\ \A at \in {"misses", "returns"}, v \in RtVersions \union {RtNone}, f \in RtVersions :
        [RtIdle EXCEPT !.at = at, !.value = v, !.floor = f] \in RtCall
    /\ \A f \in RtVersions : [RtIdle EXCEPT !.at = "misses", !.floor = f] \in RtCall
<1>1. 0 \in RtVersions BY RtAssumption DEF RtVersions
<1>2. RtIdle \in RtCall BY <1>1 DEF RtIdle, RtCall
<1>3. ASSUME NEW call \in RtCall,
             NEW at \in {"misses", "waits", "rechecks", "computes", "writes",
                         "leaves", "sweeps", "returns"}
      PROVE  /\ [call EXCEPT !.at = at] \in RtCall
             /\ \A v \in RtVersions \union {RtNone} : [call EXCEPT !.at = at, !.value = v] \in RtCall
             /\ \A s \in Slots \union {RtNone} : [call EXCEPT !.at = at, !.slot = s] \in RtCall
  BY DEF RtCall
<1>4. ASSUME NEW at \in {"misses", "returns"}, NEW v \in RtVersions \union {RtNone}, NEW f \in RtVersions
      PROVE  [RtIdle EXCEPT !.at = at, !.value = v, !.floor = f] \in RtCall
  BY <1>1 DEF RtIdle, RtCall
<1>5. ASSUME NEW f \in RtVersions PROVE [RtIdle EXCEPT !.at = "misses", !.floor = f] \in RtCall
  BY <1>1 DEF RtIdle, RtCall
<1> QED BY <1>2, <1>3, <1>4, <1>5

\* What a step of one call does to the other calls: nothing.
LEMMA OthersStay ==
    ASSUME RtTypeOK, NEW c \in RtCallers, NEW call, RtTo(c, call)
    PROVE  /\ rtCall'[c] = call
           /\ \A d \in RtCallers : d # c => rtCall'[d] = rtCall[d]
           /\ call \in RtCall => rtCall' \in [RtCallers -> RtCall]
  BY DEF RtTypeOK, RtTo

\* Every slot that is held is the one in the map: without it no slot is held.
LEMMA DeadMap ==
    ASSUME RtTypeOK, OneSlot, rtMap = RtNone \/ Holders(rtMap) = {}
    PROVE  \A c \in RtCallers : rtCall[c].at \notin Holding /\ rtCall[c].slot = RtNone
<1> SUFFICES ASSUME NEW c \in RtCallers, rtCall[c].at \in Holding PROVE FALSE
  BY DEF OneSlot
<1>1. rtCall[c].slot = rtMap /\ rtMap \in Slots BY DEF OneSlot
<1>2. c \in Holders(rtMap) BY <1>1 DEF Holders
<1> QED BY <1>1, <1>2, SlotsAreNot

\* The slot a caller joins.
JoinSlot == IF rtMap # RtNone /\ Alive(rtMap) THEN rtMap
            ELSE CHOOSE free \in Slots : Holders(free) = {}

LEMMA Joined ==
    ASSUME RtTypeOK, OneSlot, NEW c \in RtCallers
    PROVE  JoinSlot \in Slots
<1>1. CASE rtMap # RtNone /\ Alive(rtMap)
  BY <1>1 DEF JoinSlot, RtTypeOK
<1>2. CASE ~(rtMap # RtNone /\ Alive(rtMap))
  <2>1. Holders(1) = {}
    BY <1>2, DeadMap, SomeSlot, SlotsAreNot DEF Alive, Holders
  <2>2. \E free \in Slots : Holders(free) = {} BY <2>1, SomeSlot
  <2> QED BY <1>2, <2>2 DEF JoinSlot
<1> QED BY <1>1, <1>2

-----------------------------------------------------------------------------
(* One lemma per step, and what it keeps. *)

RtKept == RtTypeOK' /\ OneSlot' /\ OneComputation' /\ Fresh' /\ Computed'

\* A caller that starts, or comes back from where it holds no slot.
LEMMA ReadStep ==
    ASSUME RtIInv, NEW c \in RtCallers, RtRead(c) \/ RtReadFails(c) \/ RtReturn(c)
    PROVE  RtKept
<1> USE DEF RtIInv, RtTypeOK
<1>1. PICK call \in RtCall :
         /\ RtTo(c, call) /\ call.at \in {"misses", "returns", "idle"} /\ call.slot = RtNone
         /\ call.value \in {rtCache, RtNone}
         /\ call.at = "idle" => call.value = RtNone
         /\ call.floor \in {rtFloor, 0}
         /\ UNCHANGED <<rtTruth, rtCache, rtMap, rtCell, rtFloor, rtOverlap>>
  <2>1. CASE RtRead(c)
    <3>1. [RtIdle EXCEPT !.at = IF rtCache = RtNone THEN "misses" ELSE "returns",
                         !.value = rtCache, !.floor = rtFloor] \in RtCall
      BY RtCallShapes
    <3> QED BY <2>1, <3>1 DEF RtRead, RtIdle
  <2>2. CASE RtReadFails(c)
    <3>1. [RtIdle EXCEPT !.at = "misses", !.floor = rtFloor] \in RtCall BY RtCallShapes
    <3> QED BY <2>2, <3>1 DEF RtReadFails, RtIdle
  <2>3. CASE RtReturn(c) BY <2>3, RtCallShapes DEF RtReturn, RtIdle
  <2> QED BY <2>1, <2>2, <2>3
<1>2. /\ rtCall'[c] = call
      /\ \A d \in RtCallers : d # c => rtCall'[d] = rtCall[d]
      /\ rtCall' \in [RtCallers -> RtCall]
  BY <1>1, OthersStay
<1>3. rtTroubles' \in 0..RtMaxTroubles
  BY RtAssumption DEF RtRead, RtReadFails, RtReturn
<1>4. RtTypeOK' BY <1>1, <1>2, <1>3
<1>5. OneSlot' BY <1>1, <1>2, Zenon DEF OneSlot, Holding
<1>6. OneComputation' BY <1>1, <1>2 DEF OneComputation, Leading
<1>7. Fresh'
  <2>1. rtFloor' <= rtTruth' BY <1>1 DEF Fresh
  <2>2. \A d \in RtCallers : rtCall'[d].floor <= rtFloor'
    BY <1>1, <1>2 DEF Fresh, RtVersions
  <2>3. ASSUME ~rtOverlap' PROVE Recent(rtCache)' /\ \A d \in RtCallers :
              /\ Recent(rtCall[d].value)'
              /\ rtCall'[d].slot # RtNone => Recent(rtCell[rtCall[d].slot])'
    BY <2>3, <1>1, <1>2 DEF Fresh, Recent
  <2> QED BY <2>1, <2>2, <2>3 DEF Fresh
<1>8. Computed' BY <1>1, <1>2 DEF Computed
<1> QED BY <1>4, <1>5, <1>6, <1>7, <1>8 DEF RtKept

\* A caller joins the slot of the map, or makes one.
LEMMA JoinStep == ASSUME RtIInv, NEW c \in RtCallers, RtJoin(c) PROVE RtKept
<1> USE DEF RtIInv, RtTypeOK
<1> DEFINE s == JoinSlot
           call == [rtCall[c] EXCEPT !.at = "waits", !.slot = s]
<1>1. s \in Slots BY Joined
<1>2. /\ rtCall[c].at = "misses" /\ RtTo(c, call) /\ rtMap' = s
      /\ rtCell' = IF rtMap # RtNone /\ Alive(rtMap) THEN rtCell ELSE [rtCell EXCEPT ![s] = RtNone]
      /\ UNCHANGED <<rtTruth, rtCache, rtFloor, rtOverlap, rtTroubles>>
  BY DEF RtJoin, RtAt, JoinSlot
<1>3. call \in RtCall /\ call.at = "waits" /\ call.slot = s
      /\ call.value = rtCall[c].value /\ call.floor = rtCall[c].floor
  BY <1>1 DEF RtCall
<1>4. /\ rtCall'[c] = call
      /\ \A d \in RtCallers : d # c => rtCall'[d] = rtCall[d]
      /\ rtCall' \in [RtCallers -> RtCall]
  BY <1>2, <1>3, OthersStay
<1> HIDE DEF s, call
<1>5. \A d \in RtCallers : rtCall[d].at \in Holding => s = rtMap /\ rtCell' = rtCell
  <2>1. CASE rtMap # RtNone /\ Alive(rtMap) BY <2>1, <1>2 DEF s, JoinSlot
  <2>2. CASE ~(rtMap # RtNone /\ Alive(rtMap)) BY <2>2, DeadMap DEF Alive
  <2> QED BY <2>1, <2>2
<1>6. rtCell' \in [Slots -> RtVersions \union {RtNone}] BY <1>1, <1>2
<1>7. RtTypeOK' BY <1>1, <1>2, <1>4, <1>6
<1>8. OneSlot'
  <2>1. "waits" \in Holding /\ "misses" \notin Holding BY DEF Holding
  <2> QED BY <1>1, <1>2, <1>3, <1>4, <1>5, <2>1 DEF OneSlot
<1>9. OneComputation' BY <1>3, <1>4 DEF OneComputation, Leading
<1>10. Fresh'
  <2>1. rtFloor' <= rtTruth' BY <1>2 DEF Fresh
  <2>2. \A d \in RtCallers : rtCall'[d].floor <= rtFloor' BY <1>2, <1>3, <1>4 DEF Fresh
  <2>3. ASSUME ~rtOverlap' PROVE Recent(rtCache)' /\ \A d \in RtCallers : Recent(rtCall[d].value)'
    BY <2>3, <1>2, <1>3, <1>4 DEF Fresh, Recent
  <2>4. ASSUME ~rtOverlap', NEW d \in RtCallers, rtCall'[d].slot # RtNone
        PROVE  Recent(rtCell[rtCall[d].slot])'
    <3>1. CASE d # c
      <4>1. rtCall[d].at \in Holding BY <2>4, <3>1, <1>4 DEF OneSlot
      <4> QED BY <4>1, <3>1, <2>4, <1>2, <1>4, <1>5 DEF Fresh, Recent
    <3>2. CASE d = c
      <4>1. CASE rtMap # RtNone /\ Alive(rtMap)
        <5>1. PICK e \in RtCallers : rtCall[e].slot = rtMap BY <4>1 DEF Alive, Holders
        <5>2. s = rtMap /\ rtCell' = rtCell BY <4>1, <1>2 DEF s, JoinSlot
        <5> QED BY <5>1, <5>2, <4>1, <3>2, <2>4, <1>2, <1>3, <1>4 DEF Fresh, Recent
      <4>2. CASE ~(rtMap # RtNone /\ Alive(rtMap))
        <5>1. rtCell'[s] = RtNone BY <4>2, <1>1, <1>2
        <5> QED BY <5>1, <3>2, <1>3, <1>4 DEF Recent
      <4> QED BY <4>1, <4>2
    <3> QED BY <3>1, <3>2
  <2> QED BY <2>1, <2>2, <2>3, <2>4 DEF Fresh
<1>11. Computed' BY <1>3, <1>4 DEF Computed
<1> QED BY <1>7, <1>8, <1>9, <1>10, <1>11 DEF RtKept

\* A caller that holds a slot goes on with it or gives it back; `v` is what it may
\* have put in its slot.
MayMove(c, call, v) ==
    /\ RtTo(c, call)
    /\ rtCall[c].at \in Holding
    /\ call.at \in Holding => call.slot = rtCall[c].slot
    /\ call.at \notin Holding => call.slot = RtNone
    /\ call.floor \in {0, rtCall[c].floor}
    /\ call.at \in {"rechecks", "computes", "writes"} =>
           Leading(c) \/ \A d \in RtCallers : d # c => ~Leading(d)
    /\ call.at = "writes" => call.value \in RtVersions
    /\ call.at = "idle" => call.value = RtNone
    /\ UNCHANGED <<rtTruth, rtMap, rtFloor, rtOverlap>>
    /\ rtTroubles' \in 0..RtMaxTroubles
    /\ rtCache' \in RtVersions \union {RtNone}
    /\ v \in RtVersions \union {RtNone}
    /\ rtCell' \in {rtCell, [rtCell EXCEPT ![rtCall[c].slot] = v]}
    /\ ~rtOverlap => Recent(call.value) /\ Recent(rtCache)' /\ Recent(v)

\* Such a move keeps the invariant.
LEMMA MoveStep ==
    ASSUME RtIInv, NEW c \in RtCallers, NEW call \in RtCall, NEW v, MayMove(c, call, v)
    PROVE  RtKept
<1> USE DEF RtIInv, RtTypeOK, MayMove
<1>1. /\ rtCall'[c] = call
      /\ \A d \in RtCallers : d # c => rtCall'[d] = rtCall[d]
      /\ rtCall' \in [RtCallers -> RtCall]
  BY OthersStay
<1>2. rtCell' \in [Slots -> RtVersions \union {RtNone}] OBVIOUS
<1>3. RtTypeOK' BY <1>1, <1>2
<1>4. OneSlot' BY <1>1, Zenon DEF OneSlot
<1>5. OneComputation' BY <1>1 DEF OneComputation, Leading
<1>6. Fresh'
  <2>1. rtFloor' <= rtTruth' BY DEF Fresh
  <2>2. \A d \in RtCallers : rtCall'[d].floor <= rtFloor'
    BY <1>1 DEF Fresh, RtVersions
  <2>3. ASSUME ~rtOverlap' PROVE Recent(rtCache)' /\ \A d \in RtCallers : Recent(rtCall[d].value)'
    BY <2>3, <1>1 DEF Fresh, Recent
  <2>4. ASSUME ~rtOverlap', NEW d \in RtCallers, rtCall'[d].slot # RtNone
        PROVE  Recent(rtCell[rtCall[d].slot])'
    <3>1. rtCall'[d].slot = rtCall[d].slot /\ rtCall[d].slot \in Slots
      BY <2>4, <1>1 DEF OneSlot
    <3>2. Recent(rtCell[rtCall[d].slot]) BY <2>4, <3>1 DEF Fresh
    <3>3. rtCell'[rtCall[d].slot] \in {v, rtCell[rtCall[d].slot]} BY <3>1
    <3> QED BY <2>4, <3>1, <3>2, <3>3 DEF Recent
  <2> QED BY <2>1, <2>2, <2>3, <2>4 DEF Fresh
<1>7. Computed' BY <1>1 DEF Computed
<1> QED BY <1>3, <1>4, <1>5, <1>6, <1>7 DEF RtKept

\* What a caller has in hand is recent, and so are the cache and its slot.
LEMMA InHand ==
    ASSUME RtIInv, NEW c \in RtCallers, ~rtOverlap
    PROVE  /\ Recent(rtCache) /\ Recent(rtCall[c].value) /\ Recent(RtNone) /\ Recent(rtTruth)
           /\ rtCall[c].at \in Holding => Recent(rtCell[rtCall[c].slot])
<1>1. rtCall[c].at \in Holding => rtCall[c].slot # RtNone
  BY SlotsAreNot DEF RtIInv, OneSlot
<1> QED BY <1>1 DEF RtIInv, Fresh, Recent

\* A caller shares the value of its slot, or is the first to initialise it.
LEMMA ShareStep == ASSUME RtIInv, NEW c \in RtCallers, RtShare(c) \/ RtLead(c) PROVE RtKept
<1> USE DEF RtIInv, RtTypeOK
<1>1. rtCall[c].at = "waits" /\ rtCall[c].at \in Holding /\ rtCall[c].slot \in Slots
  BY DEF RtShare, RtLead, RtAt, OneSlot, Holding
<1>2. CASE RtShare(c)
  <2> DEFINE call == [rtCall[c] EXCEPT !.at = "leaves", !.value = rtCell[rtCall[c].slot]]
  <2>1. /\ call \in RtCall /\ call.at = "leaves" /\ call.slot = rtCall[c].slot
        /\ call.floor = rtCall[c].floor /\ call.value = rtCell[rtCall[c].slot]
    <3>1. rtCall[c] \in RtCall OBVIOUS
    <3>2. call \in RtCall BY <3>1, <1>1, RtCallShapes
    <3>3. call.at = "leaves" /\ call.slot = rtCall[c].slot
          /\ call.floor = rtCall[c].floor /\ call.value = rtCell[rtCall[c].slot]
      BY <3>1 DEF RtCall
    <3> QED BY <3>2, <3>3
  <2>2. RtTo(c, call) /\ UNCHANGED <<rtTruth, rtCache, rtMap, rtCell, rtFloor, rtOverlap, rtTroubles>>
    BY <1>2 DEF RtShare
  <2>3. "leaves" \in Holding BY DEF Holding
  <2> HIDE DEF call
  <2>4. ~rtOverlap => Recent(call.value) /\ Recent(rtCache)' /\ Recent(RtNone)
    BY <1>1, <2>1, <2>2, InHand DEF Recent
  <2>5. MayMove(c, call, RtNone) BY <1>1, <2>1, <2>2, <2>3, <2>4 DEF MayMove
  <2> QED BY <2>1, <2>5, MoveStep
<1>3. CASE RtLead(c)
  <2> DEFINE call == [rtCall[c] EXCEPT !.at = "rechecks"]
  <2>1. /\ call \in RtCall /\ call.at = "rechecks" /\ call.slot = rtCall[c].slot
        /\ call.floor = rtCall[c].floor /\ call.value = rtCall[c].value
    <3>1. rtCall[c] \in RtCall OBVIOUS
    <3>2. call \in RtCall BY <3>1, <1>1, RtCallShapes
    <3>3. call.at = "rechecks" /\ call.slot = rtCall[c].slot
          /\ call.floor = rtCall[c].floor /\ call.value = rtCall[c].value
      BY <3>1 DEF RtCall
    <3> QED BY <3>2, <3>3
  <2>2. RtTo(c, call) /\ UNCHANGED <<rtTruth, rtCache, rtMap, rtCell, rtFloor, rtOverlap, rtTroubles>>
    BY <1>3 DEF RtLead
  <2>3. "rechecks" \in Holding BY DEF Holding
  <2>4. ASSUME NEW d \in RtCallers, d # c, Leading(d) PROVE FALSE
    <3>1. rtCall[d].at \in Holding BY <2>4 DEF Leading, Holding
    <3>2. rtCall[d].slot = rtCall[c].slot BY <1>1, <3>1 DEF OneSlot
    <3> QED BY <3>2, <2>4, <1>3 DEF RtLead, Holders, Leading
  <2> HIDE DEF call
  <2>5. ~rtOverlap => Recent(call.value) /\ Recent(rtCache)' /\ Recent(RtNone)
    BY <1>1, <2>1, <2>2, InHand DEF Recent
  <2>6. MayMove(c, call, RtNone) BY <1>1, <2>1, <2>2, <2>3, <2>4, <2>5 DEF MayMove
  <2> QED BY <2>1, <2>6, MoveStep
<1> QED BY <1>2, <1>3

\* The leader looks again, computes, and what fails goes to it alone.
LEMMA LeaderStep ==
    ASSUME RtIInv, NEW c \in RtCallers, RtRecheck(c) \/ RtCompute(c) \/ RtComputeFails(c)
    PROVE  RtKept
<1> USE DEF RtIInv, RtTypeOK
<1>1. Leading(c) /\ rtCall[c].at \in Holding /\ rtCall[c].slot \in Slots
  BY DEF RtRecheck, RtCompute, RtComputeFails, RtAt, OneSlot, Holding, Leading
<1>2. rtTroubles' \in 0..RtMaxTroubles
  BY RtAssumption DEF RtRecheck, RtCompute, RtComputeFails
<1>3. \E at \in {"computes", "leaves", "writes"},
         x \in {rtCall[c].value, rtCache, rtTruth} :
        /\ RtTo(c, [rtCall[c] EXCEPT !.at = at, !.value = x])
        /\ at = "writes" => x = rtTruth
        /\ rtCell' \in {rtCell, [rtCell EXCEPT ![rtCall[c].slot] = rtCache]}
        /\ UNCHANGED <<rtTruth, rtCache, rtMap, rtFloor, rtOverlap>>
  <2>1. \A at : [rtCall[c] EXCEPT !.at = at] = [rtCall[c] EXCEPT !.at = at, !.value = rtCall[c].value]
    BY DEF RtCall
  <2>2. CASE RtRecheck(c) BY <2>1, <2>2 DEF RtRecheck
  <2>3. CASE RtCompute(c) BY <2>3 DEF RtCompute
  <2>4. CASE RtComputeFails(c) BY <2>1, <2>4 DEF RtComputeFails
  <2> QED BY <2>2, <2>3, <2>4
<1>4. PICK at \in {"computes", "leaves", "writes"},
         x \in {rtCall[c].value, rtCache, rtTruth} :
        /\ RtTo(c, [rtCall[c] EXCEPT !.at = at, !.value = x])
        /\ at = "writes" => x = rtTruth
        /\ rtCell' \in {rtCell, [rtCell EXCEPT ![rtCall[c].slot] = rtCache]}
        /\ UNCHANGED <<rtTruth, rtCache, rtMap, rtFloor, rtOverlap>>
  BY <1>3
<1> DEFINE call == [rtCall[c] EXCEPT !.at = at, !.value = x]
<1>5. x \in RtVersions \union {RtNone} BY DEF RtCall
<1>6. /\ call \in RtCall /\ call.at = at /\ call.slot = rtCall[c].slot
      /\ call.floor = rtCall[c].floor /\ call.value = x
  <2>1. rtCall[c] \in RtCall OBVIOUS
  <2>2. call \in RtCall BY <2>1, <1>5, RtCallShapes
  <2>3. call.at = at /\ call.slot = rtCall[c].slot
        /\ call.floor = rtCall[c].floor /\ call.value = x
    BY <2>1 DEF RtCall
  <2> QED BY <2>2, <2>3
<1>7. at \in Holding BY DEF Holding
<1> HIDE DEF call
<1>8. ~rtOverlap => Recent(call.value) /\ Recent(rtCache)' /\ Recent(rtCache)
  BY <1>4, <1>6, InHand DEF Recent
<1>9. RtTo(c, call) BY <1>4 DEF call
<1>10. MayMove(c, call, rtCache) BY <1>1, <1>2, <1>4, <1>6, <1>7, <1>8, <1>9 DEF MayMove, Leading
<1> QED BY <1>6, <1>10, MoveStep

\* The leader writes, or its write fails.
LEMMA WriteStep == ASSUME RtIInv, NEW c \in RtCallers, RtWrite(c) \/ RtWriteFails(c) PROVE RtKept
<1> USE DEF RtIInv, RtTypeOK
<1>1. /\ rtCall[c].at = "writes" /\ rtCall[c].at \in Holding
      /\ rtCall[c].slot \in Slots /\ rtCall[c].value \in RtVersions
  BY DEF RtWrite, RtWriteFails, RtAt, OneSlot, Holding, Computed
<1>2. rtTroubles' \in 0..RtMaxTroubles BY RtAssumption DEF RtWrite, RtWriteFails
<1> DEFINE call == [rtCall[c] EXCEPT !.at = "leaves"]
<1>3. /\ RtTo(c, call) /\ rtCell' = [rtCell EXCEPT ![rtCall[c].slot] = rtCall[c].value]
      /\ rtCache' \in {rtCache, rtCall[c].value}
      /\ UNCHANGED <<rtTruth, rtMap, rtFloor, rtOverlap>>
  BY DEF RtWrite, RtWriteFails, Written
<1>4. /\ call \in RtCall /\ call.at = "leaves" /\ call.slot = rtCall[c].slot
      /\ call.floor = rtCall[c].floor /\ call.value = rtCall[c].value
  <2>1. rtCall[c] \in RtCall OBVIOUS
  <2>2. call \in RtCall BY <2>1, RtCallShapes
  <2>3. call.at = "leaves" /\ call.slot = rtCall[c].slot
        /\ call.floor = rtCall[c].floor /\ call.value = rtCall[c].value
    BY <2>1 DEF RtCall
  <2> QED BY <2>2, <2>3
<1>5. "leaves" \in Holding BY DEF Holding
<1> HIDE DEF call
<1>6. ~rtOverlap => Recent(call.value) /\ Recent(rtCache)' /\ Recent(rtCall[c].value)
  BY <1>3, <1>4, InHand DEF Recent
<1>7. rtCache' \in RtVersions \union {RtNone} BY <1>1, <1>3
<1>8. MayMove(c, call, rtCall[c].value) BY <1>1, <1>2, <1>3, <1>4, <1>5, <1>6, <1>7 DEF MayMove
<1> QED BY <1>4, <1>8, MoveStep

\* A caller gives its slot back, or is dropped, with a write on its way or not.
LEMMA LeaveStep == ASSUME RtIInv, NEW c \in RtCallers, RtLeave(c) \/ RtDrop(c) PROVE RtKept
<1> USE DEF RtIInv, RtTypeOK
<1>1. rtCall[c].at \in Holding BY DEF RtLeave, RtDrop, RtAt, Holding
<1>2. rtTroubles' \in 0..RtMaxTroubles BY RtAssumption DEF RtLeave, RtDrop
<1>3. PICK call \in RtCall :
         /\ RtTo(c, call) /\ call.at \in {"sweeps", "idle"} /\ call.slot = RtNone
         /\ call.floor \in {0, rtCall[c].floor} /\ call.value \in {RtNone, rtCall[c].value}
         /\ call.at = "idle" => call.value = RtNone
         /\ rtCache' \in {rtCache, rtCall[c].value}
         /\ UNCHANGED <<rtTruth, rtMap, rtCell, rtFloor, rtOverlap>>
  <2>1. CASE RtLeave(c)
    <3>1. [rtCall[c] EXCEPT !.at = "sweeps", !.slot = RtNone] \in RtCall BY RtCallShapes
    <3>2. /\ [rtCall[c] EXCEPT !.at = "sweeps", !.slot = RtNone].at = "sweeps"
          /\ [rtCall[c] EXCEPT !.at = "sweeps", !.slot = RtNone].slot = RtNone
          /\ [rtCall[c] EXCEPT !.at = "sweeps", !.slot = RtNone].floor = rtCall[c].floor
          /\ [rtCall[c] EXCEPT !.at = "sweeps", !.slot = RtNone].value = rtCall[c].value
      BY DEF RtCall
    <3> QED BY <2>1, <3>1, <3>2 DEF RtLeave
  <2>2. CASE RtDrop(c)
    <3>1. RtIdle \in RtCall /\ RtIdle.at = "idle" /\ RtIdle.slot = RtNone
          /\ RtIdle.floor = 0 /\ RtIdle.value = RtNone
      BY RtCallShapes DEF RtIdle
    <3>2. rtCache' \in {rtCache, rtCall[c].value} BY <2>2 DEF RtDrop
    <3> QED BY <2>2, <3>1, <3>2 DEF RtDrop
  <2> QED BY <2>1, <2>2
<1>4. "sweeps" \notin Holding /\ "idle" \notin Holding BY DEF Holding
<1>5. rtCache' \in RtVersions \union {RtNone} BY <1>3 DEF RtCall
<1>6. ~rtOverlap => Recent(call.value) /\ Recent(rtCache)' /\ Recent(RtNone)
  BY <1>3, InHand DEF Recent
<1>7. MayMove(c, call, RtNone) BY <1>1, <1>2, <1>3, <1>4, <1>5, <1>6 DEF MayMove
<1> QED BY <1>3, <1>7, MoveStep

\* The last one out sweeps a slot that nobody holds.
LEMMA SweepStep == ASSUME RtIInv, NEW c \in RtCallers, RtSweep(c) PROVE RtKept
<1> USE DEF RtIInv, RtTypeOK
<1> DEFINE call == [rtCall[c] EXCEPT !.at = "returns"]
<1>1. /\ rtCall[c].at = "sweeps" /\ RtTo(c, call) /\ rtMap' = Swept
      /\ UNCHANGED <<rtTruth, rtCache, rtCell, rtFloor, rtOverlap, rtTroubles>>
  BY DEF RtSweep, RtAt
<1>2. /\ call \in RtCall /\ call.at = "returns" /\ call.slot = rtCall[c].slot
      /\ call.floor = rtCall[c].floor /\ call.value = rtCall[c].value
  <2>1. rtCall[c] \in RtCall OBVIOUS
  <2>2. call \in RtCall BY <2>1, RtCallShapes
  <2>3. call.at = "returns" /\ call.slot = rtCall[c].slot
        /\ call.floor = rtCall[c].floor /\ call.value = rtCall[c].value
    BY <2>1 DEF RtCall
  <2> QED BY <2>2, <2>3
<1> HIDE DEF call
<1>3. /\ rtCall'[c] = call
      /\ \A d \in RtCallers : d # c => rtCall'[d] = rtCall[d]
      /\ rtCall' \in [RtCallers -> RtCall]
  BY <1>1, <1>2, OthersStay
<1>4. "sweeps" \notin Holding /\ "returns" \notin Holding BY DEF Holding
<1>5. \A d \in RtCallers : rtCall[d].at \in Holding => rtMap' = rtMap
  BY <1>1, DeadMap DEF Swept
<1>6. RtTypeOK' BY <1>1, <1>3 DEF Swept
<1>7. OneSlot' BY <1>1, <1>2, <1>3, <1>4, <1>5 DEF OneSlot
<1>8. OneComputation' BY <1>1, <1>2, <1>3 DEF OneComputation, Leading
<1>9. Fresh'
  <2>1. rtFloor' <= rtTruth' BY <1>1 DEF Fresh
  <2>2. \A d \in RtCallers : rtCall'[d].floor <= rtFloor' BY <1>1, <1>2, <1>3 DEF Fresh
  <2>3. ASSUME ~rtOverlap' PROVE Recent(rtCache)' /\ \A d \in RtCallers :
              /\ Recent(rtCall[d].value)'
              /\ rtCall'[d].slot # RtNone => Recent(rtCell[rtCall[d].slot])'
    BY <2>3, <1>1, <1>2, <1>3 DEF Fresh, Recent
  <2> QED BY <2>1, <2>2, <2>3 DEF Fresh
<1>10. Computed' BY <1>2, <1>3 DEF Computed
<1> QED BY <1>6, <1>7, <1>8, <1>9, <1>10 DEF RtKept

\* The truth, an invalidation, and the clock.
LEMMA WorldStep == ASSUME RtIInv, RtChange \/ RtInvalidate \/ RtExpire PROVE RtKept
<1> USE DEF RtIInv, RtTypeOK
<1>1. rtCall' = rtCall /\ rtMap' = rtMap /\ rtCell' = rtCell /\ rtTroubles' = rtTroubles
  BY DEF RtChange, RtInvalidate, RtExpire
<1>2. /\ rtTruth' \in RtVersions /\ rtTruth <= rtTruth' /\ rtFloor' \in {rtFloor, rtTruth}
      /\ rtCache' \in {rtCache, RtNone}
  <2>1. rtTruth \in Nat /\ RtMaxVersion \in Nat BY RtAssumption DEF RtVersions
  <2>2. CASE RtChange BY <2>1, <2>2 DEF RtChange, RtVersions
  <2>3. CASE RtInvalidate BY <2>1, <2>3 DEF RtInvalidate
  <2>4. CASE RtExpire BY <2>1, <2>4 DEF RtExpire
  <2> QED BY <2>2, <2>3, <2>4
<1>3. rtOverlap' \in BOOLEAN
  <2>1. CASE RtInvalidate BY <2>1, Zenon DEF RtInvalidate
  <2>2. CASE RtChange \/ RtExpire BY <2>2 DEF RtChange, RtExpire
  <2> QED BY <2>1, <2>2
<1>4. RtTypeOK' BY <1>1, <1>2, <1>3
<1>5. OneSlot' /\ OneComputation' /\ Computed'
  BY <1>1 DEF OneSlot, OneComputation, Computed, Leading
<1>6. Fresh'
  <2>1. rtFloor' <= rtTruth' /\ rtFloor <= rtFloor'
    BY <1>2 DEF Fresh, RtVersions
  <2>2. \A d \in RtCallers : rtCall'[d].floor <= rtFloor'
    <3>1. ASSUME NEW d \in RtCallers PROVE rtCall[d].floor <= rtFloor'
      <4>1. rtCall[d].floor \in Nat /\ rtFloor \in Nat /\ rtFloor' \in Nat
        BY <1>2, SlotsAreNot DEF RtCall
      <4>2. rtCall[d].floor <= rtFloor BY DEF Fresh
      <4> QED BY <4>1, <4>2, <2>1
    <3> QED BY <3>1, <1>1
  <2>3. ASSUME RtInvalidate, ~rtOverlap' PROVE Recent(rtCache)' /\ \A d \in RtCallers :
              /\ Recent(rtCall[d].value)'
              /\ rtCall'[d].slot # RtNone => Recent(rtCell[rtCall[d].slot])'
    <3>1. rtCache' = RtNone BY <2>3 DEF RtInvalidate
    <3>2. ASSUME NEW d \in RtCallers PROVE rtCall[d].at = "idle"
      BY <2>3, Zenon DEF RtInvalidate, RtAt
    <3>3. ASSUME NEW d \in RtCallers PROVE rtCall[d].slot = RtNone /\ rtCall[d].value = RtNone
      BY <3>2 DEF OneSlot, Holding, Computed
    <3> QED BY <3>1, <3>3, <1>1 DEF Recent
  <2>4. ASSUME ~RtInvalidate, ~rtOverlap' PROVE Recent(rtCache)' /\ \A d \in RtCallers :
              /\ Recent(rtCall[d].value)'
              /\ rtCall'[d].slot # RtNone => Recent(rtCell[rtCall[d].slot])'
    <3>1. rtFloor' = rtFloor /\ rtOverlap' = rtOverlap BY <2>4 DEF RtChange, RtExpire
    <3> QED BY <3>1, <2>4, <1>1, <1>2 DEF Fresh, Recent
  <2> QED BY <2>1, <2>2, <2>3, <2>4 DEF Fresh
<1> QED BY <1>4, <1>5, <1>6 DEF RtKept

-----------------------------------------------------------------------------

LEMMA RtInvInit == RtInit => RtIInv
<1> SUFFICES ASSUME RtInit PROVE RtIInv OBVIOUS
<1>1. RtIdle \in RtCall BY RtCallShapes
<1>2. 0 \in RtVersions /\ 0 \in 0..RtMaxTroubles BY RtAssumption DEF RtVersions
<1>3. RtTypeOK BY <1>1, <1>2 DEF RtInit, RtTypeOK
<1>4. OneSlot /\ OneComputation /\ Computed
  BY DEF RtInit, OneSlot, OneComputation, Computed, Leading, Holding, RtIdle
<1>5. Fresh BY DEF RtInit, Fresh, Recent, RtIdle
<1> QED BY <1>3, <1>4, <1>5 DEF RtIInv

LEMMA RtInvStep == RtIInv /\ [RtNext]_rtVars => RtIInv'
<1> SUFFICES ASSUME RtIInv, [RtNext]_rtVars PROVE RtIInv' OBVIOUS
<1>1. ASSUME NEW c \in RtCallers,
             RtRead(c) \/ RtReadFails(c) \/ RtMoves(c) \/ RtComputeFails(c) \/ RtWriteFails(c) \/ RtDrop(c)
      PROVE  RtKept
  BY <1>1, ReadStep, JoinStep, ShareStep, LeaderStep, WriteStep, LeaveStep, SweepStep
     DEF RtMoves
<1>2. CASE UNCHANGED rtVars
  BY <1>2 DEF rtVars, RtIInv, RtKept, RtTypeOK, OneSlot, OneComputation, Leading, Fresh,
                  Recent, Computed
<1>3. RtKept \/ RtIInv' BY <1>1, <1>2, WorldStep DEF RtNext
<1> QED BY <1>3 DEF RtKept, RtIInv

LEMMA RtInductive == RtSpec => []RtIInv
  BY RtInvInit, RtInvStep, PTL DEF RtSpec

\* The cache's types hold from start to end.
THEOREM CacheTyping == RtSpec => []RtTypeOK
<1>1. RtIInv => RtTypeOK BY DEF RtIInv
<1> QED BY <1>1, RtInductive, PTL

\* flight.rs: one computation at a time, whoever fails, leaves or comes.
THEOREM OneComputes == RtSpec => []OneComputation
<1>1. RtIInv => OneComputation BY DEF RtIInv
<1> QED BY <1>1, RtInductive, PTL

LEMMA FreshNow == RtIInv => FreshUnlessOverlapped
<1> SUFFICES ASSUME RtIInv, NEW c \in RtCallers, rtCall[c].value # RtNone, ~rtOverlap
             PROVE  rtCall[c].value >= rtCall[c].floor
  BY DEF FreshUnlessOverlapped
<1>1. rtCall[c].value \in Nat /\ rtCall[c].floor \in Nat /\ rtFloor \in Nat
  BY SlotsAreNot DEF RtIInv, RtTypeOK, RtCall
<1>2. rtCall[c].value >= rtFloor /\ rtCall[c].floor <= rtFloor
  BY DEF RtIInv, Fresh, Recent
<1> QED BY <1>1, <1>2

\* cached.rs: an invalidation is not undone by what was computed before it, unless
\* a caller was at work at that moment.
THEOREM FreshReads == RtSpec => []FreshUnlessOverlapped
  BY RtInductive, FreshNow, PTL

-----------------------------------------------------------------------------
(* The shutdown, and the parts beside each other. *)

LEMMA SdTypeInit == SdInit => SdTypeOK
  BY SdAssumption DEF SdInit, SdTypeOK

LEMMA SdTypeStep == SdTypeOK /\ [SdNext]_sdVars => SdTypeOK'
<1> SUFFICES ASSUME SdTypeOK, [SdNext]_sdVars PROVE SdTypeOK' OBVIOUS
<1>1. ASSUME NEW r \in SdReceivers, SdReceives(r) PROVE SdTypeOK'
  BY <1>1 DEF SdReceives, SdFirstLook, SdRegister, SdSecondLook, SdRecvTo, SdTypeOK
<1>2. ASSUME SdTriggers PROVE SdTypeOK'
  BY <1>2 DEF SdTriggers, SdStamp, SdFlag, SdNotify, SdTriggerTo, SdTypeOK
<1>3. ASSUME NEW g \in SdGuards, SdHolds(g) PROVE SdTypeOK'
  BY <1>3 DEF SdHolds, SdTake, SdDropGuard, SdGuardTo, SdTypeOK
<1>4. ASSUME SdConnectionsEnd \/ SdServes PROVE SdTypeOK'
  BY <1>4 DEF SdConnectionsEnd, SdServes, SdServed, SdDrained, SdHooks, SdServeTo, SdTypeOK
<1>5. ASSUME SdTick PROVE SdTypeOK'
  BY <1>5, SdAssumption DEF SdTick, SdTypeOK
<1>6. ASSUME UNCHANGED sdVars PROVE SdTypeOK'
  BY <1>6 DEF sdVars, SdTypeOK
<1> QED BY <1>1, <1>2, <1>3, <1>4, <1>5, <1>6 DEF SdNext

LoopsIInv == ObIInv /\ ScIInv /\ BkIInv /\ RtIInv /\ SdTypeOK

\* The outbox, the scheduler, the breaker, the cache and the shutdown keep their
\* types, and what each promises holds beside the others.
THEOREM LoopsKeepTheirWord ==
    MCSpec => [](/\ LoopsTypeOK
                 /\ DeliveredBounded /\ InOrderOnce
                 /\ OneProbe /\ OneComputation /\ FreshUnlessOverlapped)
<1>1. MCInit => LoopsIInv
  BY ObInvInit, ScInvInit, BkInvInit, RtInvInit, SdTypeInit DEF MCInit, LoopsIInv
<1>2. LoopsIInv /\ [MCNext]_MCVars => LoopsIInv'
  <2>1. ASSUME [MCNext]_MCVars
        PROVE  [ObNext]_obVars /\ [ScNext]_scVars /\ [BkNext]_bkVars /\ [RtNext]_rtVars /\ [SdNext]_sdVars
    BY <2>1 DEF MCNext, MCVars
  <2> QED BY <2>1, ObInvStep, ScInvStep, BkInvStep, RtInvStep, SdTypeStep DEF LoopsIInv
<1>3. LoopsIInv => /\ LoopsTypeOK
                   /\ DeliveredBounded /\ InOrderOnce
                   /\ OneProbe /\ OneComputation /\ FreshUnlessOverlapped
  BY DeliveredNow, InOrderNow, OneProbeNow, FreshNow
     DEF LoopsIInv, LoopsTypeOK, ObIInv, ScIInv, BkIInv, RtIInv
<1> QED BY <1>1, <1>2, <1>3, PTL DEF MCSpec
=============================================================================
