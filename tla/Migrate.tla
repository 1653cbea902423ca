------------------------------ MODULE Migrate -------------------------------
(***************************************************************************)
(* runner.rs and ledger.rs: processes that migrate one database at once.   *)
(*                                                                         *)
(* migrate checks the ledger, waits for the lock, reads the ledger again   *)
(* and applies the pending files in order, renewing the lock before each.  *)
(* A file runs in one transaction, its ledger row included, or statement by*)
(* statement under a row that is dirty until the last one.  rollback picks *)
(* the newest version, waits for the lock and undoes it.                   *)
(*                                                                         *)
(* The lock is PostgreSQL's session lock, which goes with its process, or  *)
(* SQLite's row, which has a lease instead.  Statements of one file write  *)
(* different things, so what a file has done to the schema is their number.*)
(***************************************************************************)
EXTENDS Integers

CONSTANTS
    MgRunners,
    MgNobody,
    MgVersions,         \* 1 up to this many
    MgStatements,       \* of each file
    MgLease,            \* of the lock row, in ticks
    MgMaxTroubles,      \* bound: statements that fail and processes that die
    MgMaxRollbacks      \* bound: calls of rollback

ASSUME MgAssumption ==
    /\ MgNobody \notin MgRunners
    /\ {MgVersions, MgStatements, MgLease} \subseteq Nat \ {0}
    /\ {MgMaxTroubles, MgMaxRollbacks} \subseteq Nat

VARIABLES
    mgSqlite,
    mgPlain,            \* the files marked TRANSACTIONAL = false
    mgRow,              \* the ledger
    mgDone,             \* how many statements of each file are in the schema
    mgWriter,           \* the process with an open transaction
    mgLock, mgLeft,     \* its holder, and what is left of the lease
    mgRun,
    mgTroubles, mgRollbacks

mgVars == <<mgSqlite, mgPlain, mgRow, mgDone, mgWriter, mgLock, mgLeft, mgRun, mgTroubles, mgRollbacks>>

MgFiles == 1..MgVersions

\* `sure`: the lease has not run out since the run took or renewed it.
MgRun == [at : {"idle", "waits", "locked", "next", "file", "inside", "releases"},
          up : BOOLEAN, todo : SUBSET MgFiles, sure : BOOLEAN]

MgIdle == [at |-> "idle", up |-> TRUE, todo |-> {}, sure |-> FALSE]

MgInit ==
    /\ mgSqlite \in BOOLEAN
    /\ mgPlain \in SUBSET MgFiles
    /\ mgRow = [v \in MgFiles |-> "none"]
    /\ mgDone = [v \in MgFiles |-> 0]
    /\ mgWriter = MgNobody
    /\ mgLock = MgNobody
    /\ mgLeft = 0
    /\ mgRun = [r \in MgRunners |-> MgIdle]
    /\ mgTroubles = 0
    /\ mgRollbacks = 0

MgAt(r, at) == mgRun[r].at = at
MgTo(r, at) == mgRun' = [mgRun EXCEPT ![r].at = at]

\* The versions of a run are applied from the least on.
Least(versions) == CHOOSE v \in versions : \A w \in versions : v <= w
MgFile(r) == Least(mgRun[r].todo)
MgPlain(r) == MgFile(r) \in mgPlain

Known == {v \in MgFiles : mgRow[v] # "none"}
Dirty == {v \in MgFiles : mgRow[v] = "dirty"}

-----------------------------------------------------------------------------
(* Before the lock *)

\* status: a dirty row and a pending version before an applied one refuse the run.
MgMigrate(r) ==
    LET pending == MgFiles \ Known IN
    /\ MgAt(r, "idle")
    /\ Dirty = {}
    /\ pending # {}
    /\ \A p \in pending, k \in Known : p > k
    /\ mgRun' = [mgRun EXCEPT ![r] = [MgIdle EXCEPT !.at = "waits", !.todo = pending]]
    /\ UNCHANGED <<mgSqlite, mgPlain, mgRow, mgDone, mgWriter, mgLock, mgLeft, mgTroubles, mgRollbacks>>

\* rollback(1): the newest row, whatever its state.
MgRollback(r) ==
    /\ MgAt(r, "idle")
    /\ mgRollbacks < MgMaxRollbacks
    /\ mgRollbacks' = mgRollbacks + 1
    /\ \E newest \in Known :
           /\ \A k \in Known : k <= newest
           /\ mgRun' = [mgRun EXCEPT ![r] = [MgIdle EXCEPT !.at = "waits", !.up = FALSE,
                                                          !.todo = {newest}]]
    /\ UNCHANGED <<mgSqlite, mgPlain, mgRow, mgDone, mgWriter, mgLock, mgLeft, mgTroubles>>

-----------------------------------------------------------------------------
(* MigrationLock *)

LockFree == mgLock = MgNobody \/ (mgSqlite /\ mgLeft = 0)

\* Reap an expired row and insert one, or pg_try_advisory_lock.
MgAcquire(r) ==
    /\ MgAt(r, "waits")
    /\ LockFree
    /\ mgLock' = r
    /\ mgLeft' = MgLease
    /\ mgRun' = [mgRun EXCEPT ![r].at = "locked", ![r].sure = TRUE]
    /\ UNCHANGED <<mgSqlite, mgPlain, mgRow, mgDone, mgWriter, mgTroubles, mgRollbacks>>

MgTimeout(r) ==
    /\ MgAt(r, "waits")
    /\ ~LockFree
    /\ mgRun' = [mgRun EXCEPT ![r] = MgIdle]
    /\ UNCHANGED <<mgSqlite, mgPlain, mgRow, mgDone, mgWriter, mgLock, mgLeft, mgTroubles, mgRollbacks>>

\* refresh: the row is renewed if it is still this process's, expired or not;
\* on PostgreSQL the session is the lease.
MgRefresh(r) ==
    LET mine == ~mgSqlite \/ mgLock = r IN
    /\ MgAt(r, "next")
    /\ mgRun[r].todo # {}
    /\ mgLeft' = IF mgSqlite /\ mine THEN MgLease ELSE mgLeft
    /\ mgRun' = [mgRun EXCEPT ![r].at = IF mine THEN "file" ELSE "releases", ![r].sure = mine]
    /\ UNCHANGED <<mgSqlite, mgPlain, mgRow, mgDone, mgWriter, mgLock, mgTroubles, mgRollbacks>>

MgLastDone(r) ==
    /\ MgAt(r, "next")
    /\ mgRun[r].todo = {}
    /\ MgTo(r, "releases")
    /\ UNCHANGED <<mgSqlite, mgPlain, mgRow, mgDone, mgWriter, mgLock, mgLeft, mgTroubles, mgRollbacks>>

\* Wrong: the row is deleted whoever owns it.
Released_Any(r) == MgNobody

Released(r) == IF mgLock = r THEN MgNobody ELSE mgLock

MgRelease(r) ==
    /\ MgAt(r, "releases")
    /\ mgLock' = Released(r)
    /\ mgRun' = [mgRun EXCEPT ![r] = MgIdle]
    /\ UNCHANGED <<mgSqlite, mgPlain, mgRow, mgDone, mgWriter, mgLeft, mgTroubles, mgRollbacks>>

-----------------------------------------------------------------------------
(* Under the lock *)

\* Only what has no row by now; a rollback does not look again.
MgFilter(r) ==
    /\ MgAt(r, "locked")
    /\ mgRun' = [mgRun EXCEPT ![r].at = "next",
                   ![r].todo = IF mgRun[r].up THEN {v \in @ : mgRow[v] = "none"} ELSE @]
    /\ UNCHANGED <<mgSqlite, mgPlain, mgRow, mgDone, mgWriter, mgLock, mgLeft, mgTroubles, mgRollbacks>>

\* BEGIN and the first write; a writer waits for the one before it.
MgBegin(r) ==
    /\ MgAt(r, "file")
    /\ ~MgPlain(r)
    /\ mgWriter = MgNobody
    /\ IF mgRun[r].up /\ mgRow[MgFile(r)] # "none"
       THEN MgTo(r, "releases") /\ UNCHANGED mgWriter
       ELSE MgTo(r, "inside") /\ mgWriter' = r
    /\ UNCHANGED <<mgSqlite, mgPlain, mgRow, mgDone, mgLock, mgLeft, mgTroubles, mgRollbacks>>

\* SQLite does not wait for another writer for ever.
MgBusy(r) ==
    /\ MgAt(r, "file")
    /\ mgWriter # MgNobody
    /\ MgTo(r, "releases")
    /\ UNCHANGED <<mgSqlite, mgPlain, mgRow, mgDone, mgWriter, mgLock, mgLeft, mgTroubles, mgRollbacks>>

\* The down statements fail on what is not there.
Undoable(r) == mgDone[MgFile(r)] = MgStatements

NextFile(r) == mgRun' = [mgRun EXCEPT ![r].at = "next", ![r].todo = @ \ {MgFile(r)}]

MgCommit(r) ==
    LET v == MgFile(r) IN
    /\ MgAt(r, "inside")
    /\ ~MgPlain(r)
    /\ mgRun[r].up \/ Undoable(r)
    /\ mgRow' = [mgRow EXCEPT ![v] = IF mgRun[r].up THEN "clean" ELSE "none"]
    /\ mgDone' = [mgDone EXCEPT ![v] = IF mgRun[r].up THEN MgStatements ELSE 0]
    /\ mgWriter' = MgNobody
    /\ NextFile(r)
    /\ UNCHANGED <<mgSqlite, mgPlain, mgLock, mgLeft, mgTroubles, mgRollbacks>>

\* Ledger::begin comes before the first statement, and its primary key refuses a
\* version that has a row.
MgBeginPlain(r) ==
    LET v == MgFile(r) IN
    /\ MgAt(r, "file")
    /\ MgPlain(r)
    /\ mgWriter = MgNobody
    /\ CASE ~mgRun[r].up -> MgTo(r, "inside") /\ UNCHANGED mgRow
         [] mgRun[r].up /\ mgRow[v] # "none" -> MgTo(r, "releases") /\ UNCHANGED mgRow
         [] OTHER -> MgTo(r, "inside") /\ mgRow' = [mgRow EXCEPT ![v] = "dirty"]
    /\ UNCHANGED <<mgSqlite, mgPlain, mgDone, mgWriter, mgLock, mgLeft, mgTroubles, mgRollbacks>>

MgStatement(r) ==
    LET v == MgFile(r) IN
    /\ MgAt(r, "inside")
    /\ MgPlain(r)
    /\ mgWriter = MgNobody
    /\ IF mgRun[r].up THEN mgDone[v] < MgStatements ELSE mgDone[v] > 0
    /\ mgDone' = [mgDone EXCEPT ![v] = IF mgRun[r].up THEN @ + 1 ELSE @ - 1]
    /\ UNCHANGED <<mgSqlite, mgPlain, mgRow, mgWriter, mgLock, mgLeft, mgRun, mgTroubles, mgRollbacks>>

\* Wrong: the flag is cleared before the last statement.
MgFinish_Early(r) ==
    LET v == MgFile(r) IN
    /\ MgAt(r, "inside")
    /\ MgPlain(r)
    /\ mgRun[r].up
    /\ mgDone[v] = MgStatements - 1
    /\ mgRow' = [mgRow EXCEPT ![v] = "clean"]
    /\ NextFile(r)
    /\ UNCHANGED <<mgSqlite, mgPlain, mgDone, mgWriter, mgLock, mgLeft, mgTroubles, mgRollbacks>>

\* Ledger::finish, or forget.
MgFinish(r) ==
    LET v == MgFile(r) IN
    /\ MgAt(r, "inside")
    /\ MgPlain(r)
    /\ mgWriter = MgNobody
    /\ mgDone[v] = (IF mgRun[r].up THEN MgStatements ELSE 0)
    /\ mgRow' = [mgRow EXCEPT ![v] = CASE ~mgRun[r].up -> "none"
                                       [] mgRow[v] = "none" -> "none"
                                       [] OTHER -> "clean"]
    /\ NextFile(r)
    /\ UNCHANGED <<mgSqlite, mgPlain, mgDone, mgWriter, mgLock, mgLeft, mgTroubles, mgRollbacks>>

\* A statement fails, of a down section also because what it undoes is not there:
\* ROLLBACK, or mark_failed, which leaves the row dirty.
MgStatementFails(r) ==
    /\ MgAt(r, "inside")
    /\ \/ mgTroubles < MgMaxTroubles /\ mgTroubles' = mgTroubles + 1
       \/ ~mgRun[r].up /\ ~Undoable(r) /\ UNCHANGED mgTroubles
    /\ mgWriter' = IF mgWriter = r THEN MgNobody ELSE mgWriter
    /\ MgTo(r, "releases")
    /\ UNCHANGED <<mgSqlite, mgPlain, mgRow, mgDone, mgLock, mgLeft, mgRollbacks>>

-----------------------------------------------------------------------------
(* The environment *)

\* The session ends: the transaction rolls back, and PostgreSQL's lock is free.
MgDie(r) ==
    /\ ~MgAt(r, "idle")
    /\ mgTroubles < MgMaxTroubles
    /\ mgTroubles' = mgTroubles + 1
    /\ mgWriter' = IF mgWriter = r THEN MgNobody ELSE mgWriter
    /\ mgLock' = IF mgLock = r /\ ~mgSqlite THEN MgNobody ELSE mgLock
    /\ mgRun' = [mgRun EXCEPT ![r] = MgIdle]
    /\ UNCHANGED <<mgSqlite, mgPlain, mgRow, mgDone, mgLeft, mgRollbacks>>

\* `moso db repair`, after a human has finished the file by hand.
MgResolve(v) ==
    /\ mgRow[v] = "dirty"
    /\ mgLock = MgNobody
    /\ \A r \in MgRunners : MgAt(r, "idle")
    /\ mgRow' = [mgRow EXCEPT ![v] = "clean"]
    /\ mgDone' = [mgDone EXCEPT ![v] = MgStatements]
    /\ UNCHANGED <<mgSqlite, mgPlain, mgWriter, mgLock, mgLeft, mgRun, mgTroubles, mgRollbacks>>

MgTick ==
    /\ mgSqlite
    /\ mgLeft > 0
    /\ mgLeft' = mgLeft - 1
    /\ mgRun' = [r \in MgRunners |->
                   IF mgLeft = 1 /\ mgLock = r THEN [mgRun[r] EXCEPT !.sure = FALSE] ELSE mgRun[r]]
    /\ UNCHANGED <<mgSqlite, mgPlain, mgRow, mgDone, mgWriter, mgLock, mgTroubles, mgRollbacks>>

-----------------------------------------------------------------------------
MgNext ==
    \/ \E r \in MgRunners :
           \/ MgMigrate(r) \/ MgRollback(r)
           \/ MgAcquire(r) \/ MgTimeout(r) \/ MgRefresh(r) \/ MgLastDone(r) \/ MgRelease(r)
           \/ MgFilter(r) \/ MgBegin(r) \/ MgBusy(r) \/ MgCommit(r)
           \/ MgBeginPlain(r) \/ MgStatement(r) \/ MgFinish(r) \/ MgStatementFails(r)
           \/ MgDie(r)
    \/ \E v \in MgFiles : MgResolve(v)
    \/ MgTick

MgSpec == MgInit /\ [][MgNext]_mgVars

-----------------------------------------------------------------------------
(* Properties *)

MgTypeOK ==
    /\ mgSqlite \in BOOLEAN
    /\ mgPlain \subseteq MgFiles
    /\ mgRow \in [MgFiles -> {"none", "dirty", "clean"}]
    /\ mgDone \in [MgFiles -> 0..MgStatements]
    /\ mgWriter \in MgRunners \union {MgNobody}
    /\ mgLock \in MgRunners \union {MgNobody}
    /\ mgLeft \in 0..MgLease
    /\ mgRun \in [MgRunners -> MgRun]
    /\ mgTroubles \in 0..MgMaxTroubles
    /\ mgRollbacks \in 0..MgMaxRollbacks

\* apply_one: a failed transactional file "leaves nothing at all", a failed plain
\* one "a row".  What the ledger calls clean is in the schema as a whole, and what
\* it does not know is not there at all, plain files of a rollback aside.
LedgerTruth ==
    \A v \in MgFiles :
        \/ mgRow[v] = "clean" /\ mgDone[v] = MgStatements
        \/ mgRow[v] = "none" /\ mgDone[v] = 0
        \/ mgRow[v] = "dirty" /\ v \in mgPlain
        \/ v \in mgPlain /\ mgRollbacks > 0

\* MigrationLock: one process is at work on the files at a time, unless a file
\* took longer than the lease.
OneAtATime ==
    \A r, s \in MgRunners :
        mgRun[r].at \in {"file", "inside"} /\ mgRun[r].sure
        /\ mgRun[s].at \in {"file", "inside"} /\ mgRun[s].sure => r = s

\* Runner::migrate: "Everything the safety policy refuses: Error::Dirty".  No file
\* is begun while another version is dirty.
NoneAfterDirty ==
    [][\A r \in MgRunners : MgAt(r, "file") /\ mgRun'[r].at = "inside" /\ mgRun[r].up => Dirty = {}]_mgVars
=============================================================================
