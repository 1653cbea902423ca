---------------------------- MODULE Transaction -----------------------------
(***************************************************************************)
(* tx.rs and request_tx.rs: one transaction, the savepoints its body opens *)
(* and the layer that ends it.                                             *)
(*                                                                         *)
(* A handle serialises the statements of a transaction and nothing else: a *)
(* body may run two savepoints at once, drop one half way or write while   *)
(* one is open.  Every body writes one thing at most.                      *)
(*                                                                         *)
(* The database keeps the writes and the savepoints of the transaction, and*)
(* which savepoints were there before each of them: to roll back to one is *)
(* to undo what came after it, to release one is to forget it and the      *)
(* savepoints after it.  Each call makes its savepoint once a try.  On     *)
(* PostgreSQL a statement that fails aborts the transaction: it refuses    *)
(* everything until it is rolled back, as a whole or to a savepoint, and   *)
(* its commit is a rollback that reports no error.                         *)
(***************************************************************************)
EXTENDS Integers

CONSTANTS
    TxSavepoints,       \* how many savepoint calls there are
    TxMaxRetries,       \* max_retries
    TxMaxFaults         \* bound: statements that fail

ASSUME TxAssumption == {TxSavepoints, TxMaxRetries, TxMaxFaults} \subseteq Nat

VARIABLES
    txPostgres,
    txParent,           \* the body each savepoint call is made in
    txSaved,            \* the savepoints
    txMade,             \* the bodies whose write is there
    txUnder, txSince,   \* the savepoints before each savepoint, before each write
    txAborted,
    txBody,
    txWhole,            \* the transaction: its stage, or what its caller was told
    txStored,           \* what was committed
    txTries, txFaults,
    txOverlap           \* savepoints overlapped or were dropped, or an error was ignored

txVars == <<txPostgres, txParent, txSaved, txMade, txUnder, txSince, txAborted, txBody, txWhole,
            txStored, txTries, txFaults, txOverlap>>
txConfig == <<txPostgres, txParent>>
txLog == <<txSaved, txMade, txUnder, txSince>>

\* Body 0 is the transaction's own; body c is that of savepoint moso_sp_c.
TxBodies == 0..TxSavepoints
TxCalls == 1..TxSavepoints

\* `wrote`: the write took place; `hurt`: a statement of this body failed.
TxBody == [at : {"none", "runs", "ok", "client", "err", "kept", "failed"},
           wrote : BOOLEAN, hurt : BOOLEAN]

TxNone == [at |-> "none", wrote |-> FALSE, hurt |-> FALSE]

TxFresh == [c \in TxBodies |-> IF c = 0 THEN [TxNone EXCEPT !.at = "runs"] ELSE TxNone]

TxInit ==
    /\ txPostgres \in BOOLEAN
    /\ txParent \in {f \in [TxCalls -> TxBodies] : \A c \in TxCalls : f[c] < c}
    /\ txSaved = {} /\ txMade = {}
    /\ txUnder = [c \in TxCalls |-> {}] /\ txSince = [c \in TxBodies |-> {}]
    /\ txAborted = FALSE
    /\ txBody = TxFresh
    /\ txWhole = "open"
    /\ txStored = {}
    /\ txTries = 0
    /\ txFaults = 0
    /\ txOverlap = FALSE

TxAt(c, at) == txBody[c].at = at
Unfinished(c) == txBody[c].at \in {"runs", "ok", "err"}

\* Savepoint calls of c's body that are under way.
Inner(c) == {d \in TxCalls : txParent[d] = c /\ Unfinished(d)}

\* The bodies c is made in, its own included: what any set of bodies has that
\* has c, and with a body the one it is made in.
Around(c) ==
    {b \in TxBodies :
        \A S \in SUBSET TxBodies :
            (c \in S /\ \A d \in S \ {0} : txParent[d] \in S) => b \in S}

\* Calls of a body, of the bodies in it too, that are under way.
Below(c) == {d \in TxCalls : Unfinished(d) /\ d # c /\ c \in Around(d)}

Has(c) == c \in txSaved
After(c) == {d \in txSaved : c \in txUnder[d]}

-----------------------------------------------------------------------------
(* Statements *)

\* `savepoint ..`, the first statement of Tx::savepoint.
TxOpen(c) ==
    /\ txWhole = "open"
    /\ TxAt(c, "none")
    /\ TxAt(txParent[c], "runs")
    /\ IF txAborted
       THEN txBody' = [txBody EXCEPT ![c].at = "failed"] /\ UNCHANGED <<txSaved, txUnder>>
       ELSE /\ txBody' = [txBody EXCEPT ![c].at = "runs"]
            /\ txSaved' = txSaved \union {c}
            /\ txUnder' = [txUnder EXCEPT ![c] = txSaved]
    /\ txOverlap' = (txOverlap \/ Inner(txParent[c]) # {})
    /\ UNCHANGED <<txConfig, txMade, txSince, txAborted, txWhole, txStored, txTries, txFaults>>

TxWrite(c) ==
    /\ txWhole = "open"
    /\ TxAt(c, "runs")
    /\ ~txBody[c].wrote
    /\ ~txAborted
    /\ txMade' = txMade \union {c}
    /\ txSince' = [txSince EXCEPT ![c] = txSaved]
    /\ txBody' = [txBody EXCEPT ![c].wrote = TRUE]
    /\ txOverlap' = (txOverlap \/ Inner(c) # {})
    /\ UNCHANGED <<txConfig, txSaved, txUnder, txAborted, txWhole, txStored, txTries, txFaults>>

TxStatementFails(c) ==
    /\ txWhole = "open"
    /\ TxAt(c, "runs")
    /\ ~txBody[c].hurt
    /\ \/ txAborted /\ UNCHANGED txFaults
       \/ txFaults < TxMaxFaults /\ txFaults' = txFaults + 1
    /\ txAborted' = (txAborted \/ txPostgres)
    /\ txBody' = [txBody EXCEPT ![c].hurt = TRUE]
    /\ txOverlap' = (txOverlap \/ Inner(c) # {})
    /\ UNCHANGED <<txConfig, txLog, txWhole, txStored, txTries>>

Dropped(calls) == [d \in TxBodies |-> IF d \in calls THEN [txBody[d] EXCEPT !.at = "failed"] ELSE txBody[d]]

\* A body returns Ok or Err, and the handler of a request a client error too.
\* On PostgreSQL, one that ignores the error of a statement leaves it aborted.
TxReturn(c, outcome) ==
    /\ txWhole = "open"
    /\ TxAt(c, "runs")
    /\ outcome = "client" => c = 0 /\ txTries = 0
    /\ txBody' = [Dropped(Below(c)) EXCEPT ![c].at = outcome]
    /\ txOverlap' = (txOverlap \/ Below(c) # {} \/ (txPostgres /\ txBody[c].hurt /\ outcome # "err"))
    /\ UNCHANGED <<txConfig, txLog, txAborted, txWhole, txStored, txTries, txFaults>>

\* `release savepoint ..`: it goes, and those after it.  When it fails, nothing
\* is rolled back.
TxRelease(c) ==
    /\ txWhole = "open"
    /\ TxAt(c, "ok")
    /\ c # 0
    /\ IF Has(c) /\ ~txAborted
       THEN /\ txSaved' = txSaved \ ({c} \union After(c))
            /\ txBody' = [txBody EXCEPT ![c].at = "kept"]
            /\ UNCHANGED txAborted
       ELSE /\ txBody' = [txBody EXCEPT ![c].at = "failed"]
            /\ txAborted' = txPostgres
            /\ UNCHANGED txSaved
    /\ UNCHANGED <<txConfig, txMade, txUnder, txSince, txWhole, txStored, txTries, txFaults, txOverlap>>

\* Wrong: the savepoint of a body that failed is released.
TxRollbackTo_Releases(c) ==
    /\ txWhole = "open"
    /\ TxAt(c, "err")
    /\ c # 0
    /\ txSaved' = txSaved \ {c}
    /\ txBody' = [txBody EXCEPT ![c].at = "failed"]
    /\ UNCHANGED <<txConfig, txMade, txUnder, txSince, txAborted, txWhole, txStored, txTries, txFaults, txOverlap>>

\* `rollback to savepoint ..`, which stays; a failure is logged only.
TxRollbackTo(c) ==
    /\ txWhole = "open"
    /\ TxAt(c, "err")
    /\ c # 0
    /\ IF Has(c)
       THEN /\ txSaved' = txSaved \ After(c)
            /\ txMade' = {d \in txMade : c \notin txSince[d]}
            /\ txAborted' = FALSE
       ELSE txAborted' = txPostgres /\ UNCHANGED <<txSaved, txMade>>
    /\ txBody' = [txBody EXCEPT ![c].at = "failed"]
    /\ UNCHANGED <<txConfig, txUnder, txSince, txWhole, txStored, txTries, txFaults, txOverlap>>

\* A timeout or a select! drops the future of a savepoint call: neither.
TxDrop(c) ==
    /\ txWhole = "open"
    /\ Unfinished(c)
    /\ c # 0
    /\ txBody' = Dropped({c} \union Below(c))
    /\ txOverlap' = TRUE
    /\ UNCHANGED <<txConfig, txLog, txAborted, txWhole, txStored, txTries, txFaults>>

-----------------------------------------------------------------------------
(* The end of the transaction *)

\* RequestTxLayer::commits; a layer may have commit_on_client_error.
MayCommit == txBody[0].at \in {"ok", "client"}
MayRollBack == txBody[0].at \in {"err", "client"}

\* finish(true).
TxCommit ==
    /\ txWhole = "open"
    /\ MayCommit
    /\ txStored' = IF txAborted THEN {} ELSE txMade
    /\ txWhole' = txBody[0].at
    /\ UNCHANGED <<txConfig, txLog, txAborted, txBody, txTries, txFaults, txOverlap>>

\* Nothing is left of what the handle did, and the body would start afresh.
Undone ==
    /\ txSaved' = {} /\ txMade' = {}
    /\ txUnder' = [c \in TxCalls |-> {}] /\ txSince' = [c \in TxBodies |-> {}]
    /\ txAborted' = FALSE
    /\ txBody' = TxFresh

\* Db::transaction runs the whole body again, as often as max_retries.
Again ==
    /\ txBody[0].at # "client"
    /\ txTries < TxMaxRetries
    /\ txTries' = txTries + 1
    /\ Undone
    /\ UNCHANGED txWhole

\* The handle is gone, and what it did was rolled back.
Told(answer) ==
    /\ txWhole' = answer
    /\ Undone
    /\ UNCHANGED txTries

\* The commit fails.  An answer that was a success becomes an error.
TxCommitFails ==
    /\ txWhole = "open"
    /\ MayCommit
    /\ txFaults < TxMaxFaults
    /\ txFaults' = txFaults + 1
    /\ Again \/ Told(IF txBody[0].at = "ok" THEN "err" ELSE "client")
    /\ UNCHANGED <<txConfig, txStored, txOverlap>>

\* finish(false).  Only a conflict, which a statement reported, is tried again.
TxRollback ==
    /\ txWhole = "open"
    /\ MayRollBack
    /\ (txFaults > 0 /\ Again) \/ Told(txBody[0].at)
    /\ UNCHANGED <<txConfig, txStored, txFaults, txOverlap>>

\* A panic or a future that is dropped drops the handle, which rolls back.
TxGone ==
    /\ txWhole = "open"
    /\ Told("gone")
    /\ UNCHANGED <<txConfig, txStored, txFaults, txOverlap>>

-----------------------------------------------------------------------------
TxNext ==
    \/ \E c \in TxCalls : TxOpen(c) \/ TxRelease(c) \/ TxRollbackTo(c) \/ TxDrop(c)
    \/ \E c \in TxBodies :
           \/ TxWrite(c) \/ TxStatementFails(c)
           \/ \E outcome \in {"ok", "client", "err"} : TxReturn(c, outcome)
    \/ TxCommit \/ TxCommitFails \/ TxRollback \/ TxGone

TxSpec == TxInit /\ [][TxNext]_txVars

-----------------------------------------------------------------------------
(* Properties *)

TxTypeOK ==
    /\ txPostgres \in BOOLEAN
    /\ txParent \in [TxCalls -> TxBodies]
    /\ txSaved \subseteq TxCalls /\ txMade \subseteq TxBodies
    /\ txUnder \in [TxCalls -> SUBSET TxCalls] /\ txSince \in [TxBodies -> SUBSET TxCalls]
    /\ txAborted \in BOOLEAN
    /\ txBody \in [TxBodies -> TxBody]
    /\ txWhole \in {"open", "ok", "client", "err", "gone"}
    /\ txStored \subseteq TxBodies
    /\ txTries \in 0..TxMaxRetries
    /\ txFaults \in 0..TxMaxFaults
    /\ txOverlap \in BOOLEAN

\* What bodies wrote that returned Ok, in bodies that did.
Kept ==
    {c \in TxBodies : txBody[c].wrote /\ \A d \in Around(c) \ {0} : TxAt(d, "kept")}

\* Tx::savepoint: "committing it on Ok and rolling back to the savepoint on Err";
\* RequestTxService: "answering 200 for work the database refused is the one
\* outcome a transaction middleware must never produce".  A caller told of a
\* success finds exactly what its bodies that returned Ok wrote, any other finds
\* nothing: whatever was nested, failed and tried again, savepoints in a row.
CommitsWhatReturnedOk ==
    txWhole # "open" /\ ~txOverlap =>
        CASE txWhole = "ok"     -> txStored = Kept
          [] txWhole = "client" -> txStored = {} \/ txStored = Kept
          [] OTHER              -> txStored = {}

\* ... savepoints side by side, dropped, and errors that are ignored included.
CommitsWhatWasAnswered == txWhole = "ok" => txStored = Kept
=============================================================================
