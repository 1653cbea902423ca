-------------------------- MODULE MCDatabaseClaims --------------------------
(***************************************************************************)
(* Small instances of what several clients claim, commit or page through   *)
(* in a database: the SQL queue, the migration runner, the side-effect     *)
(* ledger, a transaction, a family of refresh tokens and the pages of a    *)
(* query.  They share no state; the instance is one of them at a time, and *)
(* `part` says which.                                                      *)
(***************************************************************************)
EXTENDS PgQueue, Migrate, Once, Transaction, RefreshTokens, Keyset, TLC

CONSTANTS q1, q2

MCQueueOf == 1 :> q1 @@ 2 :> q2
MCPriority == 1 :> 0 @@ 2 :> 1
MCSymmetry == Permutations(Tokens) \union Permutations(Sessions)

VARIABLE part

MCVars == <<part, vars, mgVars, onVars, txVars, tkVars, ksVars>>

\* A part that is left out stays at one of its initial states.
MCInit ==
    /\ part \in {"queue", "migrate", "once", "transaction", "tokens", "pages"}
    /\ Init /\ MgInit /\ OnInit /\ TxInit /\ TkInit /\ KsInit
    /\ part # "queue" => name = [j \in Jobs |-> CHOOSE n \in Names : TRUE] /\ key = [j \in Jobs |-> NoKey]
    /\ part # "migrate" => mgSqlite /\ mgPlain = {}
    /\ part # "once" => onStore = "kv"
    /\ part # "transaction" => ~txPostgres /\ txParent = [c \in TxCalls |-> 0]
    /\ part # "tokens" => tkTable
    /\ part # "pages" => ksTable = {} /\ ksOrder = "asc" /\ ksNulls = "first" /\ ksForward /\ ksLimit = 1

MCNext ==
    /\ UNCHANGED part
    /\ \/ part = "queue" /\ Next /\ UNCHANGED <<mgVars, onVars, txVars, tkVars, ksVars>>
       \/ part = "migrate" /\ MgNext /\ UNCHANGED <<vars, onVars, txVars, tkVars, ksVars>>
       \/ part = "once" /\ OnNext /\ UNCHANGED <<vars, mgVars, txVars, tkVars, ksVars>>
       \/ part = "transaction" /\ TxNext /\ UNCHANGED <<vars, mgVars, onVars, tkVars, ksVars>>
       \/ part = "tokens" /\ TkNext /\ UNCHANGED <<vars, mgVars, onVars, txVars, ksVars>>
       \/ part = "pages" /\ KsNext /\ UNCHANGED <<vars, mgVars, onVars, txVars, tkVars>>

MCSpec == MCInit /\ [][MCNext]_MCVars

\* Rows, ledgers, claims and cursors have the columns and values the code writes.
ClaimsTypeOK == TypeOK /\ MgTypeOK /\ OnTypeOK /\ TxTypeOK /\ TkTypeOK /\ KsTypeOK

\* And the SQL queue's rows, locks and statements in flight agree.
ClaimsCoherent == ClaimsTypeOK /\ SqlCoherent
=============================================================================
