--------------------------- MODULE RefreshTokens ---------------------------
(***************************************************************************)
(* The refresh tokens of moso-auth, for one family: issued once, rotated by*)
(* exchange, and deleted together by a replay, by revoke_family or by      *)
(* revoke_subject.                                                         *)
(*                                                                         *)
(* TableRefreshStore runs an exchange as statements of one transaction on  *)
(* PostgreSQL: each statement sees the rows committed when it starts and   *)
(* waits for the rows another transaction holds.  MemoryRefreshStore takes *)
(* its lock twice.  Tokens are numbered in the order they are minted.      *)
(***************************************************************************)
EXTENDS Integers, FiniteSets

CONSTANTS
    TkClients,
    TkTokens            \* bound: how many tokens are minted

ASSUME TkAssumption == TkTokens \in Nat \ {0}

VARIABLES
    tkTable,            \* TableRefreshStore, else MemoryRefreshStore
    tkRow,              \* the committed rows: what each token's says
    tkMinted,
    tkExpired,          \* tokens whose expires_at has passed
    tkRevoked,          \* the in-memory set of burnt families
    tkCall,
    tkEnded,            \* a burn or a revocation has taken effect
    tkOverlap           \* ... while a rotation of the family was open

tkVars == <<tkTable, tkRow, tkMinted, tkExpired, tkRevoked, tkCall, tkEnded, tkOverlap>>

Ids == 1..TkTokens
TkRow == {"absent", "fresh", "used"}

\* `token` is the one presented, `child` the one minted for it, `sees` the rows
\* a delete found when it began, `burns` whether it is by family; `late` is whether now was past
\* expires_at.
TkCall == [at : {"idle", "claim", "select", "insert", "expired", "burn", "delete", "commit", "record"},
           token : Ids \union {0}, child : Ids \union {0}, claimed : BOOLEAN,
           late : BOOLEAN, burns : BOOLEAN, sees : SUBSET Ids]

TkIdle == [at |-> "idle", token |-> 0, child |-> 0, claimed |-> FALSE,
           late |-> FALSE, burns |-> FALSE, sees |-> {}]

\* issue: one row, one transaction.  It has happened.
TkInit ==
    /\ tkTable \in BOOLEAN
    /\ tkRow = [t \in Ids |-> IF t = 1 THEN "fresh" ELSE "absent"]
    /\ tkMinted = 1
    /\ tkExpired = {} /\ tkRevoked = FALSE
    /\ tkCall = [c \in TkClients |-> TkIdle]
    /\ tkEnded = FALSE /\ tkOverlap = FALSE

Stored == {t \in Ids : tkRow[t] # "absent"}

\* The rows a transaction has written and not committed.
Locks(c) == {t \in {tkCall[c].token} : tkCall[c].claimed}
    \union (IF tkCall[c].at = "commit" THEN tkCall[c].sees ELSE {})
LockedBy(c) == UNION {Locks(d) : d \in TkClients \ {c}}

\* A rotation that has claimed its token and whose child is not there yet.
Rotating(c) == tkCall[c].claimed
RotatesBeside(c) == \E d \in TkClients \ {c} : Rotating(d)

Goes(c, fields) == tkCall' = [tkCall EXCEPT ![c] = fields]
TkReturns(c) == Goes(c, TkIdle)

\* Nothing but the call moves.
OnlyCall == UNCHANGED <<tkTable, tkRow, tkMinted, tkExpired, tkRevoked, tkEnded, tkOverlap>>
Steady == UNCHANGED <<tkTable, tkExpired>>

Mints ==
    /\ tkMinted < TkTokens
    /\ tkMinted' = tkMinted + 1

-----------------------------------------------------------------------------
(* TableRefreshStore *)

\* exchange: now is read and the transaction begun.  Any token that was ever
\* handed out may be presented, any number of times.
TkPresent(c, t) ==
    /\ tkCall[c] = TkIdle
    /\ t \in 1..tkMinted
    /\ Goes(c, [TkIdle EXCEPT !.at = "claim", !.token = t, !.late = t \in tkExpired])
    /\ OnlyCall

\* Wrong: the token is read first, and claimed by its hash alone.
TkClaim_Reads(c) ==
    /\ tkTable /\ tkCall[c].at = "claim"
    /\ Goes(c, [tkCall[c] EXCEPT !.at = "select",
                                 !.claimed = tkRow[tkCall[c].token] = "fresh" /\ ~tkCall[c].late])
    /\ OnlyCall

\* update ... where token_hash and used = false and expires_at > now: it waits
\* for the row, and what it finds then is the answer.
TkClaim(c) ==
    /\ tkTable /\ tkCall[c].at = "claim"
    /\ tkCall[c].token \notin LockedBy(c)
    /\ Goes(c, [tkCall[c] EXCEPT !.at = "select",
                                 !.claimed = tkRow[tkCall[c].token] = "fresh" /\ ~tkCall[c].late])
    /\ tkOverlap' = (tkOverlap \/ (Rotating(c)' /\ \E d \in TkClients : tkCall[d].at = "delete"))
    /\ UNCHANGED <<tkTable, tkRow, tkMinted, tkExpired, tkRevoked, tkEnded>>

\* The select, and which of its four ends claim comes to.
TkSelect(c) ==
    /\ tkCall[c].at = "select"
    /\ LET row == tkRow[tkCall[c].token] IN
        Goes(c, IF row = "absent" THEN TkIdle
                ELSE [tkCall[c] EXCEPT !.at = IF tkCall[c].claimed THEN "insert"
                                              ELSE IF row = "used" THEN "burn" ELSE "expired"])
    /\ OnlyCall

TkInsert(c) ==
    /\ tkCall[c].at = "insert"
    /\ Mints
    /\ Goes(c, [tkCall[c] EXCEPT !.at = "commit", !.child = tkMinted + 1])
    /\ Steady /\ UNCHANGED <<tkRow, tkRevoked, tkEnded, tkOverlap>>

\* delete ... where token_hash: unused, unclaimed, so expired.
TkExpireDelete(c) ==
    /\ tkCall[c].at = "expired"
    /\ tkCall[c].token \notin LockedBy(c)
    /\ Goes(c, [tkCall[c] EXCEPT !.at = "commit",
                                 !.sees = {tkCall[c].token} \intersect Stored])
    /\ OnlyCall

\* delete ... where family: in an exchange that found its token used, and as
\* the one statement of revoke_family and revoke_subject.
TkBurn(c) ==
    /\ tkTable
    /\ tkCall[c].at = "burn" \/ tkCall[c] = TkIdle
    /\ Goes(c, [tkCall[c] EXCEPT !.at = "delete", !.sees = Stored, !.burns = TRUE])
    /\ tkOverlap' = (tkOverlap \/ RotatesBeside(c))
    /\ UNCHANGED <<tkTable, tkRow, tkMinted, tkExpired, tkRevoked, tkEnded>>

\* It has waited for every row it saw.
TkDelete(c) ==
    /\ tkCall[c].at = "delete"
    /\ tkCall[c].sees \intersect LockedBy(c) = {}
    /\ Goes(c, [tkCall[c] EXCEPT !.at = "commit"])
    /\ OnlyCall

\* What was written shows, and the access token is signed.
TkCommit(c) ==
    /\ tkCall[c].at = "commit"
    /\ tkRow' = [t \in Ids |->
        IF t \in tkCall[c].sees THEN "absent"
        ELSE IF t = tkCall[c].child THEN "fresh"
        ELSE IF tkCall[c].claimed /\ t = tkCall[c].token THEN "used" ELSE tkRow[t]]
    /\ tkEnded' = (tkEnded \/ tkCall[c].burns)
    /\ TkReturns(c)
    /\ Steady /\ UNCHANGED <<tkMinted, tkRevoked, tkOverlap>>

\* A statement fails, or the process dies with the transaction open.
TkRollback(c) ==
    /\ tkTable /\ tkCall[c] # TkIdle
    /\ TkReturns(c)
    /\ OnlyCall

-----------------------------------------------------------------------------
(* MemoryRefreshStore *)

Burns ==
    /\ tkRevoked' = TRUE
    /\ tkRow' = [t \in Ids |-> "absent"]
    /\ tkEnded' = TRUE

\* The first lock: everything that decides the outcome.
TkDecide(c) ==
    /\ ~tkTable /\ tkCall[c].at = "claim"
    /\ LET t == tkCall[c].token IN
        \/ /\ tkRow[t] = "absent" \/ tkRevoked
           /\ TkReturns(c)
           /\ UNCHANGED <<tkRow, tkRevoked, tkEnded>>
        \/ /\ tkRow[t] = "used" /\ ~tkRevoked
           /\ TkReturns(c)
           /\ Burns
        \/ /\ tkRow[t] = "fresh" /\ ~tkRevoked /\ tkCall[c].late
           /\ TkReturns(c)
           /\ tkRow' = [tkRow EXCEPT ![t] = "absent"]
           /\ UNCHANGED <<tkRevoked, tkEnded>>
        \/ /\ tkRow[t] = "fresh" /\ ~tkRevoked /\ ~tkCall[c].late
           /\ Goes(c, [tkCall[c] EXCEPT !.at = "record", !.claimed = TRUE])
           /\ tkRow' = [tkRow EXCEPT ![t] = "used"]
           /\ UNCHANGED <<tkRevoked, tkEnded>>
    /\ Steady /\ UNCHANGED <<tkMinted, tkOverlap>>

\* The second lock: the successor goes in, whatever happened in between.
TkRecord(c) ==
    /\ tkCall[c].at = "record"
    /\ Mints
    /\ tkRow' = [tkRow EXCEPT ![tkMinted + 1] = "fresh"]
    /\ TkReturns(c)
    /\ Steady /\ UNCHANGED <<tkRevoked, tkEnded, tkOverlap>>

\* revoke_family, and revoke_subject of a subject with this one family.
TkRevoke ==
    /\ ~tkTable
    /\ Burns
    /\ Steady /\ UNCHANGED <<tkMinted, tkCall, tkOverlap>>

-----------------------------------------------------------------------------

TkExpire(t) ==
    /\ t \in 1..tkMinted
    /\ tkExpired' = tkExpired \union {t}
    /\ UNCHANGED <<tkTable, tkRow, tkMinted, tkRevoked, tkCall, tkEnded, tkOverlap>>

\* delete ... where expires_at <= now.
TkSweep ==
    /\ tkTable
    /\ LET gone == Stored \intersect tkExpired IN
        /\ gone # {} /\ gone \intersect UNION {Locks(c) : c \in TkClients} = {}
        /\ tkRow' = [t \in Ids |-> IF t \in gone THEN "absent" ELSE tkRow[t]]
    /\ Steady /\ UNCHANGED <<tkMinted, tkRevoked, tkCall, tkEnded, tkOverlap>>

TkNext ==
    \/ TkRevoke \/ TkSweep
    \/ \E t \in Ids : TkExpire(t)
    \/ \E c \in TkClients :
        \/ \E t \in Ids : TkPresent(c, t)
        \/ TkClaim(c) \/ TkSelect(c) \/ TkInsert(c) \/ TkExpireDelete(c)
        \/ TkBurn(c) \/ TkDelete(c) \/ TkCommit(c) \/ TkRollback(c)
        \/ TkDecide(c) \/ TkRecord(c)

TkSpec == TkInit /\ [][TkNext]_tkVars

-----------------------------------------------------------------------------
(* Properties *)

\* Rows and calls have the values the statements write.
TkTypeOK ==
    /\ tkTable \in BOOLEAN
    /\ tkRow \in [Ids -> TkRow]
    /\ tkMinted \in Ids
    /\ tkExpired \subseteq Ids
    /\ tkRevoked \in BOOLEAN
    /\ tkCall \in [TkClients -> TkCall]
    /\ tkEnded \in BOOLEAN /\ tkOverlap \in BOOLEAN

\* Tokens an exchange would accept.
Usable == {t \in Stored : tkRow[t] = "fresh" /\ ~tkRevoked}

\* However many present whatever token at once: a family has one live token at
\* most, and none after it was burnt or revoked.  The exception is a rotation
\* that was open, or began, while the delete went through the rows it had seen:
\* what the rotation inserts was not among them.
OneHeir ==
    /\ Cardinality(Usable) <= 1
    /\ tkEnded /\ ~tkOverlap => Usable = {}
=============================================================================
