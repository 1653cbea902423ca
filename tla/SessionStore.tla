---------------------------- MODULE SessionStore ----------------------------
(***************************************************************************)
(* session.rs of moso-auth: the sessions of one user in the key-value      *)
(* store, one record per identifier and an index of the identifiers, and   *)
(* the requests that work on copies of them.                               *)
(*                                                                         *)
(* A request loads its session when its handler asks for it and writes it  *)
(* back when the handler has returned.  Every call of the store is a step, *)
(* and several requests may carry the same identifier.  Of a record, only  *)
(* whether it names the user is kept; the index is the store's set type.   *)
(***************************************************************************)
EXTENDS Naturals, FiniteSets

CONSTANTS
    SsRequests,
    SsIds,              \* bound: identifiers that are ever generated
    SsNoId,
    SsMaxOps,           \* bound: operations on the store in one handler
    SsMaxTroubles       \* bound: calls of the store that fail, requests dropped

ASSUME SsAssumption == SsNoId \notin SsIds /\ SsMaxOps \in Nat /\ SsMaxTroubles \in Nat

VARIABLES
    record,             \* SessionData: "none", "anon" or "user"
    index,              \* SessionIndex
    request,
    issued,             \* identifiers some client holds a cookie for
    generated,
    ended,              \* identifiers whose record was deleted or expired
    revived,            \* ... and written again by a request that held it
    torn,               \* written by a request that did not get to the index
    ssTroubles

ssVars == <<record, index, request, issued, generated, ended, revived, torn, ssTroubles>>

Steps == {"idle", "handler", "ren_get", "ren_set", "ren_del", "ren_add", "ren_rem",
          "del_get", "del_del", "del_rem", "all_del", "all_rem",
          "list_get", "list_rem", "save_set", "save_add"}

\* Session and the call it is in.  `mine` is its record, `dirty` whether it goes
\* by a new identifier, `seen` the record a call of the store has read, `to` the
\* identifier a rename goes to or a loop is at, `left` those a loop has before
\* it, `stale` those a listing did not find; `logs` says the rename is a log_in's,
\* `loads` that the delete is a load's, `ops` counts the operations.
Request == [at : Steps, id : SsIds \union {SsNoId}, presented : BOOLEAN,
            mine : {"unloaded", "anon", "user"}, dirty : BOOLEAN,
            seen : {"none", "anon", "user"},
            to : SsIds \union {SsNoId}, left : SUBSET SsIds, stale : SUBSET SsIds,
            logs : BOOLEAN, loads : BOOLEAN, ops : 0..SsMaxOps]

NoRequest == [at |-> "idle", id |-> SsNoId, presented |-> FALSE, mine |-> "unloaded",
              dirty |-> FALSE, seen |-> "none",
              to |-> SsNoId, left |-> {}, stale |-> {},
              logs |-> FALSE, loads |-> FALSE, ops |-> 0]

SsInit ==
    /\ record = [i \in SsIds |-> "none"]
    /\ index = {} /\ issued = {} /\ generated = {}
    /\ ended = {} /\ revived = {} /\ torn = {}
    /\ request = [r \in SsRequests |-> NoRequest]
    /\ ssTroubles = 0

ghosts == <<ended, revived, torn>>
Turns(r, q) == request' = [request EXCEPT ![r] = q]
Local(r, q) == Turns(r, q) /\ UNCHANGED <<record, index, issued, generated, ghosts, ssTroubles>>

Writes(i, v) == record' = [record EXCEPT ![i] = v]
Deletes(i) ==
    /\ Writes(i, "none")
    /\ ended' = IF record[i] = "none" THEN ended ELSE ended \union {i}

-----------------------------------------------------------------------------
(* The handler *)

\* begin: the cookie names a session, or there is none.  The identifier of a
\* session that has not been stored is made up when it first shows.
SsBegin(r) ==
    /\ request[r].at = "idle"
    /\ \/ \E i \in issued :
            Local(r, [NoRequest EXCEPT !.at = "handler", !.id = i, !.presented = TRUE])
       \/ Local(r, [NoRequest EXCEPT !.at = "handler"])

InHandler(r) == request[r].at = "handler"
Loaded(r) == InHandler(r) /\ request[r].mine # "unloaded"
MayCall(r) == InHandler(r) /\ request[r].ops < SsMaxOps

\* fresh_record: the session is new, under the identifier it has.
Fresh(q) == [q EXCEPT !.at = "handler", !.presented = FALSE, !.mine = "anon",
                      !.seen = "none", !.loads = FALSE]

\* load.  A session that is not there becomes a fresh one, and so does one that is
\* past its age, once the store has deleted it.
SsLoad(r) ==
    /\ InHandler(r) /\ request[r].mine = "unloaded"
    /\ LET q == request[r]
           found == q.presented /\ record[q.id] # "none"
       IN  \/ ~found /\ Local(r, Fresh(q))
           \/ found /\ Local(r, [q EXCEPT !.mine = record[q.id]])
           \/ found /\ Local(r, [q EXCEPT !.at = "del_get", !.loads = TRUE])

\* Wrong: a session nobody presented is bound to the user as it is.
SsCycle_Keeps(r) ==
    /\ Loaded(r)
    /\ request[r].id # SsNoId /\ ~request[r].presented
    /\ Local(r, [request[r] EXCEPT !.mine = "user", !.dirty = TRUE])

\* cycle_id, alone and as the first half of log_in: a session that is in the
\* store is renamed there, any other just takes the new identifier.
SsCycle(r) ==
    /\ Loaded(r) /\ MayCall(r)
    /\ \E i \in SsIds \ generated, logs \in BOOLEAN :
        /\ generated' = generated \union {i}
        /\ Turns(r, IF request[r].presented
                    THEN [request[r] EXCEPT !.at = "ren_get", !.to = i, !.logs = logs,
                                              !.ops = @ + 1]
                    ELSE [request[r] EXCEPT !.id = i, !.dirty = TRUE,
                                            !.mine = IF logs THEN "user" ELSE @])
        /\ UNCHANGED <<record, index, issued, ghosts, ssTroubles>>

\* destroy.  It is the last thing a handler does: the session it leaves is not
\* saved, and the cookie is cleared.
SsDestroy(r) ==
    /\ MayCall(r)
    /\ Local(r, IF request[r].presented
                THEN [request[r] EXCEPT !.at = "del_get", !.ops = @ + 1]
                ELSE NoRequest)

\* delete_for_user, with or without the session at hand, and list_for_user.
SsAll(r) ==
    /\ MayCall(r)
    /\ \E keep \in {{}, {request[r].id}}, at \in {"all_del", "list_get"} :
        /\ at = "list_get" => keep = {}
        /\ index \ keep # {}
        /\ Local(r, [request[r] EXCEPT !.at = at, !.left = index \ keep, !.ops = @ + 1])

-----------------------------------------------------------------------------
(* KvSessionStore::rename *)

\* The rename is over: the session goes by its new identifier, and log_in binds
\* it to the user.
Renamed(q) == [q EXCEPT !.at = "handler", !.id = q.to, !.to = SsNoId, !.dirty = TRUE,
                        !.mine = IF q.logs THEN "user" ELSE @, !.seen = "none", !.logs = FALSE]

SsRenameGet(r) ==
    /\ request[r].at = "ren_get"
    /\ LET q == request[r] IN
        Local(r, IF record[q.id] = "none" THEN Renamed(q)
                 ELSE [q EXCEPT !.at = "ren_set", !.seen = record[q.id]])

SsRenameSet(r) ==
    /\ request[r].at = "ren_set"
    /\ Writes(request[r].to, request[r].seen)
    /\ Turns(r, [request[r] EXCEPT !.at = "ren_del"])
    /\ UNCHANGED <<index, issued, generated, ghosts, ssTroubles>>

SsRenameDelete(r) ==
    /\ request[r].at = "ren_del"
    /\ Deletes(request[r].id)
    /\ Turns(r, IF request[r].seen = "user" THEN [request[r] EXCEPT !.at = "ren_add"]
                ELSE Renamed(request[r]))
    /\ UNCHANGED <<index, issued, generated, revived, torn, ssTroubles>>

SsRenameIndex(r) ==
    /\ \/ /\ request[r].at = "ren_add"
          /\ index' = index \union {request[r].to}
          /\ Turns(r, [request[r] EXCEPT !.at = "ren_rem"])
       \/ /\ request[r].at = "ren_rem"
          /\ index' = index \ {request[r].id}
          /\ Turns(r, Renamed(request[r]))
    /\ UNCHANGED <<record, issued, generated, ghosts, ssTroubles>>

-----------------------------------------------------------------------------
(* delete, delete_for_user and list_for_user *)

\* The delete is over, and with it the request, or the load.
Deleted(q) == IF q.loads THEN Fresh(q) ELSE NoRequest

\* Read first, so the index can be cleaned up.
SsDeleteGet(r) ==
    /\ request[r].at = "del_get"
    /\ Local(r, [request[r] EXCEPT !.at = "del_del", !.seen = record[request[r].id]])

SsDelete(r) ==
    /\ request[r].at = "del_del"
    /\ Deletes(request[r].id)
    /\ Turns(r, IF request[r].seen = "user" THEN [request[r] EXCEPT !.at = "del_rem"]
                ELSE Deleted(request[r]))
    /\ UNCHANGED <<index, issued, generated, revived, torn, ssTroubles>>

SsDeleteIndex(r) ==
    /\ request[r].at = "del_rem"
    /\ index' = index \ {request[r].id}
    /\ Turns(r, Deleted(request[r]))
    /\ UNCHANGED <<record, issued, generated, ghosts, ssTroubles>>

\* One identifier of the index after the other; the store returns them in no
\* order.
SsAllDelete(r) ==
    /\ request[r].at = "all_del"
    /\ \E i \in request[r].left :
        /\ Deletes(i)
        /\ Turns(r, [request[r] EXCEPT !.at = "all_rem", !.to = i])
    /\ UNCHANGED <<index, issued, generated, revived, torn, ssTroubles>>

SsAllIndex(r) ==
    /\ request[r].at = "all_rem"
    /\ LET q == request[r]
           left == q.left \ {q.to}
       IN  /\ index' = index \ {q.to}
           /\ Turns(r, [q EXCEPT !.at = IF left = {} THEN "handler" ELSE "all_del",
                                 !.left = left, !.to = SsNoId])
    /\ UNCHANGED <<record, issued, generated, ghosts, ssTroubles>>

\* A listing reads all records, and then drops the identifiers whose record it
\* did not find.
SsList(r) ==
    /\ request[r].at = "list_get"
    /\ \E i \in request[r].left :
        LET q == request[r]
            left == q.left \ {i}
            stale == IF record[i] = "none" THEN q.stale \union {i} ELSE q.stale
        IN  Local(r, [q EXCEPT !.at = IF left # {} THEN "list_get"
                                      ELSE IF stale # {} THEN "list_rem" ELSE "handler",
                               !.left = left, !.stale = stale])

SsListIndex(r) ==
    /\ request[r].at = "list_rem"
    /\ \E i \in request[r].stale :
        LET q == request[r]
            stale == q.stale \ {i}
        IN  /\ index' = index \ {i}
            /\ Turns(r, [q EXCEPT !.at = IF stale = {} THEN "handler" ELSE "list_rem",
                                  !.stale = stale])
    /\ UNCHANGED <<record, issued, generated, ghosts, ssTroubles>>

-----------------------------------------------------------------------------
(* finish *)

\* Nothing to write, and no cookie.  A session is written when its contents have
\* changed, and when it was only read but not written for the touch interval.
SsLeave(r) ==
    /\ InHandler(r) /\ ~request[r].dirty
    /\ Local(r, NoRequest)

Writing(r, i) == [NoRequest EXCEPT !.at = "save_set", !.id = i, !.mine = request[r].mine,
                                   !.presented = request[r].presented]

SsFinish(r) ==
    /\ Loaded(r)
    /\ \/ /\ request[r].id # SsNoId
          /\ Local(r, Writing(r, request[r].id))
       \/ /\ request[r].id = SsNoId
          /\ \E i \in SsIds \ generated :
                /\ generated' = generated \union {i}
                /\ Turns(r, Writing(r, i))
                /\ UNCHANGED <<record, index, issued, ghosts, ssTroubles>>

Saved(r) == issued' = issued \union {request[r].id} /\ Turns(r, NoRequest)

\* A set, whatever the store holds by now.
SsSave(r) ==
    /\ request[r].at = "save_set"
    /\ LET q == request[r] IN
        /\ Writes(q.id, q.mine)
        /\ revived' = IF q.presented /\ q.mine = "user" /\ q.id \in ended THEN revived \union {q.id} ELSE revived
        /\ IF q.mine = "user"
           THEN Turns(r, [q EXCEPT !.at = "save_add"]) /\ UNCHANGED issued
           ELSE Saved(r)
    /\ UNCHANGED <<index, generated, ended, torn, ssTroubles>>

SsSaveIndex(r) ==
    /\ request[r].at = "save_add"
    /\ index' = index \union {request[r].id}
    /\ torn' = torn \ {request[r].id}
    /\ Saved(r)
    /\ UNCHANGED <<record, generated, ended, revived, ssTroubles>>

-----------------------------------------------------------------------------

\* The identifier whose record this call has written and not indexed.
Unindexed(q) ==
    CASE q.at = "save_add" -> {q.id}
      [] q.at \in {"ren_del", "ren_add"} -> {q.to}
      [] OTHER -> {}

\* The store fails a call: the handler returns its error and the session is
\* finished all the same, unless it was the save.  Or the client hangs up.
SsTrouble(r) ==
    /\ request[r].at # "idle"
    /\ ssTroubles < SsMaxTroubles
    /\ ssTroubles' = ssTroubles + 1
    /\ torn' = torn \union Unindexed(request[r])
    /\ \/ Turns(r, NoRequest)
       \/ /\ request[r].at \notin {"save_set", "save_add", "handler"}
          /\ Turns(r, [request[r] EXCEPT !.at = "handler", !.to = SsNoId, !.seen = "none",
                                         !.left = {}, !.stale = {}, !.logs = FALSE,
                                         !.loads = FALSE])
    /\ UNCHANGED <<record, index, issued, generated, ended, revived>>

\* The time to live of a record is over.
SsExpire(i) ==
    /\ record[i] # "none"
    /\ Deletes(i)
    /\ UNCHANGED <<index, request, issued, generated, revived, torn, ssTroubles>>

SsNext ==
    \/ \E i \in SsIds : SsExpire(i)
    \/ \E r \in SsRequests :
        \/ SsBegin(r) \/ SsLoad(r) \/ SsCycle(r) \/ SsDestroy(r) \/ SsAll(r)
        \/ SsRenameGet(r) \/ SsRenameSet(r) \/ SsRenameDelete(r) \/ SsRenameIndex(r)
        \/ SsDeleteGet(r) \/ SsDelete(r) \/ SsDeleteIndex(r)
        \/ SsAllDelete(r) \/ SsAllIndex(r) \/ SsList(r) \/ SsListIndex(r)
        \/ SsLeave(r) \/ SsFinish(r) \/ SsSave(r) \/ SsSaveIndex(r)
        \/ SsTrouble(r)

SsSpec == SsInit /\ [][SsNext]_ssVars

-----------------------------------------------------------------------------
(* Properties *)

\* Records, index and requests have their shapes.
SsTypeOK ==
    /\ record \in [SsIds -> {"none", "anon", "user"}]
    /\ index \subseteq generated /\ issued \subseteq generated /\ generated \subseteq SsIds
    /\ request \in [SsRequests -> Request]
    /\ ended \subseteq SsIds /\ revived \subseteq ended /\ torn \subseteq SsIds
    /\ ssTroubles \in 0..SsMaxTroubles

\* An identifier that ended, whether by a logout, a log-out-everywhere, a rename
\* or its age, never names the user again: not even to a client that keeps
\* presenting it and logs in.  The exception is a request that had the session
\* in hand when it ended, whose last write puts it back.
EndedStaysEnded == \A i \in ended \ revived : record[i] # "user"

\* "Log out everywhere" goes by the index, so a record the index misses is a
\* device it leaves.  There is none, unless a request was cut short between the
\* two writes or the record is one of those put back.
Indexed ==
    \A i \in SsIds : record[i] = "user" =>
        i \in index \union torn \union revived \union UNION {Unindexed(request[r]) : r \in SsRequests}

SessionsAccounted == EndedStaysEnded /\ Indexed
=============================================================================
