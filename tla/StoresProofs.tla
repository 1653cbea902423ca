---------------------------- MODULE StoresProofs ----------------------------
(***************************************************************************)
(* What requests may rely on that share a key-value store: the sessions of *)
(* a user, for any number of requests and identifiers, and the bucket of a *)
(* rate limit, for any number of callers and any quota.                    *)
(***************************************************************************)
EXTENDS MCStores, FiniteSetTheorems, TLAPS

-----------------------------------------------------------------------------
(***************************************************************************)
(* Sessions.                                                               *)
(*                                                                         *)
(* That an ended identifier stays ended is not inductive: a request writes *)
(* what it has in hand, whatever the store holds.  The strengthening says  *)
(* whose hands an identifier is in.  One that has been generated and not   *)
(* written yet is in the hands of one request, no cookie names it, and     *)
(* nobody else can write it; every other identifier a request works on has *)
(* been in the store, so that it is there now or has ended.                *)
(***************************************************************************)

\* Identifiers that have been in the store.
SsKnown == ended \union {i \in SsIds : record[i] # "none"}

SsRenaming == {"ren_get", "ren_set", "ren_del", "ren_add", "ren_rem"}

\* The identifiers q can write under.
SsNames(q) == {q.id} \union IF q.at \in SsRenaming THEN {q.to} ELSE {}

\* Those that q has made up and not put in the store.
SsUnwritten(q) ==
    IF q.at \in {"ren_get", "ren_set"} THEN {q.to}
    ELSE IF q.mine = "user" /\ ~q.presented /\ q.at \notin {"save_add", "ren_del"} THEN {q.id}
    ELSE {}

\* Those that are q's alone.
SsHolds(q) == IF q.at = "ren_del" THEN {q.to} ELSE SsUnwritten(q)

\* What the fields of q say of each other and of the store, where `known`, `gone`
\* and `made` are the identifiers that have been there, have ended, and exist.
SsSays(q, known, gone, made) ==
    /\ q.id \in made \union {SsNoId} /\ q.to \in made \union {SsNoId}
    /\ q.left \subseteq known /\ q.stale \subseteq gone
    /\ q.presented => q.id # SsNoId
    /\ q.mine = "user" => q.id # SsNoId
    /\ q.at \in SsRenaming \union {"del_get", "del_del", "del_rem"} => q.presented
    /\ q.at \in SsRenaming => q.to # SsNoId
    /\ q.at \in {"ren_set", "ren_del"} => q.id \in known /\ q.seen # "none"
    /\ q.at \in {"ren_add", "ren_rem", "del_rem"} => q.id \in gone
    /\ q.at \in {"ren_del", "ren_add"} => q.to \in known
    /\ q.at = "del_del" /\ q.seen # "none" => q.id \in known
    /\ q.at = "all_rem" => q.to \in gone
    /\ q.at \in {"save_set", "save_add"} => q.id # SsNoId /\ q.mine # "unloaded"
    /\ q.at = "save_add" => q.mine = "user" /\ q.id \in known

\* A record under its new identifier is the one that was read.
SsCopied(r) == request[r].at = "ren_del" => record[request[r].to] \in {request[r].seen, "none"}

SsOwned ==
    \A r \in SsRequests :
        /\ SsHolds(request[r]) \subseteq generated \ issued
        /\ SsUnwritten(request[r]) \intersect SsKnown = {}
        /\ \A s \in SsRequests \ {r} : SsNames(request[s]) \intersect SsHolds(request[r]) = {}

SsIInv ==
    /\ SsTypeOK
    /\ SsKnown \subseteq generated /\ index \subseteq SsKnown
    /\ \A r \in SsRequests : SsSays(request[r], SsKnown, ended, generated) /\ SsCopied(r)
    /\ SsOwned
    /\ SessionsAccounted

-----------------------------------------------------------------------------
(* The records the actions write *)

LEMMA NoRequestIs ==
    /\ NoRequest \in Request
    /\ NoRequest.at = "idle" /\ NoRequest.id = SsNoId /\ NoRequest.to = SsNoId
    /\ NoRequest.left = {} /\ NoRequest.stale = {} /\ ~NoRequest.presented
    /\ NoRequest.mine = "unloaded"
    /\ NoRequest.seen = "none"
  BY SsAssumption DEF NoRequest, Request, Steps

LEMMA RenamedIs ==
    ASSUME NEW q \in Request, NEW d, d = Renamed(q)
    PROVE  /\ d \in Request /\ d.at = "handler" /\ d.id = q.to /\ d.to = SsNoId
           /\ d.left = q.left /\ d.stale = q.stale /\ d.presented = q.presented /\ d.seen = "none"
           /\ d.mine = (IF q.logs THEN "user" ELSE q.mine)
  BY DEF Renamed, Request, Steps

LEMMA FreshIs ==
    ASSUME NEW q \in Request, NEW d, d = Fresh(q)
    PROVE  /\ d \in Request /\ d.at = "handler" /\ d.id = q.id /\ d.to = q.to
           /\ d.left = q.left /\ d.stale = q.stale /\ ~d.presented /\ d.seen = "none"
           /\ d.mine = "anon"
  BY DEF Fresh, Request, Steps

LEMMA DeletedIs ==
    ASSUME NEW q \in Request, NEW d, d = Deleted(q)
    PROVE  /\ d \in Request /\ d.at \in {"idle", "handler"}
           /\ d.id \in {q.id, SsNoId} /\ d.to \in {q.to, SsNoId}
           /\ d.left \subseteq q.left /\ d.stale \subseteq q.stale /\ ~d.presented
           /\ d.mine # "user"
  BY FreshIs, NoRequestIs DEF Deleted

LEMMA LoadDeletesIs ==
    ASSUME NEW q \in Request, NEW d, d = [q EXCEPT !.at = "del_get", !.loads = TRUE]
    PROVE  /\ d \in Request /\ d.at = "del_get" /\ d.id = q.id /\ d.to = q.to
           /\ d.left = q.left /\ d.stale = q.stale /\ d.presented = q.presented
           /\ d.seen = q.seen /\ d.mine = q.mine
  BY DEF Request, Steps

LEMMA CutShortIs ==
    ASSUME NEW q \in Request, NEW d,
           d = [q EXCEPT !.at = "handler", !.to = SsNoId, !.seen = "none",
                         !.left = {}, !.stale = {}, !.logs = FALSE, !.loads = FALSE]
    PROVE  /\ d \in Request /\ d.at = "handler" /\ d.id = q.id /\ d.to = SsNoId
           /\ d.left = {} /\ d.stale = {} /\ d.presented = q.presented /\ d.seen = "none"
           /\ d.mine = q.mine
  BY DEF Request, Steps

LEMMA BegunIs ==
    ASSUME NEW i \in SsIds, NEW d,
           d = [NoRequest EXCEPT !.at = "handler", !.id = i, !.presented = TRUE]
    PROVE  /\ d \in Request /\ d.at = "handler" /\ d.id = i /\ d.to = SsNoId
           /\ d.left = {} /\ d.stale = {} /\ d.presented /\ d.seen = "none" /\ d.mine = "unloaded"
<1>1. NoRequest \in Request
  BY NoRequestIs
<1>2. /\ NoRequest.to = SsNoId /\ NoRequest.left = {} /\ NoRequest.stale = {}
      /\ NoRequest.seen = "none"
      /\ NoRequest.mine = "unloaded"
  BY NoRequestIs
<1> QED BY <1>1, <1>2 DEF Request, Steps

\* A further operation, within the bound.
LEMMA OpsIs ==
    ASSUME NEW q \in Request, q.ops < SsMaxOps
    PROVE  q.ops + 1 \in 0..SsMaxOps
  BY SsAssumption DEF Request

LEMMA DestroysIs ==
    ASSUME NEW q \in Request, q.ops < SsMaxOps, NEW d,
           d = [q EXCEPT !.at = "del_get", !.ops = @ + 1]
    PROVE  /\ d \in Request /\ d.at = "del_get" /\ d.id = q.id /\ d.to = q.to
           /\ d.left = q.left /\ d.stale = q.stale /\ d.presented = q.presented
           /\ d.seen = q.seen /\ d.mine = q.mine
<1>1. PICK ops \in 0..SsMaxOps : ops = q.ops + 1
  BY OpsIs
<1>2. d = [q EXCEPT !.at = "del_get", !.ops = ops]
  BY <1>1
<1> QED BY <1>2 DEF Request, Steps

\* The request goes on, with what it has read or where it is.
LEMMA GoesOnIs ==
    ASSUME NEW q \in Request, NEW at \in Steps, NEW d, d = [q EXCEPT !.at = at]
    PROVE  /\ d \in Request /\ d.at = at /\ d.id = q.id /\ d.to = q.to
           /\ d.left = q.left /\ d.stale = q.stale /\ d.presented = q.presented
           /\ d.seen = q.seen /\ d.mine = q.mine
  BY DEF Request

LEMMA ReadsIs ==
    ASSUME NEW q \in Request, NEW at \in Steps, NEW seen \in {"none", "anon", "user"}, NEW d,
           d = [q EXCEPT !.at = at, !.seen = seen]
    PROVE  /\ d \in Request /\ d.at = at /\ d.id = q.id /\ d.to = q.to
           /\ d.left = q.left /\ d.stale = q.stale /\ d.presented = q.presented
           /\ d.seen = seen /\ d.mine = q.mine
  BY DEF Request

LEMMA AtIs ==
    ASSUME NEW q \in Request, NEW at \in Steps, NEW i \in SsIds, NEW d,
           d = [q EXCEPT !.at = at, !.to = i]
    PROVE  /\ d \in Request /\ d.at = at /\ d.id = q.id /\ d.to = i
           /\ d.left = q.left /\ d.stale = q.stale /\ d.presented = q.presented
           /\ d.seen = q.seen /\ d.mine = q.mine
  BY DEF Request

-----------------------------------------------------------------------------
(* A step of one request *)

SsRecords == {"none", "anon", "user"}

LEMMA SsShapes ==
    ASSUME SsIInv
    PROVE  /\ record \in [SsIds -> SsRecords]
           /\ ended \subseteq SsKnown /\ SsKnown \subseteq generated /\ generated \subseteq SsIds
           /\ \A r \in SsRequests : request[r] \in Request
           /\ SsNoId \notin SsIds
  BY SsAssumption DEF SsIInv, SsTypeOK, SsKnown, SsRecords

\* What q says stays true as more identifiers are known, gone and made.
LEMMA SsSaysStays ==
    ASSUME NEW q, NEW known, NEW gone, NEW made, NEW known2, NEW gone2, NEW made2,
           known \subseteq known2, gone \subseteq gone2, made \subseteq made2,
           SsSays(q, known, gone, made)
    PROVE  SsSays(q, known2, gone2, made2)
  BY DEF SsSays

LEMMA SsHoldsItsNames ==
    ASSUME NEW q
    PROVE  SsHolds(q) \subseteq SsNames(q) /\ SsUnwritten(q) \subseteq SsHolds(q)
  BY DEF SsHolds, SsUnwritten, SsNames, SsRenaming

LEMMA SsNamesMade ==
    ASSUME NEW q, NEW known, NEW gone, NEW made, SsSays(q, known, gone, made)
    PROVE  /\ SsNames(q) \subseteq made \union {SsNoId}
           /\ SsNoId \notin made => SsHolds(q) \subseteq made
  BY DEF SsSays, SsNames, SsHolds, SsUnwritten, SsRenaming

\* Request r becomes q and writes under its own names only; it takes no name but
\* one that a cookie had or that it made up.
SsTurns(r, q) ==
    /\ Turns(r, q) /\ q \in Request
    /\ SsKnown \subseteq SsKnown' /\ SsKnown' \subseteq SsKnown \union SsNames(request[r])
    /\ ended \subseteq ended' /\ generated \subseteq generated'
    /\ issued \subseteq issued' /\ issued' \subseteq issued \union SsNames(request[r])
    /\ SsNames(q) \subseteq SsNames(request[r]) \union issued \union (generated' \ generated)
                            \union {SsNoId}
    /\ SsHolds(q) \subseteq SsHolds(request[r]) \union (generated' \ generated)
    /\ SsHolds(q) \intersect issued' = {} /\ SsUnwritten(q) \intersect SsKnown' = {}
    /\ \A i \in SsIds : record'[i] \in {record[i], "none"} \/ i \in SsNames(request[r])
    /\ generated' \subseteq SsIds
    /\ SsSays(q, SsKnown', ended', generated')
    /\ q.at = "ren_del" => record'[q.to] \in {q.seen, "none"}

\* Then every request says what is so, and nobody writes under another's name.
LEMMA SsTurnsKeeps ==
    ASSUME SsIInv, NEW r \in SsRequests, NEW q, SsTurns(r, q)
    PROVE  /\ request' \in [SsRequests -> Request]
           /\ \A s \in SsRequests : SsSays(request'[s], SsKnown', ended', generated')
           /\ \A s \in SsRequests : SsCopied(s)'
           /\ SsOwned'
<1>1. /\ request' \in [SsRequests -> Request] /\ request'[r] = q
      /\ \A s \in SsRequests \ {r} : request'[s] = request[s]
  BY DEF SsTurns, Turns, SsIInv, SsTypeOK
<1>2. ASSUME NEW s \in SsRequests
      PROVE  SsSays(request'[s], SsKnown', ended', generated')
  <2>1. CASE s = r
    BY <1>1, <2>1 DEF SsTurns
  <2>2. CASE s # r
    <3>1. SsSays(request[s], SsKnown, ended, generated)
      BY DEF SsIInv
    <3>2. SsKnown \subseteq SsKnown' /\ ended \subseteq ended' /\ generated \subseteq generated'
      BY DEF SsTurns
    <3>3. PICK p, known, gone, made, known2, gone2, made2 :
              /\ p = request[s] /\ known = SsKnown /\ gone = ended /\ made = generated
              /\ known2 = SsKnown' /\ gone2 = ended' /\ made2 = generated'
      OBVIOUS
    <3>4. SsSays(p, known2, gone2, made2)
      BY <3>1, <3>2, <3>3, SsSaysStays
    <3> QED BY <1>1, <2>2, <3>3, <3>4
  <2> QED BY <2>1, <2>2
<1>3. \A s, t \in SsRequests : s # t => SsNames(request[s]) \intersect SsHolds(request[t]) = {}
  BY DEF SsIInv, SsOwned
<1>4. SsNoId \notin generated' /\ generated \subseteq generated'
  BY SsShapes DEF SsTurns
<1>5. ASSUME NEW s \in SsRequests
      PROVE  /\ SsNames(request[s]) \subseteq generated \union {SsNoId}
             /\ SsHolds(request[s]) \subseteq generated \ issued
  <2>1. SsSays(request[s], SsKnown, ended, generated) /\ SsHolds(request[s]) \subseteq generated \ issued
    BY DEF SsIInv, SsOwned
  <2>2. PICK p, known, gone, made : p = request[s] /\ known = SsKnown /\ gone = ended /\ made = generated
    OBVIOUS
  <2>3. SsNames(p) \subseteq made \union {SsNoId}
    BY <2>1, <2>2, SsNamesMade
  <2> QED BY <2>1, <2>2, <2>3
<1>6. /\ SsHolds(q) \subseteq SsHolds(request[r]) \union (generated' \ generated)
      /\ SsNames(q) \subseteq SsNames(request[r]) \union issued \union (generated' \ generated)
                              \union {SsNoId}
      /\ issued' \subseteq issued \union SsNames(request[r])
      /\ SsKnown' \subseteq SsKnown \union SsNames(request[r])
      /\ SsHolds(q) \intersect issued' = {} /\ SsUnwritten(q) \intersect SsKnown' = {}
  BY DEF SsTurns
<1>7. \A s \in SsRequests : SsUnwritten(request[s]) \subseteq SsHolds(request[s])
  BY SsHoldsItsNames
<1>8. ASSUME NEW s \in SsRequests
      PROVE  /\ SsHolds(request'[s]) \subseteq generated' \ issued'
             /\ SsUnwritten(request'[s]) \intersect SsKnown' = {}
  <2>1. CASE s = r
    BY <1>1, <1>4, <1>5, <1>6, <2>1
  <2>2. CASE s # r
    <3>1. SsUnwritten(request[s]) \intersect SsKnown = {}
      BY DEF SsIInv, SsOwned
    <3> QED BY <1>1, <1>3, <1>4, <1>5, <1>6, <1>7, <2>2, <3>1
  <2> QED BY <2>1, <2>2
<1>9. ASSUME NEW s \in SsRequests, NEW t \in SsRequests \ {s}
      PROVE  SsNames(request'[t]) \intersect SsHolds(request'[s]) = {}
  <2>1. CASE s = r
    BY <1>1, <1>3, <1>4, <1>5, <1>6, <2>1
  <2>2. CASE t = r
    BY <1>1, <1>3, <1>4, <1>5, <1>6, <2>2
  <2>3. CASE s # r /\ t # r
    BY <1>1, <1>3, <2>3
  <2> QED BY <2>1, <2>2, <2>3
<1>10. ASSUME NEW s \in SsRequests
       PROVE  SsCopied(s)'
  <2> SUFFICES ASSUME request'[s].at = "ren_del"
               PROVE  record'[request'[s].to] \in {request'[s].seen, "none"}
    BY DEF SsCopied
  <2>1. CASE s = r
    BY <1>1, <2>1 DEF SsTurns
  <2>2. CASE s # r
    <3>1. request'[s] = request[s] /\ record[request[s].to] \in {request[s].seen, "none"}
      BY <1>1, <2>2 DEF SsIInv, SsCopied
    <3>2. SsHolds(request[s]) = {request[s].to}
      BY <3>1 DEF SsHolds
    <3>3. request[s].to \in generated /\ request[s].to \notin SsNames(request[r])
      BY <1>3, <1>5, <2>2, <3>2
    <3>4. request[s].to \in SsIds
      BY <3>3, SsShapes
    <3>5. record'[request[s].to] \in {record[request[s].to], "none"}
      BY <3>3, <3>4 DEF SsTurns
    <3> QED BY <3>1, <3>5
  <2> QED BY <2>1, <2>2
<1>11. SsOwned'
  BY <1>8, <1>9 DEF SsOwned
<1> QED BY <1>1, <1>2, <1>10, <1>11

\* What a step has to say of the store for the invariant to hold after it.
SsStored ==
    /\ record \in [SsIds -> SsRecords] /\ index \subseteq SsKnown
    /\ issued \subseteq generated /\ ended \subseteq generated
    /\ revived \subseteq ended /\ torn \subseteq SsIds
    /\ ssTroubles \in 0..SsMaxTroubles
    /\ EndedStaysEnded

LEMMA SsStoredNow == SsIInv => SsStored
  BY SsShapes DEF SsIInv, SsTypeOK, SsStored, SsRecords, SessionsAccounted

\* Where an identifier is listed, or excused.
SsListed == index \union torn \union revived

LEMMA SsStep ==
    ASSUME SsIInv, NEW r \in SsRequests, NEW q, SsTurns(r, q), SsStored',
           \A i \in SsIds : record'[i] = "user" =>
               \/ i \in SsListed' \union Unindexed(q)
               \/ /\ record[i] = "user"
                  /\ i \notin SsListed \union Unindexed(request[r])
    PROVE  SsIInv'
<1>1. /\ request' \in [SsRequests -> Request]
      /\ \A s \in SsRequests : SsSays(request'[s], SsKnown', ended', generated')
      /\ \A s \in SsRequests : SsCopied(s)'
      /\ SsOwned'
  BY SsTurnsKeeps
<1>2. SsKnown' \subseteq generated'
  <2>1. SsNames(request[r]) \subseteq generated \union {SsNoId}
    <3>1. SsSays(request[r], SsKnown, ended, generated)
      BY DEF SsIInv
    <3>2. PICK p, known, gone, made : p = request[r] /\ known = SsKnown /\ gone = ended /\ made = generated
      OBVIOUS
    <3> QED BY <3>1, <3>2, SsNamesMade
  <2>2. SsKnown' \subseteq ended' \union SsIds
    BY DEF SsKnown
  <2>3. /\ SsKnown' \subseteq SsKnown \union SsNames(request[r])
        /\ generated \subseteq generated' /\ SsKnown \subseteq generated
        /\ ended' \subseteq generated' /\ SsNoId \notin SsIds
    BY SsShapes DEF SsTurns, SsStored
  <2> QED BY <2>1, <2>2, <2>3
<1>3. Indexed'
  <2>1. request'[r] = q /\ \A s \in SsRequests \ {r} : request'[s] = request[s]
    BY DEF SsTurns, Turns, SsIInv, SsTypeOK
  <2> SUFFICES ASSUME NEW i \in SsIds, record'[i] = "user",
                      i \notin SsListed' \union Unindexed(q)
               PROVE  \E s \in SsRequests : i \in Unindexed(request'[s])
    BY <2>1 DEF Indexed, SsListed
  <2>2. record[i] = "user" /\ i \notin SsListed \union Unindexed(request[r])
    OBVIOUS
  <2>3. PICK s \in SsRequests : i \in Unindexed(request[s])
    BY <2>2 DEF SsIInv, SessionsAccounted, Indexed, SsListed
  <2> QED BY <2>1, <2>2, <2>3
<1>4. SsTypeOK'
  BY <1>1, <1>2 DEF SsTurns, SsStored, SsTypeOK, SsRecords
<1> QED BY <1>1, <1>2, <1>3, <1>4 DEF SsIInv, SsStored, SessionsAccounted

\* A step that touches the request alone.
LEMMA SsLocalStep ==
    ASSUME SsIInv, NEW r \in SsRequests, NEW q \in Request, Local(r, q),
           request[r].at \notin {"save_add", "ren_del", "ren_add"},
           SsNames(q) \subseteq SsNames(request[r]) \union issued \union {SsNoId},
           SsHolds(q) \subseteq SsHolds(request[r]),
           SsUnwritten(q) \subseteq SsUnwritten(request[r]),
           SsSays(q, SsKnown, ended, generated), q.at # "ren_del"
    PROVE  SsIInv'
<1>1. /\ UNCHANGED <<record, index, issued, generated, ended, revived, torn, ssTroubles>>
      /\ Turns(r, q)
  BY DEF Local, ghosts
<1>2. SsKnown' = SsKnown /\ SsListed' = SsListed
  BY <1>1 DEF SsKnown, SsListed
<1>3. SsTurns(r, q)
  BY <1>1, <1>2, SsShapes DEF SsTurns, SsIInv, SsOwned
<1>4. SsStored'
  BY <1>1, <1>2, SsStoredNow DEF SsStored, EndedStaysEnded
<1>5. Unindexed(request[r]) = {}
  BY DEF Unindexed
<1> QED BY <1>1, <1>2, <1>3, <1>4, <1>5, SsStep

-----------------------------------------------------------------------------
(* The handler *)

LEMMA SsBeginStep ==
    ASSUME SsIInv, NEW r \in SsRequests, SsBegin(r)
    PROVE  SsIInv'
<1>1. request[r] \in Request /\ request[r].at = "idle" /\ issued \subseteq SsIds
  BY SsShapes DEF SsBegin, SsIInv, SsTypeOK
<1>2. CASE \E i \in issued :
             Local(r, [NoRequest EXCEPT !.at = "handler", !.id = i, !.presented = TRUE])
  <2>1. PICK i \in issued :
             Local(r, [NoRequest EXCEPT !.at = "handler", !.id = i, !.presented = TRUE])
    BY <1>2
  <2>2. PICK q : q = [NoRequest EXCEPT !.at = "handler", !.id = i, !.presented = TRUE]
    OBVIOUS
  <2>3. /\ q \in Request /\ q.at = "handler" /\ q.id = i /\ q.to = SsNoId
        /\ q.left = {} /\ q.stale = {} /\ q.presented /\ q.mine = "unloaded"
    BY <1>1, <2>2, BegunIs
  <2>4. i \in generated /\ i # SsNoId
    BY <1>1, SsAssumption DEF SsIInv, SsTypeOK
  <2>5. SsNames(q) = {i} /\ SsHolds(q) = {} /\ SsUnwritten(q) = {}
    BY <2>3 DEF SsNames, SsHolds, SsUnwritten, SsRenaming
  <2>6. SsSays(q, SsKnown, ended, generated)
    BY <2>3, <2>4 DEF SsSays, SsRenaming
  <2> QED BY <1>1, <2>1, <2>2, <2>3, <2>5, <2>6, SsLocalStep
<1>3. CASE Local(r, [NoRequest EXCEPT !.at = "handler"])
  <2>1. PICK q : q = [NoRequest EXCEPT !.at = "handler"]
    OBVIOUS
  <2>2. /\ q \in Request /\ q.at = "handler" /\ q.id = SsNoId /\ q.to = SsNoId
        /\ q.left = {} /\ q.stale = {} /\ ~q.presented /\ q.mine = "unloaded"
    BY <2>1, NoRequestIs, GoesOnIs DEF Steps
  <2>3. SsNames(q) = {SsNoId} /\ SsHolds(q) = {} /\ SsUnwritten(q) = {}
    BY <2>2 DEF SsNames, SsHolds, SsUnwritten, SsRenaming
  <2>4. SsSays(q, SsKnown, ended, generated)
    BY <2>2 DEF SsSays, SsRenaming
  <2> QED BY <1>1, <1>3, <2>1, <2>2, <2>3, <2>4, SsLocalStep
<1> QED BY <1>2, <1>3 DEF SsBegin

\* The request is over, from a call that has nothing unindexed.
LEMMA SsNoRequestStep ==
    ASSUME SsIInv, NEW r \in SsRequests, Local(r, NoRequest),
           request[r].at \notin {"save_add", "ren_del", "ren_add"}
    PROVE  SsIInv'
<1>1. PICK q : q = NoRequest
  OBVIOUS
<1>2. /\ q \in Request /\ q.at = "idle" /\ q.id = SsNoId /\ q.to = SsNoId
      /\ q.left = {} /\ q.stale = {} /\ ~q.presented /\ q.mine = "unloaded"
  BY <1>1, NoRequestIs
<1>3. SsNames(q) = {SsNoId} /\ SsHolds(q) = {} /\ SsUnwritten(q) = {}
  BY <1>2 DEF SsNames, SsHolds, SsUnwritten, SsRenaming
<1>4. SsSays(q, SsKnown, ended, generated)
  BY <1>2 DEF SsSays, SsRenaming
<1> QED BY <1>1, <1>2, <1>3, <1>4, SsLocalStep

LEMMA SsLoadStep ==
    ASSUME SsIInv, NEW r \in SsRequests, SsLoad(r)
    PROVE  SsIInv'
<1>1. PICK p : p = request[r]
  OBVIOUS
<1>2. /\ p \in Request /\ p.at = "handler" /\ p.mine = "unloaded"
      /\ SsSays(p, SsKnown, ended, generated)
  BY <1>1, SsShapes DEF SsLoad, InHandler, SsIInv
<1>3. SsNames(p) = {p.id} /\ SsHolds(p) = {} /\ SsUnwritten(p) = {}
  BY <1>2 DEF SsNames, SsHolds, SsUnwritten, SsRenaming
<1>4. CASE Local(r, Fresh(p))
  <2>1. PICK q : q = Fresh(p)
    OBVIOUS
  <2>2. /\ q \in Request /\ q.at = "handler" /\ q.id = p.id /\ q.to = p.to
        /\ q.left = p.left /\ q.stale = p.stale /\ ~q.presented /\ q.mine = "anon"
    BY <1>2, <2>1, FreshIs
  <2>3. SsNames(q) = {p.id} /\ SsHolds(q) = {} /\ SsUnwritten(q) = {}
    BY <2>2 DEF SsNames, SsHolds, SsUnwritten, SsRenaming
  <2>4. SsSays(q, SsKnown, ended, generated)
    BY <1>2, <2>2 DEF SsSays, SsRenaming
  <2> QED BY <1>1, <1>2, <1>3, <1>4, <2>1, <2>2, <2>3, <2>4, SsLocalStep
<1>5. CASE p.presented /\ record[p.id] # "none"
  <2>1. p.id # SsNoId /\ p.id \in SsIds
    BY <1>2, <1>5, SsShapes DEF SsSays
  <2>2. PICK mine : mine = record[p.id]
    OBVIOUS
  <2>3. mine \in {"anon", "user"}
    BY <1>5, <2>1, <2>2, SsShapes DEF SsRecords
  <2>4. CASE Local(r, [p EXCEPT !.mine = mine])
    <3>1. PICK q : q = [p EXCEPT !.mine = mine]
      OBVIOUS
    <3>2. /\ q \in Request /\ q.at = "handler" /\ q.id = p.id /\ q.to = p.to
          /\ q.left = p.left /\ q.stale = p.stale /\ q.presented = p.presented /\ q.mine = mine
      BY <1>2, <2>3, <3>1 DEF Request
    <3>3. SsNames(q) = {p.id} /\ SsHolds(q) = {} /\ SsUnwritten(q) = {}
      BY <1>5, <3>2 DEF SsNames, SsHolds, SsUnwritten, SsRenaming
    <3>4. SsSays(q, SsKnown, ended, generated)
      BY <1>2, <2>1, <3>2 DEF SsSays, SsRenaming
    <3> QED BY <1>1, <1>2, <1>3, <2>4, <3>1, <3>2, <3>3, <3>4, SsLocalStep
  <2>5. CASE Local(r, [p EXCEPT !.at = "del_get", !.loads = TRUE])
    <3>1. PICK q : q = [p EXCEPT !.at = "del_get", !.loads = TRUE]
      OBVIOUS
    <3>2. /\ q \in Request /\ q.at = "del_get" /\ q.id = p.id /\ q.to = p.to
          /\ q.left = p.left /\ q.stale = p.stale /\ q.presented = p.presented
          /\ q.mine = p.mine
      BY <1>2, <3>1, LoadDeletesIs
    <3>3. SsNames(q) = {p.id} /\ SsHolds(q) = {} /\ SsUnwritten(q) = {}
      BY <1>5, <3>2 DEF SsNames, SsHolds, SsUnwritten, SsRenaming
    <3>4. SsSays(q, SsKnown, ended, generated)
      BY <1>2, <1>5, <2>1, <3>2 DEF SsSays, SsRenaming
    <3> QED BY <1>1, <1>2, <1>3, <2>5, <3>1, <3>2, <3>3, <3>4, SsLocalStep
  <2> QED BY <1>1, <1>5, <2>2, <2>4, <2>5 DEF SsLoad, Fresh
<1> QED BY <1>1, <1>4, <1>5 DEF SsLoad

LEMMA SsDestroyStep ==
    ASSUME SsIInv, NEW r \in SsRequests, SsDestroy(r)
    PROVE  SsIInv'
<1>1. PICK p : p = request[r]
  OBVIOUS
<1>2. /\ p \in Request /\ p.at = "handler" /\ p.ops < SsMaxOps
      /\ SsSays(p, SsKnown, ended, generated)
  BY <1>1, SsShapes DEF SsDestroy, MayCall, InHandler, SsIInv
<1>3. CASE p.presented
  <2>1. PICK q : q = [p EXCEPT !.at = "del_get", !.ops = @ + 1]
    OBVIOUS
  <2>2. /\ q \in Request /\ q.at = "del_get" /\ q.id = p.id /\ q.to = p.to
        /\ q.left = p.left /\ q.stale = p.stale /\ q.presented = p.presented /\ q.mine = p.mine
    BY <1>2, <2>1, DestroysIs
  <2>3. Local(r, q)
    BY <1>1, <1>3, <2>1 DEF SsDestroy
  <2>4. SsNames(q) = {p.id} /\ SsNames(p) = {p.id} /\ SsHolds(q) = {} /\ SsUnwritten(q) = {}
    BY <1>2, <1>3, <2>2 DEF SsNames, SsHolds, SsUnwritten, SsRenaming
  <2>5. SsSays(q, SsKnown, ended, generated)
    BY <1>2, <1>3, <2>2 DEF SsSays, SsRenaming
  <2> QED BY <1>1, <1>2, <2>2, <2>3, <2>4, <2>5, SsLocalStep
<1>4. CASE ~p.presented
  BY <1>1, <1>2, <1>4, SsNoRequestStep DEF SsDestroy
<1> QED BY <1>3, <1>4

LEMMA SsAllStep ==
    ASSUME SsIInv, NEW r \in SsRequests, SsAll(r)
    PROVE  SsIInv'
<1>1. PICK p : p = request[r]
  OBVIOUS
<1>2. /\ p \in Request /\ p.at = "handler" /\ p.ops < SsMaxOps
      /\ SsSays(p, SsKnown, ended, generated)
  BY <1>1, SsShapes DEF SsAll, MayCall, InHandler, SsIInv
<1>3. PICK keep \in {{}, {p.id}} :
          \E at \in {"all_del", "list_get"} :
             Local(r, [request[r] EXCEPT !.at = at, !.left = index \ keep, !.ops = @ + 1])
  BY <1>1 DEF SsAll
<1>4. PICK at \in {"all_del", "list_get"} :
             Local(r, [request[r] EXCEPT !.at = at, !.left = index \ keep, !.ops = @ + 1])
  BY <1>3
<1>5. PICK left : left = index \ keep
  OBVIOUS
<1>6. left \subseteq SsKnown /\ left \in SUBSET SsIds
  BY <1>5, SsShapes DEF SsIInv
<1>o. PICK ops \in 0..SsMaxOps : ops = p.ops + 1
  BY <1>2, OpsIs
<1>7. PICK q : q = [p EXCEPT !.at = at, !.left = left, !.ops = ops]
  OBVIOUS
<1>8. /\ q \in Request /\ q.at = at /\ q.id = p.id /\ q.to = p.to
      /\ q.left = left /\ q.stale = p.stale /\ q.presented = p.presented /\ q.mine = p.mine
  BY <1>2, <1>4, <1>6, <1>7, <1>o DEF Request, Steps
<1>9. Local(r, q)
  BY <1>1, <1>4, <1>5, <1>7, <1>o
<1>10. /\ SsNames(q) = {p.id} /\ SsNames(p) = {p.id}
       /\ SsHolds(q) = SsHolds(p) /\ SsUnwritten(q) = SsUnwritten(p)
  BY <1>2, <1>8 DEF SsNames, SsHolds, SsUnwritten, SsRenaming
<1>11. SsSays(q, SsKnown, ended, generated)
  BY <1>2, <1>6, <1>8 DEF SsSays, SsRenaming
<1> QED BY <1>1, <1>2, <1>8, <1>9, <1>10, <1>11, SsLocalStep

LEMMA SsLeaveStep ==
    ASSUME SsIInv, NEW r \in SsRequests, SsLeave(r)
    PROVE  SsIInv'
  BY SsNoRequestStep DEF SsLeave, InHandler

\* Identifiers are made up: i is nobody's and was never in the store.
LEMMA SsMadeStep ==
    ASSUME SsIInv, NEW r \in SsRequests, NEW q \in Request, NEW i \in SsIds \ generated,
           generated' = generated \union {i}, Turns(r, q),
           UNCHANGED <<record, index, issued, ghosts, ssTroubles>>,
           request[r].at = "handler", q.at \in {"handler", "ren_get", "save_set"},
           SsNames(q) \subseteq SsNames(request[r]) \union {i},
           SsHolds(q) \subseteq {i},
           SsSays(q, SsKnown, ended, generated \union {i})
    PROVE  SsIInv'
<1>1. UNCHANGED <<record, index, issued, ended, revived, torn, ssTroubles>>
  BY DEF ghosts
<1>2. SsKnown' = SsKnown /\ SsListed' = SsListed
  BY <1>1 DEF SsKnown, SsListed
<1>3. SsUnwritten(q) \subseteq SsHolds(q) /\ SsKnown \subseteq generated /\ issued \subseteq generated
  BY SsHoldsItsNames DEF SsIInv, SsTypeOK
<1>4. SsTurns(r, q)
  BY <1>1, <1>2, <1>3, SsShapes DEF SsTurns
<1>5. SsStored'
  BY <1>1, <1>2, SsStoredNow DEF SsStored, EndedStaysEnded
<1>6. Unindexed(request[r]) = {}
  BY DEF Unindexed
<1> QED BY <1>1, <1>2, <1>4, <1>5, <1>6, SsStep

LEMMA SsCycleStep ==
    ASSUME SsIInv, NEW r \in SsRequests, SsCycle(r)
    PROVE  SsIInv'
<1>1. PICK p : p = request[r]
  OBVIOUS
<1>2. /\ p \in Request /\ p.at = "handler" /\ p.ops < SsMaxOps
      /\ SsSays(p, SsKnown, ended, generated)
  BY <1>1, SsShapes DEF SsCycle, Loaded, MayCall, InHandler, SsIInv
<1>3. PICK i \in SsIds \ generated, logs \in BOOLEAN :
        /\ generated' = generated \union {i}
        /\ Turns(r, IF request[r].presented
                    THEN [request[r] EXCEPT !.at = "ren_get", !.to = i, !.logs = logs,
                                              !.ops = @ + 1]
                    ELSE [request[r] EXCEPT !.id = i, !.dirty = TRUE,
                                            !.mine = IF logs THEN "user" ELSE @])
        /\ UNCHANGED <<record, index, issued, ghosts, ssTroubles>>
  BY DEF SsCycle
<1>4. i \in SsIds /\ i # SsNoId
  BY SsAssumption
<1>5. CASE p.presented
  <2>o. PICK ops \in 0..SsMaxOps : ops = p.ops + 1
    BY <1>2, OpsIs
  <2>1. PICK q : q = [p EXCEPT !.at = "ren_get", !.to = i, !.logs = logs, !.ops = ops]
    OBVIOUS
  <2>2. /\ q \in Request /\ q.at = "ren_get" /\ q.id = p.id /\ q.to = i
        /\ q.left = p.left /\ q.stale = p.stale /\ q.presented = p.presented /\ q.mine = p.mine
    BY <1>2, <1>3, <1>4, <2>1, <2>o DEF Request, Steps
  <2>3. Turns(r, q)
    BY <1>1, <1>3, <1>5, <2>1, <2>o
  <2>4. SsNames(q) = {p.id, i} /\ SsNames(p) = {p.id} /\ SsHolds(q) = {i}
    BY <1>2, <2>2 DEF SsNames, SsHolds, SsUnwritten, SsRenaming
  <2>5. SsSays(q, SsKnown, ended, generated \union {i})
    BY <1>2, <1>4, <1>5, <2>2 DEF SsSays, SsRenaming
  <2> QED BY <1>1, <1>2, <1>3, <2>2, <2>3, <2>4, <2>5, SsMadeStep
<1>6. CASE ~p.presented
  <2>1. PICK q : q = [p EXCEPT !.id = i, !.dirty = TRUE, !.mine = IF logs THEN "user" ELSE @]
    OBVIOUS
  <2>2. /\ q \in Request /\ q.at = "handler" /\ q.id = i /\ q.to = p.to
        /\ q.left = p.left /\ q.stale = p.stale /\ q.presented = p.presented
    BY <1>2, <1>3, <1>4, <2>1 DEF Request
  <2>3. Turns(r, q)
    BY <1>1, <1>3, <1>6, <2>1
  <2>4. SsNames(q) = {i} /\ SsHolds(q) \subseteq {i}
    BY <1>2, <2>2 DEF SsNames, SsHolds, SsUnwritten, SsRenaming
  <2>5. SsSays(q, SsKnown, ended, generated \union {i})
    BY <1>2, <1>4, <1>6, <2>2 DEF SsSays, SsRenaming
  <2> QED BY <1>1, <1>2, <1>3, <2>2, <2>3, <2>4, <2>5, SsMadeStep
<1> QED BY <1>5, <1>6

LEMMA SsFinishStep ==
    ASSUME SsIInv, NEW r \in SsRequests, SsFinish(r)
    PROVE  SsIInv'
<1>1. PICK p : p = request[r]
  OBVIOUS
<1>2. /\ p \in Request /\ p.at = "handler" /\ p.mine # "unloaded"
      /\ SsSays(p, SsKnown, ended, generated)
  BY <1>1, SsShapes DEF SsFinish, Loaded, InHandler, SsIInv
<1>3. CASE p.id # SsNoId /\ Local(r, Writing(r, p.id))
  <2>1. PICK q : q = [NoRequest EXCEPT !.at = "save_set", !.id = p.id, !.mine = p.mine,
                                       !.presented = p.presented]
    OBVIOUS
  <2>2. p.id \in SsIds
    BY <1>2, <1>3, SsShapes DEF SsSays
  <2>3. /\ q \in Request /\ q.at = "save_set" /\ q.id = p.id /\ q.to = SsNoId
        /\ q.left = {} /\ q.stale = {} /\ q.presented = p.presented /\ q.mine = p.mine
    BY <1>2, <2>1, <2>2, NoRequestIs DEF Request, Steps
  <2>4. Local(r, q)
    BY <1>1, <1>3, <2>1 DEF Writing
  <2>5. /\ SsNames(q) = {p.id} /\ SsNames(p) = {p.id}
        /\ SsHolds(q) = SsHolds(p) /\ SsUnwritten(q) = SsUnwritten(p)
    BY <1>2, <2>3 DEF SsNames, SsHolds, SsUnwritten, SsRenaming
  <2>6. SsSays(q, SsKnown, ended, generated)
    BY <1>2, <1>3, <2>3 DEF SsSays, SsRenaming
  <2> QED BY <1>1, <1>2, <2>3, <2>4, <2>5, <2>6, SsLocalStep
<1>4. CASE /\ p.id = SsNoId
           /\ \E i \in SsIds \ generated :
                /\ generated' = generated \union {i}
                /\ Turns(r, Writing(r, i))
                /\ UNCHANGED <<record, index, issued, ghosts, ssTroubles>>
  <2>1. PICK i \in SsIds \ generated :
                /\ generated' = generated \union {i}
                /\ Turns(r, Writing(r, i))
                /\ UNCHANGED <<record, index, issued, ghosts, ssTroubles>>
    BY <1>4
  <2>2. i \in SsIds /\ i # SsNoId
    BY SsAssumption
  <2>3. PICK q : q = [NoRequest EXCEPT !.at = "save_set", !.id = i, !.mine = p.mine,
                                       !.presented = p.presented]
    OBVIOUS
  <2>4. /\ q \in Request /\ q.at = "save_set" /\ q.id = i /\ q.to = SsNoId
        /\ q.left = {} /\ q.stale = {} /\ q.presented = p.presented /\ q.mine = p.mine
    BY <1>2, <2>2, <2>3, NoRequestIs DEF Request, Steps
  <2>5. Turns(r, q)
    BY <1>1, <2>1, <2>3 DEF Writing
  <2>6. SsNames(q) = {i} /\ SsHolds(q) \subseteq {i}
    BY <2>4 DEF SsNames, SsHolds, SsUnwritten, SsRenaming
  <2>7. SsSays(q, SsKnown, ended, generated \union {i})
    BY <1>2, <2>2, <2>4 DEF SsSays, SsRenaming
  <2> QED BY <1>1, <1>2, <2>1, <2>4, <2>5, <2>6, <2>7, SsMadeStep
<1> QED BY <1>1, <1>3, <1>4 DEF SsFinish

-----------------------------------------------------------------------------
(* rename *)

LEMMA SsRenameGetStep ==
    ASSUME SsIInv, NEW r \in SsRequests, SsRenameGet(r)
    PROVE  SsIInv'
<1>1. PICK p : p = request[r]
  OBVIOUS
<1>2. /\ p \in Request /\ p.at = "ren_get" /\ SsSays(p, SsKnown, ended, generated)
  BY <1>1, SsShapes DEF SsRenameGet, SsIInv
<1>3. p.presented /\ p.id \in SsIds /\ p.to # SsNoId
  BY <1>2, SsShapes DEF SsSays, SsRenaming
<1>4. CASE record[p.id] = "none"
  <2>1. PICK q : q = Renamed(p)
    OBVIOUS
  <2>2. /\ q \in Request /\ q.at = "handler" /\ q.id = p.to /\ q.to = SsNoId
        /\ q.left = p.left /\ q.stale = p.stale /\ q.presented
    BY <1>2, <1>3, <2>1, RenamedIs
  <2>3. Local(r, q)
    BY <1>1, <1>4, <2>1 DEF SsRenameGet
  <2>4. SsNames(q) = {p.to} /\ SsNames(p) = {p.id, p.to} /\ SsHolds(q) = {} /\ SsUnwritten(q) = {}
    BY <1>2, <2>2 DEF SsNames, SsHolds, SsUnwritten, SsRenaming
  <2>5. SsSays(q, SsKnown, ended, generated)
    BY <1>2, <1>3, <2>2 DEF SsSays, SsRenaming
  <2> QED BY <1>1, <1>2, <2>2, <2>3, <2>4, <2>5, SsLocalStep
<1>5. CASE record[p.id] # "none"
  <2>1. PICK q : q = [p EXCEPT !.at = "ren_set", !.seen = record[p.id]]
    OBVIOUS
  <2>2. record[p.id] \in {"none", "anon", "user"} /\ p.id \in SsKnown
    BY <1>3, <1>5, SsShapes DEF SsRecords, SsKnown
  <2>3. /\ q \in Request /\ q.at = "ren_set" /\ q.id = p.id /\ q.to = p.to
        /\ q.left = p.left /\ q.stale = p.stale /\ q.presented = p.presented
        /\ q.seen = record[p.id] /\ q.mine = p.mine
    BY <1>2, <2>1, <2>2 DEF Request, Steps
  <2>4. Local(r, q)
    BY <1>1, <1>5, <2>1 DEF SsRenameGet
  <2>5. /\ SsNames(q) = SsNames(p) /\ SsHolds(q) = SsHolds(p) /\ SsUnwritten(q) = SsUnwritten(p)
    BY <1>2, <2>3 DEF SsNames, SsHolds, SsUnwritten, SsRenaming
  <2>6. SsSays(q, SsKnown, ended, generated)
    BY <1>2, <1>3, <1>5, <2>2, <2>3 DEF SsSays, SsRenaming
  <2> QED BY <1>1, <1>2, <2>3, <2>4, <2>5, <2>6, SsLocalStep
<1> QED BY <1>4, <1>5

LEMMA SsRenameSetStep ==
    ASSUME SsIInv, NEW r \in SsRequests, SsRenameSet(r)
    PROVE  SsIInv'
<1>1. PICK p : p = request[r]
  OBVIOUS
<1>2. /\ p \in Request /\ p.at = "ren_set" /\ SsSays(p, SsKnown, ended, generated)
  BY <1>1, SsShapes DEF SsRenameSet, SsIInv
<1>3. /\ p.presented /\ p.to # SsNoId /\ p.id \in SsKnown /\ p.seen \in {"anon", "user"}
      /\ p.to \in SsIds /\ SsUnwritten(p) = {p.to} /\ SsHolds(p) = {p.to}
      /\ SsNames(p) = {p.id, p.to}
  BY <1>2, SsShapes DEF SsSays, SsRenaming, SsUnwritten, SsHolds, SsNames, Request
<1>4. p.to \notin SsKnown /\ p.to \notin issued
  BY <1>1, <1>3 DEF SsIInv, SsOwned
<1>5. PICK q : q = [p EXCEPT !.at = "ren_del"]
  OBVIOUS
<1>6. /\ q \in Request /\ q.at = "ren_del" /\ q.id = p.id /\ q.to = p.to
      /\ q.left = p.left /\ q.stale = p.stale /\ q.presented = p.presented /\ q.seen = p.seen
      /\ q.mine = p.mine
  BY <1>2, <1>5, GoesOnIs DEF Steps
<1>7. /\ record' = [record EXCEPT ![p.to] = p.seen] /\ Turns(r, q)
      /\ UNCHANGED <<index, issued, generated, ended, revived, torn, ssTroubles>>
  BY <1>1, <1>5 DEF SsRenameSet, Writes, ghosts
<1>8. record' \in [SsIds -> SsRecords] /\ SsKnown' = SsKnown \union {p.to} /\ SsListed' = SsListed
  BY <1>3, <1>7, SsShapes DEF SsRecords, SsKnown, SsListed
<1>9. SsNames(q) = {p.id, p.to} /\ SsHolds(q) = {p.to} /\ SsUnwritten(q) = {}
  BY <1>6 DEF SsNames, SsHolds, SsUnwritten, SsRenaming
<1>10. SsSays(q, SsKnown', ended', generated')
  BY <1>2, <1>3, <1>6, <1>7, <1>8 DEF SsSays, SsRenaming
<1>11. SsTurns(r, q)
  <2>1. \A i \in SsIds : record'[i] \in {record[i], "none"} \/ i \in SsNames(request[r])
    BY <1>1, <1>3, <1>7, SsShapes
  <2>2. record'[q.to] = q.seen
    BY <1>3, <1>6, <1>7, SsShapes
  <2> QED BY <1>1, <1>3, <1>4, <1>6, <1>7, <1>8, <1>9, <1>10, <2>1, <2>2, SsShapes DEF SsTurns
<1>12. SsStored'
  <2>1. EndedStaysEnded'
    BY <1>3, <1>4, <1>7, SsShapes, SsStoredNow DEF SsStored, EndedStaysEnded
  <2> QED BY <1>7, <1>8, <2>1, SsStoredNow DEF SsStored
<1>13. \A i \in SsIds : record'[i] = "user" =>
               \/ i \in SsListed' \union Unindexed(q)
               \/ record[i] = "user" /\ i \notin SsListed \union Unindexed(request[r])
  <2>1. Unindexed(q) = {p.to} /\ Unindexed(p) = {}
    BY <1>2, <1>6 DEF Unindexed
  <2> QED BY <1>1, <1>3, <1>7, <1>8, <2>1, SsShapes
<1> QED BY <1>11, <1>12, <1>13, SsStep

\* A record goes: what was known still is, and nothing else changed.
LEMMA SsDeletesIs ==
    ASSUME SsIInv, NEW i \in SsIds, Deletes(i)
    PROVE  /\ record' \in [SsIds -> SsRecords]
           /\ \A j \in SsIds : record'[j] = IF j = i THEN "none" ELSE record[j]
           /\ ended \subseteq ended' /\ ended' \subseteq SsKnown /\ SsKnown' = SsKnown
           /\ i \in SsKnown => i \in ended'
           /\ UNCHANGED revived => EndedStaysEnded'
<1>1. /\ record' = [record EXCEPT ![i] = "none"]
      /\ ended' = IF record[i] = "none" THEN ended ELSE ended \union {i}
  BY DEF Deletes, Writes
<1>2. /\ record' \in [SsIds -> SsRecords]
      /\ \A j \in SsIds : record'[j] = IF j = i THEN "none" ELSE record[j]
  BY <1>1, SsShapes DEF SsRecords
<1>3. ended \subseteq ended' /\ ended' \subseteq SsKnown
  BY <1>1 DEF SsKnown
<1>4. SsKnown' = SsKnown
  BY <1>1, <1>2 DEF SsKnown
<1>5. i \in SsKnown => i \in ended'
  BY <1>1 DEF SsKnown
<1>6. ASSUME UNCHANGED revived PROVE EndedStaysEnded'
  <2>1. \A j \in ended \ revived : record[j] # "user"
    BY SsStoredNow DEF SsStored, EndedStaysEnded
  <2>2. ended \subseteq SsIds
    BY SsShapes
  <2> SUFFICES ASSUME NEW j \in ended' \ revived PROVE record'[j] # "user"
    BY <1>6 DEF EndedStaysEnded
  <2>3. CASE j = i BY <1>2, <2>3
  <2>4. CASE j # i BY <1>1, <1>2, <2>1, <2>2, <2>4
  <2> QED BY <2>3, <2>4
<1> QED BY <1>2, <1>3, <1>4, <1>5, <1>6

\* Request r deletes the record of i, and goes on.
LEMMA SsDeletesStep ==
    ASSUME SsIInv, NEW r \in SsRequests, NEW q \in Request, NEW i \in SsIds, Deletes(i), Turns(r, q),
           UNCHANGED <<index, issued, generated, revived, torn, ssTroubles>>,
           SsNames(q) \subseteq SsNames(request[r]) \union {SsNoId},
           SsHolds(q) \subseteq SsHolds(request[r]),
           SsUnwritten(q) \subseteq SsUnwritten(request[r]),
           SsSays(q, SsKnown, ended', generated), q.at # "ren_del",
           \A j \in Unindexed(request[r]) : j \in Unindexed(q) \/ record'[j] # "user"
    PROVE  SsIInv'
<1>1. /\ record' \in [SsIds -> SsRecords]
      /\ \A j \in SsIds : record'[j] = IF j = i THEN "none" ELSE record[j]
      /\ ended \subseteq ended' /\ ended' \subseteq SsKnown /\ SsKnown' = SsKnown
      /\ EndedStaysEnded'
  BY SsDeletesIs
<1>2. SsTurns(r, q)
  BY <1>1, SsShapes DEF SsTurns, SsIInv, SsOwned
<1>3. SsStored' /\ SsListed' = SsListed
  BY <1>1, SsStoredNow, SsShapes DEF SsStored, SsListed
<1> QED BY <1>1, <1>2, <1>3, SsStep

LEMMA SsRenameDeleteStep ==
    ASSUME SsIInv, NEW r \in SsRequests, SsRenameDelete(r)
    PROVE  SsIInv'
<1>1. PICK p : p = request[r]
  OBVIOUS
<1>2. /\ p \in Request /\ p.at = "ren_del" /\ SsSays(p, SsKnown, ended, generated)
      /\ record[p.to] \in {p.seen, "none"}
  BY <1>1, SsShapes DEF SsRenameDelete, SsIInv, SsCopied
<1>3. /\ p.presented /\ p.id \in SsKnown /\ p.to \in SsKnown /\ p.id \in SsIds /\ p.to \in SsIds
      /\ p.to # SsNoId /\ SsNames(p) = {p.id, p.to} /\ SsHolds(p) = {p.to} /\ SsUnwritten(p) = {}
      /\ Unindexed(p) = {p.to}
  BY <1>2, SsShapes DEF SsSays, SsRenaming, SsNames, SsHolds, SsUnwritten, Unindexed
<1>4. /\ Deletes(p.id) /\ UNCHANGED <<index, issued, generated, revived, torn, ssTroubles>>
  BY <1>1 DEF SsRenameDelete
<1>5. /\ \A j \in SsIds : record'[j] = IF j = p.id THEN "none" ELSE record[j]
      /\ ended \subseteq ended' /\ p.id \in ended'
  BY <1>3, <1>4, SsDeletesIs
<1>6. CASE p.seen = "user"
  <2>1. PICK q : q = [p EXCEPT !.at = "ren_add"]
    OBVIOUS
  <2>2. /\ q \in Request /\ q.at = "ren_add" /\ q.id = p.id /\ q.to = p.to
        /\ q.left = p.left /\ q.stale = p.stale /\ q.presented = p.presented /\ q.mine = p.mine
    BY <1>2, <2>1, GoesOnIs DEF Steps
  <2>3. Turns(r, q)
    BY <1>1, <1>6, <2>1 DEF SsRenameDelete
  <2>4. SsNames(q) = {p.id, p.to} /\ SsHolds(q) = {} /\ SsUnwritten(q) = {} /\ Unindexed(q) = {p.to}
    BY <1>3, <2>2 DEF SsNames, SsHolds, SsUnwritten, SsRenaming, Unindexed
  <2>5. SsSays(q, SsKnown, ended', generated)
    BY <1>2, <1>3, <1>5, <2>2 DEF SsSays, SsRenaming
  <2> QED BY <1>1, <1>3, <1>4, <2>2, <2>3, <2>4, <2>5, SsDeletesStep
<1>7. CASE p.seen # "user"
  <2>1. PICK q : q = Renamed(p)
    OBVIOUS
  <2>2. /\ q \in Request /\ q.at = "handler" /\ q.id = p.to /\ q.to = SsNoId
        /\ q.left = p.left /\ q.stale = p.stale /\ q.presented
    BY <1>2, <1>3, <2>1, RenamedIs
  <2>3. Turns(r, q)
    BY <1>1, <1>7, <2>1 DEF SsRenameDelete
  <2>4. SsNames(q) = {p.to} /\ SsHolds(q) = {} /\ SsUnwritten(q) = {}
    BY <2>2 DEF SsNames, SsHolds, SsUnwritten, SsRenaming
  <2>5. SsSays(q, SsKnown, ended', generated)
    BY <1>2, <1>3, <1>5, <2>2 DEF SsSays, SsRenaming
  <2>6. record'[p.to] # "user"
    BY <1>2, <1>3, <1>5, <1>7
  <2> QED BY <1>1, <1>3, <1>4, <2>2, <2>3, <2>4, <2>5, <2>6, SsDeletesStep
<1> QED BY <1>6, <1>7

\* Request r writes the index, and goes on: it lists what it has in hand, and
\* drops what has ended.
LEMMA SsIndexStep ==
    ASSUME SsIInv, NEW r \in SsRequests, NEW q \in Request, Turns(r, q),
           UNCHANGED <<record, issued, generated, ended, revived, torn, ssTroubles>>,
           index' \subseteq index \union SsKnown, index \ ended \subseteq index',
           SsNames(q) \subseteq SsNames(request[r]) \union {SsNoId},
           SsHolds(q) \subseteq SsHolds(request[r]),
           SsUnwritten(q) \subseteq SsUnwritten(request[r]),
           SsSays(q, SsKnown, ended, generated), q.at # "ren_del",
           \A j \in Unindexed(request[r]) : j \in index'
    PROVE  SsIInv'
<1>1. SsKnown' = SsKnown
  BY DEF SsKnown
<1>2. SsTurns(r, q)
  BY <1>1, SsShapes DEF SsTurns, SsIInv, SsOwned
<1>3. SsStored'
  BY <1>1, SsStoredNow DEF SsStored, EndedStaysEnded, SsIInv
<1>4. ASSUME NEW i \in SsIds, record'[i] = "user"
      PROVE  \/ i \in SsListed' \union Unindexed(q)
             \/ record[i] = "user" /\ i \notin SsListed \union Unindexed(request[r])
  <2>1. i \in ended => i \in revived
    BY <1>4, SsStoredNow DEF SsStored, EndedStaysEnded
  <2> QED BY <1>4, <2>1 DEF SsListed
<1> QED BY <1>2, <1>3, <1>4, SsStep

LEMMA SsRenameIndexStep ==
    ASSUME SsIInv, NEW r \in SsRequests, SsRenameIndex(r)
    PROVE  SsIInv'
<1>1. PICK p : p = request[r]
  OBVIOUS
<1>2. /\ p \in Request /\ p.at \in {"ren_add", "ren_rem"} /\ SsSays(p, SsKnown, ended, generated)
      /\ UNCHANGED <<record, issued, generated, ended, revived, torn, ssTroubles>>
  BY <1>1, SsShapes DEF SsRenameIndex, SsIInv, ghosts
<1>3. /\ p.presented /\ p.id \in ended /\ p.to # SsNoId
      /\ SsNames(p) = {p.id, p.to} /\ SsHolds(p) = {} /\ SsUnwritten(p) = {}
  BY <1>2 DEF SsSays, SsRenaming, SsNames, SsHolds, SsUnwritten
<1>4. CASE p.at = "ren_add"
  <2>1. PICK q : q = [p EXCEPT !.at = "ren_rem"]
    OBVIOUS
  <2>2. /\ q \in Request /\ q.at = "ren_rem" /\ q.id = p.id /\ q.to = p.to
        /\ q.left = p.left /\ q.stale = p.stale /\ q.presented = p.presented /\ q.mine = p.mine
    BY <1>2, <2>1, GoesOnIs DEF Steps
  <2>3. Turns(r, q) /\ index' = index \union {p.to}
    BY <1>1, <1>4, <2>1 DEF SsRenameIndex
  <2>4. SsNames(q) = SsNames(p) /\ SsHolds(q) = {} /\ SsUnwritten(q) = {} /\ Unindexed(p) = {p.to}
    BY <1>3, <1>4, <2>2 DEF SsNames, SsHolds, SsUnwritten, SsRenaming, Unindexed
  <2>5. SsSays(q, SsKnown, ended, generated) /\ p.to \in SsKnown
    BY <1>2, <1>3, <1>4, <2>2 DEF SsSays, SsRenaming
  <2> QED BY <1>1, <1>2, <1>3, <2>2, <2>3, <2>4, <2>5, SsIndexStep
<1>5. CASE p.at = "ren_rem"
  <2>1. PICK q : q = Renamed(p)
    OBVIOUS
  <2>2. /\ q \in Request /\ q.at = "handler" /\ q.id = p.to /\ q.to = SsNoId
        /\ q.left = p.left /\ q.stale = p.stale /\ q.presented
    BY <1>2, <1>3, <2>1, RenamedIs
  <2>3. Turns(r, q) /\ index' = index \ {p.id}
    BY <1>1, <1>5, <2>1 DEF SsRenameIndex
  <2>4. SsNames(q) = {p.to} /\ SsHolds(q) = {} /\ SsUnwritten(q) = {} /\ Unindexed(p) = {}
    BY <1>5, <2>2 DEF SsNames, SsHolds, SsUnwritten, SsRenaming, Unindexed
  <2>5. SsSays(q, SsKnown, ended, generated)
    BY <1>2, <1>3, <2>2 DEF SsSays, SsRenaming
  <2> QED BY <1>1, <1>2, <1>3, <2>2, <2>3, <2>4, <2>5, SsIndexStep
<1> QED BY <1>2, <1>4, <1>5

-----------------------------------------------------------------------------
(* delete, delete_for_user and list_for_user *)

LEMMA SsDeleteGetStep ==
    ASSUME SsIInv, NEW r \in SsRequests, SsDeleteGet(r)
    PROVE  SsIInv'
<1>1. PICK p : p = request[r]
  OBVIOUS
<1>2. /\ p \in Request /\ p.at = "del_get" /\ SsSays(p, SsKnown, ended, generated)
  BY <1>1, SsShapes DEF SsDeleteGet, SsIInv
<1>3. p.presented /\ p.id \in SsIds
  BY <1>2, SsShapes DEF SsSays
<1>4. PICK seen : seen = record[p.id]
  OBVIOUS
<1>5. seen \in {"none", "anon", "user"} /\ (seen # "none" => p.id \in SsKnown)
  BY <1>3, <1>4, SsShapes DEF SsRecords, SsKnown
<1>6. PICK q : q = [p EXCEPT !.at = "del_del", !.seen = seen]
  OBVIOUS
<1>7. /\ q \in Request /\ q.at = "del_del" /\ q.id = p.id /\ q.to = p.to
      /\ q.left = p.left /\ q.stale = p.stale /\ q.presented = p.presented /\ q.seen = seen
      /\ q.mine = p.mine
  BY <1>2, <1>5, <1>6 DEF Request, Steps
<1>8. Local(r, q)
  BY <1>1, <1>4, <1>6 DEF SsDeleteGet
<1>9. SsNames(q) = {p.id} /\ SsNames(p) = {p.id} /\ SsHolds(q) = {} /\ SsUnwritten(q) = {}
  BY <1>2, <1>3, <1>7 DEF SsNames, SsHolds, SsUnwritten, SsRenaming
<1>10. SsSays(q, SsKnown, ended, generated)
  BY <1>2, <1>3, <1>5, <1>7 DEF SsSays, SsRenaming
<1> QED BY <1>1, <1>2, <1>7, <1>8, <1>9, <1>10, SsLocalStep

LEMMA SsDeleteStep ==
    ASSUME SsIInv, NEW r \in SsRequests, SsDelete(r)
    PROVE  SsIInv'
<1>1. PICK p : p = request[r]
  OBVIOUS
<1>2. /\ p \in Request /\ p.at = "del_del" /\ SsSays(p, SsKnown, ended, generated)
  BY <1>1, SsShapes DEF SsDelete, SsIInv
<1>3. /\ p.presented /\ p.id \in SsIds /\ (p.seen # "none" => p.id \in SsKnown)
      /\ SsNames(p) = {p.id} /\ SsHolds(p) = {} /\ SsUnwritten(p) = {} /\ Unindexed(p) = {}
  BY <1>2, SsShapes DEF SsSays, SsRenaming, SsNames, SsHolds, SsUnwritten, Unindexed
<1>4. /\ Deletes(p.id) /\ UNCHANGED <<index, issued, generated, revived, torn, ssTroubles>>
  BY <1>1 DEF SsDelete
<1>5. ended \subseteq ended' /\ (p.id \in SsKnown => p.id \in ended')
  BY <1>3, <1>4, SsDeletesIs
<1>6. CASE p.seen = "user"
  <2>1. PICK q : q = [p EXCEPT !.at = "del_rem"]
    OBVIOUS
  <2>2. /\ q \in Request /\ q.at = "del_rem" /\ q.id = p.id /\ q.to = p.to
        /\ q.left = p.left /\ q.stale = p.stale /\ q.presented = p.presented /\ q.mine = p.mine
    BY <1>2, <2>1, GoesOnIs DEF Steps
  <2>3. Turns(r, q)
    BY <1>1, <1>6, <2>1 DEF SsDelete
  <2>4. SsNames(q) = {p.id} /\ SsHolds(q) = {} /\ SsUnwritten(q) = {}
    BY <1>3, <2>2 DEF SsNames, SsHolds, SsUnwritten, SsRenaming
  <2>5. SsSays(q, SsKnown, ended', generated)
    BY <1>2, <1>3, <1>5, <1>6, <2>2 DEF SsSays, SsRenaming
  <2> QED BY <1>1, <1>3, <1>4, <2>2, <2>3, <2>4, <2>5, SsDeletesStep
<1>7. CASE p.seen # "user"
  <2>1. PICK q : q = Deleted(p)
    OBVIOUS
  <2>2. /\ q \in Request /\ q.at \in {"idle", "handler"}
        /\ q.id \in {p.id, SsNoId} /\ q.to \in {p.to, SsNoId}
        /\ q.left \subseteq p.left /\ q.stale \subseteq p.stale /\ ~q.presented /\ q.mine # "user"
    BY <1>2, <2>1, DeletedIs
  <2>3. Turns(r, q)
    BY <1>1, <1>7, <2>1 DEF SsDelete
  <2>4. SsNames(q) = {q.id} /\ SsHolds(q) = {} /\ SsUnwritten(q) = {}
    BY <2>2 DEF SsNames, SsHolds, SsUnwritten, SsRenaming
  <2>5. SsSays(q, SsKnown, ended', generated)
    BY <1>2, <1>5, <2>2 DEF SsSays, SsRenaming
  <2> QED BY <1>1, <1>3, <1>4, <2>2, <2>3, <2>4, <2>5, SsDeletesStep
<1> QED BY <1>6, <1>7

LEMMA SsDeleteIndexStep ==
    ASSUME SsIInv, NEW r \in SsRequests, SsDeleteIndex(r)
    PROVE  SsIInv'
<1>1. PICK p : p = request[r]
  OBVIOUS
<1>2. /\ p \in Request /\ p.at = "del_rem" /\ SsSays(p, SsKnown, ended, generated)
      /\ UNCHANGED <<record, issued, generated, ended, revived, torn, ssTroubles>>
      /\ index' = index \ {p.id} /\ Turns(r, Deleted(p))
  BY <1>1, SsShapes DEF SsDeleteIndex, SsIInv, ghosts
<1>3. p.id \in ended /\ Unindexed(p) = {} /\ SsNames(p) = {p.id}
  BY <1>2 DEF SsSays, Unindexed, SsNames, SsRenaming
<1>4. PICK q : q = Deleted(p)
  OBVIOUS
<1>5. /\ q \in Request /\ q.at \in {"idle", "handler"}
      /\ q.id \in {p.id, SsNoId} /\ q.to \in {p.to, SsNoId}
      /\ q.left \subseteq p.left /\ q.stale \subseteq p.stale /\ ~q.presented /\ q.mine # "user"
  BY <1>2, <1>4, DeletedIs
<1>6. SsNames(q) = {q.id} /\ SsHolds(q) = {} /\ SsUnwritten(q) = {}
  BY <1>5 DEF SsNames, SsHolds, SsUnwritten, SsRenaming
<1>7. SsSays(q, SsKnown, ended, generated)
  BY <1>2, <1>5 DEF SsSays, SsRenaming
<1>8. index' \subseteq index \union SsKnown /\ index \ ended \subseteq index' /\ Turns(r, q)
  BY <1>2, <1>3, <1>4
<1> QED BY <1>1, <1>2, <1>3, <1>5, <1>6, <1>7, <1>8, SsIndexStep

LEMMA SsAllDeleteStep ==
    ASSUME SsIInv, NEW r \in SsRequests, SsAllDelete(r)
    PROVE  SsIInv'
<1>1. PICK p : p = request[r]
  OBVIOUS
<1>2. /\ p \in Request /\ p.at = "all_del" /\ SsSays(p, SsKnown, ended, generated)
      /\ UNCHANGED <<index, issued, generated, revived, torn, ssTroubles>>
  BY <1>1, SsShapes DEF SsAllDelete, SsIInv
<1>3. PICK i \in p.left : Deletes(i) /\ Turns(r, [p EXCEPT !.at = "all_rem", !.to = i])
  BY <1>1 DEF SsAllDelete
<1>4. i \in SsKnown /\ i \in generated /\ i \in SsIds /\ Unindexed(p) = {}
  BY <1>2, SsShapes DEF SsSays, Unindexed
<1>5. ended \subseteq ended' /\ i \in ended'
  BY <1>3, <1>4, SsDeletesIs
<1>6. PICK q : q = [p EXCEPT !.at = "all_rem", !.to = i]
  OBVIOUS
<1>7. /\ q \in Request /\ q.at = "all_rem" /\ q.id = p.id /\ q.to = i
      /\ q.left = p.left /\ q.stale = p.stale /\ q.presented = p.presented /\ q.mine = p.mine
  BY <1>2, <1>4, <1>6 DEF Request, Steps
<1>8. /\ SsNames(q) = {p.id} /\ SsNames(p) = {p.id}
      /\ SsHolds(q) = SsHolds(p) /\ SsUnwritten(q) = SsUnwritten(p)
  BY <1>2, <1>7 DEF SsNames, SsHolds, SsUnwritten, SsRenaming
<1>9. SsSays(q, SsKnown, ended', generated)
  BY <1>2, <1>4, <1>5, <1>7 DEF SsSays, SsRenaming
<1>10. Turns(r, q)
  BY <1>3, <1>6
<1> QED BY <1>1, <1>2, <1>3, <1>4, <1>7, <1>8, <1>9, <1>10, SsDeletesStep

\* A loop that goes on has the names it had.
LEMMA SsLoopSays ==
    ASSUME NEW p, NEW q, NEW known, NEW gone, NEW made, SsSays(p, known, gone, made),
           p.at \in {"all_rem", "list_get", "list_rem"},
           q.at \in {"handler", "all_del", "list_get", "list_rem"},
           q.id = p.id, q.presented = p.presented, q.mine = p.mine, q.to \in {p.to, SsNoId},
           q.left \subseteq p.left, q.stale \subseteq gone
    PROVE  /\ SsNames(q) = SsNames(p) /\ SsHolds(q) = SsHolds(p) /\ SsUnwritten(q) = SsUnwritten(p)
           /\ SsSays(q, known, gone, made)
  BY DEF SsNames, SsHolds, SsUnwritten, SsRenaming, SsSays

LEMMA SsAllIndexStep ==
    ASSUME SsIInv, NEW r \in SsRequests, SsAllIndex(r)
    PROVE  SsIInv'
<1>1. PICK p, known, gone, made, left, at :
          /\ p = request[r] /\ known = SsKnown /\ gone = ended /\ made = generated
          /\ left = p.left \ {p.to} /\ at = IF left = {} THEN "handler" ELSE "all_del"
  OBVIOUS
<1>2. /\ p \in Request /\ p.at = "all_rem" /\ SsSays(p, known, gone, made)
      /\ UNCHANGED <<record, issued, generated, ended, revived, torn, ssTroubles>>
      /\ index' = index \ {p.to}
      /\ Turns(r, [p EXCEPT !.at = at, !.left = left, !.to = SsNoId])
  BY <1>1, SsShapes DEF SsAllIndex, SsIInv, ghosts
<1>3. p.to \in ended /\ Unindexed(p) = {} /\ p.stale \subseteq gone
  BY <1>1, <1>2 DEF SsSays, Unindexed
<1>4. PICK q : q = [p EXCEPT !.at = at, !.left = left, !.to = SsNoId]
  OBVIOUS
<1>5. at \in {"handler", "all_del"} /\ left \in SUBSET SsIds /\ p.stale \in SUBSET SsIds
      /\ left \subseteq p.left
  BY <1>1, <1>2 DEF Request
<1>6. /\ q \in Request /\ q.at = at /\ q.id = p.id /\ q.to = SsNoId
      /\ q.left = left /\ q.stale = p.stale /\ q.presented = p.presented /\ q.mine = p.mine
  BY <1>2, <1>4, <1>5 DEF Request, Steps
<1>7. /\ SsNames(q) = SsNames(p) /\ SsHolds(q) = SsHolds(p) /\ SsUnwritten(q) = SsUnwritten(p)
      /\ SsSays(q, known, gone, made)
  BY <1>2, <1>3, <1>5, <1>6, SsLoopSays
<1>8. Turns(r, q) /\ index' \subseteq index \union SsKnown /\ index \ ended \subseteq index'
  BY <1>2, <1>3, <1>4
<1> QED BY <1>1, <1>2, <1>3, <1>5, <1>6, <1>7, <1>8, SsIndexStep

LEMMA SsListStep ==
    ASSUME SsIInv, NEW r \in SsRequests, SsList(r)
    PROVE  SsIInv'
<1>1. PICK p, known, gone, made : /\ p = request[r]
                                  /\ known = SsKnown /\ gone = ended /\ made = generated
  OBVIOUS
<1>2. p \in Request /\ p.at = "list_get" /\ SsSays(p, known, gone, made)
  BY <1>1, SsShapes DEF SsList, SsIInv
<1>3. PICK i, left, stale, at :
        /\ i \in p.left /\ left = p.left \ {i}
        /\ stale = (IF record[i] = "none" THEN p.stale \union {i} ELSE p.stale)
        /\ at = (IF left # {} THEN "list_get" ELSE IF stale # {} THEN "list_rem" ELSE "handler")
        /\ Local(r, [p EXCEPT !.at = at, !.left = left, !.stale = stale])
  BY <1>1 DEF SsList
<1>4. i \in SsKnown /\ i \in SsIds /\ p.stale \subseteq ended
  BY <1>1, <1>2, <1>3, SsShapes DEF SsSays
<1>5. /\ at \in {"list_get", "list_rem", "handler"} /\ left \in SUBSET SsIds
      /\ left \subseteq p.left
      /\ stale \in SUBSET SsIds /\ stale \subseteq ended
  BY <1>2, <1>3, <1>4 DEF Request, SsKnown
<1>6. PICK q : q = [p EXCEPT !.at = at, !.left = left, !.stale = stale]
  OBVIOUS
<1>7. p.to \in SsIds \union {SsNoId}
  BY <1>2 DEF Request
<1>8. /\ q \in Request /\ q.at = at /\ q.id = p.id /\ q.to = p.to
      /\ q.left = left /\ q.stale = stale /\ q.presented = p.presented /\ q.mine = p.mine
  BY <1>2, <1>5, <1>6, <1>7 DEF Request, Steps
<1>9. /\ SsNames(q) = SsNames(p) /\ SsHolds(q) = SsHolds(p) /\ SsUnwritten(q) = SsUnwritten(p)
      /\ SsSays(q, known, gone, made)
  BY <1>1, <1>2, <1>5, <1>8, SsLoopSays
<1> QED BY <1>1, <1>2, <1>3, <1>5, <1>6, <1>8, <1>9, SsLocalStep

LEMMA SsListIndexStep ==
    ASSUME SsIInv, NEW r \in SsRequests, SsListIndex(r)
    PROVE  SsIInv'
<1>1. PICK p, known, gone, made : /\ p = request[r]
                                  /\ known = SsKnown /\ gone = ended /\ made = generated
  OBVIOUS
<1>2. /\ p \in Request /\ p.at = "list_rem" /\ SsSays(p, known, gone, made)
      /\ UNCHANGED <<record, issued, generated, ended, revived, torn, ssTroubles>>
  BY <1>1, SsShapes DEF SsListIndex, SsIInv, ghosts
<1>3. PICK i, stale, at :
        /\ i \in p.stale /\ stale = p.stale \ {i}
        /\ at = (IF stale = {} THEN "handler" ELSE "list_rem")
        /\ index' = index \ {i}
        /\ Turns(r, [p EXCEPT !.at = at, !.stale = stale])
  BY <1>1 DEF SsListIndex
<1>4. i \in ended /\ Unindexed(p) = {} /\ p.stale \subseteq gone
  BY <1>1, <1>2, <1>3 DEF SsSays, Unindexed
<1>5. /\ at \in {"list_rem", "handler"} /\ p.left \in SUBSET SsIds
      /\ stale \in SUBSET SsIds /\ stale \subseteq gone
  BY <1>2, <1>3, <1>4 DEF Request
<1>6. PICK q : q = [p EXCEPT !.at = at, !.stale = stale]
  OBVIOUS
<1>7. p.to \in SsIds \union {SsNoId}
  BY <1>2 DEF Request
<1>8. /\ q \in Request /\ q.at = at /\ q.id = p.id /\ q.to = p.to
      /\ q.left = p.left /\ q.stale = stale /\ q.presented = p.presented /\ q.mine = p.mine
  BY <1>2, <1>5, <1>6, <1>7 DEF Request, Steps
<1>9. /\ SsNames(q) = SsNames(p) /\ SsHolds(q) = SsHolds(p) /\ SsUnwritten(q) = SsUnwritten(p)
      /\ SsSays(q, known, gone, made)
  BY <1>2, <1>5, <1>8, SsLoopSays
<1>10. Turns(r, q) /\ index' \subseteq index \union SsKnown /\ index \ ended \subseteq index'
  BY <1>3, <1>4, <1>6
<1> QED BY <1>1, <1>2, <1>4, <1>5, <1>8, <1>9, <1>10, SsIndexStep

-----------------------------------------------------------------------------
(* finish, trouble and age *)

LEMMA SsSaveStep ==
    ASSUME SsIInv, NEW r \in SsRequests, SsSave(r)
    PROVE  SsIInv'
<1>1. PICK p : p = request[r]
  OBVIOUS
<1>2. /\ p \in Request /\ p.at = "save_set" /\ SsSays(p, SsKnown, ended, generated)
      /\ UNCHANGED <<index, generated, ended, torn, ssTroubles>>
  BY <1>1, SsShapes DEF SsSave, SsIInv
<1>3. /\ p.id \in SsIds /\ p.id \in generated /\ p.mine \in {"anon", "user"}
      /\ SsNames(p) = {p.id} /\ Unindexed(p) = {}
      /\ p.mine = "user" /\ ~p.presented => SsUnwritten(p) = {p.id}
  BY <1>2, SsShapes DEF SsSays, Request, SsNames, SsRenaming, Unindexed, SsUnwritten
<1>4. /\ record' = [record EXCEPT ![p.id] = p.mine]
      /\ revived' = IF p.presented /\ p.mine = "user" /\ p.id \in ended THEN revived \union {p.id}
                    ELSE revived
  BY <1>1 DEF SsSave, Writes
<1>5. /\ record' \in [SsIds -> SsRecords]
      /\ \A i \in SsIds : record'[i] = IF i = p.id THEN p.mine ELSE record[i]
  BY <1>3, <1>4, SsShapes DEF SsRecords
<1>6. SsKnown' = SsKnown \union {p.id} /\ SsKnown \subseteq generated
  BY <1>2, <1>3, <1>5, SsShapes DEF SsKnown
<1>7. p.mine = "user" /\ p.id \in ended => p.presented
  BY <1>1, <1>3, SsShapes DEF SsIInv, SsOwned
<1>8. EndedStaysEnded'
  <2>1. \A i \in ended \ revived : record[i] # "user"
    BY SsStoredNow DEF SsStored, EndedStaysEnded
  <2>2. ended \subseteq SsIds
    BY SsShapes
  <2> SUFFICES ASSUME NEW i \in ended \ revived' PROVE record'[i] # "user"
    BY <1>2 DEF EndedStaysEnded
  <2>3. CASE i = p.id BY <1>3, <1>4, <1>5, <1>7, <2>3
  <2>4. CASE i # p.id BY <1>4, <1>5, <2>1, <2>2, <2>4
  <2> QED BY <2>3, <2>4
<1>9. /\ index \subseteq SsKnown /\ issued \subseteq generated /\ ended \subseteq generated
      /\ revived \subseteq ended /\ torn \subseteq SsIds /\ ssTroubles \in 0..SsMaxTroubles
  BY SsStoredNow DEF SsStored
<1>10. SsListed \subseteq SsListed' /\ revived' \subseteq ended
  BY <1>2, <1>4, <1>9 DEF SsListed
<1>11. CASE p.mine = "user"
  <2>1. PICK q : q = [p EXCEPT !.at = "save_add"]
    OBVIOUS
  <2>2. /\ q \in Request /\ q.at = "save_add" /\ q.id = p.id /\ q.to = p.to
        /\ q.left = p.left /\ q.stale = p.stale /\ q.presented = p.presented /\ q.mine = p.mine
    BY <1>2, <2>1, GoesOnIs DEF Steps
  <2>3. Turns(r, q) /\ issued' = issued
    BY <1>1, <1>11, <2>1 DEF SsSave
  <2>4. SsNames(q) = {p.id} /\ SsHolds(q) = {} /\ SsUnwritten(q) = {} /\ Unindexed(q) = {p.id}
    BY <2>2 DEF SsNames, SsHolds, SsUnwritten, SsRenaming, Unindexed
  <2>5. SsSays(q, SsKnown', ended', generated')
    BY <1>2, <1>3, <1>6, <1>11, <2>2 DEF SsSays, SsRenaming
  <2>6. SsTurns(r, q)
    BY <1>1, <1>2, <1>3, <1>5, <1>6, <2>2, <2>3, <2>4, <2>5, SsShapes DEF SsTurns
  <2>7. SsStored'
    BY <1>2, <1>5, <1>6, <1>8, <1>9, <1>10, <2>3 DEF SsStored
  <2>8. \A i \in SsIds : record'[i] = "user" =>
               \/ i \in SsListed' \union Unindexed(q)
               \/ record[i] = "user" /\ i \notin SsListed \union Unindexed(request[r])
    BY <1>1, <1>3, <1>5, <1>10, <2>4
  <2> QED BY <2>6, <2>7, <2>8, SsStep
<1>12. CASE p.mine # "user"
  <2>1. PICK q : q = NoRequest
    OBVIOUS
  <2>2. /\ q \in Request /\ q.at = "idle" /\ q.id = SsNoId /\ q.to = SsNoId
        /\ q.left = {} /\ q.stale = {} /\ ~q.presented /\ q.mine = "unloaded"
    BY <2>1, NoRequestIs
  <2>3. Turns(r, q) /\ issued' = issued \union {p.id}
    BY <1>1, <1>12, <2>1 DEF SsSave, Saved
  <2>4. SsNames(q) = {SsNoId} /\ SsHolds(q) = {} /\ SsUnwritten(q) = {}
    BY <2>2 DEF SsNames, SsHolds, SsUnwritten, SsRenaming
  <2>5. SsSays(q, SsKnown', ended', generated')
    BY <2>2 DEF SsSays, SsRenaming
  <2>6. SsTurns(r, q)
    BY <1>1, <1>2, <1>3, <1>5, <1>6, <2>2, <2>3, <2>4, <2>5, SsShapes DEF SsTurns
  <2>7. SsStored'
    BY <1>2, <1>3, <1>5, <1>6, <1>8, <1>9, <1>10, <2>3 DEF SsStored
  <2>8. \A i \in SsIds : record'[i] = "user" =>
               \/ i \in SsListed' \union Unindexed(q)
               \/ record[i] = "user" /\ i \notin SsListed \union Unindexed(request[r])
    BY <1>1, <1>3, <1>5, <1>10, <1>12
  <2> QED BY <2>6, <2>7, <2>8, SsStep
<1> QED BY <1>11, <1>12

LEMMA SsSaveIndexStep ==
    ASSUME SsIInv, NEW r \in SsRequests, SsSaveIndex(r)
    PROVE  SsIInv'
<1>1. PICK p : p = request[r]
  OBVIOUS
<1>2. /\ p \in Request /\ p.at = "save_add" /\ SsSays(p, SsKnown, ended, generated)
      /\ UNCHANGED <<record, generated, ended, revived, ssTroubles>>
      /\ index' = index \union {p.id} /\ torn' = torn \ {p.id}
      /\ issued' = issued \union {p.id} /\ Turns(r, NoRequest)
  BY <1>1, SsShapes DEF SsSaveIndex, SsIInv, Saved
<1>3. p.id \in SsKnown /\ p.id \in generated /\ SsNames(p) = {p.id} /\ Unindexed(p) = {p.id}
  BY <1>2, SsShapes DEF SsSays, SsNames, SsRenaming, Unindexed
<1>4. PICK q : q = NoRequest
  OBVIOUS
<1>5. /\ q \in Request /\ q.at = "idle" /\ q.id = SsNoId /\ q.to = SsNoId
      /\ q.left = {} /\ q.stale = {} /\ ~q.presented /\ q.mine = "unloaded"
  BY <1>4, NoRequestIs
<1>6. SsNames(q) = {SsNoId} /\ SsHolds(q) = {} /\ SsUnwritten(q) = {}
  BY <1>5 DEF SsNames, SsHolds, SsUnwritten, SsRenaming
<1>7. SsSays(q, SsKnown', ended', generated') /\ SsKnown' = SsKnown
  BY <1>2, <1>5 DEF SsSays, SsRenaming, SsKnown
<1>8. SsTurns(r, q)
  BY <1>1, <1>2, <1>3, <1>4, <1>5, <1>6, <1>7, SsShapes DEF SsTurns
<1>9. SsStored'
  BY <1>2, <1>3, <1>7, SsStoredNow DEF SsStored, EndedStaysEnded
<1>10. SsListed \union Unindexed(request[r]) \subseteq SsListed'
  BY <1>1, <1>2, <1>3 DEF SsListed
<1>11. \A i \in SsIds : record'[i] = "user" =>
               \/ i \in SsListed' \union Unindexed(q)
               \/ record[i] = "user" /\ i \notin SsListed \union Unindexed(request[r])
  BY <1>2, <1>10
<1> QED BY <1>8, <1>9, <1>11, SsStep

LEMMA SsTroubleStep ==
    ASSUME SsIInv, NEW r \in SsRequests, SsTrouble(r)
    PROVE  SsIInv'
<1>1. PICK p : p = request[r]
  OBVIOUS
<1>2. /\ p \in Request /\ SsSays(p, SsKnown, ended, generated)
      /\ UNCHANGED <<record, index, issued, generated, ended, revived>>
      /\ torn' = torn \union Unindexed(p) /\ ssTroubles < SsMaxTroubles
      /\ ssTroubles' = ssTroubles + 1
  BY <1>1, SsShapes DEF SsTrouble, SsIInv
<1>3. Unindexed(p) \subseteq SsKnown /\ SsKnown \subseteq SsIds
  BY <1>2, SsShapes DEF SsSays, Unindexed
<1>4. SsKnown' = SsKnown
  BY <1>2 DEF SsKnown
<1>5. SsStored'
  <2>1. ssTroubles' \in 0..SsMaxTroubles
    BY <1>2, SsStoredNow, SsAssumption DEF SsStored
  <2>2. torn' \subseteq SsIds
    BY <1>2, <1>3, SsStoredNow DEF SsStored
  <2> QED BY <1>2, <1>4, <2>1, <2>2, SsStoredNow DEF SsStored, EndedStaysEnded
<1>6. SsListed \union Unindexed(request[r]) \subseteq SsListed'
  BY <1>1, <1>2 DEF SsListed
<1>7. ASSUME NEW q \in Request, Turns(r, q), q.at # "ren_del",
             SsNames(q) \subseteq SsNames(p) \union {SsNoId},
             SsHolds(q) \subseteq SsHolds(p), SsUnwritten(q) \subseteq SsUnwritten(p),
             SsSays(q, SsKnown, ended, generated)
      PROVE  SsIInv'
  <2>1. SsTurns(r, q)
    BY <1>1, <1>2, <1>4, <1>7, SsShapes DEF SsTurns, SsIInv, SsOwned
  <2>2. \A i \in SsIds : record'[i] = "user" =>
               \/ i \in SsListed' \union Unindexed(q)
               \/ record[i] = "user" /\ i \notin SsListed \union Unindexed(request[r])
    BY <1>2, <1>6
  <2> QED BY <1>5, <2>1, <2>2, SsStep
<1>8. CASE Turns(r, NoRequest)
  <2>1. PICK q : q = NoRequest
    OBVIOUS
  <2>2. /\ q \in Request /\ q.at = "idle" /\ q.id = SsNoId /\ q.to = SsNoId
        /\ q.left = {} /\ q.stale = {} /\ ~q.presented /\ q.mine = "unloaded"
    BY <2>1, NoRequestIs
  <2>3. SsNames(q) = {SsNoId} /\ SsHolds(q) = {} /\ SsUnwritten(q) = {}
    BY <2>2 DEF SsNames, SsHolds, SsUnwritten, SsRenaming
  <2>4. SsSays(q, SsKnown, ended, generated)
    BY <2>2 DEF SsSays, SsRenaming
  <2> QED BY <1>7, <1>8, <2>1, <2>2, <2>3, <2>4
<1>9. CASE /\ p.at \notin {"save_set", "save_add", "handler"}
           /\ Turns(r, [p EXCEPT !.at = "handler", !.to = SsNoId, !.seen = "none",
                                 !.left = {}, !.stale = {}, !.logs = FALSE, !.loads = FALSE])
  <2>1. PICK q : q = [p EXCEPT !.at = "handler", !.to = SsNoId, !.seen = "none",
                               !.left = {}, !.stale = {}, !.logs = FALSE, !.loads = FALSE]
    OBVIOUS
  <2>2. /\ q \in Request /\ q.at = "handler" /\ q.id = p.id /\ q.to = SsNoId
        /\ q.left = {} /\ q.stale = {} /\ q.presented = p.presented /\ q.mine = p.mine
    BY <1>2, <2>1, CutShortIs
  <2>3. /\ SsNames(q) \subseteq SsNames(p)
        /\ SsHolds(q) \subseteq SsHolds(p) /\ SsUnwritten(q) \subseteq SsUnwritten(p)
    BY <1>2, <1>9, <2>2 DEF SsNames, SsHolds, SsUnwritten, SsRenaming, SsSays
  <2>4. SsSays(q, SsKnown, ended, generated)
    BY <1>2, <2>2 DEF SsSays, SsRenaming
  <2> QED BY <1>7, <1>9, <2>1, <2>2, <2>3, <2>4
<1> QED BY <1>1, <1>8, <1>9 DEF SsTrouble

LEMMA SsExpireStep ==
    ASSUME SsIInv, NEW i \in SsIds, SsExpire(i)
    PROVE  SsIInv'
<1>1. /\ Deletes(i) /\ UNCHANGED <<index, request, issued, generated, revived, torn, ssTroubles>>
  BY DEF SsExpire
<1>2. /\ record' \in [SsIds -> SsRecords]
      /\ \A j \in SsIds : record'[j] = IF j = i THEN "none" ELSE record[j]
      /\ ended \subseteq ended' /\ ended' \subseteq SsKnown /\ SsKnown' = SsKnown
      /\ EndedStaysEnded'
  BY <1>1, SsDeletesIs
<1>3. \A r \in SsRequests : SsSays(request[r], SsKnown, ended', generated)
  <2> TAKE r \in SsRequests
  <2>1. PICK p, known, gone, made, gone2 :
            p = request[r] /\ known = SsKnown /\ gone = ended /\ made = generated /\ gone2 = ended'
    OBVIOUS
  <2>2. SsSays(p, known, gone, made) /\ gone \subseteq gone2
    BY <1>2, <2>1 DEF SsIInv
  <2>3. SsSays(p, known, gone2, made)
    BY <2>2, SsSaysStays
  <2> QED BY <2>1, <2>3
<1>4. \A r \in SsRequests : SsCopied(r)'
  <2> SUFFICES ASSUME NEW r \in SsRequests, request[r].at = "ren_del"
               PROVE  record'[request[r].to] \in {request[r].seen, "none"}
    BY <1>1 DEF SsCopied
  <2>1. record[request[r].to] \in {request[r].seen, "none"}
    BY DEF SsIInv, SsCopied
  <2>2. request[r].to \in SsIds
    BY SsShapes DEF SsIInv, SsSays
  <2> QED BY <1>2, <2>1, <2>2
<1>5. SsOwned'
  BY <1>1, <1>2 DEF SsIInv, SsOwned
<1>6. Indexed'
  <2>1. \A j \in SsIds : record'[j] = "user" => record[j] = "user"
    BY <1>2
  <2> QED BY <1>1, <2>1 DEF SsIInv, SessionsAccounted, Indexed
<1>7. SsTypeOK'
  BY <1>1, <1>2, SsShapes DEF SsIInv, SsTypeOK, SsRecords
<1> QED BY <1>1, <1>2, <1>3, <1>4, <1>5, <1>6, <1>7 DEF SsIInv, SessionsAccounted

-----------------------------------------------------------------------------

LEMMA SsInvInit == SsInit => SsIInv
<1> SUFFICES ASSUME SsInit PROVE SsIInv
  OBVIOUS
<1>1. /\ \A i \in SsIds : record[i] = "none"
      /\ \A r \in SsRequests : request[r] = NoRequest
  BY DEF SsInit
<1>2. SsKnown = {}
  BY <1>1 DEF SsInit, SsKnown
<1>3. SsTypeOK
  BY NoRequestIs, SsAssumption DEF SsInit, SsTypeOK
<1>4. \A r \in SsRequests : SsSays(request[r], SsKnown, ended, generated) /\ SsCopied(r)
  BY <1>1, NoRequestIs DEF SsSays, SsCopied, SsRenaming
<1>5. \A r \in SsRequests : SsHolds(request[r]) = {} /\ SsUnwritten(request[r]) = {}
  BY <1>1, NoRequestIs DEF SsHolds, SsUnwritten
<1>6. SsOwned
  BY <1>5 DEF SsOwned
<1>7. SessionsAccounted
  BY <1>1 DEF SsInit, SessionsAccounted, EndedStaysEnded, Indexed
<1> QED BY <1>2, <1>3, <1>4, <1>6, <1>7 DEF SsIInv, SsInit

LEMMA SsInvStep == SsIInv /\ [SsNext]_ssVars => SsIInv'
<1> SUFFICES ASSUME SsIInv, [SsNext]_ssVars PROVE SsIInv'
  OBVIOUS
<1>1. ASSUME NEW i \in SsIds, SsExpire(i) PROVE SsIInv'
  BY <1>1, SsExpireStep
<1>2. ASSUME NEW r \in SsRequests,
             SsBegin(r) \/ SsLoad(r) \/ SsCycle(r) \/ SsDestroy(r) \/ SsAll(r)
      PROVE  SsIInv'
  BY <1>2, SsBeginStep, SsLoadStep, SsCycleStep, SsDestroyStep, SsAllStep
<1>3. ASSUME NEW r \in SsRequests,
             SsRenameGet(r) \/ SsRenameSet(r) \/ SsRenameDelete(r) \/ SsRenameIndex(r)
      PROVE  SsIInv'
  BY <1>3, SsRenameGetStep, SsRenameSetStep, SsRenameDeleteStep, SsRenameIndexStep
<1>4. ASSUME NEW r \in SsRequests,
             SsDeleteGet(r) \/ SsDelete(r) \/ SsDeleteIndex(r)
      PROVE  SsIInv'
  BY <1>4, SsDeleteGetStep, SsDeleteStep, SsDeleteIndexStep
<1>5. ASSUME NEW r \in SsRequests,
             SsAllDelete(r) \/ SsAllIndex(r) \/ SsList(r) \/ SsListIndex(r)
      PROVE  SsIInv'
  BY <1>5, SsAllDeleteStep, SsAllIndexStep, SsListStep, SsListIndexStep
<1>6. ASSUME NEW r \in SsRequests,
             SsLeave(r) \/ SsFinish(r) \/ SsSave(r) \/ SsSaveIndex(r) \/ SsTrouble(r)
      PROVE  SsIInv'
  BY <1>6, SsLeaveStep, SsFinishStep, SsSaveStep, SsSaveIndexStep, SsTroubleStep
<1>7. CASE UNCHANGED ssVars
  <2>1. UNCHANGED <<record, index, request, issued, generated, ended, revived, torn, ssTroubles>>
    BY <1>7 DEF ssVars
  <2> QED BY <2>1 DEF SsIInv, SsTypeOK, SsKnown, SsCopied, SsOwned, SessionsAccounted,
                      EndedStaysEnded, Indexed
<1> QED BY <1>1, <1>2, <1>3, <1>4, <1>5, <1>6, <1>7 DEF SsNext

\* session.rs: a session that ended stays ended, and "log out everywhere" finds
\* every session of the user, the ones aside that a request put back or was cut
\* short in writing.
THEOREM Sessions == SsSpec => []SessionsAccounted
<1>1. SsIInv => SessionsAccounted
  BY DEF SsIInv
<1> QED BY <1>1, SsInvInit, SsInvStep, PTL DEF SsSpec

-----------------------------------------------------------------------------
(***************************************************************************)
(* The rate limit.                                                         *)
(*                                                                         *)
(* Each request let through moves the bucket on by one emission at least,  *)
(* and none moves it further ahead of its own reading than the tolerance.  *)
(* So the bucket is a lower bound on how many there were since any moment  *)
(* (`RlPaid`), and that bound survives the bucket itself: the store forgets*)
(* a bucket only when a reading that is not too old is past it.            *)
(***************************************************************************)

\* Where the bucket is, or has been: one that was forgotten was this far behind
\* at least.
RlMark == IF rlTat = RlNone THEN rlNow - RlEmission - RlSlack ELSE rlTat

RlPaid ==
    \A s, e \in Clock :
        LET n == Cardinality(Admitted(s, e)) IN
        n # 0 => /\ s + RlEmission * n <= RlMark
                 /\ s + RlEmission * n <= e + Tolerance

RlIInv ==
    /\ RlTypeOK
    /\ rlTat # RlNone => rlNow < rlDies /\ rlTat + RlEmission + RlSlack <= rlDies
    /\ \A c \in RlCallers :
        /\ rlCalls[c].now <= rlNow
        /\ rlCalls[c].at = "swap" => ~OverQuota(rlCalls[c].old, rlCalls[c].now)
    /\ \A s, e \in Clock : IsFiniteSet(Admitted(s, e))
    /\ rlLate \/ RlPaid

LEMMA RlTimes ==
    /\ Tolerance \in Nat /\ RlEmission <= Tolerance /\ StateTtl \in Nat
    /\ \A n \in Nat : RlEmission * n \in Nat /\ RlEmission * (n + 1) = RlEmission * n + RlEmission
<1>1. \A a, b \in Nat : a * b \in Nat /\ a * (b + 1) = a * b + a
  OBVIOUS
<1>2. \A a \in Nat, b \in Nat \ {0} : a <= a * b
  <2> TAKE a \in Nat, b \in Nat \ {0}
  <2>1. PICK c \in Nat : b = c + 1
    <3>1. b - 1 \in Nat /\ b = (b - 1) + 1
      OBVIOUS
    <3> QED BY <3>1
  <2>2. a * b = a * c + a /\ a * c \in Nat
    BY <1>1, <2>1
  <2> QED BY <2>2
<1> QED BY <1>1, <1>2, RlAssumption DEF Tolerance, StateTtl

\* A number of requests paid for in full is within the quota.
LEMMA WithinQuota ==
    ASSUME NEW n \in Nat, NEW d \in Nat, RlEmission * n <= d + Tolerance
    PROVE  n <= RlBurst + d \div RlEmission
<1>1. PICK E \in Nat \ {0}, B \in Nat \ {0} : E = RlEmission /\ B = RlBurst
  BY RlAssumption
<1>2. PICK q \in Nat : q = d \div E /\ d < E * q + E
  <2>1. d \div E \in Nat /\ d < E * (d \div E) + E
    OBVIOUS
  <2> QED BY <2>1
<1>3. ASSUME n > B + q PROVE FALSE
  <2>1. PICK k \in Nat : n = B + q + 1 + k
    <3>1. n - (B + q + 1) \in Nat /\ n = B + q + 1 + (n - (B + q + 1))
      BY <1>3
    <3> QED BY <3>1
  <2>2. E * n = E * B + E * q + E + E * k
    BY <2>1
  <2>3. E * k \in Nat /\ E * B \in Nat /\ E * q \in Nat
    OBVIOUS
  <2>4. E * n <= d + E * B
    BY <1>1 DEF Tolerance
  <2> QED BY <1>2, <2>2, <2>3, <2>4
<1> QED BY <1>1, <1>2, <1>3

LEMMA RlPaidSuffices == RlIInv => RateHolds
<1> SUFFICES ASSUME RlIInv, ~rlLate, NEW s \in Clock, NEW e \in Clock, s <= e
             PROVE  Cardinality(Admitted(s, e)) <= RlBurst + (e - s) \div RlEmission
  BY DEF RateHolds
<1>1. PICK n : n = Cardinality(Admitted(s, e))
  OBVIOUS
<1>2. n \in Nat
  BY <1>1, FS_CardinalityType DEF RlIInv
<1>3. n # 0 => s + RlEmission * n <= e + Tolerance
  BY <1>1 DEF RlIInv, RlPaid
<1>4. s \in Nat /\ e \in Nat /\ e - s \in Nat
  BY RlAssumption DEF Clock
<1>5. RlEmission * n <= (e - s) + Tolerance
  <2>1. RlEmission * n \in Nat /\ Tolerance \in Nat /\ RlEmission * 0 = 0
    BY <1>2, RlTimes, RlAssumption
  <2> QED BY <1>2, <1>3, <1>4, <2>1
<1> QED BY <1>1, <1>2, <1>4, <1>5, WithinQuota

\* The three numbers of the decision.
LEMMA RlDecision ==
    ASSUME RlTypeOK, NEW old \in Tats \union {RlNone}, NEW k \in Clock
    PROVE  /\ NewTat(old, k) \in Nat /\ NewTat(old, k) >= k + RlEmission
           /\ old # RlNone => NewTat(old, k) >= old + RlEmission
           /\ ~OverQuota(old, k) => NewTat(old, k) <= k + Tolerance /\ NewTat(old, k) \in Tats
<1>1. /\ k \in Nat /\ k <= RlMaxClock /\ RlMaxClock \in Nat /\ RlEmission \in Nat
      /\ Tolerance \in Nat /\ (old # RlNone => old \in Nat)
  BY RlTimes, RlAssumption DEF Clock, Tats
<1>2. /\ NewTat(old, k) \in Nat /\ NewTat(old, k) >= k + RlEmission
      /\ old # RlNone => NewTat(old, k) >= old + RlEmission
  BY <1>1 DEF NewTat, Tat
<1>3. ASSUME ~OverQuota(old, k)
      PROVE  NewTat(old, k) <= k + Tolerance /\ NewTat(old, k) \in Tats
  <2>1. PICK new : new = NewTat(old, k)
    OBVIOUS
  <2>2. ~(new - Tolerance > k)
    BY <1>3, <2>1 DEF OverQuota
  <2>3. new \in Nat
    BY <1>2, <2>1
  <2>4. new <= k + Tolerance
    BY <1>1, <2>2, <2>3
  <2>5. new \in 0..(RlMaxClock + Tolerance)
    BY <1>1, <2>3, <2>4
  <2> QED BY <2>1, <2>4, <2>5 DEF Tats
<1> QED BY <1>2, <1>3

\* The count of every window that the reading is in goes up by one.
LEMMA RlCounts ==
    ASSUME RlIInv, NEW k \in Clock, rlAdmitted' = [rlAdmitted EXCEPT ![k] = @ + 1],
           NEW s \in Clock, NEW e \in Clock
    PROVE  /\ IsFiniteSet(Admitted(s, e)')
           /\ Cardinality(Admitted(s, e)) \in Nat
           /\ Cardinality(Admitted(s, e)') =
                IF s <= k /\ k <= e THEN Cardinality(Admitted(s, e)) + 1
                ELSE Cardinality(Admitted(s, e))
<1>0. /\ s \in Nat /\ e \in Nat /\ k \in Nat /\ s..e \subseteq Clock
      /\ rlAdmitted \in [Clock -> Nat] /\ IsFiniteSet(Admitted(s, e))
  BY RlAssumption DEF RlIInv, RlTypeOK, Clock
<1>1. PICK f, g, m : f = rlAdmitted /\ g = rlAdmitted' /\ m = f[k] + 1
  OBVIOUS
<1>2. /\ f \in [Clock -> Nat] /\ g \in [Clock -> Nat] /\ m \in Nat /\ g[k] = m /\ m = f[k] + 1
      /\ \A t \in Clock \ {k} : g[t] = f[t]
  BY <1>0, <1>1
<1>3. Cardinality(Admitted(s, e)) \in Nat
  BY <1>0, FS_CardinalityType
<1>4. /\ Admitted(s, e) = UNION {{t} \X (1..f[t]) : t \in s..e}
      /\ Admitted(s, e)' = UNION {{t} \X (1..g[t]) : t \in s..e}
  BY <1>1 DEF Admitted
<1>5. CASE s <= k /\ k <= e
  <2>1. 1..m = (1..f[k]) \union {m} /\ m \notin 1..f[k]
    <3>1. f[k] \in Nat
      BY <1>2
    <3> QED BY <1>2, <3>1
  <2>2. Admitted(s, e)' = Admitted(s, e) \union {<<k, m>>}
    <3>1. ASSUME NEW x \in Admitted(s, e)' PROVE x \in Admitted(s, e) \union {<<k, m>>}
      <4>1. PICK t \in s..e : x \in {t} \X (1..g[t])
        BY <1>4, <3>1
      <4>2. CASE t = k
        <5>1. x \in {k} \X (1..m)
          BY <1>2, <4>1, <4>2
        <5>2. x = <<k, m>> \/ x \in {k} \X (1..f[k])
          BY <2>1, <5>1
        <5> QED BY <1>4, <4>2, <5>2
      <4>3. CASE t # k
        <5>1. g[t] = f[t]
          BY <1>0, <1>2, <4>3
        <5> QED BY <1>4, <4>1, <5>1
      <4> QED BY <4>2, <4>3
    <3>2. ASSUME NEW x \in Admitted(s, e) PROVE x \in Admitted(s, e)'
      <4>1. PICK t \in s..e : x \in {t} \X (1..f[t])
        BY <1>4, <3>2
      <4>2. 1..f[t] \subseteq 1..g[t]
        <5>1. CASE t = k BY <1>2, <2>1, <5>1
        <5>2. CASE t # k BY <1>0, <1>2, <5>2
        <5> QED BY <5>1, <5>2
      <4>3. x \in {t} \X (1..g[t])
        BY <4>1, <4>2
      <4> QED BY <1>4, <4>3
    <3>3. <<k, m>> \in Admitted(s, e)'
      <4>1. k \in s..e /\ m \in 1..g[k]
        BY <1>0, <1>2, <1>5, <2>1
      <4>2. <<k, m>> \in {k} \X (1..g[k])
        BY <4>1
      <4> QED BY <1>4, <4>1, <4>2
    <3> QED BY <3>1, <3>2, <3>3
  <2>3. <<k, m>> \notin Admitted(s, e)
    <3> SUFFICES ASSUME <<k, m>> \in Admitted(s, e) PROVE FALSE
      OBVIOUS
    <3>1. PICK t \in s..e : <<k, m>> \in {t} \X (1..f[t])
      BY <1>4
    <3> QED BY <2>1, <3>1
  <2>4. IsFiniteSet(Admitted(s, e) \union {<<k, m>>}) /\
        Cardinality(Admitted(s, e) \union {<<k, m>>}) = Cardinality(Admitted(s, e)) + 1
    BY <1>0, <2>3, FS_AddElement
  <2> QED BY <1>3, <1>5, <2>2, <2>4
<1>6. CASE ~(s <= k /\ k <= e)
  <2>1. \A t \in s..e : t # k /\ t \in Clock
    BY <1>0, <1>6
  <2>2. \A t \in s..e : g[t] = f[t]
    BY <1>2, <2>1
  <2>3. Admitted(s, e)' = Admitted(s, e)
    BY <1>4, <2>2
  <2> QED BY <1>0, <1>3, <1>6, <2>3
<1> QED BY <1>5, <1>6

\* A request goes through.
LEMMA RlChargesStep ==
    ASSUME RlIInv, NEW c \in RlCallers, ~OverQuota(rlTat, rlCalls[c].now),
           Charges(c, NewTat(rlTat, rlCalls[c].now)), UNCHANGED rlNow
    PROVE  RlIInv'
<1>1. PICK k, new : k = rlCalls[c].now /\ new = NewTat(rlTat, k)
  OBVIOUS
<1>2. /\ k \in Clock /\ rlTat \in Tats \union {RlNone} /\ k <= rlNow /\ rlNow \in Clock
      /\ rlCalls \in [RlCallers -> RlCall] /\ rlAdmitted \in [Clock -> Nat] /\ rlLate \in BOOLEAN
  BY <1>1 DEF RlIInv, RlTypeOK, RlCall
<1>3. /\ new \in Nat /\ new >= k + RlEmission /\ new <= k + Tolerance /\ new \in Tats
      /\ rlTat # RlNone => new >= rlTat + RlEmission
  BY <1>1, <1>2, RlDecision DEF RlIInv
<1>4. /\ rlTat' = new /\ rlDies' = rlNow + StateTtl
      /\ rlAdmitted' = [rlAdmitted EXCEPT ![k] = @ + 1]
      /\ rlLate' = (rlLate \/ TooOld(k)) /\ rlCalls' = [rlCalls EXCEPT ![c] = RlIdle]
      /\ rlNow' = rlNow
  BY <1>1 DEF Charges, Returns
<1>5. /\ k \in Nat /\ rlNow \in Nat /\ rlNow <= RlMaxClock /\ RlMaxClock \in Nat
      /\ RlEmission \in Nat \ {0} /\ RlSlack \in Nat /\ Tolerance \in Nat /\ RlNone \notin Nat
      /\ StateTtl \in Nat /\ StateTtl = Tolerance + RlEmission + RlSlack
  BY <1>2, RlTimes, RlAssumption DEF Clock, StateTtl
<1>6. RlTypeOK'
  <2>1. RlIdle \in RlCall
    BY RlAssumption DEF RlIdle, RlCall, Clock
  <2>2. rlDies' \in 0..(RlMaxClock + StateTtl)
    BY <1>4, <1>5
  <2>3. rlAdmitted' \in [Clock -> Nat]
    BY <1>2, <1>4
  <2> QED BY <1>2, <1>3, <1>4, <2>1, <2>2, <2>3 DEF RlTypeOK
<1>7. rlNow' < rlDies' /\ rlTat' + RlEmission + RlSlack <= rlDies'
  BY <1>2, <1>3, <1>4, <1>5
<1>8. ASSUME NEW d \in RlCallers
      PROVE  /\ rlCalls'[d].now <= rlNow'
             /\ rlCalls'[d].at = "swap" => ~OverQuota(rlCalls'[d].old, rlCalls'[d].now)
  <2>1. CASE d = c
    BY <1>2, <1>4, <1>5, <2>1 DEF RlIdle
  <2>2. CASE d # c
    BY <1>2, <1>4, <2>2 DEF RlIInv
  <2> QED BY <2>1, <2>2
<1>9. \A s, e \in Clock : IsFiniteSet(Admitted(s, e)')
  BY <1>2, <1>4, RlCounts
<1>10. ASSUME ~rlLate', NEW s \in Clock, NEW e \in Clock, Cardinality(Admitted(s, e)') # 0
       PROVE  /\ s + RlEmission * Cardinality(Admitted(s, e)') <= RlMark'
              /\ s + RlEmission * Cardinality(Admitted(s, e)') <= e + Tolerance
  <2>1. ~rlLate /\ rlNow - k <= RlEmission + RlSlack
    <3>1. ~(rlLate \/ TooOld(k))
      BY <1>4, <1>10
    <3>2. ~(rlNow - k > RlEmission + RlSlack)
      BY <3>1 DEF TooOld
    <3> QED BY <1>5, <3>1, <3>2
  <2>2. RlMark' = new
    BY <1>3, <1>4, <1>5 DEF RlMark
  <2>3. PICK n, mark : n = Cardinality(Admitted(s, e)) /\ mark = RlMark
    OBVIOUS
  <2>4. /\ n \in Nat
        /\ Cardinality(Admitted(s, e)') = IF s <= k /\ k <= e THEN n + 1 ELSE n
    <3>1. rlAdmitted' = [rlAdmitted EXCEPT ![k] = @ + 1] /\ k \in Clock
      BY <1>2, <1>4
    <3>2. /\ Cardinality(Admitted(s, e)) \in Nat
          /\ Cardinality(Admitted(s, e)') =
               IF s <= k /\ k <= e THEN Cardinality(Admitted(s, e)) + 1
               ELSE Cardinality(Admitted(s, e))
      BY <3>1, RlCounts
    <3> QED BY <2>3, <3>2
  <2>5. /\ n # 0 => s + RlEmission * n <= mark /\ s + RlEmission * n <= e + Tolerance
        /\ RlEmission * n \in Nat /\ RlEmission * (n + 1) = RlEmission * n + RlEmission
        /\ n = 0 => RlEmission * n = 0
    <3>1. RlPaid
      BY <2>1 DEF RlIInv
    <3> QED BY <1>5, <2>3, <2>4, <3>1, RlTimes DEF RlPaid
  <2>6. mark \in Int /\ (mark + RlEmission <= new \/ mark <= k)
    <3>1. CASE rlTat = RlNone
      BY <1>5, <2>1, <2>3, <3>1 DEF RlMark
    <3>2. CASE rlTat # RlNone
      <4>1. rlTat \in Nat
        BY <1>2, <1>5, <3>2 DEF Tats
      <4> QED BY <1>3, <2>3, <3>2, <4>1 DEF RlMark
    <3> QED BY <3>1, <3>2
  <2>7. PICK p \in Nat : p = RlEmission * n
    BY <2>5
  <2>8. s \in Nat /\ e \in Nat
    BY RlAssumption DEF Clock
  <2>9. CASE s <= k /\ k <= e
    <3>1. s + (p + RlEmission) <= new
      <4>1. CASE n = 0
        BY <1>3, <1>5, <2>5, <2>7, <2>8, <2>9, <4>1
      <4>2. CASE n # 0
        BY <1>3, <1>5, <2>5, <2>6, <2>7, <2>8, <4>2
      <4> QED BY <4>1, <4>2
    <3>2. new <= e + Tolerance
      BY <1>3, <1>5, <2>8, <2>9
    <3>3. RlEmission * Cardinality(Admitted(s, e)') = p + RlEmission
      BY <2>4, <2>5, <2>7, <2>9
    <3> QED BY <1>3, <1>5, <2>2, <2>7, <2>8, <3>1, <3>2, <3>3
  <2>10. CASE ~(s <= k /\ k <= e)
    <3>1. Cardinality(Admitted(s, e)') = n
      BY <2>4, <2>10
    <3>2. s + p <= mark /\ s + p <= e + Tolerance
      BY <1>10, <2>5, <2>7, <3>1
    <3>3. mark <= new
      BY <1>3, <1>5, <2>6
    <3>4. s + p <= new
      BY <1>3, <1>5, <2>6, <2>7, <2>8, <3>2, <3>3
    <3> QED BY <2>2, <2>7, <3>1, <3>2, <3>4
  <2> QED BY <2>9, <2>10
<1>11. rlLate' \/ RlPaid'
  BY <1>10 DEF RlPaid
<1> QED BY <1>4, <1>6, <1>7, <1>8, <1>9, <1>11 DEF RlIInv

\* A call goes on, or ends, and nothing is let through.
LEMMA RlWaits ==
    ASSUME RlIInv, UNCHANGED <<rlNow, rlTat, rlDies, rlAdmitted, rlLate>>,
           NEW c \in RlCallers, NEW q \in RlCall, rlCalls' = [rlCalls EXCEPT ![c] = q],
           q.now <= rlNow, q.at = "swap" => ~OverQuota(q.old, q.now)
    PROVE  RlIInv'
<1>1. /\ rlCalls' \in [RlCallers -> RlCall] /\ rlCalls'[c] = q
      /\ \A d \in RlCallers \ {c} : rlCalls'[d] = rlCalls[d]
  BY DEF RlIInv, RlTypeOK
<1>2. \A d \in RlCallers :
        /\ rlCalls'[d].now <= rlNow
        /\ rlCalls'[d].at = "swap" => ~OverQuota(rlCalls'[d].old, rlCalls'[d].now)
  BY <1>1 DEF RlIInv
<1>3. \A s, e \in Clock : Admitted(s, e)' = Admitted(s, e)
  BY DEF Admitted
<1>4. RlMark' = RlMark
  BY DEF RlMark
<1>5. (rlLate \/ RlPaid) => (rlLate' \/ RlPaid')
  BY <1>3, <1>4 DEF RlPaid
<1> QED BY <1>1, <1>2, <1>3, <1>5 DEF RlIInv, RlTypeOK

LEMMA RlReturns ==
    ASSUME RlIInv, UNCHANGED rlNow, NEW c \in RlCallers, Refuses(c)
    PROVE  RlIInv'
<1>1. RlIdle \in RlCall /\ RlIdle.now = 0 /\ RlIdle.at = "idle" /\ 0 <= rlNow
  BY RlAssumption DEF RlIdle, RlCall, Clock, RlIInv, RlTypeOK
<1> QED BY <1>1, RlWaits DEF Refuses, Returns

LEMMA RlTickStep ==
    ASSUME RlIInv, RlTick
    PROVE  RlIInv'
<1>1. /\ rlNow \in Nat /\ rlNow < RlMaxClock /\ rlNow' = rlNow + 1 /\ RlMaxClock \in Nat
      /\ rlNow' \in Clock /\ RlEmission \in Nat /\ RlSlack \in Nat /\ RlNone \notin Nat
      /\ StateTtl \in Nat /\ rlDies \in Nat
      /\ UNCHANGED <<rlCalls, rlAdmitted, rlLate>>
  <2>1. rlNow \in 0..RlMaxClock /\ rlDies \in 0..(RlMaxClock + StateTtl)
    BY DEF RlIInv, RlTypeOK, Clock
  <2>2. rlNow < RlMaxClock /\ rlNow' = rlNow + 1 /\ UNCHANGED <<rlCalls, rlAdmitted, rlLate>>
    BY DEF RlTick
  <2>3. RlMaxClock \in Nat /\ RlEmission \in Nat /\ RlSlack \in Nat /\ RlNone \notin Nat
        /\ StateTtl \in Nat
    BY RlTimes, RlAssumption
  <2>4. rlNow' \in Clock
    BY <2>1, <2>2, <2>3 DEF Clock
  <2> QED BY <2>1, <2>2, <2>3, <2>4
<1>2. /\ \A s, e \in Clock : Admitted(s, e)' = Admitted(s, e)
      /\ \A s, e \in Clock : Cardinality(Admitted(s, e)) \in Nat
  BY <1>1, FS_CardinalityType DEF Admitted, RlIInv
<1>3. \A c \in RlCallers :
        /\ rlCalls'[c].now <= rlNow'
        /\ rlCalls'[c].at = "swap" => ~OverQuota(rlCalls'[c].old, rlCalls'[c].now)
  <2>1. \A c \in RlCallers : rlCalls[c].now \in Nat
    BY RlAssumption DEF RlIInv, RlTypeOK, RlCall, Clock
  <2> QED BY <1>1, <2>1 DEF RlIInv
<1>4. /\ rlTat' \in Tats \union {RlNone} /\ rlDies' \in 0..(RlMaxClock + StateTtl)
      /\ rlTat' # RlNone => rlNow' < rlDies' /\ rlTat' + RlEmission + RlSlack <= rlDies'
      /\ RlMark <= RlMark' /\ RlMark \in Int /\ RlMark' \in Int
  <2>0. rlTat # RlNone => rlTat \in Nat
    BY RlTimes, RlAssumption DEF RlIInv, RlTypeOK, Tats
  <2>1. CASE rlNow' < rlDies
    <3>1. UNCHANGED <<rlTat, rlDies>>
      BY <2>1 DEF RlTick
    <3> QED BY <1>1, <2>0, <2>1, <3>1 DEF RlIInv, RlTypeOK, RlMark
  <2>2. CASE ~(rlNow' < rlDies)
    <3>1. rlTat' = RlNone /\ rlDies' = 0
      BY <2>2 DEF RlTick
    <3>2. RlMark' = rlNow' - RlEmission - RlSlack
      BY <3>1 DEF RlMark
    <3>3. RlMark <= RlMark' /\ RlMark \in Int /\ RlMark' \in Int
      BY <1>1, <2>0, <2>2, <3>2 DEF RlMark, RlIInv
    <3> QED BY <1>1, <3>1, <3>3
  <2> QED BY <2>1, <2>2
<1>5. ASSUME RlPaid PROVE RlPaid'
  <2> SUFFICES ASSUME NEW s \in Clock, NEW e \in Clock, Cardinality(Admitted(s, e)) # 0
               PROVE  /\ s + RlEmission * Cardinality(Admitted(s, e)) <= RlMark'
                      /\ s + RlEmission * Cardinality(Admitted(s, e)) <= e + Tolerance
    BY <1>2 DEF RlPaid
  <2>1. PICK p \in Nat : p = RlEmission * Cardinality(Admitted(s, e))
    BY <1>2, RlTimes
  <2>2. s + p <= RlMark /\ s + p <= e + Tolerance /\ s \in Nat
    BY <1>5, <2>1, RlAssumption DEF RlPaid, Clock
  <2> QED BY <1>4, <2>1, <2>2
<1>6. RlTypeOK'
  BY <1>1, <1>4 DEF RlIInv, RlTypeOK
<1> QED BY <1>1, <1>2, <1>3, <1>4, <1>5, <1>6 DEF RlIInv

LEMMA RlInvStep == RlIInv /\ [RlNext]_rlVars => RlIInv'
<1> SUFFICES ASSUME RlIInv, [RlNext]_rlVars PROVE RlIInv'
  OBVIOUS
<1>0. /\ rlNow \in Clock /\ rlTat \in Tats \union {RlNone} /\ rlCalls \in [RlCallers -> RlCall]
      /\ \A c \in RlCallers : rlCalls[c].now <= rlNow
  BY DEF RlIInv, RlTypeOK
<1>1. ASSUME NEW c \in RlCallers, RlGet(c) PROVE RlIInv'
  <2>1. PICK q : q = [rlCalls[c] EXCEPT !.at = "got", !.old = rlTat]
    OBVIOUS
  <2>2. q \in RlCall /\ q.now = rlCalls[c].now /\ q.at = "got"
    BY <1>0, <2>1 DEF RlCall
  <2>3. rlCalls' = [rlCalls EXCEPT ![c] = q]
    BY <1>0, <1>1, <2>1 DEF RlGet
  <2> QED BY <1>0, <1>1, <2>2, <2>3, RlWaits DEF RlGet
<1>2. ASSUME NEW c \in RlCallers, RlDecide(c) PROVE RlIInv'
  <2>1. PICK now \in Readings :
        \/ OverQuota(rlCalls[c].old, now) /\ Refuses(c)
        \/ /\ ~OverQuota(rlCalls[c].old, now)
           /\ rlCalls' = [rlCalls EXCEPT ![c].at = "swap", ![c].now = now]
           /\ UNCHANGED <<rlTat, rlDies, rlAdmitted, rlLate>>
    BY <1>2 DEF RlDecide
  <2>2. UNCHANGED rlNow
    BY <1>2 DEF RlDecide
  <2>3. CASE Refuses(c)
    BY <2>2, <2>3, RlReturns
  <2>4. CASE /\ ~OverQuota(rlCalls[c].old, now)
             /\ rlCalls' = [rlCalls EXCEPT ![c].at = "swap", ![c].now = now]
             /\ UNCHANGED <<rlTat, rlDies, rlAdmitted, rlLate>>
    <3>1. PICK q : q = [rlCalls[c] EXCEPT !.at = "swap", !.now = now]
      OBVIOUS
    <3>2. now \in Clock /\ now <= rlNow
      BY DEF Readings
    <3>3. q \in RlCall /\ q.now = now /\ q.at = "swap" /\ q.old = rlCalls[c].old
      BY <1>0, <3>1, <3>2 DEF RlCall
    <3>4. rlCalls' = [rlCalls EXCEPT ![c] = q]
      BY <1>0, <2>4, <3>1
    <3> QED BY <2>2, <2>4, <3>2, <3>3, <3>4, RlWaits
  <2> QED BY <2>1, <2>3, <2>4
<1>3. ASSUME NEW c \in RlCallers, RlSwap(c) PROVE RlIInv'
  <2>1. UNCHANGED rlNow /\ rlCalls[c].at = "swap"
    BY <1>3 DEF RlSwap
  <2>2. CASE rlTat = rlCalls[c].old /\ Charges(c, NewTat(rlCalls[c].old, rlCalls[c].now))
    <3>1. ~OverQuota(rlTat, rlCalls[c].now)
      BY <2>1, <2>2 DEF RlIInv
    <3> QED BY <2>1, <2>2, <3>1, RlChargesStep
  <2>3. CASE /\ rlCalls[c].tries + 1 < RlAttempts
             /\ rlCalls' = [rlCalls EXCEPT ![c] = [RlIdle EXCEPT !.tries = rlCalls[c].tries + 1]]
             /\ UNCHANGED <<rlTat, rlDies, rlAdmitted, rlLate>>
    <3>1. PICK tries : tries = rlCalls[c].tries + 1
      OBVIOUS
    <3>2. tries \in 0..(RlAttempts - 1)
      BY <1>0, <2>3, <3>1, RlAssumption DEF RlCall
    <3>3. PICK q : q = [RlIdle EXCEPT !.tries = tries]
      OBVIOUS
    <3>4. q \in RlCall /\ q.now = 0 /\ q.at = "idle"
      BY <3>2, <3>3, RlAssumption DEF RlCall, RlIdle, Clock
    <3>5. 0 <= rlNow
      BY <1>0, RlAssumption DEF Clock
    <3> QED BY <2>1, <2>3, <3>1, <3>3, <3>4, <3>5, RlWaits
  <2>4. CASE Refuses(c)
    BY <2>1, <2>4, RlReturns
  <2> QED BY <1>3, <2>2, <2>3, <2>4 DEF RlSwap
<1>4. ASSUME NEW c \in RlCallers, RlStamp(c) PROVE RlIInv'
  <2>1. PICK now \in Readings : rlCalls' = [rlCalls EXCEPT ![c].at = "eval", ![c].now = now]
    BY <1>4 DEF RlStamp
  <2>2. PICK q : q = [rlCalls[c] EXCEPT !.at = "eval", !.now = now]
    OBVIOUS
  <2>3. now \in Clock /\ now <= rlNow
    BY DEF Readings
  <2>4. q \in RlCall /\ q.now = now /\ q.at = "eval"
    BY <1>0, <2>2, <2>3 DEF RlCall
  <2>5. rlCalls' = [rlCalls EXCEPT ![c] = q]
    BY <1>0, <2>1, <2>2
  <2> QED BY <1>4, <2>3, <2>4, <2>5, RlWaits DEF RlStamp
<1>5. ASSUME NEW c \in RlCallers, RlEval(c) PROVE RlIInv'
  BY <1>5, RlReturns, RlChargesStep DEF RlEval
<1>6. ASSUME NEW c \in RlCallers, RlDrop(c) PROVE RlIInv'
  BY <1>6, RlReturns DEF RlDrop
<1>7. CASE UNCHANGED rlVars
  <2>1. UNCHANGED <<rlNow, rlTat, rlDies, rlCalls, rlAdmitted, rlLate>>
    BY <1>7 DEF rlVars
  <2>2. RlMark' = RlMark /\ \A s, e \in Clock : Admitted(s, e)' = Admitted(s, e)
    BY <2>1 DEF RlMark, Admitted
  <2>3. RlPaid' <=> RlPaid
    BY <2>2 DEF RlPaid
  <2>4. RlTypeOK'
    BY <2>1 DEF RlIInv, RlTypeOK
  <2> QED BY <2>1, <2>2, <2>3, <2>4 DEF RlIInv
<1> QED BY <1>1, <1>2, <1>3, <1>4, <1>5, <1>6, <1>7, RlTickStep DEF RlNext

LEMMA RlInvInit == RlInit => RlIInv
<1> SUFFICES ASSUME RlInit PROVE RlIInv
  OBVIOUS
<1>1. RlIdle \in RlCall /\ RlIdle.now = 0 /\ RlIdle.at = "idle"
  BY RlAssumption DEF RlIdle, RlCall, Clock
<1>2. RlTypeOK
  <2>1. 0 \in Clock /\ 0 \in 0..(RlMaxClock + StateTtl)
    BY RlTimes, RlAssumption DEF Clock
  <2>2. rlCalls \in [RlCallers -> RlCall] /\ rlAdmitted \in [Clock -> Nat]
    BY <1>1 DEF RlInit
  <2> QED BY <2>1, <2>2 DEF RlInit, RlTypeOK
<1>3. \A s, e \in Clock : Admitted(s, e) = {}
  <2> SUFFICES ASSUME NEW s \in Clock, NEW e \in Clock, NEW t \in s..e PROVE 1..rlAdmitted[t] = {}
    BY DEF Admitted
  <2>1. t \in Clock
    BY RlAssumption DEF Clock
  <2> QED BY <2>1 DEF RlInit
<1>4. Cardinality({}) = 0 /\ IsFiniteSet({})
  BY FS_EmptySet
<1> QED BY <1>1, <1>2, <1>3, <1>4 DEF RlIInv, RlInit, RlPaid

\* rate.rs: in every window of time no more requests go through than the burst and
\* what drained meanwhile, calls aside that sat on their clock reading too long.
THEOREM Quota == RlSpec => []RateHolds
  BY RlInvInit, RlInvStep, RlPaidSuffices, PTL DEF RlSpec

-----------------------------------------------------------------------------

\* The two together, as the run has them.
THEOREM StoresKeepTheirWord == MCSpec => [](StoresCoherent /\ RateHolds)
<1>1. MCInit => SsIInv /\ RlIInv
  BY SsInvInit, RlInvInit DEF MCInit
<1>2. SsIInv /\ RlIInv /\ [MCNext]_MCVars => (SsIInv /\ RlIInv)'
  <2>1. [MCNext]_MCVars => [RlNext]_rlVars /\ [SsNext]_ssVars
    BY DEF MCNext, MCVars
  <2> QED BY <2>1, SsInvStep, RlInvStep
<1>3. SsIInv /\ RlIInv => StoresCoherent /\ RateHolds
  BY RlPaidSuffices DEF StoresCoherent, StoresTypeOK, SsIInv, RlIInv
<1> QED BY <1>1, <1>2, <1>3, PTL DEF MCSpec
=============================================================================
