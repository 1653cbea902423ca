------------------------- MODULE RefreshTokensProofs -------------------------
(***************************************************************************)
(* That a family of refresh tokens has one live token at most, for any set *)
(* of clients, any number of tokens and either store.                      *)
(*                                                                         *)
(* It is not inductive alone: what a rotation is about to insert is not a  *)
(* token yet.  The invariant says, of the table store, that the one        *)
(* rotation that is open has claimed the one fresh token and holds its row *)
(* (`OneRotation`), and that a burn in progress has seen every fresh token *)
(* unless a rotation went on beside it (`Burning`); of the memory store,   *)
(* that a token between its two locks is the only one (`OneRecorder`).     *)
(***************************************************************************)
EXTENDS RefreshTokens, FiniteSetTheorems, TLAPS

FreshRows == {t \in Ids : tkRow[t] = "fresh"}

\* A token that is presented is one that was handed out.
Presented ==
    \A c \in TkClients : tkCall[c].at = "claim" => tkCall[c].token \in Ids /\ tkCall[c].sees = {}

OneRotation ==
    /\ \A t, u \in FreshRows : t = u
    /\ \A c, d \in TkClients : tkCall[c].claimed /\ tkCall[d].claimed => c = d
    /\ \A c \in TkClients : tkCall[c].claimed =>
         /\ tkCall[c].at \in {"select", "insert", "commit"}
         /\ tkCall[c].token \in FreshRows
         /\ tkCall[c].sees = {} /\ ~tkCall[c].burns
    /\ \A c \in TkClients : ~tkCall[c].claimed =>
         tkCall[c].child = 0 /\ tkCall[c].at # "insert"
    /\ \A c, d \in TkClients : tkCall[c].at = "commit" /\ tkCall[d].claimed =>
         tkCall[d].token \notin tkCall[c].sees

Burning ==
    /\ \A c \in TkClients : tkCall[c].burns => tkCall[c].at \in {"delete", "commit"}
    /\ ~tkOverlap =>
         /\ tkEnded => FreshRows = {}
         /\ \A c \in TkClients : tkCall[c].burns =>
              /\ FreshRows \subseteq tkCall[c].sees
              /\ \A d \in TkClients : ~tkCall[d].claimed

InTable ==
    /\ ~tkRevoked
    /\ \A c \in TkClients : tkCall[c].at # "record"
    /\ Presented
    /\ OneRotation
    /\ Burning

OneRecorder ==
    /\ \A c \in TkClients : tkCall[c].at \in {"idle", "claim", "record"}
    /\ Presented
    /\ tkEnded => tkRevoked
    /\ ~tkRevoked =>
         /\ \A t, u \in FreshRows : t = u
         /\ \A c \in TkClients : tkCall[c].at = "record" => FreshRows = {}
         /\ \A c, d \in TkClients : tkCall[c].at = "record" /\ tkCall[d].at = "record" => c = d

TkIInv ==
    /\ TkTypeOK
    /\ IF tkTable THEN InTable ELSE OneRecorder

-----------------------------------------------------------------------------

\* The records the actions write have the fields they should.
LEMMA CallShapes ==
    /\ TkIdle \in TkCall
    /\ \A t \in Ids, b \in BOOLEAN : [TkIdle EXCEPT !.at = "claim", !.token = t, !.late = b] \in TkCall
    /\ \A call \in TkCall :
        /\ \A b \in BOOLEAN : [call EXCEPT !.at = "select", !.claimed = b] \in TkCall
        /\ \A at \in {"insert", "burn", "expired", "commit"} : [call EXCEPT !.at = at] \in TkCall
        /\ \A t \in Ids : [call EXCEPT !.at = "commit", !.child = t] \in TkCall
        /\ \A s \in SUBSET Ids :
             /\ [call EXCEPT !.at = "commit", !.sees = s] \in TkCall
             /\ [call EXCEPT !.at = "delete", !.sees = s, !.burns = TRUE] \in TkCall
        /\ [call EXCEPT !.at = "record", !.claimed = TRUE] \in TkCall
<1>1. TkIdle \in TkCall BY DEF TkIdle, TkCall
<1>2. \A t \in Ids, b \in BOOLEAN : [TkIdle EXCEPT !.at = "claim", !.token = t, !.late = b] \in TkCall
  BY DEF TkIdle, TkCall
<1>3. ASSUME NEW call \in TkCall
      PROVE  /\ \A b \in BOOLEAN : [call EXCEPT !.at = "select", !.claimed = b] \in TkCall
             /\ \A at \in {"insert", "burn", "expired", "commit"} : [call EXCEPT !.at = at] \in TkCall
             /\ \A t \in Ids : [call EXCEPT !.at = "commit", !.child = t] \in TkCall
             /\ [call EXCEPT !.at = "record", !.claimed = TRUE] \in TkCall
  BY DEF TkCall
<1>4. ASSUME NEW call \in TkCall, NEW s \in SUBSET Ids
      PROVE  /\ [call EXCEPT !.at = "commit", !.sees = s] \in TkCall
             /\ [call EXCEPT !.at = "delete", !.sees = s, !.burns = TRUE] \in TkCall
  BY DEF TkCall
<1> QED BY <1>1, <1>2, <1>3, <1>4

\* A token is a number that is not 0.
LEMMA TokenIds == 0 \notin Ids /\ 1 \in Ids
  BY TkAssumption DEF Ids

\* The token that is minted next is one of the tokens.
LEMMA Minted == TkTypeOK /\ Mints => tkMinted' \in Ids /\ tkMinted + 1 \in Ids /\ tkMinted' = tkMinted + 1
  BY TkAssumption DEF TkTypeOK, Mints, Ids

\* A call goes on: the others stay.
LEMMA GoesShape ==
    ASSUME TkTypeOK, NEW c \in TkClients, NEW call \in TkCall, Goes(c, call)
    PROVE  /\ tkCall'[c] = call
           /\ \A d \in TkClients : d # c => tkCall'[d] = tkCall[d]
           /\ tkCall' \in [TkClients -> TkCall]
  BY DEF TkTypeOK, Goes

\* What another open transaction holds.
LEMMA HeldByOthers ==
    ASSUME NEW c \in TkClients, NEW d \in TkClients, c # d
    PROVE  /\ tkCall[d].claimed => tkCall[d].token \in LockedBy(c)
           /\ tkCall[d].at = "commit" => tkCall[d].sees \subseteq LockedBy(c)
  BY DEF LockedBy, Locks

-----------------------------------------------------------------------------
(* The table store *)

\* A step that leaves the rows alone, and by which no client claims a token.
MayGo(c, call) ==
    /\ Goes(c, call)
    /\ UNCHANGED <<tkTable, tkRow, tkRevoked, tkEnded>>
    /\ call.at # "record"
    /\ call.claimed =>
         /\ tkCall[c].claimed /\ call.token = tkCall[c].token
         /\ call.at \in {"select", "insert", "commit"} /\ call.sees = {} /\ ~call.burns
    /\ ~call.claimed => call.child = 0 /\ call.at # "insert"
    /\ call.at = "claim" => call.token \in Ids /\ call.sees = {}
    /\ call.at = "commit" => call.sees = {} \/ call.sees \intersect LockedBy(c) = {}
    /\ call.burns =>
         /\ call.at \in {"delete", "commit"}
         /\ \/ tkCall[c].burns /\ call.sees = tkCall[c].sees
            \/ FreshRows \subseteq call.sees /\ (~tkOverlap' => \A d \in TkClients : ~tkCall[d].claimed)
    /\ tkOverlap => tkOverlap'

LEMMA GoStep ==
    ASSUME TkTypeOK, InTable, NEW c \in TkClients, NEW call \in TkCall, MayGo(c, call)
    PROVE  InTable'
<1> USE DEF MayGo
<1>1. /\ tkCall'[c] = call
      /\ \A d \in TkClients : d # c => tkCall'[d] = tkCall[d]
  BY GoesShape
<1>2. FreshRows' = FreshRows BY DEF FreshRows
<1>3. ~tkRevoked' /\ \A d \in TkClients : tkCall'[d].at # "record"
  BY <1>1 DEF InTable
<1>4. \A d \in TkClients : tkCall'[d].claimed => tkCall[d].claimed /\ tkCall'[d].token = tkCall[d].token
  BY <1>1
<1>5. OneRotation'
  <2>1. \A t, u \in FreshRows' : t = u BY <1>2 DEF InTable, OneRotation
  <2>2. \A d, e \in TkClients : tkCall'[d].claimed /\ tkCall'[e].claimed => d = e
    BY <1>4 DEF InTable, OneRotation
  <2>3. ASSUME NEW d \in TkClients, tkCall'[d].claimed
        PROVE  /\ tkCall'[d].at \in {"select", "insert", "commit"}
               /\ tkCall'[d].token \in FreshRows'
               /\ tkCall'[d].sees = {} /\ ~tkCall'[d].burns
    <3>1. CASE d = c BY <3>1, <2>3, <1>1, <1>2 DEF InTable, OneRotation
    <3>2. CASE d # c BY <3>2, <2>3, <1>1, <1>2 DEF InTable, OneRotation
    <3> QED BY <3>1, <3>2
  <2>4. ASSUME NEW d \in TkClients, ~tkCall'[d].claimed
        PROVE  tkCall'[d].child = 0 /\ tkCall'[d].at # "insert"
    <3>1. CASE d = c BY <3>1, <2>4, <1>1
    <3>2. CASE d # c BY <3>2, <2>4, <1>1 DEF InTable, OneRotation
    <3> QED BY <3>1, <3>2
  <2>5. ASSUME NEW d \in TkClients, NEW e \in TkClients, tkCall'[d].at = "commit", tkCall'[e].claimed
        PROVE  tkCall'[e].token \notin tkCall'[d].sees
    <3>1. tkCall[e].claimed /\ tkCall'[e].token = tkCall[e].token BY <2>5, <1>4
    <3>2. CASE d = c /\ e = c BY <3>2, <2>5, <1>1
    <3>3. CASE d = c /\ e # c
      <4>1. tkCall[e].token \in LockedBy(c) BY <3>1, <3>3, HeldByOthers
      <4> QED BY <4>1, <3>1, <3>3, <2>5, <1>1
    <3>4. CASE d # c BY <3>1, <3>4, <2>5, <1>1 DEF InTable, OneRotation
    <3> QED BY <3>2, <3>3, <3>4
  <2> QED BY <2>1, <2>2, <2>3, <2>4, <2>5 DEF OneRotation
<1>6. Burning'
  <2>1. \A d \in TkClients : tkCall'[d].burns => tkCall'[d].at \in {"delete", "commit"}
    BY <1>1 DEF InTable, Burning
  <2>2. ASSUME ~tkOverlap' PROVE tkEnded' => FreshRows' = {}
    BY <2>2, <1>2 DEF InTable, Burning
  <2>3. ASSUME ~tkOverlap', NEW d \in TkClients, tkCall'[d].burns
        PROVE  FreshRows' \subseteq tkCall'[d].sees /\ \A e \in TkClients : ~tkCall'[e].claimed
    <3>1. CASE d = c BY <3>1, <2>3, <1>1, <1>2, <1>4 DEF InTable, Burning
    <3>2. CASE d # c BY <3>2, <2>3, <1>1, <1>2, <1>4 DEF InTable, Burning
    <3> QED BY <3>1, <3>2
  <2> QED BY <2>1, <2>2, <2>3 DEF Burning
<1>7. Presented' BY <1>1 DEF InTable, Presented
<1> QED BY <1>3, <1>5, <1>6, <1>7 DEF InTable

\* The fields of a call that goes on.
LEMMA Fields ==
    ASSUME NEW call \in TkCall
    PROVE  /\ \A at : LET go == [call EXCEPT !.at = at] IN
                /\ go.at = at /\ go.token = call.token /\ go.child = call.child
                /\ go.claimed = call.claimed /\ go.sees = call.sees /\ go.burns = call.burns
           /\ \A t : LET go == [call EXCEPT !.at = "commit", !.child = t] IN
                /\ go.at = "commit" /\ go.token = call.token /\ go.child = t
                /\ go.claimed = call.claimed /\ go.sees = call.sees /\ go.burns = call.burns
           /\ \A s : LET go == [call EXCEPT !.at = "commit", !.sees = s] IN
                /\ go.at = "commit" /\ go.token = call.token /\ go.child = call.child
                /\ go.claimed = call.claimed /\ go.sees = s /\ go.burns = call.burns
           /\ \A s : LET go == [call EXCEPT !.at = "delete", !.sees = s, !.burns = TRUE] IN
                /\ go.at = "delete" /\ go.token = call.token /\ go.child = call.child
                /\ go.claimed = call.claimed /\ go.sees = s /\ go.burns
           /\ \A b : LET go == [call EXCEPT !.at = "select", !.claimed = b] IN
                /\ go.at = "select" /\ go.token = call.token /\ go.child = call.child
                /\ go.claimed = b /\ go.sees = call.sees /\ go.burns = call.burns
<1>1. \A at : LET go == [call EXCEPT !.at = at] IN
        /\ go.at = at /\ go.token = call.token /\ go.child = call.child
        /\ go.claimed = call.claimed /\ go.sees = call.sees /\ go.burns = call.burns
  BY DEF TkCall
<1>2. \A t : LET go == [call EXCEPT !.at = "commit", !.child = t] IN
        /\ go.at = "commit" /\ go.token = call.token /\ go.child = t
        /\ go.claimed = call.claimed /\ go.sees = call.sees /\ go.burns = call.burns
  BY DEF TkCall
<1>3. \A s : LET go == [call EXCEPT !.at = "commit", !.sees = s] IN
        /\ go.at = "commit" /\ go.token = call.token /\ go.child = call.child
        /\ go.claimed = call.claimed /\ go.sees = s /\ go.burns = call.burns
  BY DEF TkCall
<1>4. \A s : LET go == [call EXCEPT !.at = "delete", !.sees = s, !.burns = TRUE] IN
        /\ go.at = "delete" /\ go.token = call.token /\ go.child = call.child
        /\ go.claimed = call.claimed /\ go.sees = s /\ go.burns
  BY DEF TkCall
<1>5. \A b : LET go == [call EXCEPT !.at = "select", !.claimed = b] IN
        /\ go.at = "select" /\ go.token = call.token /\ go.child = call.child
        /\ go.claimed = b /\ go.sees = call.sees /\ go.burns = call.burns
  BY DEF TkCall
<1> QED BY <1>1, <1>2, <1>3, <1>4, <1>5

\* The update that claims a token finds it fresh and free: no rotation is open.
LEMMA ClaimStep == ASSUME TkTypeOK, InTable, NEW c \in TkClients, TkClaim(c) PROVE InTable'
<1> DEFINE b == tkRow[tkCall[c].token] = "fresh" /\ ~tkCall[c].late
           call == [tkCall[c] EXCEPT !.at = "select", !.claimed = b]
<1>1. tkCall[c] \in TkCall /\ b \in BOOLEAN
  <2>1. b \in BOOLEAN BY Zenon
  <2> QED BY <2>1 DEF TkTypeOK
<1>2. call \in TkCall BY <1>1, CallShapes
<1>3. /\ call.at = "select" /\ call.token = tkCall[c].token /\ call.child = tkCall[c].child
      /\ call.claimed = b /\ call.sees = tkCall[c].sees /\ call.burns = tkCall[c].burns
  BY <1>1, Fields
<1>4. /\ tkCall[c].at = "claim" /\ Goes(c, call) /\ tkCall[c].token \notin LockedBy(c)
      /\ UNCHANGED <<tkTable, tkRow, tkRevoked, tkEnded>>
  BY DEF TkClaim
<1>5. ~tkCall[c].claimed /\ tkCall[c].child = 0 /\ tkCall[c].sees = {} /\ ~tkCall[c].burns
  BY <1>4 DEF InTable, OneRotation, Burning, Presented
<1>6. tkOverlap' = (tkOverlap \/ (Rotating(c)' /\ \E d \in TkClients : tkCall[d].at = "delete"))
  BY DEF TkClaim
<1> HIDE DEF call
<1>7. CASE ~b
  <2>1. tkOverlap => tkOverlap' BY <1>6, Zenon
  <2>2. MayGo(c, call) BY <1>3, <1>4, <1>5, <1>7, <2>1 DEF MayGo
  <2> QED BY <1>2, <2>2, GoStep
<1>8. CASE b
  <2>1. /\ tkCall'[c] = call
        /\ \A d \in TkClients : d # c => tkCall'[d] = tkCall[d]
    BY <1>2, <1>4, GoesShape
  <2>2. FreshRows' = FreshRows BY <1>4 DEF FreshRows
  <2>3. tkCall[c].token \in FreshRows
    BY <1>4, <1>8 DEF InTable, Presented, FreshRows
  <2>4. ASSUME NEW d \in TkClients, tkCall[d].claimed PROVE FALSE
    <3>1. d # c BY <2>4, <1>5
    <3>2. tkCall[d].token = tkCall[c].token BY <2>3, <2>4 DEF InTable, OneRotation
    <3> QED BY <3>1, <3>2, <2>4, <1>4, HeldByOthers
  <2>5. ASSUME NEW d \in TkClients, tkCall[d].at = "commit" PROVE tkCall[c].token \notin tkCall[d].sees
    <3>1. d # c BY <2>5, <1>4
    <3> QED BY <3>1, <2>5, <1>4, HeldByOthers
  <2>6. OneRotation'
    <3>1. \A t, u \in FreshRows' : t = u BY <2>2 DEF InTable, OneRotation
    <3>2. \A d \in TkClients : tkCall'[d].claimed => d = c BY <2>1, <2>4
    <3>3. tkCall'[c] = call BY <2>1
    <3>4. \A d \in TkClients : ~tkCall'[d].claimed => tkCall'[d].child = 0 /\ tkCall'[d].at # "insert"
      BY <2>1, <1>3, <1>8 DEF InTable, OneRotation
    <3>5. \A d \in TkClients : tkCall'[d].at = "commit" => call.token \notin tkCall'[d].sees
      BY <2>1, <2>5, <1>3
    <3>6. call.at = "select" /\ call.token \in FreshRows' /\ call.sees = {} /\ ~call.burns
      BY <1>3, <1>5, <2>2, <2>3
    <3>7. \A d \in TkClients : tkCall'[d].claimed =>
            /\ tkCall'[d].at \in {"select", "insert", "commit"} /\ tkCall'[d].token \in FreshRows'
            /\ tkCall'[d].sees = {} /\ ~tkCall'[d].burns
      BY <3>2, <3>3, <3>6
    <3>8. \A d, e \in TkClients : tkCall'[d].at = "commit" /\ tkCall'[e].claimed =>
            tkCall'[e].token \notin tkCall'[d].sees
      BY <3>2, <3>3, <3>5
    <3> QED BY <3>1, <3>2, <3>4, <3>7, <3>8 DEF OneRotation
  <2>7. Burning'
    <3>1. \A d \in TkClients : tkCall'[d].burns => d # c /\ tkCall[d].burns /\ tkCall'[d] = tkCall[d]
      BY <2>1, <1>3, <1>5
    <3>2. \A d \in TkClients : tkCall'[d].burns => tkCall'[d].at \in {"delete", "commit"}
      BY <3>1 DEF InTable, Burning
    <3>3. ~tkOverlap' => ~tkOverlap /\ \A d \in TkClients : tkCall[d].at # "delete"
      <4>1. Rotating(c)' BY <2>1, <1>3, <1>8 DEF Rotating
      <4> QED BY <4>1, <1>6, Zenon
    <3>4. ASSUME ~tkOverlap' PROVE ~tkEnded'
      BY <3>4, <3>3, <2>3, <1>4 DEF InTable, Burning
    <3>5. ASSUME ~tkOverlap', NEW d \in TkClients, tkCall'[d].burns PROVE FALSE
      <4>1. tkCall[d].at = "commit" BY <3>1, <3>3, <3>5 DEF InTable, Burning
      <4>2. tkCall[c].token \in tkCall[d].sees BY <3>1, <3>3, <3>5, <2>3 DEF InTable, Burning
      <4> QED BY <4>1, <4>2, <2>5
    <3> QED BY <3>2, <3>4, <3>5 DEF Burning
  <2>8. Presented' BY <2>1, <1>3 DEF InTable, Presented
  <2>9. ~tkRevoked' /\ \A d \in TkClients : tkCall'[d].at # "record"
    BY <2>1, <1>3, <1>4 DEF InTable
  <2> QED BY <2>6, <2>7, <2>8, <2>9 DEF InTable
<1> QED BY <1>7, <1>8

\* What a call without a claim has, wherever it is.
LEMMA NoneClaimed ==
    ASSUME TkTypeOK, InTable, NEW c \in TkClients
    PROVE  /\ tkCall[c] \in TkCall
           /\ ~tkCall[c].claimed => tkCall[c].child = 0 /\ tkCall[c].at # "insert"
           /\ tkCall[c].at \in {"idle", "claim", "expired", "burn", "delete"} => ~tkCall[c].claimed
           /\ tkCall[c].at \notin {"delete", "commit"} => ~tkCall[c].burns
  BY DEF TkTypeOK, InTable, OneRotation, Burning

\* The calls of the table store that leave the rows alone.
LEMMA QuietStep ==
    ASSUME TkTypeOK, InTable, NEW c \in TkClients,
           \/ \E t \in Ids : TkPresent(c, t)
           \/ TkSelect(c) \/ TkInsert(c) \/ TkExpireDelete(c) \/ TkBurn(c) \/ TkDelete(c) \/ TkRollback(c)
    PROVE  InTable'
<1>1. tkCall[c] \in TkCall BY DEF TkTypeOK
<1>2. TkIdle \in TkCall /\ TkIdle.at = "idle" /\ TkIdle.child = 0 /\ ~TkIdle.claimed
      /\ TkIdle.sees = {} /\ ~TkIdle.burns
  BY CallShapes DEF TkIdle
<1>3. ASSUME NEW t \in Ids, TkPresent(c, t) PROVE InTable'
  <2> DEFINE call == [TkIdle EXCEPT !.at = "claim", !.token = t, !.late = t \in tkExpired]
  <2>1. (t \in tkExpired) \in BOOLEAN OBVIOUS
  <2>2. call \in TkCall BY <2>1, CallShapes
  <2>3. call.at = "claim" /\ call.token = t /\ call.child = 0 /\ ~call.claimed
        /\ call.sees = {} /\ ~call.burns
    BY DEF TkIdle
  <2>4. Goes(c, call) /\ OnlyCall BY <1>3 DEF TkPresent
  <2> HIDE DEF call
  <2>5. MayGo(c, call) BY <2>3, <2>4 DEF MayGo, OnlyCall
  <2> QED BY <2>2, <2>5, GoStep
<1>4. CASE TkSelect(c)
  <2>1. tkCall[c].at = "select" /\ OnlyCall BY <1>4 DEF TkSelect
  <2>2. CASE tkRow[tkCall[c].token] = "absent"
    <3>1. Goes(c, TkIdle) BY <1>4, <2>2 DEF TkSelect
    <3>2. MayGo(c, TkIdle) BY <1>2, <2>1, <3>1 DEF MayGo, OnlyCall
    <3> QED BY <1>2, <3>2, GoStep
  <2>3. CASE tkRow[tkCall[c].token] # "absent"
    <3> DEFINE at == IF tkCall[c].claimed THEN "insert"
                     ELSE IF tkRow[tkCall[c].token] = "used" THEN "burn" ELSE "expired"
               call == [tkCall[c] EXCEPT !.at = at]
    <3>1. Goes(c, call) BY <1>4, <2>3 DEF TkSelect
    <3>2. at \in {"insert", "burn", "expired"} /\ (at = "insert" <=> tkCall[c].claimed) OBVIOUS
    <3>3. call \in TkCall BY <1>1, <3>2, CallShapes
    <3>4. /\ call.at = at /\ call.token = tkCall[c].token /\ call.child = tkCall[c].child
          /\ call.claimed = tkCall[c].claimed /\ call.sees = tkCall[c].sees
          /\ call.burns = tkCall[c].burns
      BY <1>1, Fields
    <3>5. tkCall[c].claimed => tkCall[c].sees = {} /\ ~tkCall[c].burns
      BY DEF InTable, OneRotation
    <3> HIDE DEF at, call
    <3>6. MayGo(c, call) BY <2>1, <3>1, <3>2, <3>4, <3>5, NoneClaimed DEF MayGo, OnlyCall
    <3> QED BY <3>3, <3>6, GoStep
  <2> QED BY <2>2, <2>3
<1>5. CASE TkInsert(c)
  <2> DEFINE call == [tkCall[c] EXCEPT !.at = "commit", !.child = tkMinted + 1]
  <2>1. tkCall[c].at = "insert" /\ Goes(c, call) /\ UNCHANGED <<tkTable, tkRow, tkRevoked, tkEnded, tkOverlap>>
    BY <1>5 DEF TkInsert, Steady
  <2>2. call \in TkCall BY <1>1, <1>5, Minted, CallShapes DEF TkInsert
  <2>3. /\ call.at = "commit" /\ call.token = tkCall[c].token
        /\ call.claimed = tkCall[c].claimed /\ call.sees = tkCall[c].sees
        /\ call.burns = tkCall[c].burns
    BY <1>1, Fields
  <2>4. tkCall[c].claimed BY <2>1, NoneClaimed
  <2>5. tkCall[c].sees = {} /\ ~tkCall[c].burns BY <2>4 DEF InTable, OneRotation
  <2> HIDE DEF call
  <2>6. MayGo(c, call) BY <2>1, <2>3, <2>4, <2>5 DEF MayGo
  <2> QED BY <2>2, <2>6, GoStep
<1>6. CASE TkExpireDelete(c)
  <2> DEFINE seen == {tkCall[c].token} \intersect Stored
             call == [tkCall[c] EXCEPT !.at = "commit", !.sees = seen]
  <2>1. tkCall[c].at = "expired" /\ tkCall[c].token \notin LockedBy(c) /\ Goes(c, call) /\ OnlyCall
    BY <1>6 DEF TkExpireDelete
  <2>2. seen \in SUBSET Ids BY DEF Stored
  <2>3. call \in TkCall BY <1>1, <2>2, CallShapes
  <2>4. /\ call.at = "commit" /\ call.token = tkCall[c].token /\ call.child = tkCall[c].child
        /\ call.claimed = tkCall[c].claimed /\ call.sees = seen
        /\ call.burns = tkCall[c].burns
    BY <1>1, Fields
  <2>5. seen \intersect LockedBy(c) = {} BY <2>1
  <2> HIDE DEF call, seen
  <2>6. MayGo(c, call) BY <2>1, <2>4, <2>5, NoneClaimed DEF MayGo, OnlyCall
  <2> QED BY <2>3, <2>6, GoStep
<1>7. CASE TkBurn(c)
  <2> DEFINE call == [tkCall[c] EXCEPT !.at = "delete", !.sees = Stored, !.burns = TRUE]
  <2>1. /\ tkCall[c].at \in {"burn", "idle"} /\ Goes(c, call)
        /\ UNCHANGED <<tkTable, tkRow, tkRevoked, tkEnded>>
    BY <1>7 DEF TkBurn, TkIdle
  <2>2. call \in TkCall BY <1>1, CallShapes DEF Stored
  <2>3. /\ call.at = "delete" /\ call.child = tkCall[c].child
        /\ call.claimed = tkCall[c].claimed /\ call.sees = Stored /\ call.burns
    BY <1>1, Fields
  <2>4. FreshRows \subseteq Stored BY DEF FreshRows, Stored
  <2>5. ~tkCall[c].claimed BY <2>1, NoneClaimed
  <2>6. tkOverlap' = (tkOverlap \/ \E d \in TkClients \ {c} : tkCall[d].claimed)
    BY <1>7 DEF TkBurn, RotatesBeside, Rotating
  <2>7. tkOverlap => tkOverlap' BY <2>6, Zenon
  <2>8. ~tkOverlap' => \A d \in TkClients : ~tkCall[d].claimed BY <2>5, <2>6, Zenon
  <2> HIDE DEF call
  <2>9. MayGo(c, call) BY <2>1, <2>3, <2>4, <2>5, <2>7, <2>8, NoneClaimed DEF MayGo
  <2> QED BY <2>2, <2>9, GoStep
<1>8. CASE TkDelete(c)
  <2> DEFINE call == [tkCall[c] EXCEPT !.at = "commit"]
  <2>1. tkCall[c].at = "delete" /\ tkCall[c].sees \intersect LockedBy(c) = {} /\ Goes(c, call) /\ OnlyCall
    BY <1>8 DEF TkDelete
  <2>2. call \in TkCall BY <1>1, CallShapes
  <2>3. /\ call.at = "commit" /\ call.token = tkCall[c].token /\ call.child = tkCall[c].child
        /\ call.claimed = tkCall[c].claimed /\ call.sees = tkCall[c].sees
        /\ call.burns = tkCall[c].burns
    BY <1>1, Fields
  <2> HIDE DEF call
  <2>4. MayGo(c, call) BY <2>1, <2>3, NoneClaimed DEF MayGo, OnlyCall
  <2> QED BY <2>2, <2>4, GoStep
<1>9. CASE TkRollback(c)
  <2>1. Goes(c, TkIdle) /\ OnlyCall BY <1>9 DEF TkRollback, TkReturns
  <2>2. MayGo(c, TkIdle) BY <1>2, <2>1 DEF MayGo, OnlyCall
  <2> QED BY <1>2, <2>2, GoStep
<1> QED BY <1>3, <1>4, <1>5, <1>6, <1>7, <1>8, <1>9

\* A commit: of a rotation, its token gives way to its child; of anything else, rows
\* go and none comes.
LEMMA CommitStep == ASSUME TkTypeOK, InTable, NEW c \in TkClients, TkCommit(c) PROVE InTable'
<1>1. /\ tkCall[c].at = "commit" /\ Goes(c, TkIdle)
      /\ tkRow' = [t \in Ids |->
            IF t \in tkCall[c].sees THEN "absent"
            ELSE IF t = tkCall[c].child THEN "fresh"
            ELSE IF tkCall[c].claimed /\ t = tkCall[c].token THEN "used" ELSE tkRow[t]]
      /\ tkEnded' = (tkEnded \/ tkCall[c].burns)
      /\ UNCHANGED <<tkTable, tkRevoked, tkOverlap>>
  BY DEF TkCommit, TkReturns, Steady
<1>2. TkIdle \in TkCall /\ TkIdle.at = "idle" /\ TkIdle.child = 0 /\ ~TkIdle.claimed
      /\ TkIdle.sees = {} /\ ~TkIdle.burns
  BY CallShapes DEF TkIdle
<1>3. /\ tkCall'[c] = TkIdle
      /\ \A d \in TkClients : d # c => tkCall'[d] = tkCall[d]
  BY <1>1, <1>2, GoesShape
<1>4. ~tkRevoked' /\ (\A d \in TkClients : tkCall'[d].at # "record") /\ Presented'
  BY <1>1, <1>2, <1>3 DEF InTable, Presented
<1>5. \A d \in TkClients : tkCall'[d].burns => tkCall'[d].at \in {"delete", "commit"}
  BY <1>2, <1>3 DEF InTable, Burning
<1>6. \A d \in TkClients : ~tkCall'[d].claimed => tkCall'[d].child = 0 /\ tkCall'[d].at # "insert"
  BY <1>2, <1>3 DEF InTable, OneRotation
<1>7. CASE tkCall[c].claimed
  <2>1. tkCall[c].token \in FreshRows /\ \A t \in FreshRows : t = tkCall[c].token
    BY <1>7 DEF InTable, OneRotation
  <2>2. \A t \in FreshRows' : t = tkCall[c].child
    BY <1>1, <1>7, <2>1 DEF FreshRows
  <2>3. \A d \in TkClients : ~tkCall'[d].claimed
    BY <1>2, <1>3, <1>7 DEF InTable, OneRotation
  <2>4. OneRotation' BY <1>6, <2>2, <2>3 DEF OneRotation
  <2>5. ~tkCall[c].burns BY <1>7 DEF InTable, OneRotation
  <2>6. ASSUME ~tkOverlap' PROVE ~tkEnded' /\ \A d \in TkClients : ~tkCall'[d].burns
    <3>1. ~tkEnded /\ \A d \in TkClients : ~tkCall[d].burns
      BY <1>1, <1>7, <2>1, <2>6 DEF InTable, Burning
    <3> QED BY <3>1, <1>1, <1>2, <1>3, <2>5
  <2>7. Burning' BY <1>5, <2>6 DEF Burning
  <2> QED BY <1>4, <2>4, <2>7 DEF InTable
<1>8. CASE ~tkCall[c].claimed
  <2>1. tkCall[c].child = 0 BY <1>8, NoneClaimed
  <2>2. FreshRows' = FreshRows \ tkCall[c].sees
    BY <1>1, <1>8, <2>1, TokenIds DEF FreshRows
  <2>3. \A d \in TkClients : tkCall'[d].claimed => tkCall[d].claimed /\ tkCall'[d] = tkCall[d]
                                                  /\ tkCall[d].token \in FreshRows'
    <3>1. ASSUME NEW d \in TkClients, tkCall'[d].claimed
          PROVE  tkCall[d].claimed /\ tkCall'[d] = tkCall[d] /\ tkCall[d].token \in FreshRows'
      <4>1. d # c BY <3>1, <1>2, <1>3
      <4>2. tkCall[d].claimed /\ tkCall'[d] = tkCall[d] BY <4>1, <3>1, <1>3
      <4>3. tkCall[d].token \in FreshRows /\ tkCall[d].token \notin tkCall[c].sees
        BY <4>2, <1>1 DEF InTable, OneRotation
      <4> QED BY <4>2, <4>3, <2>2
    <3> QED BY <3>1
  <2>4. OneRotation'
    <3>1. \A t, u \in FreshRows' : t = u BY <2>2 DEF InTable, OneRotation
    <3>2. \A d, e \in TkClients : tkCall'[d].claimed /\ tkCall'[e].claimed => d = e
      BY <2>3 DEF InTable, OneRotation
    <3>3. \A d \in TkClients : tkCall'[d].claimed =>
            /\ tkCall'[d].at \in {"select", "insert", "commit"} /\ tkCall'[d].token \in FreshRows'
            /\ tkCall'[d].sees = {} /\ ~tkCall'[d].burns
      BY <2>3 DEF InTable, OneRotation
    <3>4. ASSUME NEW d \in TkClients, NEW e \in TkClients, tkCall'[d].at = "commit", tkCall'[e].claimed
          PROVE  tkCall'[e].token \notin tkCall'[d].sees
      <4>1. d # c BY <3>4, <1>2, <1>3
      <4> QED BY <4>1, <3>4, <1>3, <2>3 DEF InTable, OneRotation
    <3> QED BY <1>6, <3>1, <3>2, <3>3, <3>4 DEF OneRotation
  <2>5. ASSUME ~tkOverlap', tkEnded' PROVE FreshRows' = {}
    <3>1. CASE tkEnded BY <3>1, <2>5, <1>1, <2>2 DEF InTable, Burning
    <3>2. CASE tkCall[c].burns
      <4>1. FreshRows \subseteq tkCall[c].sees BY <3>2, <2>5, <1>1 DEF InTable, Burning
      <4> QED BY <4>1, <2>2
    <3> QED BY <3>1, <3>2, <2>5, <1>1, Zenon
  <2>6. ASSUME ~tkOverlap', NEW d \in TkClients, tkCall'[d].burns
        PROVE  FreshRows' \subseteq tkCall'[d].sees /\ \A e \in TkClients : ~tkCall'[e].claimed
    <3>1. d # c BY <2>6, <1>2, <1>3
    <3>2. tkCall'[d] = tkCall[d] /\ tkCall[d].burns BY <3>1, <2>6, <1>3
    <3> QED BY <3>2, <2>6, <1>1, <2>2, <2>3 DEF InTable, Burning
  <2>7. Burning' BY <1>5, <2>5, <2>6 DEF Burning
  <2> QED BY <1>4, <2>4, <2>7 DEF InTable
<1> QED BY <1>7, <1>8

\* The clock and the sweeper, which leaves what a transaction holds.
LEMMA SweepStep ==
    ASSUME TkTypeOK, InTable, TkSweep \/ \E t \in Ids : TkExpire(t)
    PROVE  InTable'
<1>1. tkCall' = tkCall /\ tkRevoked' = tkRevoked /\ tkEnded' = tkEnded /\ tkOverlap' = tkOverlap
  BY DEF TkSweep, TkExpire, Steady
<1>2. FreshRows' \subseteq FreshRows BY DEF FreshRows, TkSweep, TkExpire, TkTypeOK
<1>3. ASSUME NEW d \in TkClients, tkCall[d].claimed PROVE tkCall[d].token \in FreshRows'
  <2>1. tkCall[d].token \in FreshRows BY <1>3 DEF InTable, OneRotation
  <2>2. CASE TkSweep
    <3>1. tkCall[d].token \in Locks(d) BY <1>3 DEF Locks
    <3>2. tkCall[d].token \notin Stored \intersect tkExpired BY <2>2, <3>1 DEF TkSweep
    <3> QED BY <2>1, <2>2, <3>2 DEF TkSweep, FreshRows
  <2>3. CASE \E t \in Ids : TkExpire(t) BY <2>1, <2>3 DEF TkExpire, FreshRows
  <2> QED BY <2>2, <2>3
<1>4. OneRotation' BY <1>1, <1>2, <1>3 DEF InTable, OneRotation
<1>5. Burning' BY <1>1, <1>2 DEF InTable, Burning
<1> QED BY <1>1, <1>4, <1>5 DEF InTable, Presented

-----------------------------------------------------------------------------
(* The store in memory *)

\* A lock at a time: what decides, then what records.
LEMMA MemoryStep ==
    ASSUME TkTypeOK, OneRecorder, NEW c \in TkClients,
           TkDecide(c) \/ TkRecord(c) \/ \E t \in Ids : TkPresent(c, t)
    PROVE  OneRecorder'
<1>1. tkCall[c] \in TkCall BY DEF TkTypeOK
<1>2. TkIdle \in TkCall /\ TkIdle.at = "idle" BY CallShapes DEF TkIdle
<1>3. ASSUME NEW t \in Ids, TkPresent(c, t) PROVE OneRecorder'
  <2> DEFINE call == [TkIdle EXCEPT !.at = "claim", !.token = t, !.late = t \in tkExpired]
  <2>1. (t \in tkExpired) \in BOOLEAN OBVIOUS
  <2>2. call \in TkCall /\ call.at = "claim" /\ call.token = t /\ call.sees = {}
    BY <2>1, CallShapes DEF TkIdle
  <2>3. Goes(c, call) /\ OnlyCall BY <1>3 DEF TkPresent
  <2> HIDE DEF call
  <2>4. tkCall'[c] = call /\ \A d \in TkClients : d # c => tkCall'[d] = tkCall[d]
    BY <2>2, <2>3, GoesShape
  <2>5. FreshRows' = FreshRows /\ tkRevoked' = tkRevoked /\ tkEnded' = tkEnded
    BY <2>3 DEF OnlyCall, FreshRows
  <2>6. \A d \in TkClients : tkCall'[d].at = "record" => tkCall[d].at = "record"
    BY <2>2, <2>4
  <2> QED BY <2>2, <2>4, <2>5, <2>6 DEF OneRecorder, Presented
<1>4. CASE TkDecide(c)
  <2>1. tkCall[c].at = "claim" /\ tkCall[c].token \in Ids BY <1>4 DEF TkDecide, OneRecorder, Presented
  <2>2. CASE TkReturns(c)
    <3>1. tkCall'[c] = TkIdle /\ \A d \in TkClients : d # c => tkCall'[d] = tkCall[d]
      BY <1>2, <2>2, GoesShape DEF TkReturns
    <3>2. \A d \in TkClients : tkCall'[d].at = "record" => tkCall[d].at = "record"
      BY <1>2, <3>1
    <3>3. FreshRows' \subseteq FreshRows
      BY <1>4, <2>1, <2>2 DEF TkDecide, Burns, FreshRows, TkTypeOK
    <3>4. (tkEnded' => tkRevoked') /\ (tkRevoked => tkRevoked')
      BY <1>4, <1>2, <2>2, <2>1 DEF TkDecide, Burns, OneRecorder, TkReturns, Goes
    <3> QED BY <1>2, <3>1, <3>2, <3>3, <3>4 DEF OneRecorder, Presented
  <2>3. CASE ~TkReturns(c)
    <3> DEFINE call == [tkCall[c] EXCEPT !.at = "record", !.claimed = TRUE]
    <3>1. /\ tkRow[tkCall[c].token] = "fresh" /\ ~tkRevoked /\ Goes(c, call)
          /\ tkRow' = [tkRow EXCEPT ![tkCall[c].token] = "used"]
          /\ UNCHANGED <<tkRevoked, tkEnded>>
      BY <1>4, <2>3 DEF TkDecide
    <3>2. call \in TkCall /\ call.at = "record"
      <4>1. call \in TkCall BY <1>1, CallShapes
      <4>2. call.at = "record" BY <1>1 DEF TkCall
      <4> QED BY <4>1, <4>2
    <3> HIDE DEF call
    <3>3. tkCall'[c] = call /\ \A d \in TkClients : d # c => tkCall'[d] = tkCall[d]
      BY <3>1, <3>2, GoesShape
    <3>4. tkCall[c].token \in FreshRows /\ \A t \in FreshRows : t = tkCall[c].token
      BY <2>1, <3>1 DEF OneRecorder, FreshRows
    <3>5. FreshRows' = {} BY <3>1, <3>4 DEF FreshRows, TkTypeOK
    <3>6. \A d \in TkClients : tkCall[d].at # "record"
      BY <3>1, <3>4 DEF OneRecorder
    <3> QED BY <3>1, <3>2, <3>3, <3>5, <3>6 DEF OneRecorder, Presented
  <2> QED BY <2>2, <2>3
<1>5. CASE TkRecord(c)
  <2>1. /\ tkCall[c].at = "record" /\ tkRow' = [tkRow EXCEPT ![tkMinted + 1] = "fresh"]
        /\ Goes(c, TkIdle) /\ UNCHANGED <<tkRevoked, tkEnded>>
    BY <1>5 DEF TkRecord, TkReturns
  <2>2. tkCall'[c] = TkIdle /\ \A d \in TkClients : d # c => tkCall'[d] = tkCall[d]
    BY <1>2, <2>1, GoesShape
  <2>3. ASSUME ~tkRevoked
        PROVE  /\ \A t \in FreshRows' : t = tkMinted + 1
               /\ \A d \in TkClients : tkCall'[d].at # "record"
    <3>1. FreshRows = {} BY <2>1, <2>3 DEF OneRecorder
    <3>2. \A t \in FreshRows' : t = tkMinted + 1 BY <2>1, <3>1 DEF FreshRows, TkTypeOK
    <3>3. \A d \in TkClients : tkCall'[d].at # "record"
      BY <1>2, <2>1, <2>2, <2>3 DEF OneRecorder
    <3> QED BY <3>2, <3>3
  <2> QED BY <1>2, <2>1, <2>2, <2>3 DEF OneRecorder, Presented
<1> QED BY <1>3, <1>4, <1>5

\* A revocation, and the clock.
LEMMA RevokeStep ==
    ASSUME TkTypeOK, OneRecorder, TkRevoke \/ \E t \in Ids : TkExpire(t)
    PROVE  OneRecorder'
<1>1. CASE TkRevoke
  <2>1. tkRevoked' /\ tkCall' = tkCall BY <1>1 DEF TkRevoke, Burns
  <2> QED BY <2>1 DEF OneRecorder, Presented
<1>2. CASE \E t \in Ids : TkExpire(t)
  <2>1. FreshRows' = FreshRows /\ UNCHANGED <<tkCall, tkRevoked, tkEnded>> BY <1>2 DEF TkExpire, FreshRows
  <2> QED BY <2>1 DEF OneRecorder, Presented
<1> QED BY <1>1, <1>2

-----------------------------------------------------------------------------
(* Types *)

\* Every step of a call writes a call.
LEMMA CallTypes ==
    ASSUME TkTypeOK, NEW c \in TkClients,
           \/ \E t \in Ids : TkPresent(c, t)
           \/ TkClaim(c) \/ TkSelect(c) \/ TkInsert(c) \/ TkExpireDelete(c)
           \/ TkBurn(c) \/ TkDelete(c) \/ TkCommit(c) \/ TkRollback(c)
           \/ TkDecide(c) \/ TkRecord(c)
    PROVE  tkCall' \in [TkClients -> TkCall]
<1> SUFFICES \E call \in TkCall : Goes(c, call)
  BY GoesShape
<1>1. tkCall[c] \in TkCall BY DEF TkTypeOK
<1>2. TkIdle \in TkCall BY CallShapes
<1>3. ASSUME NEW t \in Ids, TkPresent(c, t) PROVE \E call \in TkCall : Goes(c, call)
  <2>1. (t \in tkExpired) \in BOOLEAN OBVIOUS
  <2>2. [TkIdle EXCEPT !.at = "claim", !.token = t, !.late = t \in tkExpired] \in TkCall
    BY <2>1, CallShapes
  <2> QED BY <1>3, <2>2 DEF TkPresent
<1>4. CASE TkClaim(c)
  <2> DEFINE b == tkRow[tkCall[c].token] = "fresh" /\ ~tkCall[c].late
  <2>1. b \in BOOLEAN BY Zenon
  <2>2. [tkCall[c] EXCEPT !.at = "select", !.claimed = b] \in TkCall BY <1>1, <2>1, CallShapes
  <2> QED BY <1>4, <2>2 DEF TkClaim
<1>5. CASE TkSelect(c)
  <2>1. CASE tkRow[tkCall[c].token] = "absent" BY <1>2, <1>5, <2>1 DEF TkSelect
  <2>2. CASE tkRow[tkCall[c].token] # "absent"
    <3> DEFINE at == IF tkCall[c].claimed THEN "insert"
                     ELSE IF tkRow[tkCall[c].token] = "used" THEN "burn" ELSE "expired"
    <3>1. [tkCall[c] EXCEPT !.at = at] \in TkCall BY <1>1, CallShapes
    <3> QED BY <1>5, <2>2, <3>1 DEF TkSelect
  <2> QED BY <2>1, <2>2
<1>6. CASE TkInsert(c)
  <2>1. [tkCall[c] EXCEPT !.at = "commit", !.child = tkMinted + 1] \in TkCall
    BY <1>1, <1>6, Minted, CallShapes DEF TkInsert
  <2> QED BY <1>6, <2>1 DEF TkInsert
<1>7. CASE TkExpireDelete(c)
  <2>1. {tkCall[c].token} \intersect Stored \in SUBSET Ids BY DEF Stored
  <2>2. [tkCall[c] EXCEPT !.at = "commit", !.sees = {tkCall[c].token} \intersect Stored] \in TkCall
    BY <1>1, <2>1, CallShapes
  <2> QED BY <1>7, <2>2 DEF TkExpireDelete
<1>8. CASE TkBurn(c)
  <2>1. [tkCall[c] EXCEPT !.at = "delete", !.sees = Stored, !.burns = TRUE] \in TkCall
    BY <1>1, CallShapes DEF Stored
  <2> QED BY <1>8, <2>1 DEF TkBurn
<1>9. CASE TkDelete(c)
  <2>1. [tkCall[c] EXCEPT !.at = "commit"] \in TkCall BY <1>1, CallShapes
  <2> QED BY <1>9, <2>1 DEF TkDelete
<1>10. CASE TkCommit(c) \/ TkRollback(c) \/ TkRecord(c)
  BY <1>2, <1>10 DEF TkCommit, TkRollback, TkRecord, TkReturns
<1>11. CASE TkDecide(c)
  <2>1. [tkCall[c] EXCEPT !.at = "record", !.claimed = TRUE] \in TkCall BY <1>1, CallShapes
  <2> QED BY <1>2, <1>11, <2>1 DEF TkDecide, TkReturns
<1> QED BY <1>3, <1>4, <1>5, <1>6, <1>7, <1>8, <1>9, <1>10, <1>11

\* Rows, tokens and flags keep their types.
LEMMA RowTypes ==
    ASSUME TkTypeOK, TkNext
    PROVE  /\ tkRow' \in [Ids -> TkRow] /\ tkMinted' \in Ids /\ tkExpired' \subseteq Ids
           /\ tkTable' = tkTable
           /\ tkRevoked' \in BOOLEAN /\ tkEnded' \in BOOLEAN /\ tkOverlap' \in BOOLEAN
<1> USE DEF TkTypeOK, Steady, OnlyCall
<1>1. ASSUME NEW c \in TkClients,
             \/ \E t \in Ids : TkPresent(c, t)
             \/ TkSelect(c) \/ TkExpireDelete(c) \/ TkDelete(c) \/ TkRollback(c)
      PROVE  OnlyCall
  BY <1>1 DEF TkPresent, TkSelect, TkExpireDelete, TkDelete, TkRollback
<1>2. ASSUME NEW c \in TkClients, TkClaim(c) \/ TkBurn(c)
      PROVE  /\ UNCHANGED <<tkTable, tkRow, tkMinted, tkExpired, tkRevoked, tkEnded>>
             /\ tkOverlap' \in BOOLEAN
  <2>1. tkOverlap' \in BOOLEAN
    <3>1. CASE TkClaim(c) BY <3>1, Zenon DEF TkClaim
    <3>2. CASE TkBurn(c) BY <3>2, Zenon DEF TkBurn
    <3> QED BY <1>2, <3>1, <3>2
  <2> QED BY <1>2, <2>1 DEF TkClaim, TkBurn
<1>3. ASSUME NEW c \in TkClients, TkInsert(c)
      PROVE  /\ tkMinted' \in Ids
             /\ UNCHANGED <<tkTable, tkRow, tkExpired, tkRevoked, tkEnded, tkOverlap>>
  BY <1>3, Minted DEF TkInsert
<1>4. ASSUME NEW c \in TkClients, TkCommit(c)
      PROVE  /\ tkRow' \in [Ids -> TkRow] /\ tkEnded' \in BOOLEAN
             /\ UNCHANGED <<tkTable, tkMinted, tkExpired, tkRevoked, tkOverlap>>
  <2>1. tkEnded' \in BOOLEAN BY <1>4, Zenon DEF TkCommit
  <2>2. tkRow' \in [Ids -> TkRow] BY <1>4 DEF TkCommit, TkRow
  <2> QED BY <1>4, <2>1, <2>2 DEF TkCommit
<1>5. ASSUME NEW c \in TkClients, TkDecide(c)
      PROVE  /\ tkRow' \in [Ids -> TkRow] /\ tkRevoked' \in BOOLEAN /\ tkEnded' \in BOOLEAN
             /\ UNCHANGED <<tkTable, tkMinted, tkExpired, tkOverlap>>
  <2>1. "absent" \in TkRow /\ "used" \in TkRow BY DEF TkRow
  <2>2. [t \in Ids |-> "absent"] \in [Ids -> TkRow] BY <2>1
  <2>3. \A t : \A v \in {"absent", "used"} : [tkRow EXCEPT ![t] = v] \in [Ids -> TkRow] BY <2>1
  <2> QED BY <1>5, <2>2, <2>3 DEF TkDecide, Burns
<1>6. ASSUME NEW c \in TkClients, TkRecord(c)
      PROVE  /\ tkRow' \in [Ids -> TkRow] /\ tkMinted' \in Ids
             /\ UNCHANGED <<tkTable, tkExpired, tkRevoked, tkEnded, tkOverlap>>
  BY <1>6, Minted DEF TkRecord, TkRow
<1>7. ASSUME TkRevoke \/ TkSweep
      PROVE  /\ tkRow' \in [Ids -> TkRow] /\ tkRevoked' \in BOOLEAN /\ tkEnded' \in BOOLEAN
             /\ UNCHANGED <<tkTable, tkMinted, tkExpired, tkOverlap>>
  BY <1>7 DEF TkRevoke, TkSweep, Burns, TkRow
<1>8. ASSUME NEW t \in Ids, TkExpire(t)
      PROVE  /\ tkExpired' \subseteq Ids
             /\ UNCHANGED <<tkTable, tkRow, tkMinted, tkRevoked, tkEnded, tkOverlap>>
  BY <1>8 DEF TkExpire
<1> QED BY <1>1, <1>2, <1>3, <1>4, <1>5, <1>6, <1>7, <1>8 DEF TkNext

\* Every step keeps the types.
LEMMA TypeStep == TkTypeOK /\ [TkNext]_tkVars => TkTypeOK'
<1> SUFFICES ASSUME TkTypeOK, [TkNext]_tkVars PROVE TkTypeOK'
  OBVIOUS
<1>1. CASE UNCHANGED tkVars BY <1>1 DEF tkVars, TkTypeOK
<1>2. CASE TkNext
  <2>1. tkCall' \in [TkClients -> TkCall]
    <3>1. ASSUME TkRevoke \/ TkSweep \/ \E t \in Ids : TkExpire(t) PROVE tkCall' = tkCall
      BY <3>1 DEF TkRevoke, TkSweep, TkExpire
    <3> QED BY <1>2, <3>1, CallTypes DEF TkNext, TkTypeOK
  <2> QED BY <1>2, <2>1, RowTypes DEF TkTypeOK
<1> QED BY <1>1, <1>2

-----------------------------------------------------------------------------

\* The invariant holds initially and is kept.
LEMMA TkInvInit == TkInit => TkIInv
<1> SUFFICES ASSUME TkInit PROVE TkIInv OBVIOUS
<1>1. tkCall \in [TkClients -> TkCall] BY CallShapes DEF TkInit
<1>2. tkRow \in [Ids -> TkRow] BY DEF TkInit, TkRow
<1>3. TkTypeOK BY <1>1, <1>2, TokenIds DEF TkInit, TkTypeOK
<1>4. \A t \in FreshRows : t = 1 BY DEF TkInit, FreshRows
<1>5. \A c \in TkClients : /\ tkCall[c].at = "idle" /\ ~tkCall[c].claimed /\ tkCall[c].child = 0
                          /\ ~tkCall[c].burns
  BY DEF TkInit, TkIdle
<1>6. ~tkEnded /\ ~tkRevoked BY DEF TkInit
<1>7. InTable BY <1>4, <1>5, <1>6 DEF InTable, OneRotation, Burning, Presented
<1>8. OneRecorder BY <1>4, <1>5, <1>6 DEF OneRecorder, Presented
<1> QED BY <1>3, <1>7, <1>8 DEF TkIInv

LEMMA TkInvStep == TkIInv /\ [TkNext]_tkVars => TkIInv'
<1> SUFFICES ASSUME TkIInv, [TkNext]_tkVars PROVE TkIInv' OBVIOUS
<1>1. TkTypeOK /\ TkTypeOK' BY TypeStep DEF TkIInv
<1>2. CASE UNCHANGED tkVars
  BY <1>1, <1>2 DEF tkVars, TkIInv, InTable, OneRotation, Burning, OneRecorder, Presented, FreshRows
<1>3. CASE TkNext /\ tkTable
  <2>1. InTable BY <1>3 DEF TkIInv
  <2>2. tkTable' BY <1>1, <1>3, RowTypes
  <2>3. ~TkRevoke /\ \A c \in TkClients : ~TkDecide(c) /\ ~TkRecord(c)
    BY <1>3, <2>1 DEF TkRevoke, TkDecide, TkRecord, InTable
  <2>4. InTable'
    BY <1>1, <1>3, <2>1, <2>3, ClaimStep, QuietStep, CommitStep, SweepStep DEF TkNext
  <2> QED BY <1>1, <2>2, <2>4 DEF TkIInv
<1>4. CASE TkNext /\ ~tkTable
  <2>1. OneRecorder BY <1>4 DEF TkIInv
  <2>2. ~tkTable' BY <1>1, <1>4, RowTypes
  <2>3. ~TkSweep /\ \A c \in TkClients : ~TkClaim(c) /\ ~TkBurn(c) /\ ~TkRollback(c)
    BY <1>4 DEF TkSweep, TkClaim, TkBurn, TkRollback
  <2>4. \A c \in TkClients :
          ~TkSelect(c) /\ ~TkInsert(c) /\ ~TkExpireDelete(c) /\ ~TkDelete(c) /\ ~TkCommit(c)
    BY <2>1 DEF TkSelect, TkInsert, TkExpireDelete, TkDelete, TkCommit, OneRecorder
  <2>5. OneRecorder'
    BY <1>1, <1>4, <2>1, <2>3, <2>4, MemoryStep, RevokeStep DEF TkNext
  <2> QED BY <1>1, <2>2, <2>5 DEF TkIInv
<1> QED BY <1>2, <1>3, <1>4

LEMMA TkInductive == TkSpec => []TkIInv
  BY TkInvInit, TkInvStep, PTL DEF TkSpec

\* The stores' types hold from start to end.
THEOREM TokenTyping == TkSpec => []TkTypeOK
<1>1. TkIInv => TkTypeOK BY DEF TkIInv
<1> QED BY <1>1, TkInductive, PTL

LEMMA OneHeirNow == TkIInv => OneHeir
<1> SUFFICES ASSUME TkIInv PROVE OneHeir OBVIOUS
<1>1. Usable = IF tkRevoked THEN {} ELSE FreshRows
  BY DEF Usable, Stored, FreshRows
<1>2. tkRevoked \/ \A t, u \in FreshRows : t = u
  BY DEF TkIInv, InTable, OneRotation, OneRecorder
<1>3. Usable = {} \/ \E t : Usable = {t}
  <2>1. CASE tkRevoked BY <1>1, <2>1
  <2>2. CASE ~tkRevoked /\ FreshRows # {}
    <3>1. PICK t : t \in FreshRows BY <2>2
    <3>2. FreshRows = {t} BY <3>1, <1>2, <2>2
    <3> QED BY <3>2, <1>1, <2>2
  <2> QED BY <1>1, <2>1, <2>2
<1>4. Cardinality({}) = 0 /\ \A t : Cardinality({t}) = 1
  BY FS_EmptySet, FS_Singleton
<1>5. Cardinality(Usable) <= 1 BY <1>3, <1>4, 0 <= 1, 1 <= 1
<1>6. tkEnded /\ ~tkOverlap => Usable = {}
  BY <1>1 DEF TkIInv, InTable, Burning, OneRecorder
<1> QED BY <1>5, <1>6 DEF OneHeir

\* refresh.rs: a family has one live token at most, however many clients present
\* whatever token at once, and none after it was burnt, unless a rotation went on
\* beside the burn.
THEOREM OneLiveToken == TkSpec => []OneHeir
  BY OneHeirNow, TkInductive, PTL
=============================================================================
