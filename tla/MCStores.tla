------------------------------ MODULE MCStores ------------------------------
(***************************************************************************)
(* Small instances of what requests share through a key-value store: the   *)
(* bucket of a rate limit, and a user's session records and their index.   *)
(* They share no state; the instance is one of them at a time, and `part`  *)
(* says which.                                                             *)
(***************************************************************************)
EXTENDS RateLimit, SessionStore, TLC

MCSymmetry == Permutations(SsRequests) \union Permutations(SsIds)

VARIABLE part

MCVars == <<part, rlVars, ssVars>>

MCInit == part \in {"rate", "sessions"} /\ RlInit /\ SsInit

MCNext ==
    /\ UNCHANGED part
    /\ \/ part = "rate" /\ RlNext /\ UNCHANGED ssVars
       \/ part = "sessions" /\ SsNext /\ UNCHANGED rlVars

MCSpec == MCInit /\ [][MCNext]_MCVars

\* Buckets, records and indexes have the fields and values the code writes.
StoresTypeOK == RlTypeOK /\ SsTypeOK

\* And no session record is resurrected, lost from its index or left behind.
StoresCoherent == StoresTypeOK /\ SessionsAccounted
=============================================================================
