---------------------------- MODULE MCRedisQueue ----------------------------
(***************************************************************************)
(* Small instances of RedisQueue: one to three rows, two calls in flight.  *)
(* The runs differ in what the rows share (a serial type, a unique key, or *)
(* nothing but two priorities) and in what may go wrong.                   *)
(***************************************************************************)
EXTENDS RedisQueue, TLC

CONSTANTS j1, j2, j3, n1, n2, k1

NoName == {}
AllKeyed == [j \in Jobs |-> k1]
NoneKeyed == [j \in Jobs |-> NoKey]
OneName == [j \in Jobs |-> n1]
\* j1 and j2 are of one serial type, j1 and j3 of one unique key.
LastOther == [j \in Jobs |-> IF j = j3 THEN n2 ELSE n1]
EndsKeyed == [j \in Jobs |-> IF j = j2 THEN NoKey ELSE k1]
Normal == [j \in Jobs |-> 0]
SomeHigh == [j \in Jobs |-> IF j = j1 THEN 10 ELSE 0]
SomeLow == [j \in Jobs |-> IF j = j1 THEN -10 ELSE 0]
OneAttempt == [j \in Jobs |-> 1]
MixedAttempts == [j \in Jobs |-> IF j = j1 THEN 2 ELSE 1]
TwoAttempts == [j \in Jobs |-> 2]

WorkerOps == {"push", "pull", "ack", "nack", "heartbeat", "reclaim"}
Buries == WorkerOps \union {"nack dead", "discard"}
NoCancel == Buries \union {"retry"}
AllOps == NoCancel \union {"cancel"}

TokenSymmetry == Permutations(Tokens)
=============================================================================
