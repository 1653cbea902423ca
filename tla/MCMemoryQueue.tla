--------------------------- MODULE MCMemoryQueue ---------------------------
(***************************************************************************)
(* A small instance of MemoryQueue: three rows, of which j1 and j2 share a *)
(* unique key and j2 and j3 are of one serial type on two queues.          *)
(***************************************************************************)
EXTENDS MemoryQueue, TLC

CONSTANTS j1, j2, j3, n1, n2, q1, q2, k1

MCJobs == {j1, j2, j3}
MCNameOf == j1 :> n1 @@ j2 :> n2 @@ j3 :> n2
MCQueueOf == j1 :> q1 @@ j2 :> q1 @@ j3 :> q2
MCKeyOf == j1 :> k1 @@ j2 :> k1 @@ j3 :> NoKey
MCPriority == j1 :> 0 @@ j2 :> 1 @@ j3 :> 0
MCMaxAttempts == j1 :> 2 @@ j2 :> 1 @@ j3 :> 2
TokenSymmetry == Permutations(Tokens)
=============================================================================
