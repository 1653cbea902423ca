---------------------------- MODULE MCJobWorker ----------------------------
(***************************************************************************)
(* A small fleet: w1 polls both queues with two permits and re-queues what *)
(* a drain leaves over, w2 polls one queue with one permit and abandons it.*)
(* The MC definitions put both rows under one serial type, in two queues;  *)
(* the Mixed ones give them different types, one unknown to w2's build.    *)
(***************************************************************************)
EXTENDS JobWorker, TLC

CONSTANTS j1, j2, n1, n2, q1, q2, k1, w1, w2

MCNameOf == j1 :> n1 @@ j2 :> n1
MixedNameOf == j1 :> n1 @@ j2 :> n2
MCQueueOf == j1 :> q1 @@ j2 :> q2
MCKeyOf == j1 :> NoKey @@ j2 :> NoKey
MCPriority == j1 :> 0 @@ j2 :> 0
MCMaxAttempts == j1 :> 2 @@ j2 :> 1
SharedKeyOf == j1 :> k1 @@ j2 :> k1
MCSlots == w1 :> 2 @@ w2 :> 1
MixedSlots == w1 :> 1 @@ w2 :> 1
MCServes == w1 :> <<q1, q2>> @@ w2 :> <<q1>>
MCWeight == q1 :> 2 @@ q2 :> 1
MCKnows == w1 :> {n1} @@ w2 :> {n1}
MixedKnows == w1 :> {n1, n2} @@ w2 :> {n2}
OneQueueOf == j1 :> q1
OneNameOf == j1 :> n1
OneKeyOf == j1 :> NoKey
OnePriority == j1 :> 0
OneMaxAttempts == j1 :> 2
SoloSlots == w1 :> 1
SoloServes == w1 :> <<q1, q2>>
SoloKnows == w1 :> {n1}
TokenSymmetry == Permutations(Tokens)
=============================================================================
