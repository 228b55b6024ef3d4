----------------------------- MODULE MCCreateRun -----------------------------
(* Instances of CreateRun for TLC. *)
EXTENDS CreateRun, TLC

CONSTANTS q1, q2, q3, q4, q5, k1, k2

MCRequests == {q1, q2, q3, q4, q5}
MCKeys == {k1, k2}
\* A client and two retries, another client whose key shares the lock, one without a key.
MCKeyOf == q1 :> k1 @@ q2 :> k1 @@ q3 :> k1 @@ q4 :> k2 @@ q5 :> NoKey
MCHashOf == k1 :> 1 @@ k2 :> 1

Retries == Permutations({q1, q2, q3})
==============================================================================
