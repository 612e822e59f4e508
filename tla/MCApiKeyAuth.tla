---------------------------- MODULE MCApiKeyAuth ----------------------------
(***************************************************************************)
(* Small instances of ApiKeyAuth: replicas r1 (two goroutines) and r2 (one *)
(* goroutine), one user, and keys that share one prefix.                   *)
(***************************************************************************)
EXTENDS ApiKeyAuth, TLC

CONSTANTS r1, r2, w1, w2, w3, u1, k1, k2, p1

MCHost == [w \in Workers |-> IF w = w3 THEN r2 ELSE r1]

\* The goroutines of r1 are interchangeable.
Symmetric == Permutations({w1, w2})

MCOwner == [k \in Keys |-> u1]
MCPrefix == [k \in Keys |-> p1]
MCActiveSource == [r \in Replicas |-> "ldap"]
MCIdentitySource == [u \in Users |-> "ldap"]
MCValidUntil == [k \in Expiring |-> 1]
=============================================================================
