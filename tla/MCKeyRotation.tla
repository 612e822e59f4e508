---------------------------- MODULE MCKeyRotation ----------------------------
(* Small instance of KeyRotation; pods and credentials are symmetric. *)
EXTENDS KeyRotation, TLC

CONSTANTS r1, r2, r3, a1, a2

Symmetric == Permutations(Pods) \cup Permutations(Credentials)
=============================================================================
