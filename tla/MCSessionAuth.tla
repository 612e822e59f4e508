---------------------------- MODULE MCSessionAuth ----------------------------
(***************************************************************************)
(* Small instances of SessionAuth: two goroutines of replica r1 that serve *)
(* every request, and one of replica r2 that ends sessions, so that r1     *)
(* meets changes made elsewhere.                                           *)
(***************************************************************************)
EXTENDS SessionAuth, TLC

CONSTANTS r1, r2, w1, w2, w3, u1, t1

MCHost == [w \in Workers |-> IF w = w3 THEN r2 ELSE r1]

MCServes == [w \in Workers |->
                {"logout", "status"} \cup (IF w = w3 THEN {} ELSE {"login", "lookup"})]

\* The goroutines of r1 are interchangeable.
Symmetric == Permutations({w1, w2})
=============================================================================
