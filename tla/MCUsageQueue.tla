---------------------------- MODULE MCUsageQueue ----------------------------
(***************************************************************************)
(* Small instances of UsageQueue: a channel of two events and batches of   *)
(* two, so that the queue fills, a batch fills, a ticker flushes a partial *)
(* batch and the drain at Close starts with work in both.                  *)
(***************************************************************************)
EXTENDS UsageQueue

CONSTANTS p1, p2, c1, c2, e1, e2, e3, e4, e5, k1, k2

MCKeyOf == [e \in Events |-> IF e = e1 THEN {} ELSE IF e = e2 THEN {k1} ELSE {k2}]
=============================================================================
