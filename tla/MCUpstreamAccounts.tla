-------------------------- MODULE MCUpstreamAccounts --------------------------
(* A small instance of UpstreamAccounts: one identity written in two ways. *)
EXTENDS UpstreamAccounts, TLC

CONSTANTS r1, r2, w1, w2, lower, upper, k1, k2

MCHost == w1 :> r1 @@ w2 :> r2
MCFold == lower :> lower @@ upper :> lower
MCBatch == <<k1, k2>>
=============================================================================
