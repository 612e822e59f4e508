-------------------------- MODULE MCLeaderElection --------------------------
(* Small instances of LeaderElection. *)
EXTENDS LeaderElection

CONSTANTS r1, r2, r3
=============================================================================
