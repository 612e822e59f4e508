--------------------------- MODULE MCModelRegistry ---------------------------
(* A small instance of ModelRegistry. *)
EXTENDS ModelRegistry

CONSTANTS r1, r2, a1
=============================================================================
