--------------------------- MODULE MCModelSelector ---------------------------
(* Small instances of ModelSelector: two aliases, two calls of Pick. *)
EXTENDS ModelSelector, TLC

CONSTANTS c1, c2, m1, m2, p1, p2

MCModels == <<m1, m2>>
MCRequests == {<<m1, p1>>, <<m2, p1>>}

\* The callers are interchangeable.
Symmetric == Permutations({c1, c2})
=============================================================================
