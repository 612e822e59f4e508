----------------------------- MODULE UsageLedger -----------------------------
(***************************************************************************)
(* What the asynchronous usage writer promises: a bounded first-in         *)
(* first-out buffer whose oldest events leave it in batches.  A batch is   *)
(* written to usage_events as a whole or lost as a whole; no event is      *)
(* written twice, and the order of arrival survives.                       *)
(***************************************************************************)
EXTENDS Naturals, Sequences

CONSTANTS Events, Bound, BatchSize

VARIABLES
    buffered,   \* accepted and neither written nor lost, oldest first
    table,      \* rows of usage_events, in the order of insertion
    open        \* events are still accepted

ledgerVars == <<buffered, table, open>>

LedgerInit ==
    /\ buffered = <<>>
    /\ table = <<>>
    /\ open = TRUE

Accept(e) ==
    /\ open
    /\ Len(buffered) < Bound
    /\ buffered' = Append(buffered, e)
    /\ UNCHANGED <<table, open>>

Behind(n) == SubSeq(buffered, n + 1, Len(buffered))

Write(n) ==
    /\ table' = table \o SubSeq(buffered, 1, n)
    /\ buffered' = Behind(n)
    /\ UNCHANGED open

Lose(n) ==
    /\ buffered' = Behind(n)
    /\ UNCHANGED <<table, open>>

\* The n oldest events leave together.
Settle == \E n \in 1..BatchSize : n <= Len(buffered) /\ (Write(n) \/ Lose(n))

Shut ==
    /\ open
    /\ open' = FALSE
    /\ UNCHANGED <<buffered, table>>

\* The process ends after Shut; what is still buffered is lost.
Abandon ==
    /\ ~open
    /\ buffered' = <<>>
    /\ UNCHANGED <<table, open>>

LedgerNext == (\E e \in Events : Accept(e)) \/ Settle \/ Shut \/ Abandon

LedgerSpec == LedgerInit /\ [][LedgerNext]_ledgerVars

\* No event stays in the buffer for ever.
LedgerLive == LedgerSpec /\ WF_ledgerVars(Settle)
=============================================================================
