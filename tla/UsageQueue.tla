----------------------------- MODULE UsageQueue -----------------------------
(***************************************************************************)
(* BufferedPlugin (internal/usage/buffered_plugin.go) and the persistence  *)
(* it calls (internal/store/usage_events.go).                              *)
(*                                                                         *)
(* Producers are the request goroutines that report a finished upstream    *)
(* call; one run goroutine receives from the bounded channel, collects a   *)
(* batch and writes it; callers of Close end the intake and wait for the   *)
(* goroutine.  The RWMutex is modelled with its writer preference: a Lock  *)
(* that waits keeps new RLocks out.  A pgx batch is one implicit           *)
(* transaction, so its rows appear together or not at all, and an error    *)
(* may follow a commit whose answer was lost.                              *)
(***************************************************************************)
EXTENDS Naturals, Sequences, SequencesExt

CONSTANTS
    Producers, Closers,
    Events,             \* finished upstream calls, each reported once
    Undecodable,        \* events whose principal DecodePrincipal refuses
    OutOfRange,         \* events that usageEventParams refuses
    Keys, KeyOf,        \* KeyOf[e]: a set with the event's API key, or empty
    QueueCapacity, BatchSize

\* main always calls Close.
ASSUME UsageAssumption ==
    /\ Events # {} /\ Closers # {}
    /\ Undecodable \subseteq Events
    /\ OutOfRange \subseteq Events
    /\ KeyOf \in [Events -> SUBSET Keys]
    /\ QueueCapacity \in Nat \ {0}
    /\ BatchSize \in Nat \ {0}

VARIABLES
    producer,   \* [Producers -> what HandleUsage is doing]
    reported,   \* events that have been handed to HandleUsage
    queue,      \* the channel's buffer
    closed,     \* closed flag and closed channel: both change under the lock
    runner,     \* where the run goroutine is
    batch,      \* its local batch
    rows,       \* usage_events, in the order of insertion
    touched,    \* API keys whose last_used_at was ever set
    closer,     \* [Closers -> where Close is]
    accepted,   \* ghost: events sent to the channel, in order
    lost        \* ghost: events of batches that were not written

intakeVars == <<producer, reported, accepted>>
closeVars == <<closer, closed>>
runVars == <<runner, batch, rows, touched, lost>>
vars == <<intakeVars, queue, closeVars, runVars>>

RunnerPC == {"select", "insert", "touch", "finalInsert", "finalTouch", "done", "exited"}
CloserPC == {"new", "lock", "once", "wait", "flushed", "expired"}

\* One type invariant for the whole state.
TypeOK ==
    /\ producer \in [Producers -> [pc : {"idle", "locked", "send"}, event : Events]]
    /\ reported \in SUBSET Events
    /\ queue \in Seq(Events) /\ Len(queue) <= QueueCapacity
    /\ closed \in BOOLEAN
    /\ runner \in RunnerPC
    /\ batch \in Seq(Events) /\ Len(batch) <= BatchSize
    /\ rows \in Seq(Events)
    /\ touched \in SUBSET Keys
    /\ closer \in [Closers -> CloserPC]
    /\ accepted \in Seq(Events)
    /\ lost \in SUBSET Events

SomeEvent == CHOOSE e \in Events : TRUE
NoCall == [pc |-> "idle", event |-> SomeEvent]

Init ==
    /\ producer = [p \in Producers |-> NoCall]
    /\ reported = {}
    /\ queue = <<>>
    /\ closed = FALSE
    /\ runner = "select"
    /\ batch = <<>>
    /\ rows = <<>>
    /\ touched = {}
    /\ closer = [c \in Closers |-> "new"]
    /\ accepted = <<>>
    /\ lost = {}

Returned(p) == [producer EXCEPT ![p] = NoCall]
Alive == runner # "exited"

-----------------------------------------------------------------------------
(* HandleUsage. *)

\* usageEventFromRecord fails: the event is skipped.
HandleSkip(p, e) ==
    /\ Alive /\ producer[p].pc = "idle"
    /\ e \notin reported
    /\ e \in Undecodable
    /\ reported' = reported \cup {e}
    /\ UNCHANGED <<producer, accepted, queue, closeVars, runVars>>

\* mu.RLock, which no Lock, held or waiting, holds up.
HandleRLock(p, e) ==
    /\ Alive /\ producer[p].pc = "idle"
    /\ e \notin reported
    /\ e \notin Undecodable
    /\ \A c \in Closers : closer[c] # "lock"
    /\ reported' = reported \cup {e}
    /\ producer' = [producer EXCEPT ![p] = [pc |-> "locked", event |-> e]]
    /\ UNCHANGED <<accepted, queue, closeVars, runVars>>

\* The closed flag is read: return, or go on to the select.
HandleCheck(p) ==
    /\ Alive /\ producer[p].pc = "locked"
    /\ producer' = IF closed THEN Returned(p) ELSE [producer EXCEPT ![p].pc = "send"]
    /\ UNCHANGED <<reported, accepted, queue, closeVars, runVars>>

\* Deviation: an unconditional append to an unbounded slice.
HandleSend_Unbounded(p) ==
    /\ Alive /\ producer[p].pc = "send"
    /\ queue' = Append(queue, producer[p].event)
    /\ accepted' = Append(accepted, producer[p].event)
    /\ producer' = Returned(p)
    /\ UNCHANGED <<reported, closeVars, runVars>>

\* The channel has room for the event; RUnlock.
HandleSend(p) ==
    /\ Alive /\ producer[p].pc = "send"
    /\ Len(queue) < QueueCapacity
    /\ queue' = Append(queue, producer[p].event)
    /\ accepted' = Append(accepted, producer[p].event)
    /\ producer' = Returned(p)
    /\ UNCHANGED <<reported, closeVars, runVars>>

\* The default branch: the queue is full, the event is dropped; RUnlock.
HandleDrop(p) ==
    /\ Alive /\ producer[p].pc = "send"
    /\ Len(queue) = QueueCapacity
    /\ producer' = Returned(p)
    /\ UNCHANGED <<reported, accepted, queue, closeVars, runVars>>

-----------------------------------------------------------------------------
(* run. *)

\* A receive; a full batch is flushed.
Receive ==
    /\ runner = "select" /\ queue # <<>>
    /\ batch' = Append(batch, Head(queue))
    /\ queue' = Tail(queue)
    /\ runner' = IF Len(batch) + 1 = BatchSize THEN "insert" ELSE "select"
    /\ UNCHANGED <<intakeVars, closeVars, rows, touched, lost>>

\* Deviation: the ticker does not flush a partial batch.
TickerFlush_OnlyFull ==
    /\ runner = "select"
    /\ runner' = IF Len(batch) < BatchSize THEN "select" ELSE "insert"
    /\ UNCHANGED <<intakeVars, queue, closeVars, batch, rows, touched, lost>>

\* The ticker; an empty batch is left alone.
TickerFlush ==
    /\ runner = "select"
    /\ runner' = IF batch = <<>> THEN "select" ELSE "insert"
    /\ UNCHANGED <<intakeVars, queue, closeVars, batch, rows, touched, lost>>

\* Deviation: the goroutine returns without the last flush.
ReceiveClosed_NoFlush ==
    /\ runner = "select" /\ closed /\ queue = <<>>
    /\ runner' = "done"
    /\ UNCHANGED <<intakeVars, queue, closeVars, batch, rows, touched, lost>>

\* Deviation: the closed channel is flushed like an empty receive.
ReceiveClosed_Continues ==
    /\ runner = "select" /\ closed /\ queue = <<>>
    /\ runner' = IF batch = <<>> THEN "select" ELSE "insert"
    /\ UNCHANGED <<intakeVars, queue, closeVars, batch, rows, touched, lost>>

\* The channel is closed and drained: the last flush.
ReceiveClosed ==
    /\ runner = "select" /\ closed /\ queue = <<>>
    /\ runner' = IF batch = <<>> THEN "done" ELSE "finalInsert"
    /\ UNCHANGED <<intakeVars, queue, closeVars, batch, rows, touched, lost>>

Inserting == runner \in {"insert", "finalInsert"}
Touching == runner \in {"touch", "finalTouch"}
AfterInsert == IF runner = "insert" THEN "touch" ELSE "finalTouch"
AfterFlush == IF runner \in {"insert", "touch"} THEN "select" ELSE "done"

InsertBatchOK ==
    /\ Inserting
    /\ ToSet(batch) \cap OutOfRange = {}
    /\ rows' = rows \o batch
    /\ runner' = AfterInsert
    /\ UNCHANGED <<intakeVars, queue, closeVars, batch, touched, lost>>

\* Deviation: the batch is kept for another attempt.
InsertBatchLate_Retried ==
    /\ Inserting
    /\ ToSet(batch) \cap OutOfRange = {}
    /\ rows' = rows \o batch
    /\ UNCHANGED <<intakeVars, queue, closeVars, runner, batch, touched, lost>>

\* The rows were committed but the answer did not arrive in time.
InsertBatchLate ==
    /\ Inserting
    /\ ToSet(batch) \cap OutOfRange = {}
    /\ rows' = rows \o batch
    /\ batch' = <<>>
    /\ runner' = AfterFlush
    /\ UNCHANGED <<intakeVars, queue, closeVars, touched, lost>>

\* An event out of range, or an error of the database: nothing is written,
\* the error is logged and the batch is reset.
InsertBatchFails ==
    /\ Inserting
    /\ lost' = lost \cup ToSet(batch)
    /\ batch' = <<>>
    /\ runner' = AfterFlush
    /\ UNCHANGED <<intakeVars, queue, closeVars, rows, touched>>

\* TouchAPIKeysLastUsed of the distinct keys of the batch, or its failure.
TouchKeys(ok) ==
    /\ Touching
    /\ touched' = IF ok THEN touched \cup UNION {KeyOf[e] : e \in ToSet(batch)}
                  ELSE touched
    /\ batch' = <<>>
    /\ runner' = AfterFlush
    /\ UNCHANGED <<intakeVars, queue, closeVars, rows, lost>>

-----------------------------------------------------------------------------
(* Close. *)

\* once.Do: the first caller asks for the lock, the others wait for it.
CloseOnce(c) ==
    /\ Alive /\ closer[c] = "new"
    /\ closer' = [closer EXCEPT ![c] =
            IF \A d \in Closers : closer[d] \in {"new", "once"} /\ ~closed
            THEN "lock" ELSE "once"]
    /\ UNCHANGED <<intakeVars, queue, closed, runVars>>

\* Deviation: the channel is closed while producers hold the read lock.
CloseChannel_NoLock(c) ==
    /\ Alive /\ closer[c] = "lock"
    /\ closed' = TRUE
    /\ closer' = [closer EXCEPT ![c] = "wait"]
    /\ UNCHANGED <<intakeVars, queue, runVars>>

\* Lock is granted once no producer holds the read lock; closed = true,
\* close(queue) and Unlock happen inside it.
CloseChannel(c) ==
    /\ Alive /\ closer[c] = "lock"
    /\ \A p \in Producers : producer[p].pc = "idle"
    /\ closed' = TRUE
    /\ closer' = [closer EXCEPT ![c] = "wait"]
    /\ UNCHANGED <<intakeVars, queue, runVars>>

\* once.Do returns to a caller that did not run the function.
CloseOnceDone(c) ==
    /\ Alive /\ closer[c] = "once" /\ closed
    /\ closer' = [closer EXCEPT ![c] = "wait"]
    /\ UNCHANGED <<intakeVars, queue, closed, runVars>>

\* <-p.done: Close returns nil.
CloseFlushed(c) ==
    /\ closer[c] = "wait" /\ runner = "done"
    /\ closer' = [closer EXCEPT ![c] = "flushed"]
    /\ UNCHANGED <<intakeVars, queue, closed, runVars>>

\* <-ctx.Done(): Close returns the error of its context.
CloseExpired(c) ==
    /\ Alive /\ closer[c] = "wait"
    /\ closer' = [closer EXCEPT ![c] = "expired"]
    /\ UNCHANGED <<intakeVars, queue, closed, runVars>>

\* main returns after Close; with the process ends whatever is in memory.
Exit ==
    /\ Alive
    /\ \A c \in Closers : closer[c] \in {"flushed", "expired"}
    /\ runner' = "exited"
    /\ lost' = lost \cup (IF Touching THEN {} ELSE ToSet(batch)) \cup ToSet(queue)
    /\ batch' = <<>>
    /\ queue' = <<>>
    /\ UNCHANGED <<intakeVars, closeVars, rows, touched>>

HandleUsage(p) ==
    \/ \E e \in Events : HandleSkip(p, e) \/ HandleRLock(p, e)
    \/ HandleCheck(p)
    \/ HandleSend(p)
    \/ HandleDrop(p)

Insert == InsertBatchOK \/ InsertBatchLate \/ InsertBatchFails
Touch == \E ok \in BOOLEAN : TouchKeys(ok)
Run == Receive \/ TickerFlush \/ ReceiveClosed \/ Insert \/ Touch

Close(c) ==
    \/ CloseOnce(c)
    \/ CloseChannel(c)
    \/ CloseOnceDone(c)
    \/ CloseFlushed(c)
    \/ CloseExpired(c)

Next ==
    \/ \E p \in Producers : HandleUsage(p)
    \/ Run
    \/ \E c \in Closers : Close(c)
    \/ Exit

Spec == Init /\ [][Next]_vars

\* The goroutines are scheduled: a producer that holds the read lock goes on,
\* the run loop takes the cases of its select (the ticker keeps firing), its
\* statements end within usageFlushTimeout, and Close leaves its lock.  Nobody
\* is obliged to call HandleUsage or Close, or to let a context expire.
Fairness ==
    /\ \A p \in Producers : WF_vars(HandleCheck(p) \/ HandleSend(p) \/ HandleDrop(p))
    /\ WF_vars(Receive)
    /\ WF_vars(TickerFlush)
    /\ WF_vars(ReceiveClosed)
    /\ WF_vars(Insert)
    /\ WF_vars(Touch)
    /\ \A c \in Closers : WF_vars(CloseChannel(c) \/ CloseOnceDone(c) \/ CloseFlushed(c))

LiveSpec == Spec /\ Fairness

-----------------------------------------------------------------------------
\* The events of the batch that are not in usage_events yet.
Unwritten == IF Touching THEN <<>> ELSE batch

\* What became of the accepted events, oldest first, and when each was accepted.
Kept == rows \o Unwritten \o queue
Place == AntiFunction(accepted)

(* The channel, the batch and the table together hold every accepted event *)
(* whose batch did not fail, once and in the order of acceptance: nothing  *)
(* is duplicated, reordered or forgotten by a batch boundary, a late       *)
(* answer of the database or the drain at Close.  last_used_at is set only *)
(* for a key one of whose events is in the table.                          *)
Accounting ==
    /\ ToSet(Kept) = ToSet(accepted) \ lost
    /\ \A i, j \in DOMAIN Kept : i < j => Place[Kept[i]] < Place[Kept[j]]
    /\ \A k \in touched : \E e \in ToSet(rows) : k \in KeyOf[e]

(* No producer can be about to send on the closed channel, which would     *)
(* panic in a request goroutine.                                           *)
NoSendOnClosed == \A p \in Producers : producer[p].pc = "send" => ~closed

(* When Close returns nil every accepted event has been written or was in  *)
(* a batch the database or the range check refused.                        *)
CleanClose ==
    (\E c \in Closers : closer[c] = "flushed") =>
        ToSet(accepted) = ToSet(rows) \cup lost

\* Why: the batch is empty or full exactly where run expects it, the channel
\* is closed once, by the one caller that holds the lock, and behind it only
\* what is left is drained.
RunInv ==
    /\ runner = "select" => Len(batch) < BatchSize
    /\ Inserting \/ Touching => batch # <<>>
    /\ Touching => ToSet(batch) \subseteq ToSet(rows)
    /\ runner \in {"finalInsert", "finalTouch", "done", "exited"} => closed /\ queue = <<>>
    /\ runner \in {"done", "exited"} => batch = <<>>

CloseInv ==
    /\ \A c \in Closers : closer[c] = "lock" => ~closed
    /\ \A c, d \in Closers : closer[c] = "lock" /\ closer[d] = "lock" => c = d
    /\ \A c \in Closers : closer[c] \in {"wait", "flushed", "expired"} => closed
    /\ \A c \in Closers : closer[c] = "flushed" => runner \in {"done", "exited"}

\* The accepted events, and the keys that were used, without their order.
HeldInv ==
    /\ ToSet(accepted) = ToSet(rows) \cup ToSet(Unwritten) \cup ToSet(queue) \cup lost
    /\ \A k \in touched : \E e \in ToSet(rows) : k \in KeyOf[e]

(* Close returns, whether or not its context expires: the drain ends       *)
(* although producers go on calling HandleUsage.                           *)
CloseReturns ==
    \A c \in Closers : (closer[c] = "lock") ~> (closer[c] \in {"flushed", "expired"})

-----------------------------------------------------------------------------
(* BufferedPlugin implements the ledger: the buffer is the batch followed  *)
(* by the channel, and usage_events is the table.                          *)
Ledger == INSTANCE UsageLedger WITH
    Bound <- QueueCapacity + BatchSize,
    buffered <- Unwritten \o queue,
    table <- rows,
    open <- ~closed

(* Every step of the plugin is a step of the ledger or changes nothing in  *)
(* it, and the ledger's promise that no event stays buffered is kept.      *)
ImplementsLedger == Ledger!LedgerLive
=============================================================================
