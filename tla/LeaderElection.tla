--------------------------- MODULE LeaderElection ---------------------------
(***************************************************************************)
(* The leader that cleans up expired sessions (internal/watcher/leader.go  *)
(* and session_cleanup.go) and the part of cmd/cliproxy/main.go that ends  *)
(* a replica.                                                              *)
(*                                                                         *)
(* The lock is a session-level advisory lock: it belongs to the database   *)
(* session of one pooled connection and goes with it.  A lock whose client *)
(* is gone, or cannot be reached any more, is an orphan until PostgreSQL   *)
(* notices.  MaxFaults bounds the crashes, lost connections, failed        *)
(* services and shutdowns of a behaviour.                                  *)
(***************************************************************************)
EXTENDS Naturals

CONSTANTS Replicas, MaxFaults

ASSUME LeaderAssumption ==
    /\ Replicas \cap {"free", "orphan"} = {}
    /\ MaxFaults \in Nat

VARIABLES
    lock,       \* PostgreSQL: "free", "orphan", or the replica whose lease has it
    conn,       \* the pooled connection of the replica's lease
    runner,     \* where LeaderRunner.Run is
    cancelled,  \* the context of the process is done
    main,       \* "running", "closing" (waits in dbPool.Close) or "exited"
    backlog,    \* the sessions table holds expired rows
    faults

vars == <<lock, conn, runner, cancelled, main, backlog, faults>>

RunnerPC == {"try", "wait", "job", "release", "ended"}

\* One type invariant for the whole state.
TypeOK ==
    /\ lock \in {"free", "orphan"} \cup Replicas
    /\ conn \in [Replicas -> {"none", "up", "down"}]
    /\ runner \in [Replicas -> RunnerPC]
    /\ cancelled \in [Replicas -> BOOLEAN]
    /\ main \in [Replicas -> {"running", "closing", "exited"}]
    /\ backlog \in BOOLEAN
    /\ faults \in 0..MaxFaults

Init ==
    /\ lock = "free"
    /\ conn = [r \in Replicas |-> "none"]
    /\ runner = [r \in Replicas |-> "try"]
    /\ cancelled = [r \in Replicas |-> FALSE]
    /\ main = [r \in Replicas |-> "running"]
    /\ backlog = FALSE
    /\ faults = 0

Alive(r) == main[r] # "exited"
Fault == faults < MaxFaults /\ faults' = faults + 1
Goto(r, pc) == runner' = [runner EXCEPT ![r] = pc]

-----------------------------------------------------------------------------
(* LeaderRunner.Run. *)

\* ctx.Err() at the top of the loop.
LoopCancelled(r) ==
    /\ Alive(r) /\ runner[r] = "try" /\ cancelled[r]
    /\ Goto(r, "ended")
    /\ UNCHANGED <<lock, conn, cancelled, main, backlog, faults>>

\* Deviation: the answer of pg_try_advisory_lock is not looked at.
TryLock_IgnoresAnswer(r) ==
    /\ main[r] = "running" /\ runner[r] = "try" /\ ~cancelled[r]
    /\ lock' = r
    /\ conn' = [conn EXCEPT ![r] = "up"]
    /\ Goto(r, "job")
    /\ UNCHANGED <<cancelled, main, backlog, faults>>

\* pg_try_advisory_lock returned true: the lease keeps the connection.
TryLock(r) ==
    /\ main[r] = "running" /\ runner[r] = "try" /\ ~cancelled[r]
    /\ lock = "free"
    /\ lock' = r
    /\ conn' = [conn EXCEPT ![r] = "up"]
    /\ Goto(r, "job")
    /\ UNCHANGED <<cancelled, main, backlog, faults>>

\* Deviation: a replica that loses the first election does not try again.
TryLockBusy_GivesUp(r) ==
    /\ Alive(r) /\ runner[r] = "try"
    /\ lock # "free"
    /\ Goto(r, "ended")
    /\ UNCHANGED <<lock, conn, cancelled, main, backlog, faults>>

\* It returned false: the connection goes back to the pool.
TryLockBusy(r) ==
    /\ Alive(r) /\ runner[r] = "try"
    /\ lock # "free"
    /\ Goto(r, "wait")
    /\ UNCHANGED <<lock, conn, cancelled, main, backlog, faults>>

\* No connection (the pool is closed), or the query failed.
TryLockError(r) ==
    /\ Alive(r) /\ runner[r] = "try"
    /\ Goto(r, "wait")
    /\ UNCHANGED <<lock, conn, cancelled, main, backlog, faults>>

\* The lock was granted, but the answer did not arrive: the broken connection
\* is dropped and its session has the lock until PostgreSQL ends it.
TryLockAnswerLost(r) ==
    /\ Fault
    /\ main[r] = "running" /\ runner[r] = "try" /\ ~cancelled[r]
    /\ lock = "free"
    /\ lock' = "orphan"
    /\ Goto(r, "wait")
    /\ UNCHANGED <<conn, cancelled, main, backlog>>

\* waitForRetry: the timer, or the end of the context.
WaitForRetry(r) ==
    /\ Alive(r) /\ runner[r] = "wait"
    /\ \/ Goto(r, "try")
       \/ cancelled[r] /\ Goto(r, "ended")
    /\ UNCHANGED <<lock, conn, cancelled, main, backlog, faults>>

\* SessionCleanup: DeleteExpired at once and at every tick.
Cleanup(r) ==
    /\ main[r] = "running" /\ runner[r] = "job" /\ ~cancelled[r]
    /\ backlog' = FALSE
    /\ UNCHANGED <<lock, conn, runner, cancelled, main, faults>>

\* DeleteExpired fails; the error is logged and the next tick tries again.
CleanupError(r) ==
    /\ Alive(r) /\ runner[r] = "job"
    /\ UNCHANGED vars

\* The job returns when its context is done.
JobReturns(r) ==
    /\ Alive(r) /\ runner[r] = "job" /\ cancelled[r]
    /\ Goto(r, "release")
    /\ UNCHANGED <<lock, conn, cancelled, main, backlog, faults>>

\* Deviation: the connection is not returned to the pool.
Release_Leaks(r) ==
    /\ Alive(r) /\ runner[r] = "release"
    /\ lock' = IF conn[r] = "up" THEN "free" ELSE lock
    /\ Goto(r, "wait")
    /\ UNCHANGED <<conn, cancelled, main, backlog, faults>>

\* Deviation: the lease keeps its closed connection.
Release_KeepsClosed(r) ==
    /\ Alive(r) /\ runner[r] = "release"
    /\ lock' = IF conn[r] = "up" THEN "free" ELSE lock
    /\ conn' = [conn EXCEPT ![r] = "closed"]
    /\ Goto(r, "wait")
    /\ UNCHANGED <<cancelled, main, backlog, faults>>

\* pg_advisory_unlock in the session of the lease; a dead connection is
\* closed, which leaves the lock of another session alone.
Release(r) ==
    /\ Alive(r) /\ runner[r] = "release"
    /\ lock' = IF conn[r] = "up" THEN "free" ELSE lock
    /\ conn' = [conn EXCEPT ![r] = "none"]
    /\ Goto(r, "wait")
    /\ UNCHANGED <<cancelled, main, backlog, faults>>

\* The unlock fails or times out: the connection is closed instead.
ReleaseError(r) ==
    /\ Fault
    /\ Alive(r) /\ runner[r] = "release" /\ conn[r] = "up"
    /\ lock' = "orphan"
    /\ conn' = [conn EXCEPT ![r] = "none"]
    /\ Goto(r, "wait")
    /\ UNCHANGED <<cancelled, main, backlog>>

-----------------------------------------------------------------------------
(* main. *)

\* SIGTERM, or stop called by the revision poller: service.Run returns, the
\* service and the usage plugin are shut down and dbPool.Close is reached.
Terminate(r) ==
    /\ Fault
    /\ main[r] = "running"
    /\ cancelled' = [cancelled EXCEPT ![r] = TRUE]
    /\ main' = [main EXCEPT ![r] = "closing"]
    /\ UNCHANGED <<lock, conn, runner, backlog>>

\* SIGTERM while main already waits in dbPool.Close.
TerminateAgain(r) ==
    /\ Fault
    /\ main[r] = "closing"
    /\ cancelled' = [cancelled EXCEPT ![r] = TRUE]
    /\ UNCHANGED <<lock, conn, runner, main, backlog>>

\* service.Run or Build returns an error: run returns and its deferred calls
\* run in reverse order, dbPool.Close before stop.
ServiceFails(r) ==
    /\ Fault
    /\ main[r] = "running"
    /\ main' = [main EXCEPT ![r] = "closing"]
    /\ UNCHANGED <<lock, conn, runner, cancelled, backlog>>

\* dbPool.Close returns once every connection is back; the process ends.
PoolClosed(r) ==
    /\ main[r] = "closing"
    /\ conn[r] = "none"
    /\ main' = [main EXCEPT ![r] = "exited"]
    /\ runner' = [runner EXCEPT ![r] = "ended"]
    /\ UNCHANGED <<lock, conn, cancelled, backlog, faults>>

-----------------------------------------------------------------------------
(* The environment. *)

\* The process is killed.
Crash(r) ==
    /\ Fault
    /\ Alive(r)
    /\ lock' = IF lock = r THEN "orphan" ELSE lock
    /\ conn' = [conn EXCEPT ![r] = "none"]
    /\ runner' = [runner EXCEPT ![r] = "ended"]
    /\ main' = [main EXCEPT ![r] = "exited"]
    /\ UNCHANGED <<cancelled, backlog>>

\* Kubernetes starts the replica again.
Start(r) ==
    /\ main[r] = "exited"
    /\ main' = [main EXCEPT ![r] = "running"]
    /\ runner' = [runner EXCEPT ![r] = "try"]
    /\ cancelled' = [cancelled EXCEPT ![r] = FALSE]
    /\ UNCHANGED <<lock, conn, backlog, faults>>

\* The connection of the lease breaks; the job does not learn of it.
ConnectionLost(r) ==
    /\ Fault
    /\ conn[r] = "up"
    /\ conn' = [conn EXCEPT ![r] = "down"]
    /\ lock' = "orphan"
    /\ UNCHANGED <<runner, cancelled, main, backlog>>

\* PostgreSQL ends the session of an orphaned lock.
ServerReaps ==
    /\ lock = "orphan"
    /\ lock' = "free"
    /\ UNCHANGED <<conn, runner, cancelled, main, backlog, faults>>

\* A session in the table expires.
Lapse ==
    /\ ~backlog
    /\ backlog' = TRUE
    /\ UNCHANGED <<lock, conn, runner, cancelled, main, faults>>

Run(r) ==
    \/ LoopCancelled(r)
    \/ TryLock(r)
    \/ TryLockBusy(r)
    \/ TryLockError(r)
    \/ TryLockAnswerLost(r)
    \/ WaitForRetry(r)
    \/ Cleanup(r)
    \/ CleanupError(r)
    \/ JobReturns(r)
    \/ Release(r)
    \/ ReleaseError(r)

Lifecycle(r) ==
    \/ Terminate(r)
    \/ TerminateAgain(r)
    \/ ServiceFails(r)
    \/ PoolClosed(r)
    \/ Crash(r)
    \/ Start(r)

Next ==
    \/ \E r \in Replicas : Run(r) \/ Lifecycle(r) \/ ConnectionLost(r)
    \/ ServerReaps
    \/ Lapse

Spec == Init /\ [][Next]_vars

\* Goroutines are scheduled and timers fire; PostgreSQL ends dead sessions and
\* does not refuse every query for ever; the deployment restarts replicas.
Fairness ==
    /\ \A r \in Replicas :
        /\ WF_vars(LoopCancelled(r) \/ TryLockBusy(r))
        /\ SF_vars(TryLock(r))
        /\ WF_vars(WaitForRetry(r))
        /\ WF_vars(Cleanup(r))
        /\ WF_vars(JobReturns(r))
        /\ WF_vars(Release(r))
        /\ WF_vars(PoolClosed(r))
        /\ WF_vars(Start(r))
    /\ WF_vars(ServerReaps)

LiveSpec == Spec /\ Fairness

-----------------------------------------------------------------------------
Leading(r) == runner[r] = "job"

(* Two replicas run the job at the same time only if one of them has lost  *)
(* the connection of its lease: crashes, failed unlocks, lost answers and  *)
(* restarts alone never make two leaders.                                  *)
Exclusion ==
    \A r, s \in Replicas :
        Leading(r) /\ Leading(s) /\ r # s => "down" \in {conn[r], conn[s]}

\* dbPool.Close waits for a lease that no cancellation will end.
Hung(r) == main[r] = "closing" /\ ~cancelled[r] /\ conn[r] # "none"

(* Expired rows are deleted eventually, whichever replicas crash, lose     *)
(* their connection or are stopped: a lock that is left behind is taken    *)
(* over, unless the leader hangs in dbPool.Close with its lock.            *)
CleanupHappens == backlog ~> (~backlog \/ \E r \in Replicas : Hung(r))

(* A replica that was told to stop ends: the leader gives its connection   *)
(* back, dead or alive, and dbPool.Close returns.                          *)
ShutdownCompletes ==
    \A r \in Replicas : (main[r] = "closing" /\ cancelled[r]) ~> (main[r] = "exited")

(* docs/architecture.md, line 512: a leader that fails gives up its lock,  *)
(* and the next pod takes it.  After an error of the service it does not:  *)
(* the pool is closed before the context that the leader waits for is      *)
(* cancelled, so its process never exits.                                  *)
EveryShutdownCompletes ==
    \A r \in Replicas : (main[r] = "closing") ~> (main[r] = "exited")

\* What makes Exclusion inductive: a live lease is backed by the lock.
LeaseInv ==
    /\ \A r \in Replicas : conn[r] = "up" => lock = r
    /\ \A r \in Replicas : runner[r] \in {"job", "release"} => conn[r] # "none"
=============================================================================
