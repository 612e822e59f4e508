--------------------------- MODULE RevisionReload ---------------------------
(***************************************************************************)
(* How a change of the upstream accounts reaches every replica: the        *)
(* encrypted store (internal/store/coreauth_store.go) writes the account   *)
(* and increments a revision in one transaction, and the revision poller   *)
(* of every replica (internal/watcher/revision_poller.go) shuts its        *)
(* process down when the revision differs from the one it read at start.   *)
(*                                                                         *)
(* A row, and the copy of it in a replica's manager, is identified by the  *)
(* revision that wrote it; 0 means no row.  The SDK, outside this          *)
(* repository, loads the accounts with List when the service starts and    *)
(* keeps its manager in step with its own Save and Delete.  MaxWrites      *)
(* bounds the revisions of a behaviour; Earlier is the revision that wrote *)
(* every account before the replicas start, 0 for an empty table.          *)
(***************************************************************************)
EXTENDS Naturals

CONSTANTS Replicas, Accounts, Earlier, MaxWrites

ASSUME ReloadAssumption == MaxWrites \in Nat /\ Earlier \in 0..MaxWrites

VARIABLES
    table,      \* upstream_accounts
    revision,   \* runtime_revisions
    main,       \* the process of every replica
    memory,     \* accounts of its manager
    loadedAt,   \* ghost: the revision its List saw
    poller,     \* where RevisionPoller.Run is
    baseline    \* its local variable

dbVars == <<table, revision>>
vars == <<dbVars, main, memory, loadedAt, poller, baseline>>

Content == [Accounts -> 0..MaxWrites]
NoAccounts == [a \in Accounts |-> 0]

\* One type invariant for the whole state.
TypeOK ==
    /\ table \in Content
    /\ revision \in 0..MaxWrites
    /\ main \in [Replicas -> {"down", "booting", "serving"}]
    /\ memory \in [Replicas -> Content]
    /\ loadedAt \in [Replicas -> 0..MaxWrites]
    /\ poller \in [Replicas -> {"start", "polling", "jitter", "ended"}]
    /\ baseline \in [Replicas -> 0..MaxWrites]

Init ==
    /\ table = [a \in Accounts |-> Earlier]
    /\ revision = Earlier
    /\ main = [r \in Replicas |-> "down"]
    /\ memory = [r \in Replicas |-> NoAccounts]
    /\ loadedAt = [r \in Replicas |-> 0]
    /\ poller = [r \in Replicas |-> "ended"]
    /\ baseline = [r \in Replicas |-> 0]

-----------------------------------------------------------------------------
(* The process. *)

\* main starts the poller's goroutine before the service loads the accounts.
Boot(r) ==
    /\ main[r] = "down"
    /\ main' = [main EXCEPT ![r] = "booting"]
    /\ poller' = [poller EXCEPT ![r] = "start"]
    /\ UNCHANGED <<dbVars, memory, loadedAt, baseline>>

\* CoreAuthStore.List, called by the manager of the SDK.
List(r) ==
    /\ main[r] = "booting"
    /\ memory' = [memory EXCEPT ![r] = table]
    /\ loadedAt' = [loadedAt EXCEPT ![r] = revision]
    /\ main' = [main EXCEPT ![r] = "serving"]
    /\ UNCHANGED <<dbVars, poller, baseline>>

\* The process ends: a deployment, a crash, or shutdown called by the poller.
Stopped(r) ==
    /\ main' = [main EXCEPT ![r] = "down"]
    /\ memory' = [memory EXCEPT ![r] = NoAccounts]
    /\ poller' = [poller EXCEPT ![r] = "ended"]
    /\ loadedAt' = [loadedAt EXCEPT ![r] = 0]
    /\ baseline' = [baseline EXCEPT ![r] = 0]
    /\ UNCHANGED dbVars

Stop(r) == main[r] # "down" /\ Stopped(r)

-----------------------------------------------------------------------------
(* CoreAuthStore.Save and Delete. *)

\* Deviation: the revision is incremented by Save only.
Write_DeleteKeepsRevision(r, a, content, answered) ==
    /\ main[r] = "serving"
    /\ revision < MaxWrites
    /\ table' = [table EXCEPT ![a] = content]
    /\ revision' = IF content = 0 THEN revision ELSE revision + 1
    /\ memory' = IF answered THEN [memory EXCEPT ![r][a] = content] ELSE memory
    /\ UNCHANGED <<main, loadedAt, poller, baseline>>

\* The transaction: the row, the revision and the audit record.  When the
\* answer of the commit is lost the manager does not take the change over.
Write(r, a, content, answered) ==
    /\ main[r] = "serving"
    /\ revision < MaxWrites
    /\ table' = [table EXCEPT ![a] = content]
    /\ revision' = revision + 1
    /\ memory' = IF answered THEN [memory EXCEPT ![r][a] = content] ELSE memory
    /\ UNCHANGED <<main, loadedAt, poller, baseline>>

Save(r, a, answered) == Write(r, a, revision + 1, answered)

Delete(r, a, answered) == Write(r, a, 0, answered)

\* The transaction is rolled back.
WriteError(r) == main[r] = "serving" /\ UNCHANGED vars

-----------------------------------------------------------------------------
(* RevisionPoller.Run. *)

\* Deviation: the poller starts from zero.
ReadBaseline_Zero(r) ==
    /\ poller[r] = "start"
    /\ poller' = [poller EXCEPT ![r] = "polling"]
    /\ UNCHANGED <<dbVars, main, memory, loadedAt, baseline>>

ReadBaseline(r) ==
    /\ poller[r] = "start"
    /\ baseline' = [baseline EXCEPT ![r] = revision]
    /\ poller' = [poller EXCEPT ![r] = "polling"]
    /\ UNCHANGED <<dbVars, main, memory, loadedAt>>

\* The first read fails: the poller returns and nobody starts it again.
BaselineError(r) ==
    /\ poller[r] = "start"
    /\ poller' = [poller EXCEPT ![r] = "ended"]
    /\ UNCHANGED <<dbVars, main, memory, loadedAt, baseline>>

\* A tick that finds the baseline, or fails.
PollUnchanged(r) ==
    /\ poller[r] = "polling"
    /\ UNCHANGED vars

\* Deviation: only a jump of more than one revision is taken for a change.
PollChanged_Jump(r) ==
    /\ poller[r] = "polling"
    /\ revision > baseline[r] + 1
    /\ poller' = [poller EXCEPT ![r] = "jitter"]
    /\ UNCHANGED <<dbVars, main, memory, loadedAt, baseline>>

\* A tick that finds another revision.
PollChanged(r) ==
    /\ poller[r] = "polling"
    /\ revision # baseline[r]
    /\ poller' = [poller EXCEPT ![r] = "jitter"]
    /\ UNCHANGED <<dbVars, main, memory, loadedAt, baseline>>

\* The delay is over: shutdown, whoever wrote the change.
Shutdown(r) == poller[r] = "jitter" /\ Stopped(r)

Poll(r) ==
    \/ ReadBaseline(r)
    \/ BaselineError(r)
    \/ PollUnchanged(r)
    \/ PollChanged(r)
    \/ Shutdown(r)

Next ==
    \E r \in Replicas :
        \/ Boot(r)
        \/ List(r)
        \/ Stop(r)
        \/ \E a \in Accounts, answered \in BOOLEAN :
                Save(r, a, answered) \/ Delete(r, a, answered)
        \/ WriteError(r)
        \/ Poll(r)

Spec == Init /\ [][Next]_vars

-----------------------------------------------------------------------------
Stale(r) == main[r] = "serving" /\ memory[r] # table

\* The poller of r cannot notice a change made before it read its baseline.
Blind(r) ==
    /\ main[r] = "serving"
    /\ \/ poller[r] = "ended"
       \/ poller[r] = "polling" /\ baseline[r] > loadedAt[r]

(* A replica serves outdated accounts unnoticed only if its poller gave up *)
(* on the first read or read its baseline after the accounts were loaded:  *)
(* in every other interleaving of writers, loads and polls, lost answers   *)
(* included, the next tick finds a revision that differs.                  *)
StaleIsNoticed ==
    \A r \in Replicas :
        Stale(r) /\ ~Blind(r) /\ poller[r] = "polling" => revision # baseline[r]

\* Why: the accounts of a replica that serves are those of the table for as
\* long as nobody has written since they were loaded.
LoadInv ==
    \A r \in Replicas : main[r] = "serving" =>
        /\ loadedAt[r] <= revision
        /\ loadedAt[r] = revision => memory[r] = table

(* A stale replica reloads, unless it is blind.                            *)
StaleIsReloaded ==
    \A r \in Replicas : Stale(r) ~> (Blind(r) \/ ~Stale(r))

(* One change restarts every replica, the one that made it included, but   *)
(* once the writes are over the restarts end.                              *)
RestartsStop == \A r \in Replicas : <>[](poller[r] # "jitter")
=============================================================================
