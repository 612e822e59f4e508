---------------------------- MODULE ModelRegistry ----------------------------
(***************************************************************************)
(* The mirror of the model registry (internal/modelregistry/hook.go and    *)
(* internal/store/model_registry_snapshots.go) composed with the accounts  *)
(* and the restarts of RevisionReload.  Every account in the manager of a  *)
(* replica is a client of its model registry; the SDK calls the hook when  *)
(* a client comes or goes, and the hook writes the one row that all        *)
(* replicas share.                                                         *)
(*                                                                         *)
(* The SDK, outside this repository, promises no order between the calls,  *)
(* and the hook only logs an error.  The models of an account are those of *)
(* its provider: a snapshot is there or it is not.                         *)
(***************************************************************************)
EXTENDS RevisionReload

VARIABLES
    snapshots,  \* model_registry_snapshots
    hooks,      \* calls of the hook every replica has not finished
    mirrored    \* ghost: "exactly" until a write overlaps a call or has none,
                \* or a call is lost; "failed" once a call failed

mirrorVars == <<snapshots, hooks, mirrored>>
allVars == <<vars, mirrorVars>>

Calls == {"register", "unregister"} \X Accounts
Present == {a \in Accounts : table[a] # 0}

\* The type invariant of RevisionReload and of the mirror.
RegistryTypeOK ==
    /\ TypeOK
    /\ snapshots \subseteq Accounts
    /\ hooks \in [Replicas -> SUBSET Calls]
    /\ mirrored \in {"exactly", "roughly", "failed"}

RegistryInit ==
    /\ Init
    /\ snapshots = Present
    /\ hooks = [r \in Replicas |-> {}]
    /\ mirrored = "exactly"

-----------------------------------------------------------------------------
(* What the operations of RevisionReload do to the registry. *)

Started(r) == Boot(r) /\ UNCHANGED mirrorVars

\* Deviation: only an account that is new to the table is registered.
Listed_NewOnly(r) ==
    /\ List(r)
    /\ UNCHANGED mirrorVars

\* The accounts of a replica become its clients.
Listed(r) ==
    /\ List(r)
    /\ hooks' = [hooks EXCEPT ![r] = {<<"register", a>> : a \in Present}]
    /\ UNCHANGED <<snapshots, mirrored>>

Disturbed(by) == mirrored' = IF by /\ mirrored = "exactly" THEN "roughly" ELSE mirrored
Overlaps(a) == \E r \in Replicas, k \in {"register", "unregister"} : <<k, a>> \in hooks[r]

Saved(r, a, answered) ==
    /\ Save(r, a, answered)
    /\ hooks' = IF answered THEN [hooks EXCEPT ![r] = @ \cup {<<"register", a>>}] ELSE hooks
    /\ Disturbed(Overlaps(a) \/ ~answered)
    /\ UNCHANGED snapshots

\* The client goes, if this replica had it.
Deleted(r, a, answered) ==
    LET registered == answered /\ memory[r][a] # 0
    IN  /\ Delete(r, a, answered)
        /\ hooks' = IF registered THEN [hooks EXCEPT ![r] = @ \cup {<<"unregister", a>>}] ELSE hooks
        /\ Disturbed(Overlaps(a) \/ (~registered /\ table[a] # 0))
        /\ UNCHANGED snapshots

\* The process ends and takes its unfinished calls with it.
Ended(r) ==
    /\ Stop(r) \/ Shutdown(r)
    /\ hooks' = [hooks EXCEPT ![r] = {}]
    /\ Disturbed(hooks[r] # {})
    /\ UNCHANGED snapshots

Unsaved(r) == WriteError(r) /\ UNCHANGED mirrorVars

Polled(r) ==
    /\ ReadBaseline(r) \/ BaselineError(r) \/ PollUnchanged(r) \/ PollChanged(r)
    /\ UNCHANGED mirrorVars

-----------------------------------------------------------------------------
(* The hook. *)

Return(r, call) == hooks' = [hooks EXCEPT ![r] = @ \ {call}]

\* Deviation: one row for every replica.
OnModelsRegistered_PerReplica(r, a) ==
    /\ <<"register", a>> \in hooks[r]
    /\ snapshots' = snapshots \cup {r}
    /\ Return(r, <<"register", a>>)
    /\ UNCHANGED <<vars, mirrored>>

OnModelsRegistered(r, a) ==
    /\ <<"register", a>> \in hooks[r]
    /\ snapshots' = snapshots \cup {a}
    /\ Return(r, <<"register", a>>)
    /\ UNCHANGED <<vars, mirrored>>

\* Deviation: the row is left to the next registration.
OnModelsUnregistered_Keeps(r, a) ==
    /\ <<"unregister", a>> \in hooks[r]
    /\ Return(r, <<"unregister", a>>)
    /\ UNCHANGED <<vars, snapshots, mirrored>>

\* No row is an error as well, and only logged.
OnModelsUnregistered(r, a) ==
    /\ <<"unregister", a>> \in hooks[r]
    /\ snapshots' = snapshots \ {a}
    /\ Return(r, <<"unregister", a>>)
    /\ UNCHANGED <<vars, mirrored>>

\* The statement fails, for one because no models are not an array.
HookError(r, call) ==
    /\ call \in hooks[r]
    /\ Return(r, call)
    /\ mirrored' = "failed"
    /\ UNCHANGED <<vars, snapshots>>

Hook(r) ==
    \/ \E a \in Accounts : OnModelsRegistered(r, a) \/ OnModelsUnregistered(r, a)
    \/ \E call \in Calls : HookError(r, call)

RegistryNext ==
    \E r \in Replicas :
        \/ Started(r)
        \/ Listed(r)
        \/ Ended(r)
        \/ \E a \in Accounts, answered \in BOOLEAN : Saved(r, a, answered) \/ Deleted(r, a, answered)
        \/ Unsaved(r)
        \/ Polled(r)
        \/ Hook(r)

RegistrySpec == RegistryInit /\ [][RegistryNext]_allVars

\* The deployment restarts a process that ended, the ticker fires and the
\* delay ends.  A replica that is stopped over and over is not always
\* stopped before it has its accounts and has told the registry.
RegistryFairness ==
    \A r \in Replicas :
        /\ WF_allVars(Started(r))
        /\ SF_allVars(Listed(r))
        /\ WF_allVars(Polled(r))
        /\ WF_allVars(Shutdown(r) /\ Ended(r))
        /\ SF_allVars(Hook(r))

RegistryLive == RegistrySpec /\ RegistryFairness

-----------------------------------------------------------------------------
(* As long as no call fails or is lost and no write overlaps one, the      *)
(* mirror shows the accounts in the table whenever the hooks are silent.   *)
QuietMirrorIsExact ==
    mirrored = "exactly" /\ (\A r \in Replicas : hooks[r] = {}) => snapshots = Present

\* Why: only a replica that serves has unfinished calls, they agree with the
\* table, and an account none of them is about is mirrored already.
MirrorInv ==
    /\ \A r \in Replicas : main[r] # "serving" => hooks[r] = {}
    /\ mirrored = "exactly" =>
        \A a \in Accounts :
            /\ \A r \in Replicas :
                /\ <<"register", a>> \in hooks[r] => table[a] # 0
                /\ <<"unregister", a>> \in hooks[r] => table[a] = 0
            /\ ~Overlaps(a) => (a \in snapshots <=> table[a] # 0)

(* A snapshot that is missing, because calls of two replicas crossed or an *)
(* answer was lost, comes back with the restarts the write causes, unless  *)
(* a call failed or a poller is blind.                                     *)
MissingIsRestored ==
    \A a \in Accounts :
        (a \in Present \ snapshots)
            ~> (a \notin Present \ snapshots \/ mirrored = "failed" \/ \E r \in Replicas : Blind(r))
=============================================================================
