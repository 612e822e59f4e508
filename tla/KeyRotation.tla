----------------------------- MODULE KeyRotation -----------------------------
(***************************************************************************)
(* Rotation of the master key of the credential store                      *)
(* (internal/security/keyring.go, Save and List of                         *)
(* internal/store/coreauth_store.go) along the steps of                    *)
(* docs/runbooks/encryption-key-rotation.md.                               *)
(*                                                                         *)
(* Version 1 is the old key, version 2 the new one; the key generated for  *)
(* version v is called v.  The active version is in a ConfigMap and the    *)
(* keys are in a Secret, so a process that starts between two updates may  *)
(* find one of them new and the other old.  Replicas start and stop at any *)
(* time (rollout, crash, restart by the revision poller).                  *)
(***************************************************************************)
EXTENDS Naturals

CONSTANTS
    Pods,           \* the processes of the replicas
    Credentials     \* the accounts whose credentials are stored

VARIABLES
    configVersion,  \* encryption.key_version of the ConfigMap
    secret,         \* CLIPROXY_ENCRYPTION_KEY and the versions in ..._PREVIOUS_KEYS
    target,         \* the phase of the runbook that is being rolled out
    keyring,        \* of every replica's process; NoKeyring when it is down
    rows            \* key version and key of every stored credential

rotationVars == <<configVersion, secret, target, keyring, rows>>

Versions == {1, 2}
Phases == {"old", "prepared", "switched", "finished"}

NoRow == [version |-> 0, key |-> 0]
NoKeyring == [active |-> 0, keys |-> [v \in Versions |-> 0]]

\* One type invariant for the whole state.
RotationTypeOK ==
    /\ configVersion \in Versions
    /\ secret \in [active : Versions, previous : SUBSET Versions]
    /\ target \in Phases
    /\ keyring \in [Pods -> [active : {0} \cup Versions,
                                 keys : [Versions -> {0} \cup Versions]]]
    /\ rows \in [Credentials -> {NoRow} \cup [version : Versions, key : Versions]]

-----------------------------------------------------------------------------
(* The keyring. *)

\* NewKeyringFromBase64 refuses a version that is active and previous.
Acceptable(version, sec) == version \notin sec.previous

\* The keys by version: the active one, then the previous ones.
NewKeyring(version, sec) ==
    [active |-> version,
     keys |-> [v \in Versions |-> CASE v = version -> sec.active
                                    [] v # version /\ v \in sec.previous -> v
                                    [] OTHER -> 0]]

\* Deviation: the newest key is used, whatever the active version is.
Encrypt_Newest(ring) ==
    LET v == IF ring.keys[2] # 0 THEN 2 ELSE 1
    IN  [version |-> v, key |-> ring.keys[v]]

\* Deviation: the version is not stored with the ciphertext.
Encrypt_Unversioned(ring) == [version |-> 0, key |-> ring.keys[ring.active]]

Encrypt(ring) == [version |-> ring.active, key |-> ring.keys[ring.active]]

\* Decrypt finds the version and the key is the one that encrypted the row.
Decrypts(ring, row) == ring.keys[row.version] = row.key

Running(r) == keyring[r].active # 0
Stored(a) == rows[a] # NoRow

-----------------------------------------------------------------------------
(* The processes of the replicas. *)

StartPod(r) ==
    /\ ~Running(r)
    /\ Acceptable(configVersion, secret)
    /\ keyring' = [keyring EXCEPT ![r] = NewKeyring(configVersion, secret)]
    /\ UNCHANGED <<configVersion, secret, target, rows>>

\* main returns the error of the keyring; the pod is started again.
StartRefused(r) ==
    /\ ~Running(r)
    /\ ~Acceptable(configVersion, secret)
    /\ UNCHANGED rotationVars

StopPod(r) ==
    /\ Running(r)
    /\ keyring' = [keyring EXCEPT ![r] = NoKeyring]
    /\ UNCHANGED <<configVersion, secret, target, rows>>

\* CoreAuthStore.Save.
SaveRow(r, a) ==
    /\ Running(r)
    /\ rows' = [rows EXCEPT ![a] = Encrypt(keyring[r])]
    /\ UNCHANGED <<configVersion, secret, target, keyring>>

\* CoreAuthStore.Delete.
DeleteRow(r, a) ==
    /\ Running(r)
    /\ rows' = [rows EXCEPT ![a] = NoRow]
    /\ UNCHANGED <<configVersion, secret, target, keyring>>

-----------------------------------------------------------------------------
(* The operator. *)

VersionIn(phase) == IF phase \in {"old", "prepared"} THEN 1 ELSE 2

SecretIn(phase) ==
    CASE phase = "old"      -> [active |-> 1, previous |-> {}]
      [] phase = "prepared" -> [active |-> 1, previous |-> {2}]
      [] phase = "switched" -> [active |-> 2, previous |-> {1}]
      [] phase = "finished" -> [active |-> 2, previous |-> {}]

UpdateConfigMap ==
    /\ configVersion # VersionIn(target)
    /\ configVersion' = VersionIn(target)
    /\ UNCHANGED <<secret, target, keyring, rows>>

UpdateSecret ==
    /\ secret # SecretIn(target)
    /\ secret' = SecretIn(target)
    /\ UNCHANGED <<configVersion, target, keyring, rows>>

\* The rollout of the current phase has reached every replica.
RolledOut ==
    /\ configVersion = VersionIn(target)
    /\ secret = SecretIn(target)
    /\ \A r \in Pods : keyring[r] = NewKeyring(configVersion, secret)

\* No row is left with version v (the query of the runbook).
NoneWith(v) == \A a \in Credentials : rows[a].version # v

Advance(from, to) ==
    /\ target = from
    /\ target' = to
    /\ UNCHANGED <<configVersion, secret, keyring, rows>>

Prepare == RolledOut /\ Advance("old", "prepared")
Abandon == RolledOut /\ NoneWith(2) /\ Advance("prepared", "old")
Switch == RolledOut /\ Advance("prepared", "switched")
Rollback == Advance("switched", "prepared")
Finish == RolledOut /\ NoneWith(1) /\ Advance("switched", "finished")

RotationInit ==
    /\ configVersion = VersionIn("old")
    /\ secret = SecretIn("old")
    /\ target = "old"
    /\ keyring = [r \in Pods |-> NewKeyring(configVersion, secret)]
    /\ rows = [a \in Credentials |-> NoRow]

Operate == UpdateConfigMap \/ UpdateSecret \/ Prepare \/ Abandon \/ Switch \/ Rollback \/ Finish

Pod(r) ==
    \/ StartPod(r)
    \/ StartRefused(r)
    \/ StopPod(r)
    \/ \E a \in Credentials : SaveRow(r, a) \/ DeleteRow(r, a)

RotationNext == Operate \/ \E r \in Pods : Pod(r)

RotationSpec == RotationInit /\ [][RotationNext]_rotationVars

-----------------------------------------------------------------------------
\* The ConfigMap, the Secret and the running processes come from some phases,
\* the stored rows from some versions.
Confined(phases, targets, versions) ==
    /\ target \in targets
    /\ configVersion \in {VersionIn(p) : p \in phases}
    /\ secret \in {SecretIn(p) : p \in phases}
    /\ \A r \in Pods : Running(r) =>
            \E p \in phases : keyring[r] = NewKeyring(VersionIn(p), SecretIn(p))
    /\ \A a \in Credentials : Stored(a) =>
            \E v \in versions : rows[a] = [version |-> v, key |-> v]

\* Why: no more than two neighbouring phases are ever mixed, and the rows have
\* the versions that both of them can read.
RotationInv ==
    \/ Confined({"old", "prepared"}, {"old", "prepared"}, {1})
    \/ Confined({"prepared", "switched"}, {"prepared", "switched"}, {1, 2})
    \/ Confined({"switched", "finished"}, {"finished"}, {2})

(* List never fails on a credential it cannot decrypt: in every phase, in  *)
(* a mixed rollout, after a rollback, and for processes that started       *)
(* between the update of the ConfigMap and that of the Secret, every       *)
(* running replica has the key of every stored row, and so would one that  *)
(* starts now: no ConfigMap and Secret that meet at a start name a key by  *)
(* the version of another one.                                             *)
EveryRowReadable ==
    \A a \in Credentials : Stored(a) =>
        /\ \A r \in Pods : Running(r) => Decrypts(keyring[r], rows[a])
        /\ Acceptable(configVersion, secret) =>
                Decrypts(NewKeyring(configVersion, secret), rows[a])
=============================================================================
