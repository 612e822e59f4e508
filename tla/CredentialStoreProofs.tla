------------------------ MODULE CredentialStoreProofs ------------------------
(***************************************************************************)
(* Proofs about the credential store, for any number of replicas and       *)
(* accounts.  Its revision: the accounts of a replica are outdated only if *)
(* a later poll will notice (from LoadInv), the mirror of the model        *)
(* registry does not disturb that (it only adds to RevisionReload), and    *)
(* the mirror is exact when nothing has overlapped or failed (from         *)
(* MirrorInv).  Its keys: no credential becomes unreadable during a        *)
(* rotation of the master key (from RotationInv: only two neighbouring     *)
(* phases of the runbook are ever mixed).                                  *)
(***************************************************************************)
EXTENDS ModelRegistry, KeyRotation, TLAPS

(* A process that has stopped has forgotten its accounts and its poller. *)
LEMMA StoppedTypes ==
  ASSUME TypeOK, NEW r \in Replicas, Stopped(r)
  PROVE  TypeOK'
  BY ReloadAssumption DEF TypeOK, Stopped, dbVars, NoAccounts, Content

(* Every step of the store and of the poller keeps the types. *)
LEMMA ReloadTypes == TypeOK /\ [Next]_vars => TypeOK'
  <1> SUFFICES ASSUME TypeOK, [Next]_vars PROVE TypeOK'
    OBVIOUS
  <1>1. ASSUME NEW r \in Replicas, Boot(r)
        PROVE  TypeOK'
    BY <1>1 DEF TypeOK, Boot, dbVars
  <1>2. ASSUME NEW r \in Replicas, List(r)
        PROVE  TypeOK'
    BY <1>2 DEF TypeOK, List, dbVars
  <1>3. ASSUME NEW r \in Replicas, Stop(r) \/ Shutdown(r)
        PROVE  TypeOK'
    BY <1>3, StoppedTypes DEF Stop, Shutdown
  <1>4. ASSUME NEW r \in Replicas, NEW a \in Accounts, NEW content \in 0..MaxWrites,
               NEW answered \in BOOLEAN, Write(r, a, content, answered)
        PROVE  TypeOK'
    <2>1. revision' \in 0..MaxWrites
      BY <1>4, ReloadAssumption DEF Write, TypeOK
    <2>2. table' \in Content
      BY <1>4 DEF Write, TypeOK, Content
    <2>3. [memory[r] EXCEPT ![a] = content] \in Content
      BY DEF TypeOK, Content
    <2>4. memory' \in [Replicas -> Content]
      BY <1>4, <2>3 DEF Write, TypeOK
    <2> QED
      BY <1>4, <2>1, <2>2, <2>4 DEF Write, TypeOK
  <1>5. ASSUME NEW r \in Replicas, NEW a \in Accounts, NEW answered \in BOOLEAN,
               Save(r, a, answered) \/ Delete(r, a, answered)
        PROVE  TypeOK'
    BY <1>4, <1>5, ReloadAssumption DEF Save, Delete, Write, TypeOK
  <1>6. ASSUME NEW r \in Replicas,
               ReadBaseline(r) \/ BaselineError(r) \/ PollChanged(r)
        PROVE  TypeOK'
    BY <1>6 DEF TypeOK, ReadBaseline, BaselineError, PollChanged, dbVars
  <1>7. CASE UNCHANGED vars
    BY <1>7 DEF TypeOK, vars, dbVars
  <1> QED
    BY <1>1, <1>2, <1>3, <1>5, <1>6, <1>7
       DEF Next, Poll, WriteError, PollUnchanged

(* A replica that serves loaded its accounts at a revision already reached *)
(* and has the content of the table as long as that is the current one:    *)
(* every write leaves that revision behind.                                *)
LEMMA LoadStep == TypeOK /\ LoadInv /\ [Next]_vars => LoadInv'
  <1> SUFFICES ASSUME TypeOK, LoadInv, [Next]_vars PROVE LoadInv'
    OBVIOUS
  <1> USE DEF LoadInv
  <1>1. ASSUME NEW r \in Replicas, Boot(r)
        PROVE  LoadInv'
    BY <1>1 DEF TypeOK, Boot, dbVars
  <1>2. ASSUME NEW r \in Replicas, List(r)
        PROVE  LoadInv'
    BY <1>2 DEF TypeOK, List, dbVars
  <1>3. ASSUME NEW r \in Replicas, Stop(r) \/ Shutdown(r)
        PROVE  LoadInv'
    BY <1>3 DEF TypeOK, Stop, Shutdown, Stopped, dbVars
  <1>4. ASSUME NEW r \in Replicas, NEW a \in Accounts, NEW answered \in BOOLEAN,
               Save(r, a, answered) \/ Delete(r, a, answered)
        PROVE  LoadInv'
    BY <1>4 DEF TypeOK, Save, Delete, Write
  <1>5. ASSUME NEW r \in Replicas,
               ReadBaseline(r) \/ BaselineError(r) \/ PollChanged(r)
        PROVE  LoadInv'
    BY <1>5 DEF TypeOK, ReadBaseline, BaselineError, PollChanged, dbVars
  <1>6. CASE UNCHANGED vars
    BY <1>6 DEF vars, dbVars
  <1> QED
    BY <1>1, <1>2, <1>3, <1>4, <1>5, <1>6
       DEF Next, Poll, WriteError, PollUnchanged

\* The invariant of the store and the pollers.
LEMMA ReloadInvariant == Spec => [](TypeOK /\ LoadInv)
  <1>1. Init => TypeOK /\ LoadInv
    BY ReloadAssumption DEF Init, TypeOK, LoadInv, Content, NoAccounts
  <1>2. (TypeOK /\ LoadInv) /\ [Next]_vars => (TypeOK /\ LoadInv)'
    BY ReloadTypes, LoadStep
  <1> QED
    BY <1>1, <1>2, PTL DEF Spec

(* A poller whose baseline is no later than the load and equals the        *)
(* current revision belongs to a replica nobody has written past.          *)
LEMMA NoticedFromLoad == TypeOK /\ LoadInv => StaleIsNoticed
  BY DEF TypeOK, LoadInv, StaleIsNoticed, Stale, Blind

(* A replica serves outdated accounts unnoticed only if its poller gave up *)
(* on the first read or read its baseline after the accounts were loaded.  *)
THEOREM ReloadNoticesStale == Spec => []StaleIsNoticed
  BY ReloadInvariant, NoticedFromLoad, PTL

-----------------------------------------------------------------------------
(* The mirror. *)

(* What the hook and the SDK do around the operations leaves the store and *)
(* the pollers to their own steps.                                         *)
LEMMA RegistryStepRefines == [RegistryNext]_allVars => [Next]_vars
  <1> SUFFICES ASSUME [RegistryNext]_allVars PROVE [Next]_vars
    OBVIOUS
  <1>1. ASSUME NEW r \in Replicas,
               Started(r) \/ Listed(r) \/ Ended(r) \/ Unsaved(r) \/ Polled(r)
        PROVE  Next
    BY <1>1 DEF Started, Listed, Ended, Unsaved, Polled, Next, Poll
  <1>2. ASSUME NEW r \in Replicas, NEW a \in Accounts, NEW answered \in BOOLEAN,
               Saved(r, a, answered) \/ Deleted(r, a, answered)
        PROVE  Next
    BY <1>2 DEF Saved, Deleted, Next
  <1>3. ASSUME NEW r \in Replicas, Hook(r)
        PROVE  UNCHANGED vars
    BY <1>3 DEF Hook, OnModelsRegistered, OnModelsUnregistered, HookError
  <1>4. ASSUME UNCHANGED allVars
        PROVE  UNCHANGED vars
    BY <1>4 DEF allVars
  <1> QED
    BY <1>1, <1>2, <1>3, <1>4 DEF RegistryNext

(* The replicas with the mirror of the registry implement the replicas     *)
(* without it: the hook never holds back a reload and never causes one.    *)
THEOREM RegistryImplementsReload == RegistrySpec => Spec
  <1>1. RegistryInit => Init
    BY DEF RegistryInit
  <1> QED
    BY <1>1, RegistryStepRefines, PTL DEF RegistrySpec, Spec

(* With the mirror in place a stale replica is noticed all the same. *)
THEOREM RegistryNoticesStale == RegistrySpec => []StaleIsNoticed
  BY RegistryImplementsReload, ReloadNoticesStale, PTL

-----------------------------------------------------------------------------
(* The steps of the mirror keep its types. *)
LEMMA MirrorTypes == RegistryTypeOK /\ [RegistryNext]_allVars => RegistryTypeOK'
  <1> SUFFICES ASSUME RegistryTypeOK, [RegistryNext]_allVars PROVE RegistryTypeOK'
    OBVIOUS
  <1>t. TypeOK'
    BY RegistryStepRefines, ReloadTypes DEF RegistryTypeOK
  <1>c. \A a \in Accounts : <<"register", a>> \in Calls /\ <<"unregister", a>> \in Calls
    BY DEF Calls
  <1> USE <1>t DEF RegistryTypeOK
  <1>1. ASSUME NEW r \in Replicas, Started(r) \/ Unsaved(r) \/ Polled(r)
        PROVE  RegistryTypeOK'
    BY <1>1 DEF Started, Unsaved, Polled, mirrorVars
  <1>2. ASSUME NEW r \in Replicas, Listed(r)
        PROVE  RegistryTypeOK'
    <2>1. {<<"register", a>> : a \in Present} \in SUBSET Calls
      BY <1>c DEF Present
    <2> QED
      BY <1>2, <2>1 DEF Listed
  <1>3. ASSUME NEW r \in Replicas, Ended(r)
        PROVE  RegistryTypeOK'
    BY <1>3 DEF Ended, Disturbed
  <1>4. ASSUME NEW r \in Replicas, NEW a \in Accounts, NEW answered \in BOOLEAN,
               Saved(r, a, answered) \/ Deleted(r, a, answered)
        PROVE  RegistryTypeOK'
    <2>1. mirrored' \in {"exactly", "roughly", "failed"} /\ snapshots' = snapshots
      BY <1>4 DEF Saved, Deleted, Disturbed
    <2>2. hooks' \in [Replicas -> SUBSET Calls]
      BY <1>4, <1>c DEF Saved, Deleted
    <2> QED
      BY <2>1, <2>2
  <1>5. ASSUME NEW r \in Replicas, NEW a \in Accounts,
               OnModelsRegistered(r, a) \/ OnModelsUnregistered(r, a)
        PROVE  RegistryTypeOK'
    BY <1>5 DEF OnModelsRegistered, OnModelsUnregistered, Return
  <1>6. ASSUME NEW r \in Replicas, NEW call \in Calls, HookError(r, call)
        PROVE  RegistryTypeOK'
    BY <1>6 DEF HookError, Return
  <1>7. CASE UNCHANGED allVars
    BY <1>7 DEF allVars, mirrorVars
  <1> QED
    BY <1>1, <1>2, <1>3, <1>4, <1>5, <1>6, <1>7 DEF RegistryNext, Hook

\* What MirrorInv says of one account as long as nothing went wrong.
Mirrored(a) ==
    /\ \A r \in Replicas :
        /\ <<"register", a>> \in hooks[r] => table[a] # 0
        /\ <<"unregister", a>> \in hooks[r] => table[a] = 0
    /\ ~Overlaps(a) => (a \in snapshots <=> table[a] # 0)

(* An account that a step is not about stays as it is mirrored. *)
LEMMA MirroredFrame ==
  ASSUME NEW a \in Accounts, Mirrored(a), table'[a] = table[a],
         a \in snapshots' <=> a \in snapshots,
         \A r \in Replicas, k \in {"register", "unregister"} :
            <<k, a>> \in hooks'[r] <=> <<k, a>> \in hooks[r]
  PROVE  Mirrored(a)'
  BY DEF Mirrored, Overlaps

(* Only a replica that serves has calls in flight: a save or a delete      *)
(* comes from one, and the end of a process ends its calls.                *)
LEMMA SilentStep ==
  ASSUME RegistryTypeOK, MirrorInv, [RegistryNext]_allVars
  PROVE  \A s \in Replicas : main'[s] # "serving" => hooks'[s] = {}
  <1> USE DEF RegistryTypeOK, MirrorInv, TypeOK
  <1>1. ASSUME NEW r \in Replicas, Started(r)
        PROVE  \A s \in Replicas : main'[s] # "serving" => hooks'[s] = {}
    BY <1>1 DEF Started, Boot, mirrorVars
  <1>2. ASSUME NEW r \in Replicas, Listed(r)
        PROVE  \A s \in Replicas : main'[s] # "serving" => hooks'[s] = {}
    BY <1>2 DEF Listed, List
  <1>3. ASSUME NEW r \in Replicas, Ended(r)
        PROVE  \A s \in Replicas : main'[s] # "serving" => hooks'[s] = {}
    BY <1>3 DEF Ended, Stop, Shutdown, Stopped
  <1>4. ASSUME NEW r \in Replicas, NEW a \in Accounts, NEW answered \in BOOLEAN,
               Saved(r, a, answered) \/ Deleted(r, a, answered)
        PROVE  \A s \in Replicas : main'[s] # "serving" => hooks'[s] = {}
    BY <1>4 DEF Saved, Deleted, Save, Delete, Write
  <1>5. ASSUME NEW r \in Replicas, Unsaved(r) \/ Polled(r)
        PROVE  \A s \in Replicas : main'[s] # "serving" => hooks'[s] = {}
    BY <1>5 DEF Unsaved, Polled, WriteError, ReadBaseline, BaselineError, PollUnchanged,
                PollChanged, mirrorVars, vars
  <1>6. ASSUME NEW r \in Replicas, Hook(r)
        PROVE  \A s \in Replicas : main'[s] # "serving" => hooks'[s] = {}
    BY <1>6 DEF Hook, OnModelsRegistered, OnModelsUnregistered, HookError, Return, vars
  <1>7. CASE UNCHANGED allVars
    BY <1>7 DEF allVars, mirrorVars, vars
  <1> QED
    BY <1>1, <1>2, <1>3, <1>4, <1>5, <1>6, <1>7 DEF RegistryNext

(* As long as no call overlaps, fails or is lost, the calls in flight      *)
(* agree with the table, and what none of them is about is mirrored.       *)
LEMMA MirroredStep ==
  ASSUME RegistryTypeOK, MirrorInv, [RegistryNext]_allVars, mirrored' = "exactly"
  PROVE  \A a \in Accounts : Mirrored(a)'
  <1> USE DEF RegistryTypeOK, TypeOK
  <1>0. mirrored = "exactly"
    BY DEF RegistryNext, Started, Listed, Ended, Saved, Deleted, Unsaved, Polled, Hook,
           OnModelsRegistered, OnModelsUnregistered, HookError, Disturbed, allVars, mirrorVars
  <1>m. \A a \in Accounts : Mirrored(a)
    BY <1>0 DEF MirrorInv, Mirrored
  <1>1. ASSUME UNCHANGED <<table, snapshots, hooks>>
        PROVE  \A a \in Accounts : Mirrored(a)'
    BY <1>1, <1>m DEF Mirrored, Overlaps
  <1>2. ASSUME NEW r \in Replicas, Started(r) \/ Unsaved(r) \/ Polled(r)
        PROVE  \A a \in Accounts : Mirrored(a)'
    BY <1>1, <1>2 DEF Started, Boot, Unsaved, Polled, WriteError, ReadBaseline, BaselineError,
                      PollUnchanged, PollChanged, mirrorVars, vars, dbVars
  <1>3. ASSUME NEW r \in Replicas, Listed(r), NEW a \in Accounts
        PROVE  Mirrored(a)'
    <2>1. hooks[r] = {} /\ table' = table /\ snapshots' = snapshots
      BY <1>3 DEF Listed, List, MirrorInv, dbVars
    <2>2. <<"register", a>> \in hooks'[r] <=> table[a] # 0
      BY <1>3 DEF Listed, Present
    <2>3. <<"unregister", a>> \notin hooks'[r]
      BY <1>3 DEF Listed
    <2>4. \A s \in Replicas \ {r} : hooks'[s] = hooks[s]
      BY <1>3 DEF Listed
    <2>5. \A s \in Replicas : /\ <<"register", a>> \in hooks'[s] => table[a] # 0
                              /\ <<"unregister", a>> \in hooks'[s] => table[a] = 0
      BY <1>m, <2>2, <2>3, <2>4 DEF Mirrored
    <2>6. Overlaps(a) => Overlaps(a)'
      BY <2>1, <2>4 DEF Overlaps
    <2>7. Overlaps(a)' \/ (a \in snapshots' <=> table'[a] # 0)
      BY <1>m, <2>1, <2>6 DEF Mirrored
    <2>8. \A s \in Replicas : /\ <<"register", a>> \in hooks'[s] => table'[a] # 0
                              /\ <<"unregister", a>> \in hooks'[s] => table'[a] = 0
      BY <2>1, <2>5
    <2> QED
      BY <2>7, <2>8 DEF Mirrored
  <1>4. ASSUME NEW r \in Replicas, Ended(r)
        PROVE  \A a \in Accounts : Mirrored(a)'
    <2>1. hooks[r] = {}
      BY <1>0, <1>4 DEF Ended, Disturbed
    <2>2. hooks' = hooks
      BY <1>4, <2>1 DEF Ended
    <2> QED
      BY <1>1, <1>4, <2>2 DEF Ended, Stop, Shutdown, Stopped, dbVars
  <1>5. ASSUME NEW r \in Replicas, NEW b \in Accounts, NEW answered \in BOOLEAN,
               Saved(r, b, answered), NEW a \in Accounts
        PROVE  Mirrored(a)'
    <2>1. answered /\ ~Overlaps(b)
      BY <1>0, <1>5 DEF Saved, Disturbed
    <2>2. hooks' = [hooks EXCEPT ![r] = @ \cup {<<"register", b>>}] /\ snapshots' = snapshots
      BY <1>5, <2>1 DEF Saved
    <2>3. table' = [table EXCEPT ![b] = revision + 1]
      BY <1>5 DEF Saved, Save, Write
    <2>4. CASE a = b
      <3>1. table'[a] # 0 /\ <<"register", a>> \in hooks'[r]
        BY <2>2, <2>3, <2>4, ReloadAssumption DEF Content
      <3>2. \A s \in Replicas : <<"unregister", a>> \notin hooks'[s]
        BY <2>1, <2>2, <2>4 DEF Overlaps
      <3>3. Overlaps(a)'
        BY <3>1 DEF Overlaps
      <3> QED
        BY <3>1, <3>2, <3>3 DEF Mirrored
    <2>5. CASE a # b
      BY <1>m, <2>2, <2>3, <2>5, MirroredFrame DEF Content
    <2> QED
      BY <2>4, <2>5
  <1>6. ASSUME NEW r \in Replicas, NEW b \in Accounts, NEW answered \in BOOLEAN,
               Deleted(r, b, answered), NEW a \in Accounts
        PROVE  Mirrored(a)'
    <2>1. ~Overlaps(b) /\ ((answered /\ memory[r][b] # 0) \/ table[b] = 0)
      BY <1>0, <1>6 DEF Deleted, Disturbed
    <2>2. snapshots' = snapshots /\ table' = [table EXCEPT ![b] = 0]
      BY <1>6 DEF Deleted, Delete, Write
    <2>3. CASE answered /\ memory[r][b] # 0
      <3>1. hooks' = [hooks EXCEPT ![r] = @ \cup {<<"unregister", b>>}]
        BY <1>6, <2>3 DEF Deleted
      <3>2. CASE a = b
        <4>1. table'[a] = 0 /\ <<"unregister", a>> \in hooks'[r]
          BY <2>2, <3>1, <3>2 DEF Content
        <4>2. \A s \in Replicas : <<"register", a>> \notin hooks'[s]
          BY <2>1, <3>1, <3>2 DEF Overlaps
        <4>3. Overlaps(a)'
          BY <4>1 DEF Overlaps
        <4> QED
          BY <4>1, <4>2, <4>3 DEF Mirrored
      <3>3. CASE a # b
        BY <1>m, <2>2, <3>1, <3>3, MirroredFrame DEF Content
      <3> QED
        BY <3>2, <3>3
    <2>4. CASE ~(answered /\ memory[r][b] # 0)
      <3>1. hooks' = hooks
        BY <1>6, <2>4 DEF Deleted
      <3>2. table' = table
        BY <2>1, <2>2, <2>4 DEF Content
      <3> QED
        BY <1>1, <2>2, <3>1, <3>2
    <2> QED
      BY <2>3, <2>4
  <1>7. ASSUME NEW r \in Replicas, NEW b \in Accounts,
               OnModelsRegistered(r, b) \/ OnModelsUnregistered(r, b), NEW a \in Accounts
        PROVE  Mirrored(a)'
    <2>1. table' = table
      BY <1>7 DEF OnModelsRegistered, OnModelsUnregistered, vars, dbVars
    <2>2. CASE a = b
      BY <1>7, <1>m, <2>1, <2>2
         DEF OnModelsRegistered, OnModelsUnregistered, Return, Mirrored, Overlaps
    <2>3. CASE a # b
      BY <1>7, <1>m, <2>1, <2>3, MirroredFrame DEF OnModelsRegistered, OnModelsUnregistered, Return
    <2> QED
      BY <2>2, <2>3
  <1>8. ASSUME NEW r \in Replicas, NEW call \in Calls, HookError(r, call)
        PROVE  FALSE
    BY <1>8 DEF HookError
  <1>9. CASE UNCHANGED allVars
    BY <1>1, <1>9 DEF allVars, mirrorVars, vars, dbVars
  <1> QED
    BY <1>2, <1>3, <1>4, <1>5, <1>6, <1>7, <1>8, <1>9 DEF RegistryNext, Hook

\* The invariant of the replicas with the mirror.
LEMMA RegistryInvariant == RegistrySpec => [](RegistryTypeOK /\ MirrorInv)
  <1>1. RegistryInit => RegistryTypeOK /\ MirrorInv
    <2> SUFFICES ASSUME RegistryInit PROVE RegistryTypeOK /\ MirrorInv
      OBVIOUS
    <2>1. RegistryTypeOK
      BY ReloadAssumption
         DEF RegistryInit, RegistryTypeOK, Init, TypeOK, Present, Content, NoAccounts
    <2>2. MirrorInv
      BY DEF RegistryInit, MirrorInv, Present, Overlaps
    <2> QED
      BY <2>1, <2>2
  <1>2. (RegistryTypeOK /\ MirrorInv) /\ [RegistryNext]_allVars => MirrorInv'
    BY SilentStep, MirroredStep DEF MirrorInv, Mirrored
  <1>3. (RegistryTypeOK /\ MirrorInv) /\ [RegistryNext]_allVars => (RegistryTypeOK /\ MirrorInv)'
    BY <1>2, MirrorTypes
  <1> QED
    BY <1>1, <1>3, PTL DEF RegistrySpec

(* The accounts, the processes, the pollers, the snapshots and the calls   *)
(* of the hook keep their types.                                           *)
THEOREM RegistryTypeCorrect == RegistrySpec => []RegistryTypeOK
  BY RegistryInvariant, PTL

(* As long as no call fails or is lost and no write overlaps one, the      *)
(* mirror shows the accounts in the table whenever the hooks are silent.   *)
THEOREM RegistryMirrorsExactly == RegistrySpec => []QuietMirrorIsExact
  <1>1. RegistryTypeOK /\ MirrorInv => QuietMirrorIsExact
    BY DEF RegistryTypeOK, MirrorInv, QuietMirrorIsExact, Overlaps, Present
  <1> QED
    BY <1>1, RegistryInvariant, PTL

-----------------------------------------------------------------------------
(* The keys of the credential store, during a rotation. *)

(* What a process has in each phase. *)
LEMMA Rings ==
    /\ NewKeyring(VersionIn("old"), SecretIn("old"))
            = [active |-> 1, keys |-> [v \in Versions |-> IF v = 1 THEN 1 ELSE 0]]
    /\ NewKeyring(VersionIn("prepared"), SecretIn("prepared"))
            = [active |-> 1, keys |-> [v \in Versions |-> v]]
    /\ NewKeyring(VersionIn("switched"), SecretIn("switched"))
            = [active |-> 2, keys |-> [v \in Versions |-> v]]
    /\ NewKeyring(VersionIn("finished"), SecretIn("finished"))
            = [active |-> 2, keys |-> [v \in Versions |-> IF v = 2 THEN 2 ELSE 0]]
  BY DEF NewKeyring, VersionIn, SecretIn, Versions

(* A ConfigMap and a Secret of two neighbouring phases that a process      *)
(* accepts are those of one of the two.                                    *)
LEMMA AcceptedPairs ==
  ASSUME NEW p, NEW q,
         \/ p \in {"old", "prepared"} /\ q \in {"old", "prepared"}
         \/ p \in {"prepared", "switched"} /\ q \in {"prepared", "switched"}
         \/ p \in {"switched", "finished"} /\ q \in {"switched", "finished"},
         Acceptable(VersionIn(p), SecretIn(q))
  PROVE  VersionIn(p) = VersionIn(q)
  BY DEF Acceptable, VersionIn, SecretIn

(* The keyring of every phase decrypts the rows of its pair of phases and  *)
(* encrypts with the key of the version it stores.                         *)
LEMMA RingsRead ==
  ASSUME NEW p \in Phases, NEW v \in Versions,
         p = "old" => v = 1, p = "finished" => v = 2
  PROVE  LET ring == NewKeyring(VersionIn(p), SecretIn(p))
         IN  /\ Decrypts(ring, [version |-> v, key |-> v])
             /\ Encrypt(ring) = [version |-> VersionIn(p), key |-> VersionIn(p)]
             /\ ring.active = VersionIn(p)
  BY Rings DEF Phases, Versions, Decrypts, Encrypt, VersionIn

-----------------------------------------------------------------------------
(* Confined is preserved by every step of a replica, for each of the three *)
(* pairs of phases. *)
Pair(phases, targets, versions) ==
    \/ phases = {"old", "prepared"} /\ targets = {"old", "prepared"} /\ versions = {1}
    \/ phases = {"prepared", "switched"} /\ targets = {"prepared", "switched"} /\ versions = {1, 2}
    \/ phases = {"switched", "finished"} /\ targets = {"finished"} /\ versions = {2}

LEMMA RotationInvPairs ==
    RotationInv <=> \E phases, targets, versions :
                        Pair(phases, targets, versions) /\ Confined(phases, targets, versions)
  BY DEF RotationInv, Pair

(* A process that runs has the keyring of a phase, so what it saves has a  *)
(* version that the whole pair of phases reads.                            *)
LEMMA ReplicaStep ==
  ASSUME RotationTypeOK, NEW phases, NEW targets, NEW versions,
         Pair(phases, targets, versions), Confined(phases, targets, versions),
         NEW r \in Pods, Pod(r)
  PROVE  Confined(phases, targets, versions)'
  <1>p. phases \subseteq Phases /\ versions \subseteq Versions
    BY DEF Pair, Phases, Versions
  <1>v. \A p \in phases : VersionIn(p) \in versions
    BY DEF Pair, VersionIn
  <1> USE DEF Confined, Running, Stored
  <1>1. CASE StartPod(r)
    <2>1. PICK p \in phases : configVersion = VersionIn(p)
      OBVIOUS
    <2>2. PICK q \in phases : secret = SecretIn(q)
      OBVIOUS
    <2>3. VersionIn(p) = VersionIn(q)
      BY <1>1, <2>1, <2>2, AcceptedPairs DEF StartPod, Pair
    <2>4. keyring' = [keyring EXCEPT ![r] = NewKeyring(VersionIn(q), SecretIn(q))]
      BY <1>1, <2>1, <2>2, <2>3 DEF StartPod
    <2> QED
      BY <1>1, <2>4 DEF StartPod, RotationTypeOK
  <1>2. CASE StartRefused(r)
    BY <1>2 DEF StartRefused, rotationVars
  <1>3. CASE StopPod(r)
    BY <1>3 DEF StopPod, RotationTypeOK, NoKeyring
  <1>4. ASSUME NEW a \in Credentials, SaveRow(r, a)
        PROVE  Confined(phases, targets, versions)'
    <2>1. PICK p \in phases : keyring[r] = NewKeyring(VersionIn(p), SecretIn(p))
      BY <1>4 DEF SaveRow
    <2>2. Encrypt(keyring[r]) = [version |-> VersionIn(p), key |-> VersionIn(p)]
      BY <1>p, <2>1, Rings DEF Encrypt, VersionIn, Phases, Versions
    <2> QED
      BY <1>4, <1>v, <2>2 DEF SaveRow, RotationTypeOK
  <1>5. ASSUME NEW a \in Credentials, DeleteRow(r, a)
        PROVE  Confined(phases, targets, versions)'
    BY <1>5 DEF DeleteRow, RotationTypeOK
  <1> QED
    BY <1>1, <1>2, <1>3, <1>4, <1>5 DEF Pod

(* The operator moves to another pair only when the rollout has ended, and *)
(* past the old or the new key only when no row has it.                    *)
LEMMA OperatorStep ==
  ASSUME RotationTypeOK, RotationInv, Operate
  PROVE  RotationInv'
  <1> USE DEF RotationInv, Confined, Running, Stored
  <1>1. CASE UpdateConfigMap
    BY <1>1 DEF UpdateConfigMap
  <1>2. CASE UpdateSecret
    BY <1>2 DEF UpdateSecret
  <1>3. CASE Prepare
    BY <1>3 DEF Prepare, Advance
  <1>4. CASE Abandon
    BY <1>4, Rings DEF Abandon, Advance, RolledOut, NoneWith, VersionIn
  <1>5. CASE Switch
    BY <1>5, Rings DEF Switch, Advance, RolledOut, VersionIn
  <1>6. CASE Rollback
    BY <1>6 DEF Rollback, Advance
  <1>7. CASE Finish
    BY <1>7, Rings DEF Finish, Advance, RolledOut, NoneWith, VersionIn
  <1> QED
    BY <1>1, <1>2, <1>3, <1>4, <1>5, <1>6, <1>7 DEF Operate

-----------------------------------------------------------------------------
(* A keyring built from the ConfigMap and the Secret has its type. *)
Ring == [active : {0} \cup Versions, keys : [Versions -> {0} \cup Versions]]

LEMMA KeyringType ==
  ASSUME NEW v \in Versions,
         NEW s \in [active : Versions, previous : SUBSET Versions]
  PROVE  NewKeyring(v, s) \in Ring
  BY DEF NewKeyring, Versions, Ring

(* The steps of the runbook name existing versions. *)
LEMMA PhaseTypes ==
  ASSUME NEW p \in Phases
  PROVE  /\ VersionIn(p) \in Versions
         /\ SecretIn(p) \in [active : Versions, previous : SUBSET Versions]
  BY DEF VersionIn, SecretIn, Phases, Versions

RotationState == RotationTypeOK /\ RotationInv

(* The rotation starts in its first phase, with an empty table. *)
LEMMA RotationStarts == RotationInit => RotationState
  <1> SUFFICES ASSUME RotationInit PROVE RotationState
    OBVIOUS
  <1>1. RotationTypeOK
    BY PhaseTypes, KeyringType DEF RotationInit, RotationTypeOK, Phases, Ring
  <1>2. Confined({"old", "prepared"}, {"old", "prepared"}, {1})
    BY DEF RotationInit, Confined, Stored
  <1> QED
    BY <1>1, <1>2 DEF RotationState, RotationInv

(* Every step keeps the types: a stored row gets the version and the key   *)
(* of a running keyring, and neither is ever zero.                         *)
LEMMA RotationTypes == RotationState /\ [RotationNext]_rotationVars => RotationTypeOK'
  <1> SUFFICES ASSUME RotationState, [RotationNext]_rotationVars PROVE RotationTypeOK'
    OBVIOUS
  <1> USE DEF RotationState, RotationTypeOK
  <1>1. CASE Operate
    BY <1>1, PhaseTypes DEF Operate, UpdateConfigMap, UpdateSecret, Prepare,
                            Abandon, Switch, Rollback, Finish, Advance,
                            Phases
  <1>2. ASSUME NEW r \in Pods, StartPod(r) \/ StartRefused(r)
        PROVE  RotationTypeOK'
    <2>1. CASE StartPod(r)
      <3>1. NewKeyring(configVersion, secret) \in Ring
        BY KeyringType
      <3>2. keyring' \in [Pods -> Ring]
        BY <2>1, <3>1 DEF StartPod, Ring
      <3> QED BY <2>1, <3>2 DEF StartPod, Ring
    <2>2. CASE StartRefused(r)
      BY <2>2 DEF StartRefused, rotationVars
    <2> QED BY <1>2, <2>1, <2>2
  <1>3. ASSUME NEW r \in Pods, StopPod(r)
        PROVE  RotationTypeOK'
    <2>1. NoKeyring \in Ring
      BY DEF NoKeyring, Ring
    <2> QED
      BY <1>3, <2>1 DEF StopPod, Ring
  <1>4. ASSUME NEW r \in Pods, NEW a \in Credentials, SaveRow(r, a)
        PROVE  RotationTypeOK'
    <2>1. PICK p \in Phases : keyring[r] = NewKeyring(VersionIn(p), SecretIn(p))
      BY <1>4 DEF SaveRow, RotationInv, Confined, Phases
    <2>2. Encrypt(keyring[r]) = [version |-> VersionIn(p), key |-> VersionIn(p)]
      BY <2>1, Rings DEF Encrypt, VersionIn, Phases, Versions
    <2> QED
      BY <1>4, <2>2, PhaseTypes DEF SaveRow
  <1>5. ASSUME NEW r \in Pods, NEW a \in Credentials, DeleteRow(r, a)
        PROVE  RotationTypeOK'
    BY <1>5 DEF DeleteRow
  <1>6. CASE UNCHANGED rotationVars
    BY <1>6 DEF rotationVars
  <1> QED
    BY <1>1, <1>2, <1>3, <1>4, <1>5, <1>6 DEF RotationNext, Pod

\* The invariant of the whole specification.
LEMMA RotationInvariant == RotationSpec => []RotationState
  <1>1. RotationState /\ [RotationNext]_rotationVars => RotationInv'
    <2> SUFFICES ASSUME RotationState, [RotationNext]_rotationVars PROVE RotationInv'
      OBVIOUS
    <2>1. CASE Operate
      BY <2>1, OperatorStep DEF RotationState
    <2>2. ASSUME NEW r \in Pods, Pod(r)
          PROVE  RotationInv'
      <3>1. PICK phases, targets, versions :
                Pair(phases, targets, versions) /\ Confined(phases, targets, versions)
        BY RotationInvPairs DEF RotationState
      <3>2. Confined(phases, targets, versions)'
        BY <2>2, <3>1, ReplicaStep DEF RotationState
      <3> QED
        BY <3>1, <3>2 DEF Pair, RotationInv
    <2>3. CASE UNCHANGED rotationVars
      BY <2>3 DEF rotationVars, RotationState, RotationInv, Confined, Running,
                  Stored
    <2> QED
      BY <2>1, <2>2, <2>3 DEF RotationNext
  <1>2. RotationState /\ [RotationNext]_rotationVars => RotationState'
    BY <1>1, RotationTypes DEF RotationState
  <1> QED
    BY <1>2, RotationStarts, PTL DEF RotationSpec

(* The ConfigMap, the Secret, the keyrings and the key version of every    *)
(* stored credential keep their types.                                     *)
THEOREM RotationTypeCorrect == RotationSpec => []RotationTypeOK
  <1>1. RotationState => RotationTypeOK
    BY DEF RotationState
  <1> QED
    BY <1>1, RotationInvariant, PTL

(* Along the runbook no running process, and none that starts now, meets a *)
(* credential it cannot decrypt: mixed rollouts, rollbacks and starts      *)
(* between the update of the ConfigMap and that of the Secret included.    *)
THEOREM RotationKeepsRowsReadable == RotationSpec => []EveryRowReadable
  <1>1. RotationState => EveryRowReadable
    <2> SUFFICES ASSUME RotationState, NEW a \in Credentials, Stored(a)
                 PROVE  /\ \A r \in Pods : Running(r) => Decrypts(keyring[r], rows[a])
                        /\ Acceptable(configVersion, secret) =>
                              Decrypts(NewKeyring(configVersion, secret), rows[a])
      BY DEF EveryRowReadable
    <2>1. PICK phases, targets, versions :
              Pair(phases, targets, versions) /\ Confined(phases, targets, versions)
      BY RotationInvPairs DEF RotationState
    <2>2. PICK v \in versions : rows[a] = [version |-> v, key |-> v]
      BY <2>1 DEF Confined
    <2>3. \A p \in phases :
              Decrypts(NewKeyring(VersionIn(p), SecretIn(p)), rows[a])
      BY <2>1, <2>2, RingsRead DEF Pair, Phases, Versions
    <2>4. \A r \in Pods : Running(r) => Decrypts(keyring[r], rows[a])
      BY <2>1, <2>3 DEF Confined
    <2>5. ASSUME Acceptable(configVersion, secret)
          PROVE  Decrypts(NewKeyring(configVersion, secret), rows[a])
      <3>1. PICK p \in phases : configVersion = VersionIn(p)
        BY <2>1 DEF Confined
      <3>2. PICK q \in phases : secret = SecretIn(q)
        BY <2>1 DEF Confined
      <3>3. VersionIn(p) = VersionIn(q)
        BY <2>1, <2>5, <3>1, <3>2, AcceptedPairs DEF Pair
      <3> QED
        BY <2>3, <3>1, <3>2, <3>3
    <2> QED
      BY <2>4, <2>5
  <1> QED
    BY <1>1, RotationInvariant, PTL
=============================================================================
