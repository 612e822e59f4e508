-------------------------- MODULE ApiKeyAuthProofs --------------------------
(***************************************************************************)
(* Proofs about ApiKeyAuth, for every number of replicas, workers, users   *)
(* and keys, and every TTL and call duration.                              *)
(***************************************************************************)
EXTENDS ApiKeyAuth, TLAPS

(* A worker between two requests has a well-typed record. *)
LEMMA NoWorkType == NoWork \in Work
  BY TopologyAssumption DEF NoWork, Work, AuthPC, AdminPC

(* The reset value of a cache entry is an entry. *)
LEMMA NoEntryType == NoEntry \in Entry(SUBSET Keys)
  BY DEF NoEntry, Entry

(* An empty cache is a cache. *)
LEMMA EmptyCacheType ==
  ASSUME NEW K
  PROVE  EmptyCache(K) \in [K -> Entry(SUBSET Keys)]
  BY NoEntryType DEF EmptyCache

(* Clear and DeleteWhere map well-typed caches to well-typed caches. *)
LEMMA ResetTypes ==
  ASSUME NEW K, NEW c \in [K -> Entry(SUBSET Keys)], NEW M
  PROVE  /\ DeleteWhere(c, M) \in [K -> Entry(SUBSET Keys)]
         /\ Clear(c) \in [K -> Entry(SUBSET Keys)]
  BY NoEntryType DEF DeleteWhere, Clear

(* DeleteWhere keeps an entry or removes it. *)
LEMMA DeleteWhereEntry ==
  ASSUME NEW K, NEW c \in [K -> Entry(SUBSET Keys)], NEW M
  PROVE  \A k \in K : DeleteWhere(c, M)[k] \in {c[k], NoEntry}
  BY DEF DeleteWhere

(* Get, Set and Delete map well-typed caches to well-typed caches. *)
LEMMA CacheTypes ==
  ASSUME NEW K, NEW c \in [K -> Entry(SUBSET Keys)], NEW k \in K,
         NEW v \in SUBSET Keys, NEW t \in Nat
  PROVE  /\ Get(c, k, t) \in [K -> Entry(SUBSET Keys)]
         /\ Set(c, k, v, t, TTL) \in [K -> Entry(SUBSET Keys)]
         /\ Delete(c, k) \in [K -> Entry(SUBSET Keys)]
  <1>1. NoEntry \in Entry(SUBSET Keys)
    BY NoEntryType
  <1>2. [value |-> v, expiresAt |-> t + TTL] \in Entry(SUBSET Keys)
    BY TimeAssumption DEF Entry
  <1> QED
    BY <1>1, <1>2 DEF Get, Set, Delete

(* The state keeps its type: Init establishes TypeOK and every action of   *)
(* authenticate, Create, Revoke, SetStatus, Restart and Tick preserves it. *)
THEOREM TypeCorrect == Spec => []TypeOK
  <1> USE TopologyAssumption, TimeAssumption
  <1>1. Init => TypeOK
    <2> SUFFICES ASSUME Init PROVE TypeOK
      OBVIOUS
    <2> USE DEF Init
    <2>1. /\ candidates \in [Replicas -> [Prefixes -> Entry(SUBSET Keys)]]
          /\ verified \in [Replicas -> [Keys -> Entry(SUBSET Keys)]]
      BY EmptyCacheType
    <2>2. work \in [Workers -> Work]
      BY NoWorkType
    <2>3. keyStatus \in [Keys -> {"none", "active", "revoked"}]
      OBVIOUS
    <2> QED BY <2>1, <2>2, <2>3 DEF TypeOK
  <1>2. TypeOK /\ [Next]_vars => TypeOK'
    <2> SUFFICES ASSUME TypeOK, [Next]_vars PROVE TypeOK'
      OBVIOUS
    <2> USE DEF TypeOK
    <2> USE DEF dbVars, cacheVars, ghostVars
    <2>1. ASSUME NEW w \in Workers, Authenticate(w) PROVE TypeOK'
      <3>0. Host[w] \in Replicas /\ work[w] \in Work
        OBVIOUS
      <3>1. ASSUME NEW k \in Keys, AuthenticateHit(w, k) PROVE TypeOK'
        BY <3>1 DEF AuthenticateHit, vars
      <3>2. ASSUME NEW k \in Keys, AuthenticateMiss(w, k) PROVE TypeOK'
        <4>1. Get(verified[Host[w]], k, now) \in [Keys -> Entry(SUBSET Keys)]
          BY <3>0, CacheTypes
        <4>2. [NoWork EXCEPT !.pc = "candidates", !.key = k, !.since = now] \in Work
          BY NoWorkType DEF Work, AuthPC
        <4> QED BY <3>0, <3>2, <4>1, <4>2 DEF AuthenticateMiss
      <3>3. CASE CandidatesGet(w)
        <4>1. /\ work[w].key \in Keys
              /\ Prefix[work[w].key] \in Prefixes
          BY <3>0 DEF Work
        <4>2. candidates[Host[w]][Prefix[work[w].key]].value \in SUBSET Keys
          BY <3>0, <4>1 DEF Entry
        <4>3. Get(candidates[Host[w]], Prefix[work[w].key], now)
                \in [Prefixes -> Entry(SUBSET Keys)]
          BY <3>0, <4>1, CacheTypes
        <4>4. work' \in [Workers -> Work]
          BY <3>0, <3>3, <4>2 DEF CandidatesGet, Work, AuthPC
        <4> QED BY <3>3, <4>3, <4>4 DEF CandidatesGet
      <3>4. CASE CandidatesQuery(w)
        <4>1. work' \in [Workers -> Work]
          BY <3>0, <3>4 DEF CandidatesQuery, Selected, Work, AuthPC
        <4> QED BY <3>4, <4>1 DEF CandidatesQuery
      <3>5. CASE CandidatesFill(w)
        <4>1. /\ Prefix[work[w].key] \in Prefixes
              /\ work[w].rows \in SUBSET Keys
          BY <3>0 DEF Work
        <4>2. Set(candidates[Host[w]], Prefix[work[w].key], work[w].rows, now, TTL)
                \in [Prefixes -> Entry(SUBSET Keys)]
          BY <3>0, <4>1, CacheTypes
        <4>3. work' \in [Workers -> Work]
          BY <3>0, <3>5 DEF CandidatesFill, Work, AuthPC
        <4> QED BY <3>5, <4>2, <4>3 DEF CandidatesFill
      <3>6. CASE VerifyActive(w)
        <4>1. work' \in [Workers -> Work]
          BY <3>0, <3>6 DEF VerifyActive, Work, AuthPC
        <4> QED BY <3>6, <4>1 DEF VerifyActive
      <3>7. CASE VerifyReject(w)
        BY <3>7, NoWorkType DEF VerifyReject, Finished
      <3>8. CASE VerifiedStore(w)
        <4>1. work[w].key \in Keys /\ {work[w].key} \in SUBSET Keys
          BY <3>0 DEF Work
        <4>2. Set(verified[Host[w]], work[w].key, {work[w].key}, now, TTL)
                \in [Keys -> Entry(SUBSET Keys)]
          BY <3>0, <4>1, CacheTypes
        <4> QED BY <3>8, <4>2, NoWorkType DEF VerifiedStore, Finished
      <3>9. CASE AuthenticateError(w)
        BY <3>9, NoWorkType DEF AuthenticateError, Finished
      <3> QED
        BY <2>1, <3>1, <3>2, <3>3, <3>4, <3>5, <3>6, <3>7, <3>8, <3>9 DEF Authenticate
    <2>2. ASSUME NEW w \in Workers, Create(w) \/ Revoke(w) \/ SetStatus(w) PROVE TypeOK'
      <3>0. Host[w] \in Replicas /\ work[w] \in Work
        OBVIOUS
      <3>1. ASSUME NEW k \in Keys, CreateInsert(w, k) PROVE TypeOK'
        <4>1. [NoWork EXCEPT !.pc = "publish", !.key = k] \in Work
          BY NoWorkType DEF Work, AdminPC
        <4> QED BY <3>1, <4>1 DEF CreateInsert
      <3>2. ASSUME NEW u \in Users, NEW k \in Keys, NEW lost \in BOOLEAN,
                   RevokeUpdate(w, u, k, lost)
            PROVE  TypeOK'
        <4>1. [NoWork EXCEPT !.pc = "clearCandidates", !.key = k] \in Work
          BY NoWorkType DEF Work, AdminPC
        <4> QED BY <3>2, <4>1 DEF RevokeUpdate
      <3>3. ASSUME NEW u \in Users, NEW k \in Keys, RevokeNotFound(w, u, k)
            PROVE  TypeOK'
        BY <3>3 DEF RevokeNotFound, vars
      <3>4. CASE CreatePublish(w)
        <4>1. work[w].key \in Keys /\ Prefix[work[w].key] \in Prefixes
          BY <3>0 DEF Work
        <4>2. Delete(candidates[Host[w]], Prefix[work[w].key])
                \in [Prefixes -> Entry(SUBSET Keys)]
          BY <3>0, <4>1, CacheTypes
        <4>3. published' \in [Replicas -> SUBSET Keys]
          BY <3>0, <3>4, <4>1 DEF CreatePublish
        <4> QED BY <3>4, <4>2, <4>3, NoWorkType DEF CreatePublish, Finished
      <3>5. CASE RevokeClearCandidates(w)
        <4>1. candidates[Host[w]] \in [Prefixes -> Entry(SUBSET Keys)]
          BY <3>0
        <4>2. Clear(candidates[Host[w]]) \in [Prefixes -> Entry(SUBSET Keys)]
          BY <4>1, NoEntryType DEF Clear
        <4>3. work' \in [Workers -> Work]
          BY <3>0, <3>5 DEF RevokeClearCandidates, Work, AdminPC
        <4> QED BY <3>5, <4>2, <4>3 DEF RevokeClearCandidates
      <3>6. CASE RevokeClearVerified(w)
        <4>1. Clear(verified[Host[w]]) \in [Keys -> Entry(SUBSET Keys)]
          BY <3>0, NoEntryType DEF Clear
        <4>2. sealed' \in [Replicas -> SUBSET (Keys \cup Users)]
          BY <3>0, <3>6 DEF RevokeClearVerified, Work
        <4> QED BY <3>6, <4>1, <4>2, NoWorkType DEF RevokeClearVerified, Finished
      <3>7. ASSUME NEW u \in Users, NEW status \in {"active", "blocked"},
                   NEW lost \in BOOLEAN, SetStatusCommit(w, u, status, lost)
            PROVE  TypeOK'
        <4>1. [NoWork EXCEPT !.pc = "invalidateUser", !.user = u] \in Work
          BY NoWorkType DEF Work, AdminPC
        <4>2. work' \in [Workers -> Work]
          BY <3>7, <4>1 DEF SetStatusCommit
        <4>3. sealed' \in [Replicas -> SUBSET (Keys \cup Users)]
          BY <3>7 DEF SetStatusCommit
        <4> QED BY <3>7, <4>2, <4>3 DEF SetStatusCommit
      <3>8. CASE InvalidateUser(w)
        <4> DEFINE owned == {k \in Keys : Owner[k] = work[w].user}
        <4>1. DeleteWhere(verified[Host[w]], owned) \in [Keys -> Entry(SUBSET Keys)]
          BY <3>0, ResetTypes
        <4>2. sealed' \in [Replicas -> SUBSET (Keys \cup Users)]
          BY <3>0, <3>8 DEF InvalidateUser, Work
        <4>3. verified' \in [Replicas -> [Keys -> Entry(SUBSET Keys)]]
          BY <3>0, <3>8, <4>1 DEF InvalidateUser
        <4> QED BY <3>8, <4>2, <4>3, NoWorkType DEF InvalidateUser, Finished
      <3> HIDE DEF TypeOK
      <3> QED
        BY <2>2, <3>1, <3>2, <3>3, <3>4, <3>5, <3>6, <3>7, <3>8 DEF Create, Revoke, SetStatus
    <2>3. ASSUME NEW r \in Replicas, Restart(r) PROVE TypeOK'
      <3>1. work' \in [Workers -> Work]
        BY <2>3, NoWorkType DEF Restart
      <3>2. /\ candidates' \in [Replicas -> [Prefixes -> Entry(SUBSET Keys)]]
            /\ verified' \in [Replicas -> [Keys -> Entry(SUBSET Keys)]]
        BY <2>3, EmptyCacheType DEF Restart
      <3> QED BY <2>3, <3>1, <3>2 DEF Restart
    <2>4. CASE Tick
      <3>1. now' \in Nat
        BY <2>4 DEF Tick
      <3> QED BY <2>4, <3>1 DEF Tick
    <2>5. CASE UNCHANGED vars
      BY <2>5 DEF vars
    <2> QED
      BY <2>1, <2>2, <2>3, <2>4, <2>5 DEF Next
  <1> QED
    BY <1>1, <1>2, PTL DEF Spec

-----------------------------------------------------------------------------
(* Fields of a worker between two requests. *)
LEMMA NoWorkFields == NoWork.pc = "idle" /\ NoWork.rows = {}
  BY DEF NoWork

(* Init establishes the clock invariant. *)
LEMMA ClockInit == Init => ClockInv
  BY NoWorkFields, TimeAssumption, TopologyAssumption
     DEF Init, ClockInv, EmptyCache, NoEntry, Authenticating, AuthPC

-----------------------------------------------------------------------------
(* What one step of the system can do to one cache entry, one worker, one  *)
(* key and one user.  The invariants below are proved from these facts     *)
(* instead of from the actions.                                            *)

CandidatesEntryStep(r, p) ==
    \/ candidates'[r][p] = candidates[r][p]
    \/ candidates'[r][p] = NoEntry
    \/ \E w \in Workers :
          /\ work[w].pc = "fill" /\ Host[w] = r /\ Prefix[work[w].key] = p
          /\ candidates'[r][p] = [value |-> work[w].rows, expiresAt |-> now + TTL]

VerifiedEntryStep(r, k) ==
    \/ verified'[r][k] = verified[r][k]
    \/ verified'[r][k] = NoEntry
    \/ \E w \in Workers :
          /\ work[w].pc = "store" /\ Host[w] = r /\ work[w].key = k
          /\ verified'[r][k] = [value |-> {k}, expiresAt |-> now + TTL]

Keeps(w) == work'[w].key = work[w].key /\ work'[w].since = work[w].since

WorkerStep(w) ==
    \/ work'[w] = work[w]
    \/ work'[w].pc \notin AuthPC /\ work'[w].rows = {}
    \/ /\ work'[w].pc \notin AuthPC /\ work[w].pc \notin AuthPC
       /\ work'[w].rows = work[w].rows
    \/ /\ work'[w].pc = "candidates" /\ work'[w].since = now /\ now' = now
       /\ work'[w].rows = {}
    \/ /\ work[w].pc = "candidates" /\ work'[w].pc = "verify"
       /\ Live(candidates[Host[w]][Prefix[work[w].key]], now)
       /\ work'[w].rows = candidates[Host[w]][Prefix[work[w].key]].value
       /\ Keeps(w) /\ now' = now
    \/ /\ work[w].pc = "candidates" /\ work'[w].pc = "query"
       /\ work'[w].rows = {} /\ Keeps(w) /\ now' = now
    \/ /\ work[w].pc = "query" /\ work'[w].pc = "fill"
       /\ work'[w].rows = Selected(Host[w], Prefix[work[w].key])
       /\ Keeps(w) /\ now' = now /\ UNCHANGED dbVars
    \/ /\ work[w].pc = "fill" /\ work'[w].pc = "verify"
       /\ work'[w].rows = work[w].rows /\ Keeps(w) /\ now' = now
    \/ /\ work[w].pc = "verify" /\ work'[w].pc = "store"
       /\ work'[w].rows = work[w].rows /\ work[w].key \in work[w].rows
       /\ userStatus[Owner[work[w].key]] = "active"
       /\ Keeps(w) /\ now' = now /\ UNCHANGED dbVars

ClockStep ==
    \/ now' = now
    \/ /\ now' = now + 1
       /\ \A w \in Workers : Authenticating(w) => now < work[w].since + MaxCall
       /\ UNCHANGED <<dbVars, cacheVars, work>>

KeyStep(k) ==
    \/ /\ keyStatus'[k] = keyStatus[k]
       /\ createdAt'[k] = createdAt[k] /\ revokedAt'[k] = revokedAt[k]
    \/ keyStatus[k] = "none" /\ keyStatus'[k] = "active" /\ createdAt'[k] = now
    \/ /\ keyStatus[k] = "active" /\ keyStatus'[k] = "revoked"
       /\ createdAt'[k] = createdAt[k] /\ revokedAt'[k] = now

UserStep(u) ==
    \/ userStatus'[u] = userStatus[u] /\ blockedAt'[u] = blockedAt[u]
    \/ userStatus'[u] = "active"
    \/ userStatus'[u] = "blocked" /\ blockedAt'[u] = now

StepFacts ==
    /\ \A r \in Replicas, p \in Prefixes : CandidatesEntryStep(r, p)
    /\ \A r \in Replicas, k \in Keys : VerifiedEntryStep(r, k)
    /\ \A w \in Workers : WorkerStep(w)
    /\ ClockStep
    /\ \A k \in Keys : KeyStep(k)
    /\ \A u \in Users : UserStep(u)

(* Every step of the specification obeys the step facts. *)
LEMMA StepsObeyFacts == TypeOK /\ [Next]_vars => StepFacts
  <1> SUFFICES ASSUME TypeOK, [Next]_vars PROVE StepFacts
    OBVIOUS
  <1> USE TopologyAssumption, TimeAssumption, NoWorkFields
  <1> USE DEF StepFacts, TypeOK, dbVars, cacheVars, ghostVars, KeyStep, UserStep,
              ClockStep
  <1>1. ASSUME NEW w \in Workers, Authenticate(w) PROVE StepFacts
    <2>0. work[w] \in Work /\ Host[w] \in Replicas
      OBVIOUS
    <2>1. ASSUME NEW k \in Keys, AuthenticateHit(w, k) PROVE StepFacts
      BY <2>1 DEF AuthenticateHit, vars, CandidatesEntryStep, VerifiedEntryStep, WorkerStep
    <2>2. ASSUME NEW k \in Keys, AuthenticateMiss(w, k) PROVE StepFacts
      <3>1. \A r \in Replicas, j \in Keys : VerifiedEntryStep(r, j)
        BY <2>2 DEF AuthenticateMiss, VerifiedEntryStep, Get
      <3>2. \A x \in Workers : WorkerStep(x)
        BY <2>2, NoWorkType DEF AuthenticateMiss, WorkerStep, Work, AuthPC
      <3> QED BY <2>2, <3>1, <3>2 DEF AuthenticateMiss, CandidatesEntryStep
    <2>3. CASE CandidatesGet(w)
      <3>1. \A r \in Replicas, p \in Prefixes : CandidatesEntryStep(r, p)
        BY <2>3 DEF CandidatesGet, CandidatesEntryStep, Get
      <3>2. \A x \in Workers : WorkerStep(x)
        BY <2>0, <2>3 DEF CandidatesGet, WorkerStep, Work, Keeps
      <3> QED BY <2>3, <3>1, <3>2 DEF CandidatesGet, VerifiedEntryStep
    <2>4. CASE CandidatesQuery(w)
      <3>1. \A x \in Workers : WorkerStep(x)
        BY <2>0, <2>4 DEF CandidatesQuery, WorkerStep, Work, Keeps
      <3> QED BY <2>4, <3>1 DEF CandidatesQuery, CandidatesEntryStep, VerifiedEntryStep
    <2>5. CASE CandidatesFill(w)
      <3>1. \A r \in Replicas, p \in Prefixes : CandidatesEntryStep(r, p)
        BY <2>0, <2>5 DEF CandidatesFill, CandidatesEntryStep, Set
      <3>2. \A x \in Workers : WorkerStep(x)
        BY <2>0, <2>5 DEF CandidatesFill, WorkerStep, Work, Keeps
      <3> QED BY <2>5, <3>1, <3>2 DEF CandidatesFill, VerifiedEntryStep
    <2>6. CASE VerifyActive(w)
      <3>1. \A x \in Workers : WorkerStep(x)
        BY <2>0, <2>6 DEF VerifyActive, WorkerStep, Work, Keeps
      <3> QED BY <2>6, <3>1 DEF VerifyActive, CandidatesEntryStep, VerifiedEntryStep
    <2>7. CASE VerifyReject(w)
      <3>1. \A x \in Workers : WorkerStep(x)
        BY <2>7 DEF VerifyReject, Finished, WorkerStep, AuthPC
      <3> QED BY <2>7, <3>1 DEF VerifyReject, CandidatesEntryStep, VerifiedEntryStep
    <2>8. CASE VerifiedStore(w)
      <3>1. \A r \in Replicas, k \in Keys : VerifiedEntryStep(r, k)
        BY <2>0, <2>8 DEF VerifiedStore, VerifiedEntryStep, Set
      <3>2. \A x \in Workers : WorkerStep(x)
        BY <2>8 DEF VerifiedStore, Finished, WorkerStep, AuthPC
      <3> QED BY <2>8, <3>1, <3>2 DEF VerifiedStore, CandidatesEntryStep
    <2>9. CASE AuthenticateError(w)
      <3>1. \A x \in Workers : WorkerStep(x)
        BY <2>9 DEF AuthenticateError, Finished, WorkerStep, AuthPC
      <3> QED BY <2>9, <3>1 DEF AuthenticateError, CandidatesEntryStep, VerifiedEntryStep
    <2> HIDE DEF StepFacts
    <2> QED
      BY <1>1, <2>1, <2>2, <2>3, <2>4, <2>5, <2>6, <2>7, <2>8, <2>9 DEF Authenticate
  <1>2. ASSUME NEW w \in Workers, Create(w) \/ Revoke(w) \/ SetStatus(w) PROVE StepFacts
    <2>0. work[w] \in Work /\ Host[w] \in Replicas
      OBVIOUS
    <2>1. ASSUME NEW k \in Keys, CreateInsert(w, k) PROVE StepFacts
      <3>1. \A x \in Workers : WorkerStep(x)
        BY <2>1, NoWorkType DEF CreateInsert, WorkerStep, AuthPC, Work
      <3> QED BY <2>1, <3>1 DEF CreateInsert, CandidatesEntryStep, VerifiedEntryStep
    <2>2. ASSUME NEW u \in Users, NEW k \in Keys, NEW lost \in BOOLEAN,
                 RevokeUpdate(w, u, k, lost)
          PROVE  StepFacts
      <3>1. \A x \in Workers : WorkerStep(x)
        BY <2>2, NoWorkType DEF RevokeUpdate, WorkerStep, AuthPC, Work
      <3> QED BY <2>2, <3>1 DEF RevokeUpdate, CandidatesEntryStep, VerifiedEntryStep
    <2>3. ASSUME NEW u \in Users, NEW k \in Keys, RevokeNotFound(w, u, k)
          PROVE  StepFacts
      BY <2>3 DEF RevokeNotFound, vars, CandidatesEntryStep, VerifiedEntryStep, WorkerStep
    <2>4. CASE CreatePublish(w)
      <3>1. \A r \in Replicas, p \in Prefixes : CandidatesEntryStep(r, p)
        BY <2>4 DEF CreatePublish, CandidatesEntryStep, Delete
      <3>2. \A x \in Workers : WorkerStep(x)
        BY <2>4 DEF CreatePublish, Finished, WorkerStep, AuthPC
      <3> QED BY <2>4, <3>1, <3>2 DEF CreatePublish, VerifiedEntryStep
    <2>5. CASE RevokeClearCandidates(w)
      <3>1. \A r \in Replicas, p \in Prefixes : CandidatesEntryStep(r, p)
        BY <2>0, <2>5 DEF RevokeClearCandidates, CandidatesEntryStep, Clear
      <3>2. \A x \in Workers : WorkerStep(x)
        BY <2>0, <2>5 DEF RevokeClearCandidates, WorkerStep, AuthPC, Work
      <3> QED BY <2>5, <3>1, <3>2 DEF RevokeClearCandidates, VerifiedEntryStep
    <2>6. CASE RevokeClearVerified(w)
      <3>1. \A r \in Replicas, k \in Keys : VerifiedEntryStep(r, k)
        BY <2>0, <2>6 DEF RevokeClearVerified, VerifiedEntryStep, Clear
      <3>2. \A x \in Workers : WorkerStep(x)
        BY <2>6 DEF RevokeClearVerified, Finished, WorkerStep, AuthPC
      <3> QED BY <2>6, <3>1, <3>2 DEF RevokeClearVerified, CandidatesEntryStep
    <2>7. ASSUME NEW u \in Users, NEW status \in {"active", "blocked"},
                 NEW lost \in BOOLEAN, SetStatusCommit(w, u, status, lost)
          PROVE  StepFacts
      <3>1. \A x \in Workers : WorkerStep(x)
        BY <2>7, NoWorkType DEF SetStatusCommit, WorkerStep, AuthPC, Work
      <3> QED BY <2>7, <3>1 DEF SetStatusCommit, CandidatesEntryStep, VerifiedEntryStep
    <2>8. CASE InvalidateUser(w)
      <3>1. \A r \in Replicas, k \in Keys : VerifiedEntryStep(r, k)
        <4> DEFINE owned == {k \in Keys : Owner[k] = work[w].user}
        <4>1. \A k \in Keys : DeleteWhere(verified[Host[w]], owned)[k]
                                \in {verified[Host[w]][k], NoEntry}
          BY <2>0, DeleteWhereEntry
        <4>2. verified' = [verified EXCEPT ![Host[w]] = DeleteWhere(@, owned)]
          BY <2>8 DEF InvalidateUser
        <4> QED BY <2>0, <4>1, <4>2 DEF VerifiedEntryStep
      <3>2. \A x \in Workers : WorkerStep(x)
        BY <2>8 DEF InvalidateUser, Finished, WorkerStep, AuthPC
      <3> QED BY <2>8, <3>1, <3>2 DEF InvalidateUser, CandidatesEntryStep
    <2> HIDE DEF StepFacts
    <2> QED
      BY <1>2, <2>1, <2>2, <2>3, <2>4, <2>5, <2>6, <2>7, <2>8 DEF Create, Revoke, SetStatus
  <1>3. ASSUME NEW r \in Replicas, Restart(r) PROVE StepFacts
    BY <1>3 DEF Restart, EmptyCache, CandidatesEntryStep, VerifiedEntryStep,
                WorkerStep, AuthPC
  <1>4. CASE Tick
    BY <1>4 DEF Tick, CandidatesEntryStep, VerifiedEntryStep, WorkerStep
  <1>5. CASE UNCHANGED vars
    BY <1>5 DEF vars, CandidatesEntryStep, VerifiedEntryStep, WorkerStep
  <1> HIDE DEF StepFacts
  <1> QED
    BY <1>1, <1>2, <1>3, <1>4, <1>5 DEF Next

-----------------------------------------------------------------------------
(* The clock invariant is inductive. *)
LEMMA ClockInductive == TypeOK /\ TypeOK' /\ ClockInv /\ StepFacts => ClockInv'
  <1> SUFFICES ASSUME TypeOK, TypeOK', ClockInv, StepFacts PROVE ClockInv'
    OBVIOUS
  <1> USE TimeAssumption DEF StepFacts
  <1>0. now \in Nat /\ now' \in Nat /\ now <= now'
    BY DEF TypeOK, ClockStep
  <1>1. ASSUME NEW r \in Replicas, NEW p \in Prefixes
        PROVE  candidates'[r][p].expiresAt <= now' + TTL
    <2>1. candidates[r][p].expiresAt \in Nat /\ candidates[r][p].expiresAt <= now + TTL
      BY DEF ClockInv, TypeOK, Entry
    <2>2. candidates'[r][p].expiresAt \in {candidates[r][p].expiresAt, 0, now + TTL}
      <3>1. CandidatesEntryStep(r, p)
        OBVIOUS
      <3>2. ASSUME NEW w \in Workers,
                   candidates'[r][p] = [value |-> work[w].rows, expiresAt |-> now + TTL]
            PROVE  candidates'[r][p].expiresAt = now + TTL
        BY <3>2
      <3>3. candidates'[r][p] = NoEntry => candidates'[r][p].expiresAt = 0
        BY DEF NoEntry
      <3> QED BY <3>1, <3>2, <3>3, Zenon DEF CandidatesEntryStep
    <2> QED BY <1>0, <2>1, <2>2
  <1>2. ASSUME NEW r \in Replicas, NEW k \in Keys
        PROVE  verified'[r][k].expiresAt <= now' + TTL
    <2>1. verified[r][k].expiresAt \in Nat /\ verified[r][k].expiresAt <= now + TTL
      BY DEF ClockInv, TypeOK, Entry
    <2>2. verified'[r][k].expiresAt \in {verified[r][k].expiresAt, 0, now + TTL}
      <3>1. VerifiedEntryStep(r, k)
        OBVIOUS
      <3> QED BY <3>1 DEF VerifiedEntryStep, NoEntry
    <2> QED BY <1>0, <2>1, <2>2
  <1>3. ASSUME NEW w \in Workers
        PROVE  /\ Authenticating(w)' => /\ work'[w].since <= now'
                                        /\ now' <= work'[w].since + MaxCall
               /\ ~Authenticating(w)' => work'[w].rows = {}
               /\ work'[w].pc = "store" => work'[w].key \in work'[w].rows
    <2>1. work[w].since \in Nat /\ work'[w].since \in Nat
      BY DEF TypeOK, Work
    <2>2. CASE now' = now
      BY <1>0, <2>1, <2>2 DEF ClockInv, WorkerStep, Keeps, Authenticating, AuthPC
    <2>3. CASE now' # now
      BY <1>0, <2>1, <2>3 DEF ClockInv, ClockStep, Authenticating, AuthPC
    <2> QED BY <2>2, <2>3
  <1> QED
    BY <1>1, <1>2, <1>3 DEF ClockInv

(* Within is weaker for later limits and survives every step of the key.   *)
LEMMA WithinStep ==
  ASSUME TypeOK, TypeOK', NEW k \in Keys, KeyStep(k),
         NEW t \in Nat, NEW d \in Nat, Within(k, t, d), t <= now + d
  PROVE  Within(k, t, d)'
  BY TimeAssumption DEF TypeOK, KeyStep, Within

(* Staleness of rows is inductive given the clock invariant. *)
LEMMA StaleInductive ==
  TypeOK /\ TypeOK' /\ ClockInv /\ StaleInv /\ StepFacts => StaleInv'
  <1> SUFFICES ASSUME TypeOK, TypeOK', ClockInv, StaleInv, StepFacts
               PROVE  StaleInv'
    OBVIOUS
  <1> USE TimeAssumption
  <1>0. now \in Nat /\ TTL \in Nat /\ MaxCall \in Nat
    BY DEF TypeOK
  <1>k. \A k \in Keys : KeyStep(k)
    BY DEF StepFacts
  <1>w. \A w \in Workers : /\ work[w].since \in Nat
                           /\ work[w].rows \subseteq Keys
                           /\ work[w].key \in Keys
                           /\ Host[w] \in Replicas
                           /\ Prefix[work[w].key] \in Prefixes
    BY TopologyAssumption DEF TypeOK, Work
  <1>1. ASSUME NEW r \in Replicas, NEW p \in Prefixes,
               NEW k \in candidates'[r][p].value
        PROVE  Within(k, candidates[r][p].expiresAt, TTL + MaxCall)'
    <2>1. k \in Keys /\ candidates'[r][p].expiresAt \in Nat
      BY DEF TypeOK, Entry
    <2>2. CASE candidates'[r][p] = candidates[r][p]
      <3>1. Within(k, candidates[r][p].expiresAt, TTL + MaxCall)
        BY <2>2 DEF StaleInv
      <3>2. candidates[r][p].expiresAt <= now + TTL
        BY DEF ClockInv
      <3>3. Within(k, candidates'[r][p].expiresAt, TTL + MaxCall)
        BY <2>2, <3>1
      <3> QED BY <1>0, <1>k, <2>1, <2>2, <3>2, <3>3, WithinStep
    <2>3. CASE candidates'[r][p] = NoEntry
      BY <2>3 DEF NoEntry
    <2>4. ASSUME NEW w \in Workers, work[w].pc = "fill",
                 candidates'[r][p] = [value |-> work[w].rows, expiresAt |-> now + TTL]
          PROVE  Within(k, candidates[r][p].expiresAt, TTL + MaxCall)'
      <3>1. Within(k, work[w].since, 0)
        BY <2>4 DEF StaleInv
      <3>2. now <= work[w].since + MaxCall
        BY <2>4 DEF ClockInv, Authenticating, AuthPC
      <3>3. Within(k, now + TTL, TTL + MaxCall)
        BY <1>0, <1>w, <2>1, <3>1, <3>2 DEF Within, TypeOK
      <3> QED BY <1>0, <1>k, <2>1, <2>4, <3>3, WithinStep
    <2>5. CandidatesEntryStep(r, p)
      BY DEF StepFacts
    <2> QED BY <2>2, <2>3, <2>4, <2>5, Zenon DEF CandidatesEntryStep
  <1>2. ASSUME NEW r \in Replicas, NEW k \in Keys
        PROVE  Within(k, verified[r][k].expiresAt, 2 * TTL + 2 * MaxCall)'
    <2>1. verified'[r][k].expiresAt \in Nat
      BY DEF TypeOK, Entry
    <2>2. CASE verified'[r][k] = verified[r][k]
      <3>1. Within(k, verified'[r][k].expiresAt, 2 * TTL + 2 * MaxCall)
        BY <2>2 DEF StaleInv
      <3>2. verified'[r][k].expiresAt <= now + (2 * TTL + 2 * MaxCall)
        BY <1>0, <2>1, <2>2 DEF ClockInv
      <3> QED BY <1>0, <1>k, <2>1, <3>1, <3>2, WithinStep
    <2>3. CASE verified'[r][k] = NoEntry
      BY <1>0, <2>3 DEF NoEntry, Within, TypeOK
    <2>4. ASSUME NEW w \in Workers, work[w].pc = "store", work[w].key = k,
                 verified'[r][k] = [value |-> {k}, expiresAt |-> now + TTL]
          PROVE  Within(k, verified[r][k].expiresAt, 2 * TTL + 2 * MaxCall)'
      <3>1. Within(k, work[w].since, TTL + MaxCall)
        BY <2>4 DEF StaleInv, ClockInv
      <3>2. now <= work[w].since + MaxCall
        BY <2>4 DEF ClockInv, Authenticating, AuthPC
      <3>3. Within(k, now + TTL, 2 * TTL + 2 * MaxCall)
        BY <1>0, <1>w, <3>1, <3>2 DEF Within, TypeOK
      <3> QED BY <1>0, <1>k, <2>1, <2>4, <3>3, WithinStep
    <2> QED BY <2>2, <2>3, <2>4 DEF StepFacts, VerifiedEntryStep
  <1>3. ASSUME NEW w \in Workers, NEW k \in work'[w].rows
        PROVE  /\ work'[w].pc = "fill" => Within(k, work[w].since, 0)'
               /\ work'[w].pc \in {"verify", "store"} =>
                    Within(k, work[w].since, TTL + MaxCall)'
    <2>1. k \in Keys /\ work'[w].since \in Nat
      BY DEF TypeOK, Work
    <2>2. CASE work'[w] = work[w] /\ Authenticating(w)
      <3>1. work[w].since <= now
        BY <2>2 DEF ClockInv
      <3> QED BY <1>0, <1>k, <1>w, <2>1, <2>2, <3>1, WithinStep DEF StaleInv
    <2>3. CASE work'[w].pc \notin AuthPC
      BY <2>3 DEF AuthPC
    <2>4. CASE work'[w].pc = "candidates"
      BY <2>4
    <2>5. CASE /\ work[w].pc = "candidates" /\ work'[w].pc = "verify"
               /\ Live(candidates[Host[w]][Prefix[work[w].key]], now)
               /\ work'[w].rows = candidates[Host[w]][Prefix[work[w].key]].value
               /\ Keeps(w)
      <3> DEFINE e == candidates[Host[w]][Prefix[work[w].key]]
      <3>1. Within(k, e.expiresAt, TTL + MaxCall)
        BY <1>w, <2>5 DEF StaleInv
      <3>2. e.expiresAt \in Nat /\ work[w].since <= now /\ now < e.expiresAt
        BY <1>w, <2>5 DEF ClockInv, Authenticating, AuthPC, Live, TypeOK, Entry
      <3>3. Within(k, work[w].since, TTL + MaxCall)
        <4> HIDE DEF e
        <4> QED BY <1>0, <1>w, <2>1, <3>1, <3>2 DEF Within, TypeOK
      <3> QED BY <1>0, <1>k, <1>w, <2>1, <2>5, <3>2, <3>3, WithinStep DEF Keeps
    <2>6. CASE work'[w].pc = "query"
      BY <2>6
    <2>7. CASE /\ work[w].pc = "query" /\ work'[w].pc = "fill"
               /\ work'[w].rows = Selected(Host[w], Prefix[work[w].key])
               /\ Keeps(w) /\ UNCHANGED dbVars
      <3>1. keyStatus[k] = "active" /\ ~Expired(k, now)
        BY <2>7 DEF Selected
      <3>2. work[w].since <= now
        BY <2>7 DEF ClockInv, Authenticating, AuthPC
      <3> QED BY <1>0, <1>w, <2>1, <2>7, <3>1, <3>2
              DEF Expired, Within, Keeps, dbVars, TypeOK
    <2>8. CASE /\ work[w].pc \in {"fill", "verify"} /\ work'[w].pc \in {"verify", "store"}
               /\ work'[w].rows = work[w].rows /\ Keeps(w)
      <3>1. work[w].since <= now
        BY <2>8 DEF ClockInv, Authenticating, AuthPC
      <3>2. Within(k, work[w].since, TTL + MaxCall)
        BY <1>0, <1>w, <2>1, <2>8 DEF StaleInv, Within, TypeOK
      <3> QED BY <1>0, <1>k, <1>w, <2>1, <2>8, <3>1, <3>2, WithinStep DEF Keeps
    <2> QED
      BY <2>2, <2>3, <2>4, <2>5, <2>6, <2>7, <2>8
         DEF StepFacts, WorkerStep, Authenticating
  <1> QED
    BY <1>1, <1>2, <1>3 DEF StaleInv

(* Staleness of the user check is inductive given the clock invariant. *)
LEMMA BlockInductive ==
  TypeOK /\ TypeOK' /\ ClockInv /\ BlockInv /\ StepFacts => BlockInv'
  <1> SUFFICES ASSUME TypeOK, TypeOK', ClockInv, BlockInv, StepFacts
               PROVE  BlockInv'
    OBVIOUS
  <1> USE TimeAssumption
  <1>0. now \in Nat /\ TTL \in Nat /\ MaxCall \in Nat
    BY DEF TypeOK
  <1>u. \A k \in Keys : /\ Owner[k] \in Users
                        /\ UserStep(Owner[k])
                        /\ blockedAt[Owner[k]] \in Nat
                        /\ blockedAt'[Owner[k]] \in Nat
    BY TopologyAssumption DEF StepFacts, TypeOK
  <1>1. ASSUME NEW r \in Replicas, NEW k \in Keys,
               userStatus'[Owner[k]] = "blocked"
        PROVE  verified'[r][k].expiresAt <= blockedAt'[Owner[k]] + TTL + MaxCall
    <2>1. verified'[r][k].expiresAt \in Nat /\ verified[r][k].expiresAt \in Nat
      BY DEF TypeOK, Entry
    <2>2. CASE verified'[r][k] = verified[r][k]
      <3>1. verified[r][k].expiresAt <= now + TTL
        BY DEF ClockInv
      <3>2. userStatus[Owner[k]] = "blocked" =>
              verified[r][k].expiresAt <= blockedAt[Owner[k]] + TTL + MaxCall
        BY DEF BlockInv
      <3> QED BY <1>0, <1>1, <1>u, <2>1, <2>2, <3>1, <3>2 DEF UserStep
    <2>3. CASE verified'[r][k] = NoEntry
      BY <1>0, <1>u, <2>3 DEF NoEntry
    <2>4. ASSUME NEW w \in Workers, work[w].pc = "store", work[w].key = k,
                 verified'[r][k] = [value |-> {k}, expiresAt |-> now + TTL]
          PROVE  verified'[r][k].expiresAt <= blockedAt'[Owner[k]] + TTL + MaxCall
      <3>1. /\ work[w].since \in Nat
            /\ now <= work[w].since + MaxCall
        BY <2>4 DEF ClockInv, Authenticating, AuthPC, TypeOK, Work
      <3>2. userStatus[Owner[k]] = "blocked" => work[w].since <= blockedAt[Owner[k]]
        BY <2>4 DEF BlockInv
      <3>3. verified'[r][k].expiresAt = now + TTL
        BY <2>4
      <3> QED BY <1>0, <1>1, <1>u, <3>1, <3>2, <3>3 DEF UserStep
    <2>5. VerifiedEntryStep(r, k)
      BY DEF StepFacts
    <2> QED BY <2>2, <2>3, <2>4, <2>5, Zenon DEF VerifiedEntryStep
  <1>2. ASSUME NEW w \in Workers, work'[w].pc = "store",
               userStatus'[Owner[work'[w].key]] = "blocked"
        PROVE  work'[w].since <= blockedAt'[Owner[work'[w].key]]
    <2>1. /\ work'[w].key \in Keys /\ work[w].key \in Keys
          /\ work'[w].since \in Nat /\ work[w].since \in Nat
      BY DEF TypeOK, Work
    <2>2. CASE work'[w] = work[w]
      <3>1. work[w].since <= now
        BY <1>2, <2>2 DEF ClockInv, Authenticating, AuthPC
      <3>2. userStatus[Owner[work[w].key]] = "blocked" =>
              work[w].since <= blockedAt[Owner[work[w].key]]
        BY <1>2, <2>2 DEF BlockInv
      <3> QED BY <1>0, <1>2, <1>u, <2>1, <2>2, <3>1, <3>2 DEF UserStep
    <2>3. CASE /\ userStatus[Owner[work[w].key]] = "active"
               /\ Keeps(w) /\ UNCHANGED dbVars
      BY <1>2, <2>3 DEF Keeps, dbVars
    <2>4. WorkerStep(w)
      BY DEF StepFacts
    <2> QED BY <1>2, <2>2, <2>3, <2>4 DEF WorkerStep, AuthPC
  <1> QED
    BY <1>1, <1>2 DEF BlockInv

(* Init establishes the invariants on staleness. *)
LEMMA StaleInit == Init => StaleInv /\ BlockInv
  BY NoWorkFields, TimeAssumption, TopologyAssumption
     DEF Init, StaleInv, BlockInv, Within, EmptyCache, NoEntry

(* The inductive invariant of the specification. *)
StalenessInv == ClockInv /\ StaleInv /\ BlockInv

\* The cache entries and the calls in flight satisfy the three parts in every
\* reachable state.
LEMMA StalenessInvariant == Spec => []StalenessInv
  <1>1. Init => StalenessInv
    BY ClockInit, StaleInit DEF StalenessInv
  <1>2. TypeOK /\ TypeOK' /\ StalenessInv /\ [Next]_vars => StalenessInv'
    BY StepsObeyFacts, ClockInductive, StaleInductive, BlockInductive DEF StalenessInv
  <1> QED
    BY <1>1, <1>2, TypeCorrect, PTL DEF Spec

(* On no replica is a revoked or expired key honoured for 2 * TTL + 2 *    *)
(* MaxCall after it stopped being selectable: the bound of the two chained *)
(* caches of authenticate, for any number of replicas and goroutines, with *)
(* restarts and with lost answers.                                         *)
THEOREM RevocationIsBounded == Spec => []RevocationBound
  <1>1. TypeOK /\ StalenessInv => RevocationBound
    <2> SUFFICES ASSUME TypeOK, StalenessInv,
                        NEW r \in Replicas, NEW k \in Keys, Honoured(r, k)
                 PROVE  Within(k, now + 1, 2 * TTL + 2 * MaxCall)
      BY DEF RevocationBound
    <2> USE TimeAssumption
    <2>1. CASE Live(verified[r][k], now)
      <3>1. /\ Within(k, verified[r][k].expiresAt, 2 * TTL + 2 * MaxCall)
            /\ verified[r][k].expiresAt \in Nat
            /\ now < verified[r][k].expiresAt
        BY <2>1 DEF StalenessInv, StaleInv, TypeOK, Entry, Live
      <3> QED BY <3>1 DEF Within, TypeOK
    <2>2. ASSUME NEW w \in Workers, work[w].pc = "store", work[w].key = k
          PROVE  Within(k, now + 1, 2 * TTL + 2 * MaxCall)
      <3>1. /\ work[w].since \in Nat
            /\ now <= work[w].since + MaxCall
            /\ work[w].key \in work[w].rows
        BY <2>2 DEF StalenessInv, ClockInv, Authenticating, AuthPC, TypeOK, Work
      <3>2. Within(k, work[w].since, TTL + MaxCall)
        BY <2>2, <3>1 DEF StalenessInv, StaleInv
      <3> QED BY <3>1, <3>2 DEF Within, TypeOK
    <2> QED BY <2>1, <2>2 DEF Honoured
  <1> QED
    BY <1>1, TypeCorrect, StalenessInvariant, PTL

(* The keys of a blocked user are honoured for less than TTL + MaxCall     *)
(* after the block, on every replica, although only the replica that       *)
(* served the block resets its verified cache.                             *)
THEOREM BlockIsBounded == Spec => []BlockBound
  <1>1. TypeOK /\ StalenessInv => BlockBound
    <2> SUFFICES ASSUME TypeOK, StalenessInv,
                        NEW r \in Replicas, NEW k \in Keys, Honoured(r, k),
                        userStatus[Owner[k]] # "active"
                 PROVE  now < blockedAt[Owner[k]] + TTL + MaxCall
      BY DEF BlockBound
    <2> USE TimeAssumption, TopologyAssumption
    <2>0. /\ userStatus[Owner[k]] = "blocked"
          /\ blockedAt[Owner[k]] \in Nat
      BY DEF TypeOK
    <2>1. CASE Live(verified[r][k], now)
      <3>1. /\ verified[r][k].expiresAt <= blockedAt[Owner[k]] + TTL + MaxCall
            /\ verified[r][k].expiresAt \in Nat
            /\ now < verified[r][k].expiresAt
        BY <2>0, <2>1 DEF StalenessInv, BlockInv, TypeOK, Entry, Live
      <3> QED BY <2>0, <3>1 DEF TypeOK
    <2>2. ASSUME NEW w \in Workers, work[w].pc = "store", work[w].key = k
          PROVE  now < blockedAt[Owner[k]] + TTL + MaxCall
      <3>1. /\ work[w].since \in Nat
            /\ now <= work[w].since + MaxCall
        BY <2>2 DEF StalenessInv, ClockInv, Authenticating, AuthPC, TypeOK, Work
      <3>2. work[w].since <= blockedAt[Owner[k]]
        BY <2>0, <2>2 DEF StalenessInv, BlockInv
      <3> QED BY <2>0, <3>1, <3>2 DEF TypeOK
    <2> QED BY <2>1, <2>2 DEF Honoured
  <1> QED
    BY <1>1, TypeCorrect, StalenessInvariant, PTL

-----------------------------------------------------------------------------
(* What one step can do to a management request and to the ghosts that     *)
(* record what a reset or a publication promises.                          *)

AdminStep(w) ==
    \/ work'[w] = work[w]
    \/ work'[w].pc \notin {"publish", "clearCandidates", "clearVerified"}
    \/ work'[w].pc = "publish" /\ keyStatus'[work'[w].key] = "active"
    \/ work'[w].pc = "clearCandidates" /\ keyStatus'[work'[w].key] = "revoked"
    \/ /\ work[w].pc = "clearCandidates" /\ work'[w].pc = "clearVerified"
       /\ work'[w].key = work[w].key /\ work'[w].rows = work[w].rows
       /\ \A p \in Prefixes : candidates'[Host[w]][p] = NoEntry
       /\ work'[w].quiet => \A x \in Workers : Host[x] = Host[w] => ~Authenticating(x)
       /\ \A x \in Workers \ {w} : work'[x] = work[x]
       /\ UNCHANGED dbVars

SealStep(r, x) ==
    \/ x \in sealed[r] /\ (x \in Users => userStatus'[x] \in {userStatus[x], "blocked"})
    \/ \E w \in Workers :
          /\ Host[w] = r /\ work[w].pc = "clearVerified" /\ work[w].quiet /\ work[w].key = x
          /\ \A k \in Keys : verified'[r][k] = NoEntry
    \/ /\ x \in Users /\ userStatus'[x] = "blocked"
       /\ \A k \in Keys : Owner[k] = x => verified'[r][k] = NoEntry
       /\ \A w \in Workers : Host[w] = r /\ work[w].pc = "store" => Owner[work[w].key] # x
       /\ \A w \in Workers : work'[w] = work[w] \/ work'[w].pc = "idle"

PublishStep(r, k) ==
    \/ k \in published[r]
    \/ /\ \E w \in Workers : work[w].pc = "publish" /\ work[w].key = k
       /\ candidates'[r][Prefix[k]] = NoEntry
       /\ ~\E x \in Workers : /\ Host[x] = r /\ work[x].pc = "fill"
                              /\ Prefix[work[x].key] = Prefix[k] /\ k \notin work[x].rows
       /\ \A w \in Workers : work'[w] = work[w] \/ work'[w].pc = "idle"
       /\ UNCHANGED dbVars

AdminFacts ==
    /\ \A w \in Workers : AdminStep(w)
    /\ \A r \in Replicas : \A x \in sealed'[r] : SealStep(r, x)
    /\ \A r \in Replicas : \A k \in published'[r] : PublishStep(r, k)

(* Every step of the specification obeys the facts about management. *)
LEMMA StepsObeyAdminFacts == TypeOK /\ [Next]_vars => AdminFacts
  <1> SUFFICES ASSUME TypeOK, [Next]_vars PROVE AdminFacts
    OBVIOUS
  <1> USE TopologyAssumption, NoWorkFields
  <1> USE DEF TypeOK, dbVars, cacheVars, ghostVars
  <1>0. ASSUME UNCHANGED <<sealed, published, userStatus>>
        PROVE  /\ \A r \in Replicas : \A x \in sealed'[r] : SealStep(r, x)
               /\ \A r \in Replicas : \A k \in published'[r] : PublishStep(r, k)
    BY <1>0 DEF SealStep, PublishStep
  <1>1. ASSUME NEW w \in Workers, Authenticate(w) PROVE AdminFacts
    <2>0. work[w] \in Work /\ NoWork \in Work
      BY NoWorkType
    <2>1. UNCHANGED <<sealed, published, userStatus>>
      BY <1>1 DEF Authenticate, AuthenticateHit, AuthenticateMiss, CandidatesGet,
                  CandidatesQuery, CandidatesFill, VerifyActive, VerifyReject, VerifiedStore,
                  AuthenticateError, vars
    <2>2. \A x \in Workers \ {w} : work'[x] = work[x]
      BY <1>1 DEF Authenticate, AuthenticateHit, AuthenticateMiss, CandidatesGet,
                  CandidatesQuery, CandidatesFill, VerifyActive, VerifyReject, VerifiedStore,
                  AuthenticateError, vars, Finished
    <2>3. work'[w] = work[w] \/ work'[w].pc \in AuthPC \cup {"idle"}
      <3>1. ASSUME NEW k \in Keys, AuthenticateHit(w, k) \/ AuthenticateMiss(w, k)
            PROVE  work'[w] = work[w] \/ work'[w].pc \in AuthPC \cup {"idle"}
        <4>1. [NoWork EXCEPT !.pc = "candidates", !.key = k, !.since = now].pc = "candidates"
          BY <2>0 DEF Work
        <4> QED BY <3>1, <4>1 DEF AuthenticateHit, AuthenticateMiss, vars, AuthPC
      <3>2. CASE CandidatesGet(w) \/ CandidatesQuery(w) \/ CandidatesFill(w) \/ VerifyActive(w)
        BY <2>0, <3>2 DEF CandidatesGet, CandidatesQuery, CandidatesFill, VerifyActive, AuthPC, Work
      <3>3. CASE VerifyReject(w) \/ VerifiedStore(w) \/ AuthenticateError(w)
        BY <3>3 DEF VerifyReject, VerifiedStore, AuthenticateError, Finished
      <3> QED BY <1>1, <3>1, <3>2, <3>3 DEF Authenticate
    <2>4. \A x \in Workers : AdminStep(x)
      BY <2>2, <2>3 DEF AdminStep, AuthPC
    <2> QED BY <1>0, <2>1, <2>4 DEF AdminFacts
  <1>2. ASSUME NEW w \in Workers, Create(w) \/ Revoke(w) \/ SetStatus(w) PROVE AdminFacts
    <2>0. work[w] \in Work /\ Host[w] \in Replicas
      OBVIOUS
    <2>1. ASSUME NEW k \in Keys, CreateInsert(w, k) PROVE AdminFacts
      <3>1. \A x \in Workers : AdminStep(x)
        BY <2>1, NoWorkType DEF CreateInsert, AdminStep, Work
      <3> QED BY <1>0, <2>1, <3>1 DEF CreateInsert, AdminFacts
    <2>2. ASSUME NEW u \in Users, NEW k \in Keys, NEW lost \in BOOLEAN,
                 RevokeUpdate(w, u, k, lost)
          PROVE  AdminFacts
      <3>1. \A x \in Workers : AdminStep(x)
        BY <2>2, NoWorkType DEF RevokeUpdate, AdminStep, Work
      <3> QED BY <1>0, <2>2, <3>1 DEF RevokeUpdate, AdminFacts
    <2>3. ASSUME NEW u \in Users, NEW k \in Keys, RevokeNotFound(w, u, k)
          PROVE  AdminFacts
      BY <1>0, <2>3 DEF RevokeNotFound, vars, AdminFacts, AdminStep
    <2>4. CASE CreatePublish(w)
      <3>1. \A x \in Workers : AdminStep(x)
        BY <2>4 DEF CreatePublish, Finished, AdminStep
      <3>2. ASSUME NEW r \in Replicas, NEW k \in published'[r] PROVE PublishStep(r, k)
        <4>1. CASE k \in published[r]
          BY <4>1 DEF PublishStep
        <4>2. CASE k \notin published[r]
          <5>1. r = Host[w] /\ k = work[w].key
            BY <2>0, <2>4, <3>2, <4>2 DEF CreatePublish
          <5>2. candidates'[r][Prefix[k]] = NoEntry
            BY <2>0, <2>4, <5>1 DEF CreatePublish, Delete, Work
          <5> QED BY <2>4, <3>2, <4>2, <5>1, <5>2 DEF PublishStep, CreatePublish, Finished
        <4> QED BY <4>1, <4>2
      <3> QED BY <2>4, <3>1, <3>2 DEF CreatePublish, AdminFacts, SealStep
    <2>5. CASE RevokeClearCandidates(w)
      <3>1. \A x \in Workers : AdminStep(x)
        <4>1. \A x \in Workers \ {w} : work'[x] = work[x]
          BY <2>5 DEF RevokeClearCandidates
        <4>2. /\ work[w].pc = "clearCandidates" /\ work'[w].pc = "clearVerified"
              /\ work'[w].key = work[w].key /\ work'[w].rows = work[w].rows
              /\ UNCHANGED dbVars
          BY <2>0, <2>5 DEF RevokeClearCandidates, Work
        <4>3. work'[w].quiet => \A x \in Workers : Host[x] = Host[w] => ~Authenticating(x)
          BY <2>0, <2>5 DEF RevokeClearCandidates, Work
        <4>4. \A p \in Prefixes : candidates'[Host[w]][p] = NoEntry
          BY <2>0, <2>5 DEF RevokeClearCandidates, Clear
        <4> QED BY <4>1, <4>2, <4>3, <4>4 DEF AdminStep
      <3> QED BY <1>0, <2>5, <3>1 DEF RevokeClearCandidates, AdminFacts
    <2>6. CASE RevokeClearVerified(w)
      <3>1. \A x \in Workers : AdminStep(x)
        BY <2>6 DEF RevokeClearVerified, Finished, AdminStep
      <3>2. \A r \in Replicas : \A x \in sealed'[r] : SealStep(r, x)
        BY <2>0, <2>6 DEF RevokeClearVerified, SealStep, Clear
      <3> QED BY <2>6, <3>1, <3>2 DEF RevokeClearVerified, AdminFacts, PublishStep
    <2>7. ASSUME NEW u \in Users, NEW status \in {"active", "blocked"},
                 NEW lost \in BOOLEAN, SetStatusCommit(w, u, status, lost)
          PROVE  AdminFacts
      <3>1. \A x \in Workers : AdminStep(x)
        BY <2>7, NoWorkType DEF SetStatusCommit, AdminStep, Work
      <3>2. \A r \in Replicas : \A x \in sealed'[r] : SealStep(r, x)
        BY <2>7 DEF SetStatusCommit, SealStep
      <3> QED BY <2>7, <3>1, <3>2 DEF SetStatusCommit, AdminFacts, PublishStep
    <2>8. CASE InvalidateUser(w)
      <3>1. \A x \in Workers : AdminStep(x)
        BY <2>8 DEF InvalidateUser, Finished, AdminStep
      <3>2. ASSUME NEW r \in Replicas, NEW x \in sealed'[r] PROVE SealStep(r, x)
        <4>1. CASE x \in sealed[r]
          BY <2>8, <4>1 DEF SealStep, InvalidateUser
        <4>2. CASE x \notin sealed[r]
          <5>1. r = Host[w] /\ x = work[w].user /\ userStatus'[x] = "blocked" /\ x \in Users
            BY <2>0, <2>8, <3>2, <4>2 DEF InvalidateUser, Work
          <5>2. \A k \in Keys : Owner[k] = x => verified'[r][k] = NoEntry
            BY <2>0, <2>8, <5>1 DEF InvalidateUser, DeleteWhere
          <5>3. \A y \in Workers : Host[y] = r /\ work[y].pc = "store" => Owner[work[y].key] # x
            BY <2>8, <3>2, <4>2, <5>1 DEF InvalidateUser, Work
          <5> QED BY <2>8, <5>1, <5>2, <5>3 DEF SealStep, InvalidateUser, Finished
        <4> QED BY <4>1, <4>2
      <3> QED BY <2>8, <3>1, <3>2 DEF InvalidateUser, AdminFacts, PublishStep
    <2> QED
      BY <1>2, <2>1, <2>2, <2>3, <2>4, <2>5, <2>6, <2>7, <2>8 DEF Create, Revoke, SetStatus
  <1>3. ASSUME NEW r \in Replicas, Restart(r) PROVE AdminFacts
    BY <1>0, <1>3 DEF Restart, AdminFacts, AdminStep
  <1>4. CASE Tick
    BY <1>0, <1>4 DEF Tick, AdminFacts, AdminStep
  <1>5. CASE UNCHANGED vars
    BY <1>0, <1>5 DEF vars, AdminFacts, AdminStep
  <1> QED
    BY <1>1, <1>2, <1>3, <1>4, <1>5 DEF Next

(* A revoked key that a replica has forgotten below its verified cache     *)
(* does not come back: the rows of a call come from the candidates cache   *)
(* or from a query, and no query returns a revoked key.                    *)
LEMMA ForgottenStep ==
  ASSUME TypeOK, TypeOK', StepFacts, NEW r \in Replicas, NEW k \in Keys, Forgotten(r, k)
  PROVE  Forgotten(r, k)'
  <1>1. keyStatus'[k] = "revoked"
    BY DEF StepFacts, KeyStep, Forgotten
  <1>2. ASSUME NEW p \in Prefixes PROVE k \notin candidates'[r][p].value
    <2>1. CandidatesEntryStep(r, p) /\ k \notin candidates[r][p].value
      BY DEF StepFacts, Forgotten
    <2>2. ASSUME NEW w \in Workers, Host[w] = r,
                 candidates'[r][p] = [value |-> work[w].rows, expiresAt |-> now + TTL]
          PROVE  k \notin candidates'[r][p].value
      BY <2>2 DEF Forgotten
    <2>3. candidates'[r][p] = NoEntry => k \notin candidates'[r][p].value
      BY DEF NoEntry
    <2> QED BY <2>1, <2>2, <2>3, Zenon DEF CandidatesEntryStep
  <1>3. ASSUME NEW w \in Workers, Host[w] = r PROVE k \notin work'[w].rows
    <2>1. WorkerStep(w) /\ k \notin work[w].rows
      BY <1>3 DEF StepFacts, Forgotten
    <2>2. k \notin candidates[Host[w]][Prefix[work[w].key]].value
      BY <1>3, TopologyAssumption DEF Forgotten, TypeOK, Work
    <2>3. k \notin Selected(Host[w], Prefix[work[w].key])
      BY DEF Selected, Forgotten
    <2> QED BY <2>1, <2>2, <2>3 DEF WorkerStep
  <1> QED BY <1>1, <1>2, <1>3 DEF Forgotten

(* A quiet reset of the two caches leaves no path back for the key. *)
LEMMA SealInductive ==
  TypeOK /\ TypeOK' /\ ClockInv /\ SealInv /\ StepFacts /\ AdminFacts => SealInv'
  <1> SUFFICES ASSUME TypeOK, TypeOK', ClockInv, SealInv, StepFacts, AdminFacts
               PROVE  SealInv'
    OBVIOUS
  <1> USE TopologyAssumption
  <1>w. \A w \in Workers : /\ work[w].key \in Keys /\ work'[w].key \in Keys
                           /\ Host[w] \in Replicas
                           /\ work[w].rows \subseteq Keys
    BY DEF TypeOK, Work
  <1>k. \A k \in Keys : keyStatus[k] = "revoked" => keyStatus'[k] = "revoked"
    BY DEF StepFacts, KeyStep
  <1>1. ASSUME NEW w \in Workers, work'[w].pc \in {"clearCandidates", "clearVerified"}
        PROVE  keyStatus'[work'[w].key] = "revoked"
    BY <1>1, <1>w, <1>k DEF SealInv, AdminFacts, AdminStep
  <1>2. ASSUME NEW w \in Workers, work'[w].pc = "clearVerified", work'[w].quiet,
               NEW k \in Keys, k = work'[w].key
        PROVE  Forgotten(Host[w], k)'
    <2>1. CASE work'[w] = work[w]
      BY <1>2, <1>w, <2>1, ForgottenStep DEF SealInv
    <2>2. CASE work'[w] # work[w]
      <3>1. /\ work[w].pc = "clearCandidates" /\ work'[w].key = work[w].key
            /\ work'[w].rows = work[w].rows
            /\ \A p \in Prefixes : candidates'[Host[w]][p] = NoEntry
            /\ \A x \in Workers : Host[x] = Host[w] => ~Authenticating(x)
            /\ \A x \in Workers \ {w} : work'[x] = work[x]
        BY <1>2, <2>2 DEF AdminFacts, AdminStep
      <3>2. \A x \in Workers : Host[x] = Host[w] => work'[x].rows = {}
        BY <3>1 DEF ClockInv
      <3> QED BY <1>1, <1>2, <3>1, <3>2 DEF Forgotten, NoEntry
    <2> QED BY <2>1, <2>2
  <1>3. ASSUME NEW r \in Replicas, NEW k \in Keys, k \in sealed'[r]
        PROVE  Forgotten(r, k)' /\ verified'[r][k].expiresAt = 0
    <2>1. SealStep(r, k) /\ k \notin Users
      BY <1>3 DEF AdminFacts
    <2>2. Forgotten(r, k)
      BY <2>1 DEF SealStep, SealInv
    <2>3. ASSUME NEW w \in Workers, work[w].pc = "store", Host[w] = r, work[w].key = k
          PROVE  FALSE
      BY <2>2, <2>3 DEF ClockInv, Forgotten
    <2>4. CASE k \in sealed[r]
      <3>1. verified[r][k].expiresAt = 0 /\ VerifiedEntryStep(r, k)
        BY <2>4 DEF SealInv, StepFacts
      <3>2. verified'[r][k] = NoEntry => verified'[r][k].expiresAt = 0
        BY DEF NoEntry
      <3>3. verified'[r][k].expiresAt = 0
        BY <2>3, <3>1, <3>2, Zenon DEF VerifiedEntryStep
      <3> QED BY <2>2, <3>3, ForgottenStep
    <2>5. CASE verified'[r][k] = NoEntry
      BY <2>2, <2>5, ForgottenStep DEF NoEntry
    <2> QED BY <2>1, <2>4, <2>5 DEF SealStep
  <1>4. ASSUME NEW r \in Replicas, NEW k \in Keys, Owner[k] \in sealed'[r]
        PROVE  /\ userStatus'[Owner[k]] = "blocked"
               /\ verified'[r][k].expiresAt = 0
               /\ \A w \in Workers : Host[w] = r /\ work'[w].pc = "store" => work'[w].key # k
    <2>1. SealStep(r, Owner[k]) /\ Owner[k] \in Users /\ Owner[k] \notin Keys
      BY <1>4 DEF AdminFacts
    <2>2. CASE Owner[k] \in sealed[r] /\ userStatus'[Owner[k]] \in {userStatus[Owner[k]], "blocked"}
      <3>1. /\ userStatus[Owner[k]] = "blocked"
            /\ verified[r][k].expiresAt = 0
            /\ \A w \in Workers : Host[w] = r /\ work[w].pc = "store" => work[w].key # k
        BY <2>2 DEF SealInv
      <3>2. verified'[r][k].expiresAt = 0
        <4>1. VerifiedEntryStep(r, k)
          BY DEF StepFacts
        <4>2. verified'[r][k] = NoEntry => verified'[r][k].expiresAt = 0
          BY DEF NoEntry
        <4> QED BY <3>1, <4>1, <4>2, Zenon DEF VerifiedEntryStep
      <3>3. ASSUME NEW w \in Workers, Host[w] = r, work'[w].pc = "store"
            PROVE  work'[w].key # k
        <4>1. WorkerStep(w)
          BY DEF StepFacts
        <4> QED BY <3>1, <3>3, <4>1 DEF WorkerStep, Keeps, AuthPC
      <3> QED BY <2>2, <3>1, <3>2, <3>3
    <2>3. CASE /\ userStatus'[Owner[k]] = "blocked"
               /\ \A j \in Keys : Owner[j] = Owner[k] => verified'[r][j] = NoEntry
               /\ \A w \in Workers : Host[w] = r /\ work[w].pc = "store" =>
                                        Owner[work[w].key] # Owner[k]
               /\ \A w \in Workers : work'[w] = work[w] \/ work'[w].pc = "idle"
      BY <2>3 DEF NoEntry
    <2> QED BY <1>w, <2>1, <2>2, <2>3 DEF SealStep
  <1>5. ASSUME NEW w \in Workers, work'[w].pc = "clearVerified", work'[w].quiet
        PROVE  Forgotten(Host[w], work[w].key)'
    BY <1>2, <1>5, <1>w DEF Forgotten
  <1> QED
    BY <1>1, <1>3, <1>4, <1>5 DEF SealInv

(* A key that a query now returns was returned before the step as well, or *)
(* the step inserted it.                                                   *)
LEMMA SelectedStep ==
  ASSUME TypeOK, TypeOK', StepFacts, NEW r \in Replicas, NEW k \in Keys,
         k \in Selected(r, Prefix[k])'
  PROVE  \/ k \in Selected(r, Prefix[k]) /\ createdAt'[k] = createdAt[k]
         \/ keyStatus[k] = "none" /\ createdAt'[k] = now' /\ now' = now
  <1>1. KeyStep(k) /\ ClockStep /\ now \in Nat /\ now' \in Nat
    BY DEF StepFacts, TypeOK
  <1>2. keyStatus'[k] = "active" /\ ~Expired(k, now')
    BY DEF Selected
  <1>3. now <= now' /\ ~Expired(k, now)
    BY <1>1, <1>2, TimeAssumption DEF ClockStep, Expired
  <1>4. CASE keyStatus'[k] = keyStatus[k] /\ createdAt'[k] = createdAt[k]
    BY <1>2, <1>3, <1>4 DEF Selected
  <1>5. CASE keyStatus[k] = "none" /\ createdAt'[k] = now
    BY <1>1, <1>2, <1>5 DEF ClockStep, dbVars
  <1> QED BY <1>1, <1>2, <1>4, <1>5 DEF KeyStep

\* Worker w is about to cache a list for the prefix of k that lacks k.
Lacks(r, k, w) ==
    /\ Host[w] = r
    /\ work[w].pc = "fill"
    /\ Prefix[work[w].key] = Prefix[k]
    /\ k \notin work[w].rows

(* A call that lacks a key which is selected lacked it before the step. *)
LEMMA LacksStep ==
  ASSUME TypeOK, StepFacts, NEW r \in Replicas, NEW k \in Keys, NEW w \in Workers,
         k \in Selected(r, Prefix[k]), Lacks(r, k, w)'
  PROVE  Lacks(r, k, w) /\ work'[w].since = work[w].since
  <1>1. WorkerStep(w)
    BY DEF StepFacts
  <1>2. CASE work'[w] = work[w]
    BY <1>2 DEF Lacks
  <1>3. CASE /\ work'[w].rows = Selected(Host[w], Prefix[work[w].key]) /\ Keeps(w)
    BY <1>3 DEF Lacks, Keeps
  <1> QED BY <1>1, <1>2, <1>3 DEF WorkerStep, Lacks, AuthPC

(* What a stale candidate list can hide, and for how long, is inductive    *)
(* given the clock invariant.                                              *)
LEMMA CreateInductive ==
  TypeOK /\ TypeOK' /\ ClockInv /\ ClockInv' /\ CreateInv /\ StepFacts /\ AdminFacts
    => CreateInv'
  <1> SUFFICES ASSUME TypeOK, TypeOK', ClockInv, ClockInv', CreateInv, StepFacts, AdminFacts
               PROVE  CreateInv'
    OBVIOUS
  <1> USE TopologyAssumption, TimeAssumption
  <1>0. /\ now \in Nat /\ now' \in Nat /\ TTL \in Nat /\ MaxCall \in Nat
        /\ \A k \in Keys : createdAt[k] \in Nat /\ createdAt'[k] \in Nat
    BY DEF TypeOK
  <1>w. \A w \in Workers : /\ work[w].key \in Keys /\ work'[w].key \in Keys
                           /\ work[w].since \in Nat
    BY DEF TypeOK, Work
  <1>k. \A k \in Keys : keyStatus[k] # "none" => keyStatus'[k] # "none"
    BY DEF StepFacts, KeyStep
  <1>1. ASSUME NEW w \in Workers, work'[w].pc = "publish"
        PROVE  keyStatus'[work'[w].key] # "none"
    BY <1>1, <1>w, <1>k DEF CreateInv, AdminFacts, AdminStep
  <1>p. ASSUME NEW r \in Replicas, NEW k \in Keys, k \in published'[r]
        PROVE  keyStatus[k] # "none"
    BY <1>p DEF CreateInv, AdminFacts, PublishStep
  <1>2. ASSUME NEW r \in Replicas, NEW k \in Keys, k \in Selected(r, Prefix[k])'
        PROVE  LET entry == candidates'[r][Prefix[k]]
               IN  /\ k \notin entry.value => entry.expiresAt <= createdAt'[k] + TTL + MaxCall
                   /\ \A w \in Workers : Lacks(r, k, w)' => work'[w].since <= createdAt'[k]
                   /\ k \in published'[r] =>
                        /\ k \in entry.value \/ entry.expiresAt = 0
                        /\ \A w \in Workers : ~Lacks(r, k, w)'
    <2> DEFINE entry == candidates[r][Prefix[k]]
    <2>0. /\ Prefix[k] \in Prefixes
          /\ entry.expiresAt \in Nat /\ entry'.expiresAt \in Nat
          /\ CandidatesEntryStep(r, Prefix[k])
          /\ entry' = NoEntry => entry'.expiresAt = 0
      BY DEF TypeOK, Entry, StepFacts, NoEntry
    <2>1. CASE keyStatus[k] = "none" /\ createdAt'[k] = now' /\ now' = now
      <3>1. k \notin published'[r]
        BY <1>p, <2>1
      <3>2. entry'.expiresAt <= now' + TTL
        BY <2>0 DEF ClockInv
      <3>3. \A w \in Workers : Lacks(r, k, w)' => work'[w].since <= now'
        BY DEF ClockInv, Lacks, Authenticating, AuthPC
      <3> QED BY <1>0, <2>0, <2>1, <3>1, <3>2, <3>3
    <2>2. CASE k \in Selected(r, Prefix[k]) /\ createdAt'[k] = createdAt[k]
      <3>1. /\ k \notin entry.value => entry.expiresAt <= createdAt[k] + TTL + MaxCall
            /\ \A w \in Workers : Lacks(r, k, w) => work[w].since <= createdAt[k]
            /\ k \in published[r] =>
                  /\ k \in entry.value \/ entry.expiresAt = 0
                  /\ \A w \in Workers : ~Lacks(r, k, w)
        BY <2>2 DEF CreateInv, Lacks
      <3>2. k \notin entry'.value => entry'.expiresAt <= createdAt'[k] + TTL + MaxCall
        <4>1. CASE entry' = entry
          BY <2>2, <3>1, <4>1
        <4>2. CASE entry' = NoEntry
          BY <1>0, <2>0, <4>2
        <4>3. ASSUME NEW w \in Workers, work[w].pc = "fill", Host[w] = r,
                     Prefix[work[w].key] = Prefix[k],
                     entry' = [value |-> work[w].rows, expiresAt |-> now + TTL]
              PROVE  k \notin entry'.value => entry'.expiresAt <= createdAt'[k] + TTL + MaxCall
          <5>1. entry'.value = work[w].rows /\ entry'.expiresAt = now + TTL
            BY <4>3
          <5>2. now <= work[w].since + MaxCall
            BY <4>3 DEF ClockInv, Authenticating, AuthPC
          <5>3. k \notin work[w].rows => work[w].since <= createdAt[k]
            BY <3>1, <4>3 DEF Lacks
          <5> QED BY <1>0, <1>w, <2>2, <5>1, <5>2, <5>3
        <4> QED BY <2>0, <4>1, <4>2, <4>3, Zenon DEF CandidatesEntryStep
      <3>3. \A w \in Workers : Lacks(r, k, w)' => work'[w].since <= createdAt'[k]
        BY <2>2, <3>1, LacksStep
      <3>4. ASSUME k \in published'[r]
            PROVE  /\ k \in entry'.value \/ entry'.expiresAt = 0
                   /\ \A w \in Workers : ~Lacks(r, k, w)'
        <4>1. \A w \in Workers : ~Lacks(r, k, w)
          BY <3>1, <3>4 DEF AdminFacts, PublishStep, Lacks
        <4>2. \A w \in Workers : ~Lacks(r, k, w)'
          BY <2>2, <4>1, LacksStep
        <4>3. CASE k \in published[r]
          <5>1. CASE entry' = entry
            BY <3>1, <4>2, <4>3, <5>1
          <5>2. CASE entry' = NoEntry
            BY <2>0, <4>2, <5>2
          <5>3. ASSUME NEW w \in Workers, work[w].pc = "fill", Host[w] = r,
                       Prefix[work[w].key] = Prefix[k],
                       entry' = [value |-> work[w].rows, expiresAt |-> now + TTL]
                PROVE  k \in entry'.value
            BY <4>1, <5>3 DEF Lacks
          <5> QED BY <2>0, <4>2, <5>1, <5>2, <5>3, Zenon DEF CandidatesEntryStep
        <4>4. CASE k \notin published[r]
          BY <2>0, <3>4, <4>2, <4>4 DEF AdminFacts, PublishStep
        <4> QED BY <4>3, <4>4
      <3> QED BY <3>2, <3>3, <3>4
    <2> QED BY <1>2, <2>1, <2>2, SelectedStep
  <1> QED
    BY <1>1, <1>2, <1>p, <1>k DEF CreateInv, Lacks

(* Init establishes the invariants on resets and publications. *)
LEMMA SealInit == Init => SealInv /\ CreateInv
  BY NoWorkFields, TimeAssumption, TopologyAssumption
     DEF Init, SealInv, CreateInv, EmptyCache, NoEntry

\* The two invariants hold in every reachable state.
LEMMA SealInvariant == Spec => [](SealInv /\ CreateInv)
  <1>1. /\ TypeOK /\ TypeOK' /\ StalenessInv /\ StalenessInv'
        /\ (SealInv /\ CreateInv) /\ [Next]_vars
        => (SealInv /\ CreateInv)'
    BY StepsObeyFacts, StepsObeyAdminFacts, SealInductive, CreateInductive DEF StalenessInv
  <1> QED
    BY <1>1, SealInit, TypeCorrect, StalenessInvariant, PTL DEF Spec

(* On the replica that served a revocation or a block the key is refused   *)
(* from the moment the request returns, provided no authentication was in  *)
(* flight when the caches were reset: this is what the order of the two    *)
(* Clear calls of Revoke is for.                                           *)
THEOREM QuietResetIsFinal == Spec => []QuietResetSeals
  <1>1. TypeOK /\ StalenessInv /\ SealInv => QuietResetSeals
    <2> SUFFICES ASSUME TypeOK, StalenessInv, SealInv,
                        NEW r \in Replicas, NEW k \in Keys, Honoured(r, k)
                 PROVE  k \notin sealed[r] /\ Owner[k] \notin sealed[r]
      BY DEF QuietResetSeals
    <2>1. CASE Live(verified[r][k], now)
      <3>1. verified[r][k].expiresAt # 0
        BY <2>1 DEF Live, TypeOK
      <3> QED BY <3>1 DEF SealInv
    <2>2. ASSUME NEW w \in Workers, Host[w] = r, work[w].pc = "store", work[w].key = k
          PROVE  k \notin sealed[r] /\ Owner[k] \notin sealed[r]
      BY <2>2 DEF SealInv, StalenessInv, ClockInv, Forgotten
    <2> QED BY <2>1, <2>2 DEF Honoured
  <1> QED
    BY <1>1, TypeCorrect, StalenessInvariant, SealInvariant, PTL

(* A cached candidate list, the empty one included, hides a key for less   *)
(* than TTL + MaxCall after it was created, on every replica.              *)
THEOREM NewKeyIsHiddenBriefly == Spec => []CreateBound
  <1>1. TypeOK /\ CreateInv => CreateBound
    <2> SUFFICES ASSUME TypeOK, CreateInv, NEW r \in Replicas, NEW k \in Keys,
                        k \in Selected(r, Prefix[k]), Live(candidates[r][Prefix[k]], now),
                        k \notin candidates[r][Prefix[k]].value
                 PROVE  now < createdAt[k] + TTL + MaxCall
      BY DEF CreateBound
    <2>1. candidates[r][Prefix[k]].expiresAt <= createdAt[k] + TTL + MaxCall
      BY DEF CreateInv
    <2>2. candidates[r][Prefix[k]].expiresAt \in Nat /\ createdAt[k] \in Nat /\ now \in Nat
      BY TopologyAssumption DEF TypeOK, Entry
    <2> QED BY <2>1, <2>2, TimeAssumption DEF Live
  <1> QED
    BY <1>1, TypeCorrect, SealInvariant, PTL

(* A key works on the replica that created it from the moment Create       *)
(* returns, unless a lookup of its prefix was in flight.                   *)
THEOREM QuietCreateIsVisible == Spec => []QuietCreatePublishes
  <1>1. TypeOK /\ CreateInv => QuietCreatePublishes
    BY DEF TypeOK, CreateInv, QuietCreatePublishes, Live
  <1> QED
    BY <1>1, TypeCorrect, SealInvariant, PTL
=============================================================================
