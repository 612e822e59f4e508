-------------------------- MODULE SessionAuthProofs --------------------------
(***************************************************************************)
(* Proofs about management sessions, for every number of replicas,         *)
(* workers, users and tokens, and every TTL and lookup duration.  The      *)
(* inductive invariant is the conjunction of UsedInv, ClockInv, StaleInv,  *)
(* OverlapInv, SealInv and BlockedRowsFromOverlap; it is proved from what  *)
(* one step can do to one part of the state (StepFacts).                   *)
(***************************************************************************)
EXTENDS SessionAuth, TLAPS

(* A worker between two requests, and one that has begun a request, has a  *)
(* well-typed record.                                                      *)
LEMMA NoWorkType == NoWork \in Work /\ NoWork.pc = "idle"
  BY SessionTopology DEF NoWork, Work, LookupPC, Roles

\* What a request begins with.
Created(u, role) == [NoWork EXCEPT !.pc = "create", !.user = u, !.role = role, !.since = now]
Looked(t) == [NoWork EXCEPT !.pc = "lookup", !.token = t, !.since = now]
LoggedOut(t) == [NoWork EXCEPT !.pc = "invalidateToken", !.token = t]
Reset(u) == [NoWork EXCEPT !.pc = "invalidateUser", !.user = u]

(* The records a request begins with, field by field. *)
LEMMA BegunTypes ==
  ASSUME now \in Nat, NEW u \in Users, NEW t \in Tokens, NEW role \in Roles
  PROVE  /\ /\ Created(u, role) \in Work
            /\ Created(u, role).pc = "create"
            /\ Created(u, role).user = u
            /\ Created(u, role).since = now
         /\ Looked(t) \in Work /\ Looked(t).pc = "lookup" /\ Looked(t).since = now
         /\ LoggedOut(t) \in Work /\ LoggedOut(t).pc = "invalidateToken" /\ LoggedOut(t).token = t
         /\ Reset(u) \in Work /\ Reset(u).pc = "invalidateUser"
  BY NoWorkType DEF Created, Looked, LoggedOut, Reset, Work, LookupPC

(* A role for the groups of an identity is one of the two. *)
LEMMA RoleTypes ==
  ASSUME NEW groups
  PROVE  RoleForGroups(groups) \in Roles
  BY DEF RoleForGroups, Roles

(* Get, Set, Delete and DeleteWhere map caches to caches. *)
LEMMA CacheTypes ==
  ASSUME NEW c \in [Tokens -> Entry(SUBSET Tokens)], NEW t \in Tokens, NEW n \in Nat, NEW M
  PROVE  /\ Get(c, t, n) \in [Tokens -> Entry(SUBSET Tokens)]
         /\ Set(c, t, {t}, n, TTL) \in [Tokens -> Entry(SUBSET Tokens)]
         /\ Delete(c, t) \in [Tokens -> Entry(SUBSET Tokens)]
         /\ DeleteWhere(c, M) \in [Tokens -> Entry(SUBSET Tokens)]
  <1>1. NoEntry \in Entry(SUBSET Tokens)
    BY DEF NoEntry, Entry
  <1>2. [value |-> {t}, expiresAt |-> n + TTL] \in Entry(SUBSET Tokens)
    BY SessionTimes DEF Entry
  <1> QED
    BY <1>1, <1>2 DEF Get, Set, Delete, DeleteWhere

(* An empty cache is a cache. *)
LEMMA EmptyCacheType == EmptyCache(Tokens) \in [Tokens -> Entry(SUBSET Tokens)]
  BY DEF EmptyCache, Entry, NoEntry

(* The state keeps its type. *)
THEOREM SessionTypeCorrect == Spec => []TypeOK
  <1> USE SessionTopology, SessionTimes
  <1>1. Init => TypeOK
    <2> SUFFICES ASSUME Init PROVE TypeOK
      OBVIOUS
    <2>1. row \in [Tokens -> Row]
      BY DEF Init, Row
    <2> QED BY <2>1, EmptyCacheType, NoWorkType DEF Init, TypeOK
  <1>2. TypeOK /\ [Next]_vars => TypeOK'
    <2> SUFFICES ASSUME TypeOK, [Next]_vars PROVE TypeOK'
      OBVIOUS
    <2> USE DEF TypeOK, dbVars, Begin, Finished
    <2>1. ASSUME NEW w \in Workers, Login(w) PROVE TypeOK'
      <3>0. work[w] \in Work
        OBVIOUS
      <3>1. ASSUME NEW u \in Users, NEW groups, LoginUpsert(w, u, groups) PROVE TypeOK'
        <4>1. work' = [work EXCEPT ![w] = Created(u, RoleForGroups(groups))]
          BY <3>1 DEF LoginUpsert, Created
        <4>2. work' \in [Workers -> Work]
          BY <4>1, BegunTypes, RoleTypes
        <4> QED BY <3>1, <4>2 DEF LoginUpsert
      <3>2. ASSUME NEW t \in Tokens, LoginCreate(w, t) PROVE TypeOK'
        <4>1. [user |-> work[w].user, role |-> work[w].role,
               expiresAt |-> now + SessionTTL(work[w].role),
               checkedAt |-> work[w].since] \in Row
          BY <3>0 DEF Row, Work, SessionTTL
        <4>2. row' \in [Tokens -> Row]
          BY <3>2, <4>1 DEF LoginCreate
        <4> QED BY <3>2, <4>2, NoWorkType DEF LoginCreate
      <3>3. CASE LoginCreateError(w)
        BY <3>3, NoWorkType DEF LoginCreateError
      <3>4. CASE UNCHANGED vars
        BY <3>4 DEF vars
      <3> HIDE DEF TypeOK
      <3> QED BY <2>1, <3>1, <3>2, <3>3, <3>4 DEF Login, LoginRefused
    <2>2. ASSUME NEW w \in Workers, AuthenticateRequest(w) PROVE TypeOK'
      <3>0. work[w] \in Work /\ Host[w] \in Replicas /\ work[w].token \in Tokens
        BY DEF Work
      <3>1. ASSUME NEW t \in Tokens, AuthenticateMiss(w, t) PROVE TypeOK'
        <4>1. Get(cache[Host[w]], t, now) \in [Tokens -> Entry(SUBSET Tokens)]
          BY <3>0, CacheTypes
        <4>2. cache' \in [Replicas -> [Tokens -> Entry(SUBSET Tokens)]]
          BY <3>1, <4>1 DEF AuthenticateMiss
        <4>3. work' \in [Workers -> Work]
          BY <3>1, BegunTypes DEF AuthenticateMiss, Looked, Roles
        <4> QED BY <3>1, <4>2, <4>3 DEF AuthenticateMiss
      <3>2. CASE LookupFound(w)
        <4>1. [work[w] EXCEPT !.pc = "store"] \in Work
          BY <3>0 DEF Work, LookupPC
        <4>2. work' \in [Workers -> Work]
          BY <3>2, <4>1 DEF LookupFound
        <4> QED BY <3>2, <4>2 DEF LookupFound
      <3>3. CASE LookupRejected(w)
        BY <3>3, NoWorkType DEF LookupRejected
      <3>4. CASE LookupStore(w)
        <4>1. Set(cache[Host[w]], work[w].token, {work[w].token}, now, TTL)
                \in [Tokens -> Entry(SUBSET Tokens)]
          BY <3>0, CacheTypes
        <4> QED BY <3>4, <4>1, NoWorkType DEF LookupStore
      <3>5. CASE UNCHANGED vars
        BY <3>5 DEF vars
      <3> HIDE DEF TypeOK
      <3> QED BY <2>2, <3>1, <3>2, <3>3, <3>4, <3>5 DEF AuthenticateRequest, AuthenticateHit
    <2>3. ASSUME NEW w \in Workers, Logout(w) PROVE TypeOK'
      <3>0. work[w] \in Work /\ Host[w] \in Replicas /\ work[w].token \in Tokens
        BY DEF Work
      <3>1. ASSUME NEW t \in Tokens, NEW deleted \in BOOLEAN, LogoutDelete(w, t, deleted)
            PROVE  TypeOK'
        <4>1. work' \in [Workers -> Work]
          BY <3>1, BegunTypes DEF LogoutDelete, LoggedOut, Roles
        <4> QED BY <3>1, <4>1 DEF LogoutDelete
      <3>2. CASE InvalidateToken(w)
        <4>1. Delete(cache[Host[w]], work[w].token) \in [Tokens -> Entry(SUBSET Tokens)]
          BY <3>0, CacheTypes
        <4>2. sealed' \in [Replicas -> SUBSET (Tokens \cup Users)]
          BY <3>0, <3>2 DEF InvalidateToken
        <4> QED BY <3>2, <4>1, <4>2, NoWorkType DEF InvalidateToken
      <3> HIDE DEF TypeOK
      <3> QED BY <2>3, <3>1, <3>2 DEF Logout
    <2>4. ASSUME NEW w \in Workers, SetStatus(w) PROVE TypeOK'
      <3>0. work[w] \in Work /\ Host[w] \in Replicas /\ work[w].user \in Users
        BY DEF Work
      <3>1. ASSUME NEW u \in Users, NEW lost \in BOOLEAN, Block(w, u, lost)
            PROVE  TypeOK'
        <4>1. work' \in [Workers -> Work]
          BY <3>1, BegunTypes DEF Block, Reset, Roles
        <4>2. blockedAt' \in [Users -> Nat] /\ deletedAt' \in [Tokens -> Nat]
          BY <3>1 DEF Block
        <4> QED BY <3>1, <4>1, <4>2 DEF Block
      <3>2. ASSUME NEW u \in Users, NEW lost \in BOOLEAN, Unblock(w, u, lost)
            PROVE  TypeOK'
        <4>1. work' \in [Workers -> Work]
          BY <3>2, BegunTypes DEF Unblock, Reset, Roles
        <4> QED BY <3>2, <4>1 DEF Unblock
      <3>3. CASE InvalidateUser(w)
        <4>1. DeleteWhere(cache[Host[w]], OwnedBy(work[w].user)) \in [Tokens -> Entry(SUBSET Tokens)]
          BY <3>0, CacheTypes
        <4>2. sealed' \in [Replicas -> SUBSET (Tokens \cup Users)]
          BY <3>0, <3>3 DEF InvalidateUser
        <4> QED BY <3>3, <4>1, <4>2, NoWorkType DEF InvalidateUser
      <3> HIDE DEF TypeOK
      <3> QED BY <2>4, <3>1, <3>2, <3>3 DEF SetStatus
    <2>5. CASE DeleteExpired
      BY <2>5 DEF DeleteExpired
    <2>6. ASSUME NEW r \in Replicas, Restart(r) PROVE TypeOK'
      <3>1. work' \in [Workers -> Work]
        BY <2>6, NoWorkType DEF Restart
      <3>2. cache' \in [Replicas -> [Tokens -> Entry(SUBSET Tokens)]]
        BY <2>6, EmptyCacheType DEF Restart
      <3> QED BY <2>6, <3>1, <3>2 DEF Restart
    <2>7. CASE Tick
      <3>1. now' \in Nat
        BY <2>7 DEF Tick
      <3> QED BY <2>7, <3>1 DEF Tick
    <2>8. CASE UNCHANGED vars
      BY <2>8 DEF vars
    <2> HIDE DEF TypeOK
    <2> QED BY <2>1, <2>2, <2>3, <2>4, <2>5, <2>6, <2>7, <2>8 DEF Next
  <1> QED
    BY <1>1, <1>2, PTL DEF Spec

-----------------------------------------------------------------------------
(* What one step of the system can do to one cache entry, one worker, one  *)
(* token, one user and one promise of a reset.                             *)

CacheStep(r, t) ==
    \/ cache'[r][t] = cache[r][t]
    \/ cache'[r][t] = NoEntry
    \/ /\ \E w \in Workers : work[w].pc = "store" /\ Host[w] = r /\ work[w].token = t
       /\ cache'[r][t] = [value |-> {t}, expiresAt |-> now + TTL]

WorkerStep(w) ==
    \/ work'[w] = work[w]
    \/ work'[w].pc \in {"idle", "invalidateUser"}
    \/ /\ work'[w].pc = "create" /\ work'[w].since = now /\ now' = now
       /\ userStatus[work'[w].user] = "active" /\ UNCHANGED dbVars
    \/ work'[w].pc = "lookup" /\ work'[w].since = now /\ now' = now
    \/ /\ work[w].pc = "lookup" /\ work'[w].pc = "store" /\ Current(work[w].token)
       /\ work'[w].token = work[w].token /\ work'[w].since = work[w].since
       /\ now' = now /\ UNCHANGED dbVars
    \/ work'[w].pc = "invalidateToken" /\ ~Unused(work'[w].token)

\* No worker begins anything.
Calm == \A w \in Workers : work'[w] = work[w] \/ work'[w].pc = "idle"

TokenStep(t) ==
    \/ (t \in sessions' <=> t \in sessions) /\ row'[t] = row[t] /\ deletedAt'[t] = deletedAt[t]
    \/ /\ t \in sessions /\ t \notin sessions' /\ row'[t] = row[t]
       /\ deletedAt'[t] = now /\ now' = now
    \/ /\ Unused(t) /\ t \in sessions' /\ row'[t].role # "none" /\ Calm
       /\ \E w \in Workers : /\ work[w].pc = "create"
                             /\ row'[t].user = work[w].user
                             /\ row'[t].checkedAt = work[w].since
       /\ UNCHANGED <<now, userStatus, blockedAt, cache, sealed>>

UserStep(u) ==
    \/ userStatus'[u] = userStatus[u] /\ blockedAt'[u] = blockedAt[u]
    \/ userStatus'[u] = "active"
    \/ /\ userStatus'[u] = "blocked" /\ blockedAt'[u] = now /\ now' = now
       /\ sessions' \cap OwnedBy(u) = {} /\ UNCHANGED row

ClockStep ==
    \/ now' = now
    \/ /\ now' = now + 1
       /\ \A w \in Workers : InFlight(w) => now < work[w].since + MaxCall
       /\ UNCHANGED <<dbVars, cache, work, sealed>>

SealStep(r, x) ==
    \/ x \in sealed[r] /\ (x \in Users => userStatus'[x] \in {userStatus[x], "blocked"})
    \/ /\ x \in Tokens \ sessions
       /\ \E w \in Workers : work[w].pc = "invalidateToken" /\ work[w].token = x
       /\ cache'[r][x] = NoEntry
       /\ \A w \in Workers : Host[w] = r /\ work[w].pc = "store" => work[w].token # x
       /\ Calm /\ UNCHANGED dbVars
    \/ /\ x \in Users /\ userStatus[x] = "blocked"
       /\ \A t \in OwnedBy(x) : cache'[r][t] = NoEntry
       /\ \A w \in Workers : Host[w] = r /\ work[w].pc = "store" => work[w].token \notin OwnedBy(x)
       /\ Calm /\ UNCHANGED dbVars

StepFacts ==
    /\ \A r \in Replicas, t \in Tokens : CacheStep(r, t)
    /\ \A w \in Workers : WorkerStep(w)
    /\ \A t \in Tokens : TokenStep(t)
    /\ \A u \in Users : UserStep(u)
    /\ ClockStep
    /\ \A r \in Replicas : \A x \in sealed'[r] : SealStep(r, x)

(* A step that leaves a part of the state alone does nothing to it. *)
LEMMA FrameFacts ==
  /\ UNCHANGED cache => \A r \in Replicas, t \in Tokens : CacheStep(r, t)
  /\ UNCHANGED work => (\A w \in Workers : WorkerStep(w)) /\ Calm
  /\ UNCHANGED <<sessions, row, deletedAt>> => \A t \in Tokens : TokenStep(t)
  /\ UNCHANGED <<userStatus, blockedAt>> => \A u \in Users : UserStep(u)
  /\ UNCHANGED <<userStatus, sealed>> => \A r \in Replicas : \A x \in sealed'[r] : SealStep(r, x)
  BY DEF CacheStep, WorkerStep, Calm, TokenStep, UserStep, SealStep

(* Every step of the specification obeys the step facts. *)
LEMMA StepsObeyFacts == TypeOK /\ [Next]_vars => StepFacts
  <1> SUFFICES ASSUME TypeOK, [Next]_vars PROVE StepFacts
    OBVIOUS
  <1> USE SessionTopology, FrameFacts
  <1> USE DEF TypeOK, dbVars
  <1>0. UNCHANGED vars => StepFacts
    BY DEF vars, StepFacts, ClockStep
  <1>i. ASSUME NEW w \in Workers, work' = Finished(w)
        PROVE  (\A x \in Workers : WorkerStep(x)) /\ Calm
    BY <1>i, NoWorkType DEF Finished, WorkerStep, Calm
  <1>1. ASSUME NEW w \in Workers, Login(w) PROVE StepFacts
    <2>1. ASSUME NEW u \in Users, NEW groups, LoginUpsert(w, u, groups) PROVE StepFacts
      <3>1. work' = [work EXCEPT ![w] = Created(u, RoleForGroups(groups))]
        BY <2>1 DEF LoginUpsert, Created, Begin
      <3>2. \A x \in Workers : WorkerStep(x)
        BY <2>1, <3>1, BegunTypes, RoleTypes DEF LoginUpsert, UpsertedStatus, WorkerStep
      <3> QED BY <2>1, <3>2 DEF LoginUpsert, StepFacts, ClockStep
    <2>2. ASSUME NEW t \in Tokens, LoginCreate(w, t) PROVE StepFacts
      <3>1. (\A x \in Workers : WorkerStep(x)) /\ Calm
        BY <1>i, <2>2 DEF LoginCreate
      <3>2. TokenStep(t)
        <4>1. row'[t].role # "none" /\ row'[t].user = work[w].user /\ row'[t].checkedAt = work[w].since
          BY <2>2 DEF LoginCreate, Work, Roles
        <4> QED BY <2>2, <3>1, <4>1 DEF LoginCreate, TokenStep
      <3>3. \A x \in Tokens : TokenStep(x)
        BY <2>2, <3>2 DEF LoginCreate, TokenStep
      <3> QED BY <2>2, <3>1, <3>3 DEF LoginCreate, StepFacts, ClockStep
    <2>3. CASE LoginCreateError(w)
      BY <1>i, <2>3 DEF LoginCreateError, StepFacts, ClockStep
    <2> QED BY <1>0, <1>1, <2>1, <2>2, <2>3 DEF Login, LoginRefused
  <1>2. ASSUME NEW w \in Workers, AuthenticateRequest(w) PROVE StepFacts
    <2>0. work[w] \in Work /\ Host[w] \in Replicas /\ work[w].token \in Tokens
      BY DEF Work
    <2>1. ASSUME NEW t \in Tokens, AuthenticateMiss(w, t) PROVE StepFacts
      <3>1. work' = [work EXCEPT ![w] = Looked(t)]
        BY <2>1 DEF AuthenticateMiss, Looked, Begin
      <3>2. \A x \in Workers : WorkerStep(x)
        BY <2>1, <3>1, BegunTypes DEF AuthenticateMiss, WorkerStep, Roles
      <3>3. \A r \in Replicas, s \in Tokens : CacheStep(r, s)
        BY <2>1 DEF AuthenticateMiss, CacheStep, Get
      <3> QED BY <2>1, <3>2, <3>3 DEF AuthenticateMiss, StepFacts, ClockStep
    <2>2. CASE LookupFound(w)
      <3>1. \A x \in Workers \ {w} : work'[x] = work[x]
        BY <2>2 DEF LookupFound
      <3>2. /\ work'[w].pc = "store" /\ work'[w].token = work[w].token
            /\ work'[w].since = work[w].since
        BY <2>0, <2>2 DEF LookupFound, Work
      <3>3. \A x \in Workers : WorkerStep(x)
        BY <2>2, <3>1, <3>2 DEF LookupFound, WorkerStep
      <3> QED BY <2>2, <3>3 DEF LookupFound, StepFacts, ClockStep
    <2>3. CASE LookupRejected(w)
      BY <1>i, <2>3 DEF LookupRejected, StepFacts, ClockStep
    <2>4. CASE LookupStore(w)
      <3>1. \A r \in Replicas, t \in Tokens : CacheStep(r, t)
        BY <2>0, <2>4 DEF LookupStore, CacheStep, Set
      <3> QED BY <1>i, <2>4, <3>1 DEF LookupStore, StepFacts, ClockStep
    <2> QED
      BY <1>0, <1>2, <2>1, <2>2, <2>3, <2>4 DEF AuthenticateRequest, AuthenticateHit
  <1>3. ASSUME NEW w \in Workers, Logout(w) PROVE StepFacts
    <2>0. work[w] \in Work /\ Host[w] \in Replicas /\ work[w].token \in Tokens
      BY DEF Work
    <2>1. ASSUME NEW t \in Tokens, NEW deleted \in BOOLEAN, LogoutDelete(w, t, deleted)
          PROVE  StepFacts
      <3>1. work' = [work EXCEPT ![w] = LoggedOut(t)]
        BY <2>1 DEF LogoutDelete, LoggedOut, Begin
      <3>2. \A x \in Workers : WorkerStep(x)
        BY <2>1, <3>1, BegunTypes DEF LogoutDelete, WorkerStep, Roles
      <3>3. \A x \in Tokens : TokenStep(x)
        BY <2>1 DEF LogoutDelete, TokenStep
      <3> QED BY <2>1, <3>2, <3>3 DEF LogoutDelete, StepFacts, ClockStep
    <2>2. CASE InvalidateToken(w)
      <3>1. \A r \in Replicas, t \in Tokens : CacheStep(r, t)
        BY <2>0, <2>2 DEF InvalidateToken, CacheStep, Delete
      <3>2. (\A x \in Workers : WorkerStep(x)) /\ Calm
        BY <1>i, <2>2 DEF InvalidateToken
      <3>3. ASSUME NEW r \in Replicas, NEW x \in sealed'[r] PROVE SealStep(r, x)
        <4>1. CASE x \in sealed[r]
          BY <2>2, <4>1 DEF SealStep, InvalidateToken
        <4>2. CASE x \notin sealed[r]
          <5>1. r = Host[w] /\ x = work[w].token /\ x \notin sessions
            BY <2>0, <2>2, <3>3, <4>2 DEF InvalidateToken
          <5>2. cache'[r][x] = NoEntry
            BY <2>0, <2>2, <5>1 DEF InvalidateToken, Delete
          <5>3. \A y \in Workers : Host[y] = r /\ work[y].pc = "store" => work[y].token # x
            BY <2>2, <3>3, <4>2, <5>1 DEF InvalidateToken
          <5> QED BY <2>0, <2>2, <3>2, <5>1, <5>2, <5>3 DEF SealStep, InvalidateToken
        <4> QED BY <4>1, <4>2
      <3> QED BY <2>2, <3>1, <3>2, <3>3 DEF InvalidateToken, StepFacts, ClockStep
    <2> QED BY <1>3, <2>1, <2>2 DEF Logout
  <1>4. ASSUME NEW w \in Workers, SetStatus(w) PROVE StepFacts
    <2>0. work[w] \in Work /\ Host[w] \in Replicas /\ work[w].user \in Users
      BY DEF Work
    <2>r. ASSUME NEW u \in Users, work' = [work EXCEPT ![w] = Reset(u)]
          PROVE  \A x \in Workers : WorkerStep(x)
      BY <2>r, BegunTypes, SessionTopology DEF WorkerStep, Roles
    <2>1. ASSUME NEW u \in Users, NEW lost \in BOOLEAN, Block(w, u, lost)
          PROVE  StepFacts
      <3>1. \A x \in Workers : WorkerStep(x)
        BY <2>r, <2>1 DEF Block, Reset, Begin
      <3>2. \A t \in Tokens : TokenStep(t)
        BY <2>1 DEF Block, TokenStep
      <3>3. \A v \in Users : UserStep(v)
        BY <2>1 DEF Block, UserStep
      <3>4. \A r \in Replicas : \A x \in sealed'[r] : SealStep(r, x)
        BY <2>1 DEF Block, SealStep
      <3> QED BY <2>1, <3>1, <3>2, <3>3, <3>4 DEF Block, StepFacts, ClockStep
    <2>2. ASSUME NEW u \in Users, NEW lost \in BOOLEAN, Unblock(w, u, lost)
          PROVE  StepFacts
      <3>1. \A x \in Workers : WorkerStep(x)
        BY <2>r, <2>2 DEF Unblock, Reset, Begin
      <3>2. \A v \in Users : UserStep(v)
        BY <2>2 DEF Unblock, UserStep
      <3>3. \A r \in Replicas : \A x \in sealed'[r] : SealStep(r, x)
        BY <2>2 DEF Unblock, SealStep
      <3> QED BY <2>2, <3>1, <3>2, <3>3 DEF Unblock, StepFacts, ClockStep
    <2>3. CASE InvalidateUser(w)
      <3>1. \A r \in Replicas, t \in Tokens : CacheStep(r, t)
        BY <2>0, <2>3 DEF InvalidateUser, CacheStep, DeleteWhere
      <3>2. (\A x \in Workers : WorkerStep(x)) /\ Calm
        BY <1>i, <2>3 DEF InvalidateUser
      <3>3. ASSUME NEW r \in Replicas, NEW x \in sealed'[r] PROVE SealStep(r, x)
        <4>1. CASE x \in sealed[r]
          BY <2>3, <4>1 DEF SealStep, InvalidateUser
        <4>2. CASE x \notin sealed[r]
          <5>1. r = Host[w] /\ x = work[w].user /\ userStatus[x] = "blocked"
            BY <2>0, <2>3, <3>3, <4>2 DEF InvalidateUser
          <5>2. \A t \in OwnedBy(x) : cache'[r][t] = NoEntry
            BY <2>0, <2>3, <5>1 DEF InvalidateUser, DeleteWhere, OwnedBy
          <5>3. \A y \in Workers : Host[y] = r /\ work[y].pc = "store" => work[y].token \notin OwnedBy(x)
            BY <2>3, <3>3, <4>2, <5>1 DEF InvalidateUser
          <5> QED BY <2>0, <2>3, <3>2, <5>1, <5>2, <5>3 DEF SealStep, InvalidateUser
        <4> QED BY <4>1, <4>2
      <3> QED BY <2>3, <3>1, <3>2, <3>3 DEF InvalidateUser, StepFacts, ClockStep
    <2> QED BY <1>4, <2>1, <2>2, <2>3 DEF SetStatus
  <1>5. CASE DeleteExpired
    <2>1. \A t \in Tokens : TokenStep(t)
      BY <1>5 DEF DeleteExpired, TokenStep
    <2> QED BY <1>5, <2>1 DEF DeleteExpired, StepFacts, ClockStep
  <1>6. ASSUME NEW r \in Replicas, Restart(r) PROVE StepFacts
    <2>1. \A x \in Workers : WorkerStep(x)
      BY <1>6, NoWorkType DEF Restart, WorkerStep
    <2>2. \A s \in Replicas, t \in Tokens : CacheStep(s, t)
      BY <1>6 DEF Restart, CacheStep, EmptyCache
    <2> QED BY <1>6, <2>1, <2>2 DEF Restart, StepFacts, ClockStep
  <1>7. CASE Tick
    BY <1>7 DEF Tick, StepFacts, ClockStep
  <1> QED
    BY <1>0, <1>1, <1>2, <1>3, <1>4, <1>5, <1>6, <1>7 DEF Next

-----------------------------------------------------------------------------
(* A token that was handed out stays handed out, and keeps its row. *)
LEMMA UsedStep ==
  ASSUME StepFacts, NEW t \in Tokens, ~Unused(t)
  PROVE  ~Unused(t)' /\ row'[t] = row[t]
  BY DEF StepFacts, TokenStep, Unused

(* Only tokens that were handed out are in use. *)
LEMMA UsedInductive == TypeOK /\ TypeOK' /\ UsedInv /\ StepFacts => UsedInv'
  <1> SUFFICES ASSUME TypeOK, TypeOK', UsedInv, StepFacts PROVE UsedInv'
    OBVIOUS
  <1>w. \A w \in Workers : work[w].token \in Tokens /\ work'[w].token \in Tokens
    BY DEF TypeOK, Work
  <1>1. ASSUME NEW t \in Tokens, t \in sessions' PROVE ~Unused(t)'
    BY <1>1, UsedStep DEF UsedInv, StepFacts, TokenStep, Unused
  <1>2. ASSUME NEW r \in Replicas, NEW t \in Tokens, Unused(t)'
        PROVE  cache'[r][t].expiresAt = 0
    <2>1. Unused(t) /\ cache[r][t].expiresAt = 0
      BY <1>2, UsedStep DEF UsedInv
    <2>2. \A w \in Workers : work[w].pc = "store" => work[w].token # t
      BY <2>1 DEF UsedInv
    <2>3. CacheStep(r, t)
      BY DEF StepFacts
    <2> QED BY <2>1, <2>2, <2>3 DEF CacheStep, NoEntry
  <1>3. ASSUME NEW w \in Workers, work'[w].pc \in {"store", "invalidateToken"},
               NEW t \in Tokens, t = work'[w].token
        PROVE  ~Unused(t)'
    <2>1. ~Unused(t)
      <3>1. WorkerStep(w)
        BY DEF StepFacts
      <3>2. CASE work'[w] = work[w]
        BY <1>3, <3>2 DEF UsedInv
      <3>3. CASE Current(work[w].token) /\ work'[w].token = work[w].token
        BY <1>3, <3>3 DEF UsedInv, Current
      <3>4. CASE ~Unused(work'[w].token)
        BY <1>3, <3>4
      <3> QED BY <1>3, <3>1, <3>2, <3>3, <3>4 DEF WorkerStep
    <2> QED BY <2>1, UsedStep
  <1>4. ASSUME NEW w \in Workers, work'[w].pc \in {"store", "invalidateToken"}
        PROVE  ~Unused(work[w].token)'
    BY <1>3, <1>4, <1>w DEF Unused
  <1>5. \A t \in sessions' : ~Unused(t)'
    BY <1>1 DEF TypeOK
  <1> QED BY <1>2, <1>4, <1>5 DEF UsedInv, Unused

(* Nothing was cached or begun later than now, and no lookup takes too     *)
(* long.                                                                   *)
LEMMA ClockInductive == TypeOK /\ TypeOK' /\ ClockInv /\ StepFacts => ClockInv'
  <1> SUFFICES ASSUME TypeOK, TypeOK', ClockInv, StepFacts PROVE ClockInv'
    OBVIOUS
  <1> USE SessionTimes
  <1>0. now \in Nat /\ now' \in Nat /\ now <= now'
    BY DEF TypeOK, StepFacts, ClockStep
  <1>1. ASSUME NEW r \in Replicas, NEW t \in Tokens
        PROVE  cache'[r][t].expiresAt <= now' + TTL
    <2>1. cache[r][t].expiresAt \in Nat /\ cache[r][t].expiresAt <= now + TTL
      BY DEF ClockInv, TypeOK, Entry
    <2>2. cache'[r][t].expiresAt \in {cache[r][t].expiresAt, 0, now + TTL}
      <3>1. CacheStep(r, t)
        BY DEF StepFacts
      <3> QED BY <3>1 DEF CacheStep, NoEntry
    <2> QED BY <1>0, <2>1, <2>2
  <1>2. ASSUME NEW w \in Workers
        PROVE  /\ work'[w].pc \in LookupPC \cup {"create"} => work'[w].since <= now'
               /\ work'[w].pc \in LookupPC => now' <= work'[w].since + MaxCall
    <2>1. work[w].since \in Nat /\ work'[w].since \in Nat /\ WorkerStep(w)
      BY DEF TypeOK, Work, StepFacts
    <2>2. CASE now' = now
      BY <1>0, <2>1, <2>2 DEF ClockInv, WorkerStep, InFlight, LookupPC
    <2>3. CASE now' # now
      BY <1>0, <2>1, <2>3 DEF ClockInv, StepFacts, ClockStep, InFlight, LookupPC
    <2> QED BY <2>2, <2>3
  <1> QED
    BY <1>1, <1>2 DEF ClockInv, InFlight

(* A bound on the age of something that is not younger than the step       *)
(* survives the end of the session.                                        *)
LEMMA WithinStep ==
  ASSUME TypeOK, TypeOK', StepFacts, NEW t \in Tokens, ~Unused(t),
         NEW i \in Nat, NEW d \in Nat, Within(t, i, d), i <= now + d
  PROVE  Within(t, i, d)'
  <1>1. row'[t] = row[t] /\ row[t].user \in Users
    BY UsedStep DEF TypeOK, Row
  <1>2. UserStep(row[t].user) /\ TokenStep(t)
    BY <1>1 DEF StepFacts
  <1>3. /\ now \in Nat /\ deletedAt[t] \in Nat /\ deletedAt'[t] \in Nat
        /\ blockedAt[row[t].user] \in Nat /\ blockedAt'[row[t].user] \in Nat
    BY <1>1 DEF TypeOK
  <1>4. t \notin sessions' => i <= deletedAt'[t] + d
    BY <1>2, <1>3 DEF TokenStep, Within
  <1>5. userStatus'[row[t].user] = "blocked" => i <= blockedAt'[row[t].user] + d
    BY <1>2, <1>3 DEF UserStep, Within
  <1> QED BY <1>1, <1>4, <1>5 DEF Within

(* The first bound of a new token is its expiry. *)
LEMMA WithinNew ==
  ASSUME TypeOK', NEW t \in Tokens, NEW d \in Nat
  PROVE  Within(t, 0, d)'
  <1>1. /\ row'[t].expiresAt \in Nat /\ row'[t].user \in Users /\ deletedAt'[t] \in Nat
        /\ blockedAt'[row'[t].user] \in Nat
    BY DEF TypeOK, Row
  <1> QED BY <1>1 DEF Within

(* How stale a lookup may be is inductive given the clock. *)
LEMMA StaleInductive ==
  TypeOK /\ TypeOK' /\ UsedInv /\ ClockInv /\ StaleInv /\ StepFacts => StaleInv'
  <1> SUFFICES ASSUME TypeOK, TypeOK', UsedInv, ClockInv, StaleInv, StepFacts PROVE StaleInv'
    OBVIOUS
  <1> USE SessionTimes
  <1>0. now \in Nat /\ TTL + MaxCall \in Nat
    BY DEF TypeOK
  <1>w. \A w \in Workers : /\ work[w].token \in Tokens /\ work'[w].token \in Tokens
                           /\ work[w].since \in Nat /\ work'[w].since \in Nat
    BY DEF TypeOK, Work
  <1>1. ASSUME NEW w \in Workers, work'[w].pc = "store",
               NEW t \in Tokens, t = work'[w].token, NEW i \in Nat, i = work'[w].since
        PROVE  Within(t, i, 0)'
    <2>1. CASE work'[w] = work[w]
      <3>1. Within(t, i, 0) /\ ~Unused(t) /\ i <= now
        BY <1>1, <2>1 DEF StaleInv, UsedInv, ClockInv, LookupPC
      <3> QED BY <1>0, <3>1, WithinStep
    <2>2. CASE /\ work[w].pc = "lookup" /\ Current(work[w].token)
               /\ work'[w].token = work[w].token /\ work'[w].since = work[w].since
      <3>1. i <= now /\ Current(t)
        BY <1>1, <2>2 DEF ClockInv, LookupPC
      <3>2. ~Unused(t) /\ row[t].expiresAt \in Nat
        BY <3>1 DEF Current, UsedInv, TypeOK, Row
      <3>3. Within(t, i, 0)
        BY <1>0, <3>1, <3>2 DEF Current, Within
      <3> QED BY <1>0, <3>1, <3>2, <3>3, WithinStep
    <2> QED BY <1>1, <2>1, <2>2 DEF StepFacts, WorkerStep
  <1>2. ASSUME NEW r \in Replicas, NEW t \in Tokens, NEW i \in Nat, i = cache'[r][t].expiresAt
        PROVE  Within(t, i, TTL + MaxCall)'
    <2>1. CASE i = 0
      BY <1>0, <2>1, WithinNew
    <2>2. CASE cache'[r][t] = cache[r][t] /\ ~Unused(t)
      <3>1. Within(t, i, TTL + MaxCall) /\ i <= now + TTL
        BY <1>2, <2>2 DEF StaleInv, ClockInv
      <3> QED BY <1>0, <2>2, <3>1, WithinStep
    <2>3. ASSUME NEW w \in Workers, work[w].pc = "store", work[w].token = t, i = now + TTL
          PROVE  Within(t, i, TTL + MaxCall)'
      <3>1. /\ Within(t, work[w].since, 0) /\ now <= work[w].since + MaxCall
            /\ ~Unused(t) /\ work[w].since \in Nat
        BY <1>w, <2>3 DEF StaleInv, ClockInv, InFlight, LookupPC, UsedInv
      <3>2. /\ row[t].expiresAt \in Nat /\ row[t].user \in Users /\ deletedAt[t] \in Nat
            /\ blockedAt[row[t].user] \in Nat
        BY DEF TypeOK, Row
      <3>3. Within(t, i, TTL + MaxCall)
        BY <1>0, <2>3, <3>1, <3>2 DEF Within
      <3> QED BY <1>0, <2>3, <3>1, <3>3, WithinStep
    <2>4. CacheStep(r, t)
      BY DEF StepFacts
    <2>5. cache'[r][t] = NoEntry => i = 0
      BY <1>2 DEF NoEntry
    <2>6. Unused(t) /\ cache'[r][t] = cache[r][t] => i = 0
      BY <1>2 DEF UsedInv
    <2>7. cache'[r][t] = [value |-> {t}, expiresAt |-> now + TTL] => i = now + TTL
      BY <1>2
    <2> QED BY <2>1, <2>2, <2>3, <2>4, <2>5, <2>6, <2>7, Zenon DEF CacheStep
  <1>3. \A w \in Workers : work'[w].pc = "store" => Within(work[w].token, work[w].since, 0)'
    BY <1>1, <1>w DEF Within
  <1>4. \A r \in Replicas, t \in Tokens : Within(t, cache[r][t].expiresAt, TTL + MaxCall)'
    <2>1. \A r \in Replicas, t \in Tokens : cache'[r][t].expiresAt \in Nat
      BY DEF TypeOK, Entry
    <2> QED BY <1>2, <2>1 DEF Within
  <1> QED BY <1>3, <1>4 DEF StaleInv

(* A login or a row of a blocked user is from before the block. *)
LEMMA OverlapInductive ==
  /\ TypeOK /\ TypeOK' /\ UsedInv /\ ClockInv /\ OverlapInv /\ BlockedRowsFromOverlap
  /\ StepFacts
  => OverlapInv' /\ BlockedRowsFromOverlap'
  <1> SUFFICES ASSUME TypeOK, TypeOK', UsedInv, ClockInv, OverlapInv, BlockedRowsFromOverlap,
                      StepFacts
               PROVE  OverlapInv' /\ BlockedRowsFromOverlap'
    OBVIOUS
  <1>1. ASSUME NEW w \in Workers, work'[w].pc = "create",
               userStatus'[work'[w].user] = "blocked"
        PROVE  work'[w].since <= blockedAt'[work'[w].user]
    <2>1. CASE work'[w] = work[w]
      <3>1. work[w].user \in Users /\ UserStep(work[w].user) /\ work[w].since <= now
        BY <1>1, <2>1 DEF TypeOK, Work, StepFacts, ClockInv
      <3> QED BY <1>1, <2>1, <3>1 DEF UserStep, OverlapInv
    <2>2. CASE userStatus[work'[w].user] = "active" /\ UNCHANGED dbVars
      BY <1>1, <2>2 DEF dbVars
    <2> QED BY <1>1, <2>1, <2>2 DEF StepFacts, WorkerStep
  <1>2. ASSUME NEW t \in Tokens, t \in sessions', userStatus'[row'[t].user] = "blocked"
        PROVE  row'[t].checkedAt <= blockedAt'[row'[t].user]
    <2>0. TokenStep(t) /\ row[t].user \in Users /\ row'[t].user \in Users
      BY DEF StepFacts, TypeOK, Row
    <2>1. CASE t \in sessions /\ row'[t] = row[t]
      <3>1. t \in OwnedBy(row[t].user) /\ UserStep(row[t].user)
        BY <2>0, <2>1 DEF OwnedBy, UsedInv, StepFacts
      <3> QED BY <1>2, <2>1, <3>1 DEF UserStep, BlockedRowsFromOverlap
    <2>2. ASSUME NEW w \in Workers, work[w].pc = "create", row'[t].user = work[w].user,
                 row'[t].checkedAt = work[w].since, UNCHANGED <<userStatus, blockedAt>>
          PROVE  row'[t].checkedAt <= blockedAt'[row'[t].user]
      BY <1>2, <2>2 DEF OverlapInv
    <2> QED BY <1>2, <2>0, <2>1, <2>2 DEF TokenStep
  <1>3. \A t \in sessions' : t \in Tokens
    BY DEF TypeOK
  <1> QED BY <1>1, <1>2, <1>3 DEF OverlapInv, BlockedRowsFromOverlap

(* A replica that has forgotten a session learns of it again only from a   *)
(* lookup that the database accepts.                                       *)
LEMMA ForgottenStep ==
  ASSUME TypeOK, StepFacts, NEW r \in Replicas, NEW t \in Tokens, Forgotten(r, t), ~Current(t)
  PROVE  Forgotten(r, t)'
  <1>1. cache'[r][t].expiresAt = 0
    <2>1. CacheStep(r, t) /\ cache[r][t].expiresAt = 0
      BY DEF StepFacts, Forgotten
    <2> QED BY <2>1 DEF CacheStep, Forgotten, NoEntry
  <1>2. ASSUME NEW w \in Workers, Host[w] = r, work'[w].pc = "store"
        PROVE  work'[w].token # t
    BY <1>2 DEF StepFacts, WorkerStep, Forgotten
  <1> QED BY <1>1, <1>2 DEF Forgotten

(* What a quiet reset promises is kept. *)
LEMMA SealInductive ==
  TypeOK /\ TypeOK' /\ UsedInv /\ SealInv /\ StepFacts => SealInv'
  <1> SUFFICES ASSUME TypeOK, TypeOK', UsedInv, SealInv, StepFacts PROVE SealInv'
    OBVIOUS
  <1> USE SessionTopology
  <1>1. ASSUME NEW r \in Replicas, NEW t \in Tokens, t \in sealed'[r]
        PROVE  t \notin sessions' /\ ~Unused(t)' /\ Forgotten(r, t)'
    <2>1. SealStep(r, t) /\ t \notin Users
      BY <1>1 DEF StepFacts
    <2>2. t \notin sessions /\ ~Unused(t)
      BY <2>1 DEF SealStep, SealInv, UsedInv
    <2>3. t \notin sessions' /\ ~Unused(t)'
      BY <2>2, UsedStep DEF StepFacts, TokenStep
    <2>4. CASE t \in sealed[r]
      BY <2>2, <2>3, <2>4, ForgottenStep DEF SealInv, Current
    <2>5. CASE /\ cache'[r][t] = NoEntry /\ Calm
               /\ \A w \in Workers : Host[w] = r /\ work[w].pc = "store" => work[w].token # t
      BY <2>3, <2>5 DEF Calm, Forgotten, NoEntry
    <2> QED BY <2>1, <2>4, <2>5 DEF SealStep
  <1>2. ASSUME NEW r \in Replicas, NEW u \in Users, u \in sealed'[r]
        PROVE  userStatus'[u] = "blocked" /\ \A t \in OwnedBy(u)' : Forgotten(r, t)'
    <2>1. SealStep(r, u) /\ u \notin Tokens
      BY <1>2 DEF StepFacts
    <2>2. userStatus[u] = "blocked" /\ userStatus'[u] = "blocked"
      BY <2>1 DEF SealStep, SealInv, dbVars
    <2>3. ASSUME NEW t \in Tokens, ~Unused(t)', row'[t].user = u
          PROVE  Forgotten(r, t)'
      <3>1. CASE Unused(t)
        <4>1. Calm /\ UNCHANGED cache
          BY <2>3, <3>1 DEF StepFacts, TokenStep, Unused
        <4> QED BY <3>1, <4>1 DEF UsedInv, Forgotten, Calm
      <3>2. CASE ~Unused(t)
        <4>1. t \in OwnedBy(u) /\ ~Current(t)
          BY <2>2, <2>3, <3>2, UsedStep DEF OwnedBy, Current
        <4>2. CASE u \in sealed[r]
          BY <4>1, <4>2, ForgottenStep DEF SealInv
        <4>3. CASE /\ \A s \in OwnedBy(u) : cache'[r][s] = NoEntry
                   /\ \A w \in Workers : Host[w] = r /\ work[w].pc = "store" =>
                                            work[w].token \notin OwnedBy(u)
                   /\ Calm
          BY <4>1, <4>3 DEF Calm, Forgotten, NoEntry
        <4> QED BY <2>1, <4>2, <4>3 DEF SealStep
      <3> QED BY <3>1, <3>2
    <2> QED BY <2>2, <2>3 DEF OwnedBy
  <1> QED BY <1>1, <1>2 DEF SealInv

-----------------------------------------------------------------------------
(* The inductive invariant. *)
SessionInv ==
    UsedInv /\ ClockInv /\ StaleInv /\ OverlapInv /\ BlockedRowsFromOverlap /\ SealInv

\* It holds in every reachable state.
LEMMA SessionInvariant == Spec => []SessionInv
  <1>1. Init => SessionInv
    BY NoWorkType, SessionTopology, SessionTimes
       DEF Init, SessionInv, UsedInv, ClockInv, StaleInv, OverlapInv, BlockedRowsFromOverlap,
           SealInv, Unused, InFlight, LookupPC, EmptyCache, NoEntry
  <1>2. TypeOK /\ TypeOK' /\ SessionInv /\ [Next]_vars => SessionInv'
    BY StepsObeyFacts, UsedInductive, ClockInductive, StaleInductive, OverlapInductive,
       SealInductive DEF SessionInv
  <1> QED
    BY <1>1, <1>2, SessionTypeCorrect, PTL DEF Spec

(* No replica lets a session through for TTL + MaxCall after it expired,   *)
(* its row was deleted or its user was blocked, although the logout and    *)
(* the block reset the cache of one replica only.                          *)
THEOREM SessionIsBounded == Spec => []SessionBound
  <1>1. TypeOK /\ SessionInv => SessionBound
    <2> SUFFICES ASSUME TypeOK, SessionInv, NEW r \in Replicas, NEW t \in Tokens, Honoured(r, t)
                 PROVE  /\ now < row[t].expiresAt + TTL + MaxCall
                        /\ t \notin sessions => now < deletedAt[t] + TTL + MaxCall
                        /\ userStatus[row[t].user] = "blocked" =>
                                now < blockedAt[row[t].user] + TTL + MaxCall
      BY DEF SessionBound
    <2> USE SessionTimes DEF SessionInv
    <2>0. /\ now \in Nat /\ row[t].expiresAt \in Nat /\ deletedAt[t] \in Nat
          /\ row[t].user \in Users /\ blockedAt[row[t].user] \in Nat
      BY DEF TypeOK, Row
    <2>1. CASE Live(cache[r][t], now)
      <3>1. cache[r][t].expiresAt \in Nat /\ now < cache[r][t].expiresAt
        BY <2>1 DEF TypeOK, Entry, Live
      <3>2. ~Unused(t)
        BY <2>0, <3>1 DEF UsedInv
      <3>3. Within(t, cache[r][t].expiresAt, TTL + MaxCall)
        BY <3>2 DEF StaleInv
      <3> QED BY <2>0, <3>1, <3>3 DEF Within
    <2>2. ASSUME NEW w \in Workers, work[w].pc = "store", work[w].token = t
          PROVE  /\ now < row[t].expiresAt + TTL + MaxCall
                 /\ t \notin sessions => now < deletedAt[t] + TTL + MaxCall
                 /\ userStatus[row[t].user] = "blocked" =>
                        now < blockedAt[row[t].user] + TTL + MaxCall
      <3>1. work[w].since \in Nat /\ now <= work[w].since + MaxCall
        BY <2>2 DEF ClockInv, InFlight, LookupPC, TypeOK, Work
      <3>2. Within(t, work[w].since, 0)
        BY <2>2 DEF StaleInv
      <3> QED BY <2>0, <3>1, <3>2 DEF Within
    <2> QED BY <2>1, <2>2 DEF Honoured
  <1> QED
    BY <1>1, SessionTypeCorrect, SessionInvariant, PTL

(* On the replica that served the logout or the block the session is       *)
(* refused from the moment the handler returns, provided the row was       *)
(* deleted and no lookup stood between its query and its cache.Set.        *)
THEOREM QuietLogoutIsFinal == Spec => []QuietResetSeals
  <1>1. TypeOK /\ SessionInv => QuietResetSeals
    <2> SUFFICES ASSUME TypeOK, SessionInv, NEW r \in Replicas, NEW t \in Tokens, Honoured(r, t)
                 PROVE  t \notin sealed[r] /\ row[t].user \notin sealed[r]
      BY DEF QuietResetSeals
    <2>1. ~Forgotten(r, t)
      BY DEF Honoured, Forgotten, Live, TypeOK
    <2>2. ~Unused(t)
      BY DEF SessionInv, UsedInv, Honoured, Live, TypeOK
    <2>3. row[t].user \in Users /\ t \in OwnedBy(row[t].user)
      BY <2>2 DEF OwnedBy, TypeOK, Row
    <2> QED BY <2>1, <2>3 DEF SessionInv, SealInv
  <1> QED
    BY <1>1, SessionTypeCorrect, SessionInvariant, PTL

(* The only sessions a blocked user can have are those of logins that had  *)
(* passed the status check when the block committed.                       *)
THEOREM BlockedRowsAreOld == Spec => []BlockedRowsFromOverlap
  <1>1. SessionInv => BlockedRowsFromOverlap
    BY DEF SessionInv
  <1> QED BY <1>1, SessionInvariant, PTL

(* Nobody is logged out early: a row disappears before its expiry only by  *)
(* a logout of that session or the block of its user.                      *)
THEOREM SessionsEndInTime == Spec => NoEarlyLogout
  <1> DEFINE InTime ==
        \A t \in sessions \ sessions' :
            \/ row[t].expiresAt <= now
            \/ \E w \in Workers : /\ work'[w].pc = "invalidateToken"
                                  /\ work'[w].token = t
            \/ userStatus'[row[t].user] = "blocked"
  <1>1. ASSUME TypeOK, [Next]_vars
        PROVE  InTime
    <2> DEFINE Justified(t) ==
                \/ row[t].expiresAt <= now
                \/ \E w \in Workers : work'[w].pc = "invalidateToken" /\ work'[w].token = t
                \/ userStatus'[row[t].user] = "blocked"
    <2> SUFFICES ASSUME NEW t \in sessions \ sessions' PROVE Justified(t)
      OBVIOUS
    <2> USE <1>1
    <2>0. t \in Tokens
      BY DEF TypeOK
    <2>1. ASSUME NEW w \in Workers, NEW s \in Tokens, NEW deleted \in BOOLEAN,
                 LogoutDelete(w, s, deleted)
          PROVE  Justified(t)
      <3>1. s = t
        BY <2>1 DEF LogoutDelete
      <3>2. work'[w] = LoggedOut(t)
        BY <2>1, <3>1 DEF LogoutDelete, LoggedOut, Begin, TypeOK
      <3>3. work'[w].pc = "invalidateToken" /\ work'[w].token = t
        BY <2>0, <3>2, BegunTypes, SessionTopology DEF TypeOK, Roles
      <3> QED BY <3>3
    <2>2. ASSUME NEW w \in Workers, NEW u \in Users, NEW lost \in BOOLEAN, Block(w, u, lost)
          PROVE  Justified(t)
      BY <2>2 DEF Block, OwnedBy, TypeOK
    <2>3. CASE DeleteExpired
      BY <2>3 DEF DeleteExpired
    <2>4. ASSUME NEW w \in Workers, NEW s \in Tokens, LoginCreate(w, s)
          PROVE  FALSE
      BY <2>4 DEF LoginCreate
    <2>5. CASE UNCHANGED sessions
      BY <2>5
    <2> HIDE DEF Justified
    <2> QED
      BY <2>1, <2>2, <2>3, <2>4, <2>5
         DEF Next, Login, LoginUpsert, LoginRefused, LoginCreateError, AuthenticateRequest,
             AuthenticateHit, AuthenticateMiss, LookupFound, LookupRejected, LookupStore, Logout,
             InvalidateToken, SetStatus, Unblock, InvalidateUser, Restart, Tick, vars, dbVars
  <1>2. TypeOK /\ [Next]_vars => [InTime]_vars
    BY <1>1
  <1> QED
    BY <1>2, SessionTypeCorrect, PTL DEF Spec, NoEarlyLogout
=============================================================================
