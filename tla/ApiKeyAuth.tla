----------------------------- MODULE ApiKeyAuth -----------------------------
(***************************************************************************)
(* Authentication of client API keys by the replicas of the proxy          *)
(* (internal/store/api_keys.go, internal/store/users.go and the handlers   *)
(* that call them).                                                        *)
(*                                                                         *)
(* PostgreSQL holds the keys and the users.  Every replica keeps two TTL   *)
(* caches: candidates, prefix -> rows that may match a presented secret,   *)
(* and verified, secret -> principal.  The secret of a key is identified   *)
(* with the key: only the row of the key itself passes the bcrypt check.   *)
(* A worker is a goroutine of a replica that serves one request at a time; *)
(* its record holds what the request has read so far.  Every database      *)
(* statement and every cache call is one step, so another worker, on this  *)
(* or on another replica, may run between any two of them.                 *)
(*                                                                         *)
(* Time is one clock for the database and the replicas.  MaxCall bounds    *)
(* how long one authenticate call stays in flight; MaxTime is the horizon  *)
(* of the model.  Issued and Requests select which keys exist at the start *)
(* and which management requests an instance lets arrive.                  *)
(***************************************************************************)
EXTENDS Naturals, TTLCache

CONSTANTS
    Replicas, Workers, Host,        \* Host[w]: the replica worker w runs in
    Users, Keys, Owner,             \* Owner[k]: users.id of the row's user_id
    Prefixes, Prefix,               \* Prefix[k]: the first 8 characters of k
    Sources, ActiveSource,          \* ActiveSource[r]: AUTH_MODE of replica r
    IdentitySource,                 \* IdentitySource[u]: users.identity_source
    Expiring, ValidUntil,           \* keys with an expires_at, and its last instant
    Issued,                         \* keys that exist when the model starts
    Requests,                       \* management requests that may arrive
    TTL,                            \* apiKeyCacheTTL
    MaxCall, MaxTime

ASSUME TopologyAssumption ==
    /\ Host \in [Workers -> Replicas]
    /\ Owner \in [Keys -> Users]
    /\ Prefix \in [Keys -> Prefixes]
    /\ ActiveSource \in [Replicas -> Sources]
    /\ IdentitySource \in [Users -> Sources]
    /\ Keys # {}
    /\ Keys \cap Users = {}
    /\ Issued \subseteq Keys
    /\ Requests \subseteq {"create", "revoke", "status", "restart"}

ASSUME TimeAssumption ==
    /\ TTL \in Nat \ {0}
    /\ MaxCall \in Nat
    /\ MaxTime \in Nat
    /\ Expiring \subseteq Keys
    /\ ValidUntil \in [Expiring -> Nat]

VARIABLES
    now,
    keyStatus,      \* api_keys.status; "none" before the row exists
    createdAt,      \* when the row was inserted
    revokedAt,      \* when the row was revoked
    userStatus,     \* users.status
    blockedAt,      \* when the user was last blocked
    candidates,     \* candidatesCache of every replica
    verified,       \* verifiedCache of every replica
    work,           \* what every worker is doing
    sealed,         \* keys and users revoked or blocked on a replica that no
                    \* overlapping request could have carried past the reset
    published       \* keys created on a replica, likewise

dbVars == <<keyStatus, createdAt, revokedAt, userStatus, blockedAt>>
cacheVars == <<candidates, verified>>
ghostVars == <<sealed, published>>
vars == <<now, dbVars, cacheVars, work, ghostVars>>

AuthPC == {"candidates", "query", "fill", "verify", "store"}
AdminPC == {"publish", "clearCandidates", "clearVerified", "invalidateUser"}

Work == [pc : {"idle"} \cup AuthPC \cup AdminPC,
         key : Keys, user : Users, rows : SUBSET Keys,
         since : Nat, quiet : BOOLEAN]

\* One type invariant for the whole state.
TypeOK ==
    /\ now \in Nat
    /\ keyStatus \in [Keys -> {"none", "active", "revoked"}]
    /\ createdAt \in [Keys -> Nat]
    /\ revokedAt \in [Keys -> Nat]
    /\ userStatus \in [Users -> {"active", "blocked"}]
    /\ blockedAt \in [Users -> Nat]
    /\ candidates \in [Replicas -> [Prefixes -> Entry(SUBSET Keys)]]
    /\ verified \in [Replicas -> [Keys -> Entry(SUBSET Keys)]]
    /\ work \in [Workers -> Work]
    /\ sealed \in [Replicas -> SUBSET (Keys \cup Users)]
    /\ published \in [Replicas -> SUBSET Keys]

-----------------------------------------------------------------------------
Authenticating(w) == work[w].pc \in AuthPC

Idle(w) == work[w].pc = "idle"

\* A worker between two requests; its other fields mean nothing.
NoWork ==
    LET k == CHOOSE k \in Keys : TRUE
    IN  [pc |-> "idle", key |-> k, user |-> Owner[k], rows |-> {},
         since |-> 0, quiet |-> FALSE]

\* The request of worker w has ended.
Finished(w) == [work EXCEPT ![w] = NoWork]

Expired(k, t) == k \in Expiring /\ ValidUntil[k] <= t

\* Rows that FindAPIKeyCandidatesForSource returns to replica r.
Selected(r, p) ==
    {k \in Keys : /\ Prefix[k] = p
                  /\ IdentitySource[Owner[k]] = ActiveSource[r]
                  /\ keyStatus[k] = "active"
                  /\ ~Expired(k, now)}

Init ==
    /\ now = 0
    /\ keyStatus = [k \in Keys |-> IF k \in Issued THEN "active" ELSE "none"]
    /\ createdAt = [k \in Keys |-> 0]
    /\ revokedAt = [k \in Keys |-> 0]
    /\ userStatus = [u \in Users |-> "active"]
    /\ blockedAt = [u \in Users |-> 0]
    /\ candidates = [r \in Replicas |-> EmptyCache(Prefixes)]
    /\ verified = [r \in Replicas |-> EmptyCache(Keys)]
    /\ work = [w \in Workers |-> NoWork]
    /\ sealed = [r \in Replicas |-> {}]
    /\ published = [r \in Replicas |-> {}]

-----------------------------------------------------------------------------
(* authenticate, from the verified-cache lookup on. *)

\* verifiedCache.Get hits: the principal is returned at once.
AuthenticateHit(w, k) ==
    /\ Idle(w)
    /\ Live(verified[Host[w]][k], now)
    /\ UNCHANGED vars

\* verifiedCache.Get misses (deleting an expired entry).
AuthenticateMiss(w, k) ==
    /\ Idle(w)
    /\ ~Live(verified[Host[w]][k], now)
    /\ verified' = [verified EXCEPT ![Host[w]] = Get(@, k, now)]
    /\ work' = [work EXCEPT ![w] = [NoWork EXCEPT !.pc = "candidates",
                                                 !.key = k, !.since = now]]
    /\ UNCHANGED <<now, dbVars, candidates, ghostVars>>

\* findCandidates: candidatesCache.Get.
CandidatesGet(w) ==
    LET r == Host[w]
        p == Prefix[work[w].key]
        hit == Live(candidates[r][p], now)
    IN  /\ work[w].pc = "candidates"
        /\ candidates' = [candidates EXCEPT ![r] = Get(@, p, now)]
        /\ work' = [work EXCEPT
                        ![w].pc = IF hit THEN "verify" ELSE "query",
                        ![w].rows = IF hit THEN candidates[r][p].value ELSE {}]
        /\ UNCHANGED <<now, dbVars, verified, ghostVars>>

\* findCandidates: FindAPIKeyCandidatesForSource.
CandidatesQuery(w) ==
    /\ work[w].pc = "query"
    /\ work' = [work EXCEPT ![w].pc = "fill",
                            ![w].rows = Selected(Host[w], Prefix[work[w].key])]
    /\ UNCHANGED <<now, dbVars, cacheVars, ghostVars>>

\* findCandidates: candidatesCache.Set, also of an empty result.
CandidatesFill(w) ==
    /\ work[w].pc = "fill"
    /\ candidates' = [candidates EXCEPT ![Host[w]] =
                        Set(@, Prefix[work[w].key], work[w].rows, now, TTL)]
    /\ work' = [work EXCEPT ![w].pc = "verify"]
    /\ UNCHANGED <<now, dbVars, verified, ghostVars>>

\* Deviation: the row found by prefix is trusted, the user is not read again.
VerifyActive_NoUserCheck(w) ==
    /\ work[w].pc = "verify"
    /\ work[w].key \in work[w].rows
    /\ work' = [work EXCEPT ![w].pc = "store"]
    /\ UNCHANGED <<now, dbVars, cacheVars, ghostVars>>

\* The loop over the candidates: a row matches the secret and userIsActive
\* reads the user's status from the database.
VerifyActive(w) ==
    /\ work[w].pc = "verify"
    /\ work[w].key \in work[w].rows
    /\ userStatus[Owner[work[w].key]] = "active"
    /\ work' = [work EXCEPT ![w].pc = "store"]
    /\ UNCHANGED <<now, dbVars, cacheVars, ghostVars>>

\* No row matches, or its user is blocked: ErrInvalidCredential.
VerifyReject(w) ==
    /\ work[w].pc = "verify"
    /\ \/ work[w].key \notin work[w].rows
       \/ userStatus[Owner[work[w].key]] # "active"
    /\ work' = Finished(w)
    /\ UNCHANGED <<now, dbVars, cacheVars, ghostVars>>

\* verifiedCache.Set; the principal is returned.
VerifiedStore(w) ==
    /\ work[w].pc = "store"
    /\ verified' = [verified EXCEPT ![Host[w]] =
                        Set(@, work[w].key, {work[w].key}, now, TTL)]
    /\ work' = Finished(w)
    /\ UNCHANGED <<now, dbVars, candidates, ghostVars>>

\* Either query fails: the error is returned and nothing is cached.
AuthenticateError(w) ==
    /\ \/ work[w].pc = "query"
       \/ work[w].pc = "verify" /\ work[w].key \in work[w].rows
    /\ work' = Finished(w)
    /\ UNCHANGED <<now, dbVars, cacheVars, ghostVars>>

-----------------------------------------------------------------------------
(* Create, Revoke and the user status change.  A statement whose answer is *)
(* lost (lostAnswer) took effect, but the handler returns an error and     *)
(* skips the cache calls that follow it.                                   *)

\* Create: CreateAPIKey.  The secret reaches the client only when the
\* handler answers; a key whose answer was lost is a row nobody can present.
CreateInsert(w, k) ==
    /\ "create" \in Requests
    /\ Idle(w)
    /\ keyStatus[k] = "none"
    /\ keyStatus' = [keyStatus EXCEPT ![k] = "active"]
    /\ createdAt' = [createdAt EXCEPT ![k] = now]
    /\ work' = [work EXCEPT ![w] = [NoWork EXCEPT !.pc = "publish", !.key = k]]
    /\ UNCHANGED <<now, revokedAt, userStatus, blockedAt, cacheVars, ghostVars>>

\* Deviation: Create leaves the candidates cache alone.
CreatePublish_NoInvalidation(w) ==
    /\ work[w].pc = "publish"
    /\ published' = [published EXCEPT ![Host[w]] = @ \cup {work[w].key}]
    /\ work' = Finished(w)
    /\ UNCHANGED <<now, dbVars, cacheVars, sealed>>

\* Create: invalidateCandidates(prefix).
CreatePublish(w) ==
    LET r == Host[w]
        k == work[w].key
        overlapped == \E x \in Workers : /\ Host[x] = r
                                         /\ work[x].pc = "fill"
                                         /\ Prefix[work[x].key] = Prefix[k]
                                         /\ k \notin work[x].rows
    IN  /\ work[w].pc = "publish"
        /\ candidates' = [candidates EXCEPT ![r] = Delete(@, Prefix[k])]
        /\ published' = [published EXCEPT ![r] = IF overlapped THEN @ ELSE @ \cup {k}]
        /\ work' = Finished(w)
        /\ UNCHANGED <<now, dbVars, verified, sealed>>

\* Deviation: a status outside the CHECK constraint of api_keys.
RevokeUpdate_Deleted(w, u, k, lostAnswer) ==
    /\ "revoke" \in Requests
    /\ Idle(w)
    /\ Owner[k] = u
    /\ keyStatus[k] = "active"
    /\ keyStatus' = [keyStatus EXCEPT ![k] = "deleted"]
    /\ UNCHANGED <<now, createdAt, revokedAt, userStatus, blockedAt, cacheVars,
                   work, ghostVars>>

\* Revoke: RevokeAPIKey changed one row.
RevokeUpdate(w, u, k, lostAnswer) ==
    /\ "revoke" \in Requests
    /\ Idle(w)
    /\ Owner[k] = u
    /\ keyStatus[k] = "active"
    /\ keyStatus' = [keyStatus EXCEPT ![k] = "revoked"]
    /\ revokedAt' = [revokedAt EXCEPT ![k] = now]
    /\ work' = IF lostAnswer
               THEN work
               ELSE [work EXCEPT ![w] = [NoWork EXCEPT !.pc = "clearCandidates",
                                                       !.key = k]]
    /\ UNCHANGED <<now, createdAt, userStatus, blockedAt, cacheVars, ghostVars>>

\* Revoke: RevokeAPIKey changed no row, ErrNotFound; the caches stay.
RevokeNotFound(w, u, k) ==
    /\ "revoke" \in Requests
    /\ Idle(w)
    /\ Owner[k] # u \/ keyStatus[k] # "active"
    /\ UNCHANGED vars

\* Deviation: the verified cache is cleared first and the candidates cache is not.
RevokeClearCandidates_WrongCache(w) ==
    LET r == Host[w]
    IN  /\ work[w].pc = "clearCandidates"
        /\ verified' = [verified EXCEPT ![r] = Clear(@)]
        /\ work' = [work EXCEPT
                        ![w].pc = "clearVerified",
                        ![w].quiet = \A x \in Workers :
                                        Host[x] = r => ~Authenticating(x)]
        /\ UNCHANGED <<now, dbVars, candidates, ghostVars>>

\* Revoke: candidatesCache.Clear.
RevokeClearCandidates(w) ==
    LET r == Host[w]
    IN  /\ work[w].pc = "clearCandidates"
        /\ candidates' = [candidates EXCEPT ![r] = Clear(@)]
        /\ work' = [work EXCEPT
                        ![w].pc = "clearVerified",
                        ![w].quiet = \A x \in Workers :
                                        Host[x] = r => ~Authenticating(x)]
        /\ UNCHANGED <<now, dbVars, verified, ghostVars>>

\* Revoke: verifiedCache.Clear.
RevokeClearVerified(w) ==
    LET r == Host[w]
    IN  /\ work[w].pc = "clearVerified"
        /\ verified' = [verified EXCEPT ![r] = Clear(@)]
        /\ sealed' = [sealed EXCEPT ![r] =
                        IF work[w].quiet THEN @ \cup {work[w].key} ELSE @]
        /\ work' = Finished(w)
        /\ UNCHANGED <<now, dbVars, candidates, published>>

\* SetStatusWithAudit commits: the status and the audit row change together.
SetStatusCommit(w, u, status, lostAnswer) ==
    /\ "status" \in Requests
    /\ Idle(w)
    /\ userStatus' = [userStatus EXCEPT ![u] = status]
    /\ blockedAt' = [blockedAt EXCEPT ![u] =
                        IF status = "blocked" /\ userStatus[u] # "blocked"
                        THEN now ELSE @]
    /\ sealed' = IF status = "active"
                 THEN [r \in Replicas |-> sealed[r] \ {u}]
                 ELSE sealed
    /\ work' = IF lostAnswer
               THEN work
               ELSE [work EXCEPT ![w] = [NoWork EXCEPT !.pc = "invalidateUser",
                                                       !.user = u]]
    /\ UNCHANGED <<now, keyStatus, createdAt, revokedAt, cacheVars, published>>

\* Deviation: the verified entries of the user survive the block.
InvalidateUser_Skipped(w) ==
    /\ work[w].pc = "invalidateUser"
    /\ sealed' = [sealed EXCEPT ![Host[w]] =
                    IF userStatus[work[w].user] = "blocked"
                    THEN @ \cup {work[w].user} ELSE @]
    /\ work' = Finished(w)
    /\ UNCHANGED <<now, dbVars, cacheVars, published>>

\* InvalidateUser: DeleteWhere on the verified cache only.
InvalidateUser(w) ==
    LET r == Host[w]
        u == work[w].user
        owned == {k \in Keys : Owner[k] = u}
        overlapped == \E x \in Workers : /\ Host[x] = r
                                         /\ work[x].pc = "store"
                                         /\ work[x].key \in owned
    IN  /\ work[w].pc = "invalidateUser"
        /\ verified' = [verified EXCEPT ![r] = DeleteWhere(@, owned)]
        /\ sealed' = [sealed EXCEPT ![r] =
                        IF userStatus[u] = "blocked" /\ ~overlapped
                        THEN @ \cup {u} ELSE @]
        /\ work' = Finished(w)
        /\ UNCHANGED <<now, dbVars, candidates, published>>

-----------------------------------------------------------------------------
\* The process of replica r is replaced: its memory and requests are lost.
Restart(r) ==
    /\ "restart" \in Requests
    /\ candidates' = [candidates EXCEPT ![r] = EmptyCache(Prefixes)]
    /\ verified' = [verified EXCEPT ![r] = EmptyCache(Keys)]
    /\ work' = [w \in Workers |-> IF Host[w] = r THEN NoWork ELSE work[w]]
    /\ UNCHANGED <<now, dbVars, ghostVars>>

\* Time passes, but never beyond MaxCall of a call in flight.
Tick ==
    /\ now < MaxTime
    /\ \A w \in Workers : Authenticating(w) => now < work[w].since + MaxCall
    /\ now' = now + 1
    /\ UNCHANGED <<dbVars, cacheVars, work, ghostVars>>

\* Provider.Authenticate presents the credentials of a request one after the
\* other; each is a call of its own here, hit or miss.
Authenticate(w) ==
    \/ \E k \in Keys : AuthenticateHit(w, k) \/ AuthenticateMiss(w, k)
    \/ CandidatesGet(w)
    \/ CandidatesQuery(w)
    \/ CandidatesFill(w)
    \/ VerifyActive(w)
    \/ VerifyReject(w)
    \/ VerifiedStore(w)
    \/ AuthenticateError(w)

Create(w) == (\E k \in Keys : CreateInsert(w, k)) \/ CreatePublish(w)

Revoke(w) ==
    \/ \E u \in Users, k \in Keys, lost \in BOOLEAN : RevokeUpdate(w, u, k, lost)
    \/ \E u \in Users, k \in Keys : RevokeNotFound(w, u, k)
    \/ RevokeClearCandidates(w)
    \/ RevokeClearVerified(w)

SetStatus(w) ==
    \/ \E u \in Users, status \in {"active", "blocked"}, lost \in BOOLEAN :
            SetStatusCommit(w, u, status, lost)
    \/ InvalidateUser(w)

Next ==
    \/ \E w \in Workers : Authenticate(w) \/ Create(w) \/ Revoke(w) \/ SetStatus(w)
    \/ \E r \in Replicas : Restart(r)
    \/ Tick

Spec == Init /\ [][Next]_vars

-----------------------------------------------------------------------------
\* A request that presents k to replica r is granted now: the verified cache
\* answers it, or a request in flight has passed its last check.
Honoured(r, k) ==
    \/ Live(verified[r][k], now)
    \/ \E w \in Workers : /\ Host[w] = r
                          /\ work[w].pc = "store"
                          /\ work[w].key = k

\* Instant t comes no later than d after key k stopped being selectable.
Within(k, t, d) ==
    /\ keyStatus[k] = "revoked" => t <= revokedAt[k] + d
    /\ k \in Expiring => t <= ValidUntil[k] + d

(* The two caches are chained: a candidates entry filled just before a     *)
(* revocation admits a verified entry just before it expires itself.  On   *)
(* no replica does a revoked or expired key outlive twice the TTL, plus    *)
(* the time the two requests that filled the caches were in flight.        *)
RevocationBound ==
    \A r \in Replicas, k \in Keys :
        Honoured(r, k) => Within(k, now + 1, 2 * TTL + 2 * MaxCall)

(* The user's status is read from the database for every verified entry,   *)
(* so a blocked user's keys outlive the block by one TTL at most, although *)
(* InvalidateUser leaves the candidates cache alone and runs on one        *)
(* replica only.                                                           *)
BlockBound ==
    \A r \in Replicas, k \in Keys :
        Honoured(r, k) =>
            \/ userStatus[Owner[k]] = "active"
            \/ now < blockedAt[Owner[k]] + TTL + MaxCall

(* On the replica that served the revocation (or the block) the key is     *)
(* refused from the moment Revoke (or SetStatus) returns, provided no      *)
(* authentication was in flight when the caches were reset.  This is what  *)
(* the order of the two Clear calls in Revoke is for.                      *)
QuietResetSeals ==
    \A r \in Replicas, k \in Keys :
        Honoured(r, k) => k \notin sealed[r] /\ Owner[k] \notin sealed[r]

(* A key works on the replica that created it from the moment Create       *)
(* returns, even if another key with the same 8-character prefix, or a     *)
(* wrong secret, had the prefix cached: unless a lookup of that prefix was *)
(* in flight.                                                              *)
QuietCreatePublishes ==
    \A r \in Replicas, k \in Keys :
        LET entry == candidates[r][Prefix[k]]
        IN  /\ k \in published[r]
            /\ k \in Selected(r, Prefix[k])
            /\ Live(entry, now)
            => k \in entry.value

(* Elsewhere a cached (possibly empty) candidate list hides a new key for  *)
(* one TTL at most.                                                        *)
CreateBound ==
    \A r \in Replicas, k \in Keys :
        LET entry == candidates[r][Prefix[k]]
        IN  /\ k \in Selected(r, Prefix[k])
            /\ Live(entry, now)
            /\ k \notin entry.value
            => now < createdAt[k] + TTL + MaxCall

-----------------------------------------------------------------------------
(* The parts of the inductive invariants behind the properties above. *)

\* Cache entries were stored no later than now; a call in flight began no
\* later than now and no more than MaxCall ago; a worker holds rows only while
\* it authenticates and passes the check only with a matching row.
ClockInv ==
    /\ \A r \in Replicas, p \in Prefixes : candidates[r][p].expiresAt <= now + TTL
    /\ \A r \in Replicas, k \in Keys : verified[r][k].expiresAt <= now + TTL
    /\ \A w \in Workers :
        /\ Authenticating(w) => /\ work[w].since <= now
                               /\ now <= work[w].since + MaxCall
        /\ ~Authenticating(w) => work[w].rows = {}
        /\ work[w].pc = "store" => work[w].key \in work[w].rows

\* How stale a row may be, from the query to the verified cache.
StaleInv ==
    /\ \A r \in Replicas, p \in Prefixes : \A k \in candidates[r][p].value :
            Within(k, candidates[r][p].expiresAt, TTL + MaxCall)
    /\ \A w \in Workers : work[w].pc = "fill" =>
            \A k \in work[w].rows : Within(k, work[w].since, 0)
    /\ \A w \in Workers : work[w].pc \in {"verify", "store"} =>
            \A k \in work[w].rows : Within(k, work[w].since, TTL + MaxCall)
    /\ \A r \in Replicas, k \in Keys :
            Within(k, verified[r][k].expiresAt, 2 * TTL + 2 * MaxCall)

\* How stale a check of the user's status may be.
BlockInv ==
    /\ \A r \in Replicas, k \in Keys :
            userStatus[Owner[k]] = "blocked" =>
                verified[r][k].expiresAt <= blockedAt[Owner[k]] + TTL + MaxCall
    /\ \A w \in Workers :
            work[w].pc = "store" /\ userStatus[Owner[work[w].key]] = "blocked" =>
                work[w].since <= blockedAt[Owner[work[w].key]]

\* No part of replica r below the verified cache knows revoked key k.
Forgotten(r, k) ==
    /\ keyStatus[k] = "revoked"
    /\ \A p \in Prefixes : k \notin candidates[r][p].value
    /\ \A w \in Workers : Host[w] = r => k \notin work[w].rows

SealInv ==
    /\ \A w \in Workers : work[w].pc \in {"clearCandidates", "clearVerified"} =>
            keyStatus[work[w].key] = "revoked"
    /\ \A w \in Workers : work[w].pc = "clearVerified" /\ work[w].quiet =>
            Forgotten(Host[w], work[w].key)
    /\ \A r \in Replicas, k \in Keys : k \in sealed[r] =>
            Forgotten(r, k) /\ verified[r][k].expiresAt = 0
    /\ \A r \in Replicas, k \in Keys : Owner[k] \in sealed[r] =>
            /\ userStatus[Owner[k]] = "blocked"
            /\ verified[r][k].expiresAt = 0
            /\ \A w \in Workers : Host[w] = r /\ work[w].pc = "store" =>
                    work[w].key # k

\* What a candidate list that lacks a selectable key implies.
CreateInv ==
    /\ \A w \in Workers : work[w].pc = "publish" => keyStatus[work[w].key] # "none"
    /\ \A r \in Replicas, k \in Keys :
        LET entry == candidates[r][Prefix[k]]
            Filling(w) == /\ Host[w] = r
                          /\ work[w].pc = "fill"
                          /\ Prefix[work[w].key] = Prefix[k]
                          /\ k \notin work[w].rows
        IN  /\ k \in published[r] => keyStatus[k] # "none"
            /\ k \in Selected(r, Prefix[k]) =>
                /\ k \notin entry.value => entry.expiresAt <= createdAt[k] + TTL + MaxCall
                /\ \A w \in Workers : Filling(w) => work[w].since <= createdAt[k]
                /\ k \in published[r] =>
                    /\ k \in entry.value \/ entry.expiresAt = 0
                    /\ \A w \in Workers : ~Filling(w)
=============================================================================
