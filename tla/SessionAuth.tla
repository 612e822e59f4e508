----------------------------- MODULE SessionAuth -----------------------------
(***************************************************************************)
(* Management sessions: login, the cached session lookup of every replica, *)
(* logout, the block of a user and the cleanup of expired rows             *)
(* (internal/auth/identity, internal/store/sessions.go and users.go,       *)
(* internal/httpapi).                                                      *)
(*                                                                         *)
(* PostgreSQL holds the users and the session rows; a replica caches every *)
(* successful lookup for TTL.  As in ApiKeyAuth a worker is a goroutine,   *)
(* every statement and every cache call is one step, there is one clock,   *)
(* and MaxCall bounds a lookup in flight.  Every replica runs the same     *)
(* auth.mode, so the identity source of a row always matches.              *)
(***************************************************************************)
EXTENDS Naturals, TTLCache

CONSTANTS
    Replicas, Workers, Host,    \* Host[w]: the replica worker w runs in
    Users, Tokens,
    UserTTL, AdminTTL,          \* userSessionTTL, adminSessionTTL
    TTL,                        \* of the session cache
    Serves,                     \* Serves[w]: the requests that reach worker w
    MaxCall, MaxTime

ASSUME SessionTopology ==
    /\ Host \in [Workers -> Replicas]
    /\ Users # {} /\ Tokens # {}
    /\ Users \cap Tokens = {}
    /\ Serves \in [Workers -> SUBSET {"login", "lookup", "logout", "status"}]

ASSUME SessionTimes ==
    /\ TTL \in Nat \ {0}
    /\ UserTTL \in Nat /\ AdminTTL \in Nat
    /\ MaxCall \in Nat /\ MaxTime \in Nat

VARIABLES
    now,
    userStatus,     \* users.status
    blockedAt,      \* when the user was last blocked
    sessions,       \* tokens with a row in the sessions table
    row,            \* contents of the row; checkedAt: when Login saw the status
    deletedAt,      \* when the row was deleted
    cache,          \* session cache of every replica
    work,           \* what every worker is doing
    sealed          \* tokens logged out and users blocked on a replica while no
                    \* lookup could carry them past the reset of its cache

dbVars == <<userStatus, blockedAt, sessions, row, deletedAt>>
vars == <<now, dbVars, cache, work, sealed>>

Roles == {"user", "admin"}
LookupPC == {"lookup", "store"}

Row == [user : Users, role : Roles \cup {"none"}, expiresAt : Nat, checkedAt : Nat]
Work == [pc : {"idle", "create", "invalidateToken", "invalidateUser"} \cup LookupPC,
         token : Tokens, user : Users, role : Roles, since : Nat]

\* One type invariant for the whole state.
TypeOK ==
    /\ now \in Nat
    /\ userStatus \in [Users -> {"active", "blocked"}]
    /\ blockedAt \in [Users -> Nat]
    /\ sessions \in SUBSET Tokens
    /\ row \in [Tokens -> Row]
    /\ deletedAt \in [Tokens -> Nat]
    /\ cache \in [Replicas -> [Tokens -> Entry(SUBSET Tokens)]]
    /\ work \in [Workers -> Work]
    /\ sealed \in [Replicas -> SUBSET (Tokens \cup Users)]

-----------------------------------------------------------------------------
\* A worker between two requests; its other fields mean nothing.
NoWork == [pc |-> "idle", token |-> CHOOSE t \in Tokens : TRUE,
           user |-> CHOOSE u \in Users : TRUE, role |-> "user", since |-> 0]

Idle(w) == work[w].pc = "idle"
InFlight(w) == work[w].pc \in LookupPC
Finished(w) == [work EXCEPT ![w] = NoWork]
Begin(w, w0) == [work EXCEPT ![w] = w0]

\* A token that no login has handed out yet.
Unused(t) == row[t].role = "none"

SessionTTL(role) == IF role = "admin" THEN AdminTTL ELSE UserTTL

\* Deviation: the name of the group is stored instead of the role.
RoleForGroups_GroupName(groups) == IF "admins" \in groups THEN "admins" ELSE "users"

\* The provider accepts credentials only of a user in one of the two groups; a
\* static identity has the group of its configured role.
Accepted(groups) == groups # {}

\* The upsert of the user writes the role and returns the status it found.
UpsertedStatus(u) == userStatus[u]

\* roleForGroups of the LDAP provider.
RoleForGroups(groups) == IF "admins" \in groups THEN "admin" ELSE "user"

Init ==
    /\ now = 0
    /\ userStatus = [u \in Users |-> "active"]
    /\ blockedAt = [u \in Users |-> 0]
    /\ sessions = {}
    /\ row = [t \in Tokens |-> [user |-> CHOOSE u \in Users : TRUE, role |-> "none",
                                expiresAt |-> 0, checkedAt |-> 0]]
    /\ deletedAt = [t \in Tokens |-> 0]
    /\ cache = [r \in Replicas |-> EmptyCache(Tokens)]
    /\ work = [w \in Workers |-> NoWork]
    /\ sealed = [r \in Replicas |-> {}]

-----------------------------------------------------------------------------
(* Login. *)

\* Deviation: Login forgets the status the upsert returned.
LoginUpsert_NoStatusCheck(w, u, groups) ==
    /\ "login" \in Serves[w]
    /\ Idle(w)
    /\ Accepted(groups)
    /\ work' = Begin(w, [NoWork EXCEPT !.pc = "create", !.user = u,
                                       !.role = RoleForGroups(groups), !.since = now])
    /\ UNCHANGED <<now, dbVars, cache, sealed>>

\* The provider accepted the credentials and the upsert, which keeps the
\* status, returned an active user.
LoginUpsert(w, u, groups) ==
    /\ "login" \in Serves[w]
    /\ Idle(w)
    /\ Accepted(groups)
    /\ UpsertedStatus(u) = "active"
    /\ work' = Begin(w, [NoWork EXCEPT !.pc = "create", !.user = u,
                                       !.role = RoleForGroups(groups), !.since = now])
    /\ UNCHANGED <<now, dbVars, cache, sealed>>

\* Wrong credentials, ErrAccessDenied or ErrUserBlocked: no session.
LoginRefused(w, u, groups) ==
    /\ "login" \in Serves[w]
    /\ Idle(w)
    /\ ~Accepted(groups) \/ UpsertedStatus(u) # "active"
    /\ UNCHANGED vars

\* sessions.Create with a new token and a fixed expiry.
LoginCreate(w, t) ==
    /\ work[w].pc = "create"
    /\ Unused(t)
    /\ sessions' = sessions \cup {t}
    /\ row' = [row EXCEPT ![t] = [user |-> work[w].user, role |-> work[w].role,
                                  expiresAt |-> now + SessionTTL(work[w].role),
                                  checkedAt |-> work[w].since]]
    /\ work' = Finished(w)
    /\ UNCHANGED <<now, userStatus, blockedAt, deletedAt, cache, sealed>>

\* The insert fails, or every token of the instance has been used.
LoginCreateError(w) ==
    /\ work[w].pc = "create"
    /\ work' = Finished(w)
    /\ UNCHANGED <<now, dbVars, cache, sealed>>

-----------------------------------------------------------------------------
(* AuthenticateRequest. *)

\* The cache answers; the expiry of the cached session is not looked at.
AuthenticateHit(w, t) ==
    /\ "lookup" \in Serves[w]
    /\ Idle(w)
    /\ Live(cache[Host[w]][t], now)
    /\ UNCHANGED vars

AuthenticateMiss(w, t) ==
    /\ "lookup" \in Serves[w]
    /\ Idle(w)
    /\ ~Live(cache[Host[w]][t], now)
    /\ cache' = [cache EXCEPT ![Host[w]] = Get(@, t, now)]
    /\ work' = Begin(w, [NoWork EXCEPT !.pc = "lookup", !.token = t, !.since = now])
    /\ UNCHANGED <<now, dbVars, sealed>>

\* What GetByTokenForSource accepts.
Current(t) ==
    /\ t \in sessions
    /\ now < row[t].expiresAt
    /\ userStatus[row[t].user] = "active"

\* Deviation: the row alone decides, the status of its user is not joined.
LookupFound_NoStatus(w) ==
    /\ work[w].pc = "lookup"
    /\ work[w].token \in sessions
    /\ now < row[work[w].token].expiresAt
    /\ work' = [work EXCEPT ![w].pc = "store"]
    /\ UNCHANGED <<now, dbVars, cache, sealed>>

LookupFound(w) ==
    /\ work[w].pc = "lookup"
    /\ Current(work[w].token)
    /\ work' = [work EXCEPT ![w].pc = "store"]
    /\ UNCHANGED <<now, dbVars, cache, sealed>>

\* No current row, or the query failed: both are ErrInvalidSession.
LookupRejected(w) ==
    /\ work[w].pc = "lookup"
    /\ work' = Finished(w)
    /\ UNCHANGED <<now, dbVars, cache, sealed>>

\* cache.Set; the principal is returned.
LookupStore(w) ==
    /\ work[w].pc = "store"
    /\ cache' = [cache EXCEPT ![Host[w]] =
                    Set(@, work[w].token, {work[w].token}, now, TTL)]
    /\ work' = Finished(w)
    /\ UNCHANGED <<now, dbVars, sealed>>

-----------------------------------------------------------------------------
(* LogoutHandler.  The error of the deletion is ignored (deleted = FALSE). *)

LogoutDelete(w, t, deleted) ==
    /\ "logout" \in Serves[w]
    /\ Idle(w)
    /\ ~Unused(t)
    /\ sessions' = IF deleted THEN sessions \ {t} ELSE sessions
    /\ deletedAt' = [deletedAt EXCEPT ![t] =
                        IF deleted /\ t \in sessions THEN now ELSE @]
    /\ work' = Begin(w, [NoWork EXCEPT !.pc = "invalidateToken", !.token = t])
    /\ UNCHANGED <<now, userStatus, blockedAt, row, cache, sealed>>

\* Deviation: only the row is deleted.
InvalidateToken_Skipped(w) ==
    /\ work[w].pc = "invalidateToken"
    /\ sealed' = [sealed EXCEPT ![Host[w]] =
                    IF work[w].token \in sessions THEN @ ELSE @ \cup {work[w].token}]
    /\ work' = Finished(w)
    /\ UNCHANGED <<now, dbVars, cache>>

InvalidateToken(w) ==
    LET r == Host[w]
        t == work[w].token
        overlapped == \E x \in Workers : /\ Host[x] = r
                                         /\ work[x].pc = "store"
                                         /\ work[x].token = t
    IN  /\ work[w].pc = "invalidateToken"
        /\ cache' = [cache EXCEPT ![r] = Delete(@, t)]
        /\ sealed' = [sealed EXCEPT ![r] =
                        IF overlapped \/ t \in sessions THEN @ ELSE @ \cup {t}]
        /\ work' = Finished(w)
        /\ UNCHANGED <<now, dbVars>>

-----------------------------------------------------------------------------
(* SetStatusWithAudit and the invalidation that follows it. *)

OwnedBy(u) == {t \in Tokens : ~Unused(t) /\ row[t].user = u}

\* BlockUserAndDeleteSessions updates the user and deletes the rows at once.
Block(w, u, lostAnswer) ==
    LET killed == sessions \cap OwnedBy(u)
    IN  /\ "status" \in Serves[w]
        /\ Idle(w)
        /\ userStatus' = [userStatus EXCEPT ![u] = "blocked"]
        /\ blockedAt' = [blockedAt EXCEPT ![u] =
                            IF userStatus[u] = "blocked" THEN @ ELSE now]
        /\ sessions' = sessions \ killed
        /\ deletedAt' = [t \in Tokens |-> IF t \in killed THEN now ELSE deletedAt[t]]
        /\ work' = IF lostAnswer THEN work
                   ELSE Begin(w, [NoWork EXCEPT !.pc = "invalidateUser", !.user = u])
        /\ UNCHANGED <<now, row, cache, sealed>>

Unblock(w, u, lostAnswer) ==
    /\ "status" \in Serves[w]
    /\ Idle(w)
    /\ userStatus' = [userStatus EXCEPT ![u] = "active"]
    /\ sealed' = [r \in Replicas |-> sealed[r] \ {u}]
    /\ work' = IF lostAnswer THEN work
               ELSE Begin(w, [NoWork EXCEPT !.pc = "invalidateUser", !.user = u])
    /\ UNCHANGED <<now, blockedAt, sessions, row, deletedAt, cache>>

InvalidateUser(w) ==
    LET r == Host[w]
        u == work[w].user
        overlapped == \E x \in Workers : /\ Host[x] = r
                                         /\ work[x].pc = "store"
                                         /\ work[x].token \in OwnedBy(u)
    IN  /\ work[w].pc = "invalidateUser"
        /\ cache' = [cache EXCEPT ![r] = DeleteWhere(@, OwnedBy(u))]
        /\ sealed' = [sealed EXCEPT ![r] =
                        IF userStatus[u] = "blocked" /\ ~overlapped
                        THEN @ \cup {u} ELSE @]
        /\ work' = Finished(w)
        /\ UNCHANGED <<now, dbVars>>

-----------------------------------------------------------------------------
\* Deviation: the cleanup deletes rows that lapse at the next instant.
DeleteExpired_Early ==
    LET lapsed == {t \in sessions : row[t].expiresAt <= now + 1}
    IN  /\ sessions' = sessions \ lapsed
        /\ deletedAt' = [t \in Tokens |-> IF t \in lapsed THEN now ELSE deletedAt[t]]
        /\ UNCHANGED <<now, userStatus, blockedAt, row, cache, work, sealed>>

\* The cleanup job of the leader: DeleteExpiredSessions.
DeleteExpired ==
    LET lapsed == {t \in sessions : row[t].expiresAt <= now}
    IN  /\ sessions' = sessions \ lapsed
        /\ deletedAt' = [t \in Tokens |-> IF t \in lapsed THEN now ELSE deletedAt[t]]
        /\ UNCHANGED <<now, userStatus, blockedAt, row, cache, work, sealed>>

\* The process of replica r is replaced: its memory and requests are lost.
Restart(r) ==
    /\ cache' = [cache EXCEPT ![r] = EmptyCache(Tokens)]
    /\ work' = [w \in Workers |-> IF Host[w] = r THEN NoWork ELSE work[w]]
    /\ UNCHANGED <<now, dbVars, sealed>>

\* Time passes, but never beyond MaxCall of a lookup in flight.
Tick ==
    /\ now < MaxTime
    /\ \A w \in Workers : InFlight(w) => now < work[w].since + MaxCall
    /\ now' = now + 1
    /\ UNCHANGED <<dbVars, cache, work, sealed>>

Login(w) ==
    \/ \E u \in Users, groups \in SUBSET {"admins", "users"} :
            LoginUpsert(w, u, groups) \/ LoginRefused(w, u, groups)
    \/ \E t \in Tokens : LoginCreate(w, t)
    \/ LoginCreateError(w)

AuthenticateRequest(w) ==
    \/ \E t \in Tokens : AuthenticateHit(w, t) \/ AuthenticateMiss(w, t)
    \/ LookupFound(w)
    \/ LookupRejected(w)
    \/ LookupStore(w)

Logout(w) ==
    \/ \E t \in Tokens, deleted \in BOOLEAN : LogoutDelete(w, t, deleted)
    \/ InvalidateToken(w)

SetStatus(w) ==
    \/ \E u \in Users, lost \in BOOLEAN : Block(w, u, lost) \/ Unblock(w, u, lost)
    \/ InvalidateUser(w)

Next ==
    \/ \E w \in Workers : Login(w) \/ AuthenticateRequest(w) \/ Logout(w) \/ SetStatus(w)
    \/ DeleteExpired
    \/ \E r \in Replicas : Restart(r)
    \/ Tick

Spec == Init /\ [][Next]_vars

-----------------------------------------------------------------------------
\* A request with cookie t is let through by replica r now.
Honoured(r, t) ==
    \/ Live(cache[r][t], now)
    \/ \E w \in Workers : /\ Host[w] = r
                          /\ work[w].pc = "store"
                          /\ work[w].token = t

(* No replica lets a session through for longer than one cache TTL, plus   *)
(* the time a lookup was in flight, after the session expired, its row was *)
(* deleted (logout, block, cleanup) or its user was blocked.               *)
SessionBound ==
    \A r \in Replicas, t \in Tokens :
        Honoured(r, t) =>
            LET Grace(end) == now < end + TTL + MaxCall
            IN  /\ Grace(row[t].expiresAt)
                /\ t \notin sessions => Grace(deletedAt[t])
                /\ userStatus[row[t].user] = "blocked" => Grace(blockedAt[row[t].user])

(* On the replica that served the logout (or the block) the session is     *)
(* refused from the moment the handler returns, provided the row was       *)
(* deleted and no lookup stood between its query and its cache.Set.        *)
QuietResetSeals ==
    \A r \in Replicas, t \in Tokens :
        Honoured(r, t) => t \notin sealed[r] /\ row[t].user \notin sealed[r]

(* The only sessions a blocked user can have are those of logins that had  *)
(* passed the status check when the block committed.                       *)
BlockedRowsFromOverlap ==
    \A t \in sessions :
        userStatus[row[t].user] = "blocked" =>
            row[t].checkedAt <= blockedAt[row[t].user]

(* Nobody is logged out early: a row disappears before its expiry only by  *)
(* a logout of that session or the block of its user.                      *)
NoEarlyLogout ==
    [][\A t \in sessions \ sessions' :
            \/ row[t].expiresAt <= now
            \/ \E w \in Workers : /\ work'[w].pc = "invalidateToken"
                                  /\ work'[w].token = t
            \/ userStatus'[row[t].user] = "blocked"]_vars

-----------------------------------------------------------------------------
(* The parts of the inductive invariant behind the properties above. *)

\* Only a token that a login has handed out is anywhere in the system.
UsedInv ==
    /\ \A t \in sessions : ~Unused(t)
    /\ \A r \in Replicas, t \in Tokens : Unused(t) => cache[r][t].expiresAt = 0
    /\ \A w \in Workers : work[w].pc \in {"store", "invalidateToken"} => ~Unused(work[w].token)

\* Nothing was cached or begun later than now, and no lookup takes too long.
ClockInv ==
    /\ \A r \in Replicas, t \in Tokens : cache[r][t].expiresAt <= now + TTL
    /\ \A w \in Workers : work[w].pc \in LookupPC \cup {"create"} => work[w].since <= now
    /\ \A w \in Workers : InFlight(w) => now <= work[w].since + MaxCall

\* Instant i comes no later than d after session t ended, in each way it can.
Within(t, i, d) ==
    /\ i <= row[t].expiresAt + d
    /\ t \notin sessions => i <= deletedAt[t] + d
    /\ userStatus[row[t].user] = "blocked" => i <= blockedAt[row[t].user] + d

\* How stale a lookup may be, from the query to the cache.
StaleInv ==
    /\ \A w \in Workers : work[w].pc = "store" => Within(work[w].token, work[w].since, 0)
    /\ \A r \in Replicas, t \in Tokens :
            ~Unused(t) => Within(t, cache[r][t].expiresAt, TTL + MaxCall)

\* A login that a block overtakes has passed the status check before it.
OverlapInv ==
    \A w \in Workers :
        work[w].pc = "create" /\ userStatus[work[w].user] = "blocked" =>
            work[w].since <= blockedAt[work[w].user]

\* Replica r neither caches t nor is about to.
Forgotten(r, t) ==
    /\ cache[r][t].expiresAt = 0
    /\ \A w \in Workers : Host[w] = r /\ work[w].pc = "store" => work[w].token # t

SealInv ==
    /\ \A r \in Replicas, t \in Tokens : t \in sealed[r] =>
            t \notin sessions /\ ~Unused(t) /\ Forgotten(r, t)
    /\ \A r \in Replicas, u \in Users : u \in sealed[r] =>
            userStatus[u] = "blocked" /\ \A t \in OwnedBy(u) : Forgotten(r, t)
=============================================================================
