# Verification of CLIProxyNew

CLIProxyNew is a multi-replica proxy in front of upstream AI providers. The
routing core is an SDK (CLIProxyAPI); this repository adds the business layer:
API keys, management sessions, encrypted upstream credentials in PostgreSQL,
usage accounting, and the background jobs of a replica. This directory holds
TLA+ models of that layer, the TLC instances that check them, and TLAPS proofs.

The hard part of the system is that every replica keeps caches and background
goroutines of its own over one database. What a test with one process and one
request at a time never meets is what the models are for: two goroutines
between two statements, a cache filled after it was cleared, a commit whose
answer was lost, a process that ends half-way.

## Inventory

| Part | State | Operations | What makes it correct |
|---|---|---|---|
| TTL cache (`internal/cache`) | entries with an expiry | Get, Set, Delete, DeleteWhere, Clear | an entry is never returned at or after its expiry |
| API-key authentication (`internal/store/api_keys.go`, `internal/access`) | `api_keys`, `users`; per replica a candidates cache and a verified cache | authenticate, create, revoke, invalidate a user | bounded staleness after revocation, expiry, block and creation; immediate effect on the replica that served the change |
| Sessions (`internal/auth/identity`, `internal/store/sessions.go`) | `sessions`, `users`; per replica a session cache | login, lookup, logout, block, cleanup | bounded staleness; no early logout; a block removes sessions |
| Identity providers (`internal/auth/ldap`, `identity/static.go`) | none | authenticate, map groups to a role | the role is the one of the groups |
| User administration (`admin_users.go`) | `users`, audit log | block, unblock | transaction first, caches afterwards |
| Usage writer (`internal/usage`, `usage_events.go`) | channel, batch, `usage_events`, `api_keys.last_used_at` | HandleUsage, run loop, Close | no panic, no duplicate, no reordering, nothing forgotten at Close |
| Leader election and cleanup (`internal/watcher/leader.go`, `session_cleanup.go`) | advisory lock, the connection of the lease | try, run the job, release | one leader; the job goes on after failures; shutdown ends |
| Credential store and revision poller (`coreauth_store.go`, `revision_poller.go`) | `upstream_accounts`, `runtime_revisions`; the accounts in memory | List, Save, Delete, poll, restart | a replica with outdated credentials restarts |
| Keyring (`internal/security`) | active version and keys | encrypt, decrypt, construct | every stored credential stays readable through a rotation |
| Process lifecycle (`cmd/cliproxy/main.go`) | context, pool, deferred calls | start, SIGTERM, error exit | the order of start-up and shutdown |
| Model selector and overrides (`internal/auth/selector`, `admin_models.go`) | `model_overrides`; per replica a cached list | Pick; upsert, delete | allow-list honoured within the TTL, fail closed |
| OAuth sessions (`oauth_sessions.go`) | `oauth_sessions` | create, complete, fail, cancel | one outcome per flow |
| Account administration (`admin_oauth_credentials.go`, `admin_provider_keys.go`, `admin_accounts.go`, `internal/auth/testing`) | `upstream_accounts`, audit log; the accounts in memory; the refresh token at the provider | import, export, register a batch, test | a refresh token is not lost, an account is not registered twice, a batch is not half acknowledged, everything is audited |
| Audit log (`admin_audit.go`) | `admin_audit_log` | insert, in the caller's transaction | a record if and only if the change |
| Model registry hook (`internal/modelregistry`) | `model_registry_snapshots` | register, unregister | the mirror shows the accounts, or comes to |
| Metrics, logging, tracing, configuration, router, generated code | | | plumbing |

Components interact through calls in one process (handlers call repositories,
`AdminUserHandler.SetStatus` calls the invalidators of both authenticators,
`main` wires the poller to the `stop` function of the signal context) and
through the database across processes. `PROJECT.json` lists every component,
the hazards at their lines, and which definition models which lines.

## Modules

`TTLCache` defines the cache as functions over entries; both authentication
modules extend it.

**`ApiKeyAuth`**. A worker is a goroutine of a replica with one request; its
record holds what the request has read so far. Each database statement and each
cache call is one step. `authenticate` is split into `AuthenticateHit` /
`AuthenticateMiss`, `CandidatesGet`, `CandidatesQuery`, `CandidatesFill`,
`VerifyActive` / `VerifyReject` and `VerifiedStore`; `Revoke` into
`RevokeUpdate` (whose answer may be lost, in which case no cache is cleared),
`RevokeNotFound`, `RevokeClearCandidates` and `RevokeClearVerified`; `Create`
into the insert and the invalidation of the prefix; `SetStatus` into the
transaction and `InvalidateUser`. A secret is identified with its key: bcrypt is
external. The ghost `sealed` (and `published`) records on which replica a change
finished while no request stood between its query and its cache write.

**`SessionAuth`** does the same for sessions: `LoginUpsert` reads the status,
`LoginCreate` inserts the row in a later step; a lookup reads the row, then
stores it; logout deletes the row (its error is ignored, as in the handler) and
then the cache entry; a block deletes the rows and then the entries.

**`UsageQueue`** models `BufferedPlugin`: producers under the read lock (a
waiting `Lock` keeps new `RLock`s out), the bounded channel, the run goroutine
with its batch, an insert that succeeds, fails, or succeeds with a lost answer,
callers of `Close` and the exit of `main`. **`UsageLedger`** is the abstract
specification it implements: a bounded first-in first-out buffer whose oldest
events leave in batches, written or lost as a whole. The refinement maps the
buffer to the unwritten part of the batch followed by the channel.

**`LeaderElection`** models `LeaderRunner.Run`, the advisory lock with its lease
connection, `SessionCleanup`, and the part of `main` that ends a replica: the
context, the deferred `dbPool.Close` and `stop`. A lock whose client is gone is
an orphan until PostgreSQL ends its session.

**`RevisionReload`** models `CoreAuthStore` (each write increments the revision
in the same transaction) and `RevisionPoller`, which reads its baseline beside
the load of the accounts. **`ModelRegistry`** composes it with the hook of the
model registry: `Listed`, `Saved` and `Deleted` are the actions of
`RevisionReload` together with the calls of the hook they cause, `Ended` loses
the calls a process had not finished, and `OnModelsRegistered` and
`OnModelsUnregistered` write the row all replicas share. The SDK promises no order
between calls, so each replica has a set of them. The ghost `mirrored` says whether
anything disturbed the mirror so far.

**`UpstreamAccounts`** models what administrators do with accounts, at the level
of the tokens themselves. A worker is a goroutine; between `Import` (the scan for
duplicates in the replica's memory) and `ImportRegister`, between two turns of the
loop over a batch (`KeyRegister`), and between `Refreshed` (the provider has replaced
the token) and `Update` (the table has it) anything may happen, the end of the
process included. `Save` is the one transaction of row, revision and audit record,
with an answer that may be lost. `Persist` is the SDK saving its own copy of an
account. `RevisionReload` says when a replica restarts because it is behind;
here `Restart` may come at any time, which includes late. The manager of the SDK is
modelled by the contract the handlers rely on: an error of `Register` or `Update`
means that the manager did not take the account over.

**`OAuthSessions`** models the race for a pending OAuth session. `Complete` and
`Fail` are single statements; `CancelWithAudit` is a transaction in three steps
that holds the lock of the row, so `Turn` keeps the others waiting and they look at
the status again afterwards, as READ COMMITTED does. Callers, retries and failures
are unbounded: the state is finite without a bound. It is the contract of
`OAuthSessionRepository`; a login flow does not exist in this version.
`internal/auth/oauth` has only a `doc.go`, `main` wires the list, the single read and
the cancellation, and `Create`, `Complete` and `Fail` are called by tests only.

**`ModelSelector`** models `Selector.Pick` and the administration of
`model_overrides`. The mutex covers the refresh, not the scan: a slice is an array
and a length, `append(s.cache[:0], ...)` (`QueryAnswered` to `Install`) writes to
the array that slices handed out earlier still name, and a scan (`ScanRow`, one
row per step) meanwhile finds the old or the new value of each field, or for a
string a mixture of the two. `overlapped` names the calls this happened to.

**`KeyRotation`** models the keyring and the steps of
`docs/runbooks/encryption-key-rotation.md`, with the ConfigMap and the Secret
updated one after the other and replicas that start at any moment.

The names ending in `_Something` next to an action are deviations: the action
with one plausible mistake. They are in no next-state relation; each is the
mistake one of the properties was tried against.

## Runs

| Run | Instance | Shows |
|---|---|---|
| `apikey_revoke` | two replicas, three goroutines, one key, TTL 1, calls up to 1 | `RevocationBound`: a revoked key is honoured for at most 2 TTL plus two calls; `QuietResetSeals`: on its own replica a revocation that nothing overlaps is immediate |
| `apikey_create` | one replica, two goroutines, two keys with one prefix, one of which expires, one user who is blocked and unblocked | `CreateBound`, `QuietCreatePublishes`, `BlockBound`, and `QuietResetSeals` for the block |
| `sessions` | two goroutines of one replica, one of another that ends sessions, one cookie | `SessionBound`, `QuietResetSeals`, `BlockedRowsFromOverlap`, `NoEarlyLogout` |
| `usage` | two producers, two callers of Close, channel 2, batch 2 | `Accounting`, `NoSendOnClosed`, `CleanClose`, `CloseReturns`, `ImplementsLedger` |
| `leader` | three replicas, four faults | `Exclusion`, `CleanupHappens`, `ShutdownCompletes` |
| `leader_hang` (violation) | two replicas, one fault | after an error of the service `dbPool.Close` waits for ever |
| `reload` | two replicas, one account that exists, two more writes | `StaleIsNoticed`, `StaleIsReloaded`, `RestartsStop`, `QuietMirrorIsExact`, `MissingIsRestored` |
| `selector` | two calls of `Pick`, two aliases, two providers, one change, TTL 1 | `DecisionIsRecent`: a call whose array nobody overwrites decides as the table did at most one TTL and one refresh ago, whether or not queries fail |
| `selector_torn` (violation) | the same | a scan that a refresh overlaps applies a row that never was in the table |
| `accounts` | two replicas with a goroutine each, one identity written in two ways, a batch of two keys submitted twice, three accounts, three writes, two rotations of a token | `CredentialSurvives`: the table has the token the provider accepts, except after a fault between rotation and save, a save of a stale copy, the import of an old export, or a double registration; `DuplicatesWereUnseen`: what a double registration takes; `BatchIsPrefix`; `EveryAccountAudited` |
| `oauth` | three callers, one session, two accounts, unlimited retries | `OneWinner`, `OutcomeIsFinal`, `TablesAgree`, `CallsReturn` |
| `rotation` | three pods, two credentials | `EveryRowReadable`: every replica, and any that starts now, decrypts every row |

Bounds. A staleness bound is about one key or one cookie and the replicas and
goroutines that touch it; two goroutines on one replica give every order of a
read and a fill around an invalidation, a third on another replica gives the
entry nobody invalidates. The horizon is one instant beyond the largest bound
the run states, so that an entry that lived too long would be seen. The channel
and the batch of two make the queue fill, the batch fill, the ticker flush a
partial batch and the drain start with work in both. Three replicas let one
take over from another while a third still believes in its lease. Where workers
of a replica are interchangeable the instance uses symmetry; runs with
liveness use none.

The rows of a selector instance are two, the smallest number at which a removal
shifts one alias to the place of another and a growing list needs a new array.

Three writes of `accounts` are an import, a refresh and a save that competes with
it, or an import on each replica and one more; two submissions of a batch give the
retry of a half-done one; one exported account is enough, because exports do not
meet each other. In `reload` the account exists already, so two more writes are
a deletion and a new registration, the shortest history in which hook calls cross.
An OAuth session shares nothing with another one but the callers, and three of them
give a holder of the lock and two that wait for it.

Facts seen on the way that no run states. A login that read the status before a
block creates its session after it, so a blocked user may keep a row, although
`docs/requirements.md` (lines 368-369) says that a block invalidates the
sessions; `BlockedRowsFromOverlap` says that this is the only way. A leader that
lost the connection of its lease goes on with the job beside the next one,
although `docs/architecture.md` (lines 511-512) excludes a split brain;
`Exclusion` says that this is the only way. A cached session is honoured up
to one cache TTL past `expires_at` (part of `SessionBound`). The replica that
writes a credential restarts as well: its own poller sees the revision it
incremented, although ADR-9 (lines 139-140) speaks of the other replicas;
`RestartsStop` says that this ends. A revoked key may be honoured on another
replica for nearly two cache TTLs, because a candidates entry about to expire
admits a verified entry; `docs/runbooks/api-key-rotation.md` (lines 26-27) waits
for one. `RevocationBound` is the true bound. A poller whose first read fails, or
that reads its baseline after a change the load has missed, never restarts its
replica, although `docs/requirements.md` (lines 304-305) says that changes reach
the replicas; `StaleIsNoticed` says that these are the only two ways.

A change of the model overrides does not reach the selector's cache before its TTL
ends, on the replica that made it too, although `docs/architecture.md` (line 448)
lists an invalidation on such a change; line 309 and ADR-9 speak of the TTL alone,
as the code does, and `DecisionIsRecent` states that bound.

Two imports of one identity whose emails differ in case may both succeed, on two
replicas or at the same moment on one: memory is compared without case and the
unique index with it, while `docs/requirements.md` (lines 421-425) asks that
duplicates be refused. The retry of a batch that failed in the middle registers
its first keys again, since provider keys have no unique column of their own. A
replica that is behind and saves its copy of an account puts an old refresh token
over the new one. An orphan snapshot in the mirror (a late registration after the
deletion) stays for ever; only missing ones are repaired. A client without models is
encoded as `null`, which the CHECK of the table refuses, so the old snapshot stays.
`expires_at` of an OAuth session is never read, and the job that
`docs/database-schema.md` (lines 329-330) gives to the leader, the removal of
expired and finished sessions, does not exist.

Deadlock is checked except in `usage`, where the process really ends.

### Fairness

`UsageQueue`: the run goroutine takes the cases of its select (the ticker keeps
firing and statements end within `usageFlushTimeout`), a producer in the read
lock and a `Close` past its lock go on. Nothing obliges anybody to call
`HandleUsage` or `Close`, or a context to expire. `LeaderElection`: goroutines
are scheduled, timers fire, PostgreSQL ends dead sessions and does not refuse
every attempt for ever (strong fairness of `TryLock`, because a busy lock
disables it again and again), the deployment restarts replicas. `ModelRegistry`:
the deployment restarts replicas and the ticker fires; the load of the accounts
and the calls of the hook are strongly fair, because a replica that is stopped over
and over is not always stopped just before them; nothing says that the first read of
the poller or a call of the hook succeeds. `OAuthSessions`: PostgreSQL answers a
statement whose row is free, and grants the lock of a row in the order of its queue,
hence strong fairness; no caller is obliged to call, and no failure to happen.

## Proofs

Every theorem holds for all values of the constants that the named assumptions
allow, and TLC evaluates those assumptions in every run. Each inductive invariant
below was an invariant of the module's TLC instance before it was proved. The
parts are defined at the end of the component's module or, where only the proof uses
them, in its proof module `<Component>Proofs`, which has one step per action.

**`ApiKeyAuthProofs`**: `TypeCorrect`, `RevocationIsBounded`, `BlockIsBounded`,
`QuietResetIsFinal`, `NewKeyIsHiddenBriefly`, `QuietCreateIsVisible`, for all sets
of replicas, workers, keys, prefixes and users, every TTL and call bound.
A staleness bound is not inductive: it speaks of the verified cache only, and
whether an entry written there is fresh depends on the rows the request holds,
which depend on the candidates entry they came from. `ClockInv` (no entry expires
later than TTL from now, no call is older than `MaxCall`) and `StaleInv` carry the
staleness along that chain: rows just queried are not stale at all, rows in or from
the candidates cache by at most TTL + `MaxCall`, verified entries by twice that.
`BlockInv` does the same for the status check. `SealInv` follows a revocation
through its two `Clear` calls: after the first one that nothing overlaps neither
the candidates cache nor any request of the replica has the key, which is what makes
the second one final. `CreateInv` is the converse for a new key: a candidate list
that lacks it, in the cache or in a request about to fill it, is older than the key,
and after an undisturbed invalidation there is none.

**`SessionAuthProofs`**: `SessionTypeCorrect`, `SessionIsBounded`,
`QuietLogoutIsFinal`, `BlockedRowsAreOld` and, as an action property,
`SessionsEndInTime`. The argument is the same with one cache (`ClockInv`,
`StaleInv`, `SealInv`). It needs two facts more: no token is anywhere before the
login that draws it (`UsedInv`), and a login between its two statements passed the
status check before the block that overtakes it (`OverlapInv`).

**`UsageQueueProofs`**: `QueueTypeCorrect`, `NoPanicOnSend`, `CloseIsClean`,
`NothingIsMiscounted` and the
refinement `QueueImplementsLedger`, for every capacity, batch size and number of
producers and callers of `Close`. `NoSendOnClosed` follows from the read lock only
together with `CloseInv` (one caller of `Close` at a time is past the flag, before the
channel is closed). `CleanClose` needs `RunInv` (where in `run` the batch is empty,
full, or already in the table) and `HeldInv` (the accepted events are those of the
table, the batch, the channel and the lost ones). `Accounting` says in addition that
no event is there twice or out of order: `ReportInv` (two reports in progress
differ, none of them is accepted already, and the history of accepted events has no
repetition) makes the place of an event in the history well defined, and by `OrderInv`
these places rise along the table, the unwritten batch and the channel, where no lost
event is. A
batch that is retried after its rows were committed breaks exactly this. For the refinement an accepted send
is `Accept`, the end of an insert is `Write` or `Lose` of the whole batch, the exit
of `main` is `Abandon`, and moving an event from the channel to the batch changes
nothing, as `Unwritten \o queue` stays what it was; the bound of the ledger is the
sum of the two capacities.

**`LeaderElectionProofs`**: `LeaderTypeCorrect` and `LeadersExclude` for any set of
replicas. The strengthening `LeaseInv` says that a live lease connection is backed by
the lock, and that a runner in the job has a connection, live or dead; two leaders
then cannot both have a live one.

**`CredentialStoreProofs`** holds the proofs of three modules, of the credential
store, of its mirror and of the keys its rows are encrypted with. `ReloadNoticesStale`
is about `RevisionReload`, from `LoadInv` (the accounts in memory are those of the
table while the revision is the one they were loaded at). `RegistryImplementsReload`
shows that the composition with the hook only adds to the behaviour of
`RevisionReload`, which gives `RegistryNoticesStale`. `RegistryTypeCorrect` and
`RegistryMirrorsExactly` are about the hook itself: by `MirrorInv` every unfinished
call agrees with the table as long as nothing disturbed the mirror, and an account
without one is mirrored. `RotationTypeCorrect` and `RotationKeepsRowsReadable` are
about `KeyRotation`, for any pods and credentials: `RotationInv` says that the ConfigMap, the Secret and the
running processes never mix more than two neighbouring phases of the runbook, and
that the rows have a version both of them read.

**`ModelSelectorProofs`**: `SelectorTypeCorrect` and `DecisionsAreRecent`, for any
callers, models, providers, requests and any TTL and call bound. There are two parts.

* What `List` computes. It lists the aliases that have an override in increasing
  order, so the proof needs an increasing enumeration of every set of places. That is
  an induction over the largest place, carried out without an induction rule: the
  natural numbers are well-founded, a least bound of the sets without an enumeration
  would exist, and the enumeration of such a set without its largest member extends to
  the set. It follows that `List` has one row for each override and nothing else, and
  that any scan of it decides as `Decide` does (`ListDecides`).
* `SelectorInv` follows a decision on its way: the rows a refresh is copying decide as
  the table did after the query began (`CopyRecent`), the cache as it did at most
  `MaxCall` before the refresh ended (`CacheRecent`), and so a scan that nobody
  overlaps (`ScanRecent`) and its answer (`AnswerRecent`). A refresh of another caller
  leaves such a scan alone for one of three reasons: it writes nothing, every scan of
  its array is known as overlapped (`CopyExposes`, which needs that the mutex keeps new
  scans out), or it writes to an array that was not allocated, of which only empty
  slices exist. There is always such an array, because each is larger than the one before
  (`RoomToGrow`): their number never exceeds the capacity of the one in use.

**`UpstreamAccountsProofs`**: `AccountsTypeCorrect`, `AuditIsComplete`,
`DuplicatesAreUnseen`, `BatchesArePrefixes`, `CredentialIsKept`, for any finite set of
goroutines, any replicas, emails and any batch. The five are proved from one
invariant, because each part needs the ones before it:

* `LineageInv`: every copy of an account, in the table, in a memory or with a
  goroutine, has the email it was registered with, so an account never changes its
  identity; `AuditInv` is `EveryAccountAudited` for the three kinds of records;
* `SeenInv`: an import that has scanned a memory saw only other identities, and the
  rows of the table have different emails (the unique index);
* `TokenInv`: an identity with one account and no fault so far has its newest token
  with exactly one goroutine that is saving it, or in the table; all other copies are
  older. It must speak of the copies in every memory too, since `Persist` may write
  any of them, and it is lost for good once a fault, a stale save or an old import
  adds the identity to `broken`;
* `CountInv`: `BatchIsPrefix` counts rows, and a batch in progress has registered its
  first keys and not its last ones. For each pair of positions the goroutines between
  them make up the difference, so that one registration moves one goroutine from one
  count to the other.

**`OAuthSessionsProofs`**: `OAuthTypeCorrect`, `SessionHasOneWinner`,
`SessionTablesAgree` and `SessionOutcomeIsFinal` for any sets of callers, sessions
and accounts. `OneWinner` and `TablesAgree` are not inductive without `LockInv`:
a cancellation writes the outcome at its commit, two statements after it saw the
session pending, and only the lock of the row says that it still is.

Assumptions that are not only about types. `UsageAssumption`: there is an event,
which an idle producer's record names, and a caller of `Close` (`main` is one); capacity
and batch size are positive (`usageQueueCapacity` and `usageBatchSize` are 1024 and 100). `AccountsAssumption`: the batch is not
empty (`validProviderKeyAccounts` refuses an empty one) and its entries are
different: they name the entries of one request, and the code never compares
secrets; `Fold` picks one spelling among those that `strings.EqualFold` equates, and
leaves that one alone; a secret is not
a number, so a provider key is never taken for a token. `SelectorAssumption`: there is
a request, which the record of an idle caller names, so there is a model; `Models` has a
length; no alias and no provider is the garbled string; the answers "denied" and
"error" are not providers; TTL is positive (`overrideCacheTTL` is).

Every invariant and every action property of the runs is proved. Model-checked only is
liveness (`CleanupHappens`, `ShutdownCompletes`, `CloseReturns`, `StaleIsReloaded`,
`RestartsStop`, `MissingIsRestored`, `CallsReturn`, the fairness part of
`ImplementsLedger`): the proof system has no rules for fairness or ENABLED.

## Not modelled

LDAP, bcrypt, AES-GCM, the SDK and PostgreSQL are external: they appear as what
the code sees of them. The clocks of the replicas and of the database are one.
Read-only endpoints (lists, usage summaries, quota), metrics, logging, tracing,
configuration and the router keep no state that a property needs: they are
sequential and covered by the repository's tests.

`internal/openapi/ogen`, about 50 000 of the 57 000 lines of Go, is generated
from the OpenAPI document and is imported by the generator `cmd/openapiogen`
only; the program routes with gin and never links it. There is no behaviour of
the system in it, so the map does not name it, and the share of all lines it
covers is small for that reason. Of the code written by hand it covers about
every part that changes state. The queries in `internal/store/dbgen` are mapped
where a definition translates them.
