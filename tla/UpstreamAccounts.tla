--------------------------- MODULE UpstreamAccounts ---------------------------
(***************************************************************************)
(* The upstream accounts under administration: the import of an OAuth      *)
(* credential (internal/httpapi/admin_oauth_credentials.go), batches of    *)
(* provider keys (admin_provider_keys.go), the test of an account that     *)
(* refreshes its token (admin_accounts.go, internal/auth/testing), and the *)
(* store below them (internal/store/coreauth_store.go).                    *)
(*                                                                         *)
(* Every replica has the accounts in memory, in the manager of the SDK,    *)
(* and looks for duplicates there; the table has a unique index of its     *)
(* own.  An OAuth provider rotates refresh tokens: a refresh with the      *)
(* current token replaces it, any other token is refused.  A token is the  *)
(* number of refreshes before it.  RevisionReload says when a replica      *)
(* restarts; here it may do so at any moment.                              *)
(***************************************************************************)
EXTENDS Naturals, Sequences, FiniteSets

CONSTANTS
    Replicas, Workers,
    Host,           \* the replica of every goroutine
    Emails,
    Fold,           \* strings.EqualFold: emails of one identity have one image
    Batch,          \* the secrets of a batch of provider keys, each a name of
                    \* its own: the code never compares them
    NoEmail,        \* the email of a provider key: its own ID
    MaxIds, MaxWrites, MaxTokens, MaxSubmits,
    MaxExported     \* bounds the accounts exported

Ids == 1..MaxIds
Secrets == {Batch[i] : i \in 1..Len(Batch)}
Identities == {Fold[e] : e \in Emails}

ASSUME AccountsAssumption ==
    /\ Host \in [Workers -> Replicas]
    /\ Fold \in [Emails -> Emails]
    /\ \A f \in Identities : Fold[f] = f
    /\ NoEmail \notin Emails
    /\ IsFiniteSet(Workers)
    /\ Len(Batch) \in Nat \ {0}
    /\ \A i, j \in 1..Len(Batch) : Batch[i] = Batch[j] => i = j
    /\ Secrets \cap (Nat \cup {"none"}) = {}
    /\ {MaxIds, MaxWrites, MaxTokens, MaxSubmits, MaxExported} \subseteq Nat

VARIABLES
    rows,           \* upstream_accounts
    revision,       \* runtime_revisions
    audit,          \* admin_audit_log: accounts created, tested, exported
    issued,         \* external: the refresh token every identity's provider accepts
    memory,         \* accounts in the manager of every replica
    work,           \* what every goroutine is doing
    birth,          \* ghost: the row an ID was registered with, and the
                    \* accounts the check for duplicates had looked at
    broken,         \* ghost: identities hit by a fault, see below
    disclosed,      \* ghost: accounts whose credential left the process
    submitted,      \* batches received
    acknowledged    \* batches answered 201

dbVars == <<rows, revision, audit, memory>>
ghosts == <<birth, broken, disclosed>>
batchVars == <<submitted, acknowledged>>
vars == <<dbVars, issued, work, ghosts, batchVars>>

Audited == {"created", "tested", "exported"}
NoRow == [email |-> NoEmail, token |-> "none"]
OAuthRow == [email : Emails, token : 0..MaxTokens]
Present(t) == {id \in Ids : t[id] # NoRow}
IsOAuth(row) == row.email # NoEmail

NoBirth == [row |-> NoRow, seen |-> {}]
Born == {id \in Ids : birth[id] # NoBirth}
NoWork == [pc |-> "idle", id |-> 1, row |-> NoRow, audited |-> FALSE, index |-> 1, seen |-> {}]

Init ==
    /\ rows = [id \in Ids |-> NoRow]
    /\ revision = 0
    /\ audit = [a \in Audited |-> {}]
    /\ issued = [f \in Identities |-> 0]
    /\ memory = [r \in Replicas |-> rows]
    /\ work = [w \in Workers |-> NoWork]
    /\ birth = [id \in Ids |-> NoBirth]
    /\ broken = {}
    /\ disclosed = {}
    /\ submitted = 0 /\ acknowledged = 0

-----------------------------------------------------------------------------
(* CoreAuthStore. *)

\* UNIQUE (provider, email): ON CONFLICT covers the ID only.
Unique(id, row) ==
    IsOAuth(row) => \A other \in Present(rows) \ {id} : rows[other].email # row.email

Upsert(id, row) == Unique(id, row) /\ rows' = [rows EXCEPT ![id] = row]

\* Deviation: the audit record is written after the commit.
Save_AuditAfterCommit(r, id, row, action, answered) ==
    /\ revision < MaxWrites
    /\ Upsert(id, row)
    /\ revision' = revision + 1
    /\ audit' = [a \in DOMAIN audit |->
                    IF a = action /\ answered THEN audit[a] \cup {id} ELSE audit[a]]
    /\ memory' = IF answered THEN [memory EXCEPT ![r][id] = row] ELSE memory

\* Save: the row, the revision and the audit records in one transaction.  When
\* the answer of the commit is lost the manager does not take the row over.
Save(r, id, row, action, answered) ==
    /\ revision < MaxWrites
    /\ Upsert(id, row)
    /\ revision' = revision + 1
    /\ audit' = [a \in DOMAIN audit |-> IF a = action THEN audit[a] \cup {id} ELSE audit[a]]
    /\ memory' = IF answered THEN [memory EXCEPT ![r][id] = row] ELSE memory

\* Delete, called by the SDK.
Delete(r, id, answered) ==
    /\ revision < MaxWrites
    /\ memory[r][id] # NoRow
    /\ rows' = [rows EXCEPT ![id] = NoRow]
    /\ revision' = revision + 1
    /\ memory' = IF answered THEN [memory EXCEPT ![r][id] = NoRow] ELSE memory
    /\ UNCHANGED <<audit, issued, work, ghosts, batchVars>>

\* The SDK saves its copy of an account, with another status: the last write
\* wins, whatever the table holds by now.
Persist(r, id) ==
    /\ memory[r][id] # NoRow
    /\ Save(r, id, memory[r][id], "none", TRUE)
    /\ broken' = IF IsOAuth(memory[r][id]) /\ rows[id] # memory[r][id]
                 THEN broken \cup {Fold[memory[r][id].email]} ELSE broken
    /\ UNCHANGED <<issued, work, birth, disclosed, batchVars>>

-----------------------------------------------------------------------------
(* Registration: Manager.Register gives the account a new ID and saves it. *)

Start(w, record) == work[w].pc = "idle" /\ work' = [work EXCEPT ![w] = record]
Finish(w) == work' = [work EXCEPT ![w] = NoWork]

Register(w, row, seen, answered) ==
    \E id \in Ids \ Born :
        /\ \A other \in Ids \ Born : id <= other
        /\ Save(Host[w], id, row, "created", answered)
        /\ birth' = [birth EXCEPT ![id] = [row |-> row, seen |-> seen]]

\* Deviation: emails are compared as they are written.
HasDuplicate_CaseSensitive(r, e) ==
    \E id \in Present(memory[r]) : memory[r][id].email = e

OAuthAccounts(r) == {id \in Present(memory[r]) : IsOAuth(memory[r][id])}

\* hasDuplicate: a scan of the manager's accounts, not of the table.
HasDuplicate(r, e) ==
    \E id \in OAuthAccounts(r) : Fold[memory[r][id].email] = Fold[e]

\* AdminOAuthCredentialHandler.Import up to the check; a duplicate is refused
\* with 409.  An old export may hold a token that has been replaced since.
Import(w, row) ==
    /\ row.token <= issued[Fold[row.email]]
    /\ ~HasDuplicate(Host[w], row.email)
    /\ Start(w, [NoWork EXCEPT !.pc = "import", !.row = row, !.seen = OAuthAccounts(Host[w])])
    /\ broken' = IF row.token < issued[Fold[row.email]]
                 THEN broken \cup {Fold[row.email]} ELSE broken
    /\ UNCHANGED <<dbVars, issued, birth, disclosed, batchVars>>

ImportRegister(w, answered) ==
    /\ work[w].pc = "import"
    /\ Register(w, work[w].row, work[w].seen, answered)
    /\ Finish(w)
    /\ UNCHANGED <<issued, broken, disclosed, batchVars>>

\* Register fails, for one because of the unique index: 500.
ImportFails(w) ==
    /\ work[w].pc = "import"
    /\ Finish(w)
    /\ UNCHANGED <<dbVars, issued, ghosts, batchVars>>

\* AdminProviderKeyHandler.Create: the whole batch was valid.
CreateKeys(w) ==
    /\ submitted < MaxSubmits
    /\ submitted' = submitted + 1
    /\ Start(w, [NoWork EXCEPT !.pc = "batch"])
    /\ UNCHANGED <<dbVars, issued, ghosts, acknowledged>>

\* One turn of the loop.  A lost answer ends it, as an error does.
KeyRegister(w, answered) ==
    LET last == work[w].index = Len(Batch)
    IN  /\ work[w].pc = "batch"
        /\ Register(w, [email |-> NoEmail, token |-> Batch[work[w].index]], {}, answered)
        /\ IF last \/ ~answered THEN Finish(w) ELSE work' = [work EXCEPT ![w].index = @ + 1]
        /\ acknowledged' = IF last /\ answered THEN acknowledged + 1 ELSE acknowledged
        /\ UNCHANGED <<issued, broken, disclosed, submitted>>

\* Deviation: a key that cannot be registered is left out of the answer.
KeyFails_Skips(w) ==
    LET last == work[w].index = Len(Batch)
    IN  /\ work[w].pc = "batch"
        /\ IF last THEN Finish(w) ELSE work' = [work EXCEPT ![w].index = @ + 1]
        /\ acknowledged' = IF last THEN acknowledged + 1 ELSE acknowledged
        /\ UNCHANGED <<dbVars, issued, ghosts, submitted>>

\* Register fails: 500, and the keys before it stay registered.
KeyFails(w) ==
    /\ work[w].pc = "batch"
    /\ Finish(w)
    /\ UNCHANGED <<dbVars, issued, ghosts, batchVars>>

-----------------------------------------------------------------------------
(* Refresh: Checker.Test for an administrator, audited, and the SDK's own. *)

Refresh(w, id, audited) ==
    LET row == memory[Host[w]][id]
    IN  /\ IsOAuth(row)
        /\ Start(w, [NoWork EXCEPT !.pc = "refresh", !.id = id, !.row = row, !.audited = audited])
        /\ UNCHANGED <<dbVars, issued, ghosts, batchVars>>

Identity(w) == Fold[work[w].row.email]

\* The provider accepts the token and replaces it.
Rotate(w) ==
    /\ work[w].pc = "refresh"
    /\ work[w].row.token = issued[Identity(w)]
    /\ issued[Identity(w)] < MaxTokens
    /\ issued' = [issued EXCEPT ![Identity(w)] = @ + 1]

Refreshed(w) ==
    LET row == [work[w].row EXCEPT !.token = @ + 1]
    IN  /\ Rotate(w)
        /\ work' = [work EXCEPT ![w] = [@ EXCEPT !.pc = "update", !.row = row]]
        /\ UNCHANGED <<dbVars, ghosts, batchVars>>

\* The answer of the provider is lost, and with it the new token.
RefreshLost(w) ==
    /\ Rotate(w)
    /\ Finish(w)
    /\ broken' = broken \cup {Identity(w)}
    /\ UNCHANGED <<dbVars, birth, disclosed, batchVars>>

\* "credential refresh failed": the token was refused, or nobody answered.
RefreshFails(w) ==
    /\ work[w].pc = "refresh"
    /\ Finish(w)
    /\ UNCHANGED <<dbVars, issued, ghosts, batchVars>>

\* Deviation: the account is saved as it was before the refresh.
Update_Unrefreshed(w, answered) ==
    /\ work[w].pc = "update"
    /\ memory[Host[w]][work[w].id] # NoRow
    /\ Save(Host[w], work[w].id, memory[Host[w]][work[w].id],
            IF work[w].audited THEN "tested" ELSE "none", answered)
    /\ Finish(w)
    /\ UNCHANGED <<issued, ghosts, batchVars>>

\* Manager.Update: an account that this replica still has is saved.
Update(w, answered) ==
    /\ work[w].pc = "update"
    /\ memory[Host[w]][work[w].id] # NoRow
    /\ Save(Host[w], work[w].id, work[w].row,
            IF work[w].audited THEN "tested" ELSE "none", answered)
    /\ Finish(w)
    /\ UNCHANGED <<issued, ghosts, batchVars>>

\* Save fails or the replica does not have the account: the new token is gone.
UpdateFails(w) ==
    /\ work[w].pc = "update"
    /\ Finish(w)
    /\ broken' = broken \cup {Identity(w)}
    /\ UNCHANGED <<dbVars, issued, birth, disclosed, batchVars>>

-----------------------------------------------------------------------------
(* AdminOAuthCredentialHandler.Export. *)

\* The audit record is inserted, in a transaction of its own.
Export(w, id) ==
    LET row == memory[Host[w]][id]
    IN  /\ IsOAuth(row)
        /\ Cardinality(audit["exported"] \cup {id}) <= MaxExported
        /\ audit' = [audit EXCEPT !["exported"] = @ \cup {id}]
        /\ Start(w, [NoWork EXCEPT !.pc = "export", !.id = id])
        /\ UNCHANGED <<rows, revision, memory, issued, ghosts, batchVars>>

\* The answer of the insert, or the encoding, failed: 500.
ExportFails(w) ==
    /\ work[w].pc = "export"
    /\ Finish(w)
    /\ UNCHANGED <<dbVars, issued, ghosts, batchVars>>

Disclose(w) ==
    /\ work[w].pc = "export"
    /\ disclosed' = disclosed \cup {work[w].id}
    /\ Finish(w)
    /\ UNCHANGED <<dbVars, issued, birth, broken, batchVars>>

-----------------------------------------------------------------------------
\* The process ends, with its goroutines, and loads the table again.
Restart(r) ==
    LET lost == {w \in Workers : Host[w] = r}
    IN  /\ memory' = [memory EXCEPT ![r] = rows]
        /\ work' = [w \in Workers |-> IF w \in lost THEN NoWork ELSE work[w]]
        /\ broken' = broken \cup {Identity(w) : w \in {v \in lost : work[v].pc = "update"}}
        /\ UNCHANGED <<rows, revision, audit, issued, birth, disclosed, batchVars>>

Administer(w) ==
    \/ \E row \in OAuthRow : Import(w, row)
    \/ \E answered \in BOOLEAN : ImportRegister(w, answered) \/ KeyRegister(w, answered)
    \/ ImportFails(w)
    \/ \E id \in Ids : Export(w, id)
    \/ ExportFails(w)
    \/ Disclose(w)
    \/ CreateKeys(w)
    \/ KeyFails(w)

RefreshAccount(w) ==
    \/ \E id \in Ids, audited \in BOOLEAN : Refresh(w, id, audited)
    \/ Refreshed(w)
    \/ RefreshLost(w)
    \/ RefreshFails(w)
    \/ \E answered \in BOOLEAN : Update(w, answered)
    \/ UpdateFails(w)

Next ==
    \/ \E w \in Workers : Administer(w) \/ RefreshAccount(w)
    \/ \E r \in Replicas, id \in Ids :
        \/ Persist(r, id)
        \/ \E answered \in BOOLEAN : Delete(r, id, answered)
    \/ \E r \in Replicas : Restart(r)

Spec == Init /\ [][Next]_vars

-----------------------------------------------------------------------------
BornAs(f) == {id \in Born : IsOAuth(birth[id].row) /\ Fold[birth[id].row.email] = f}

\* A goroutine has the current token of identity f and is about to save it.
InFlight(f) ==
    \E w \in Workers : /\ work[w].pc = "update"
                       /\ Identity(w) = f
                       /\ work[w].row.token = issued[f]

(* The token in the table is the one the provider accepts, whichever       *)
(* replicas, tests and refreshes compete, except while a refresh is being  *)
(* saved, after a fault in the middle of one, a save from a stale copy or  *)
(* the import of an old credential (broken), or where the identity was     *)
(* registered more than once.                                              *)
CredentialSurvives ==
    \A id \in Present(rows) : IsOAuth(rows[id]) =>
        LET f == Fold[rows[id].email]
        IN  \/ rows[id].token = issued[f]
            \/ InFlight(f)
            \/ f \in broken
            \/ Cardinality(BornAs(f)) > 1

(* Two accounts of one identity differ in the case of their emails, and    *)
(* the import of the later one looked at a memory that did not have the    *)
(* earlier one: it overlapped the other import, or its replica was behind. *)
DuplicatesWereUnseen ==
    \A a, b \in Present(rows) :
        (a < b /\ IsOAuth(rows[a]) /\ IsOAuth(rows[b]) /\ Fold[rows[a].email] = Fold[rows[b].email])
            => rows[a].email # rows[b].email /\ a \notin birth[b].seen

Copies(k) == Cardinality({id \in Born : birth[id].row.token = k})

(* A batch that was answered 201 registered all of its keys, a batch that  *)
(* failed a prefix of them, and none more often than it was submitted.     *)
BatchIsPrefix ==
    /\ \A k \in Secrets : acknowledged <= Copies(k) /\ Copies(k) <= submitted
    /\ \A i, j \in 1..Len(Batch) : i < j => Copies(Batch[j]) <= Copies(Batch[i])

(* The audit log names exactly the accounts that were ever registered, and *)
(* every account whose credential was sent to an administrator, although   *)
(* inserts fail, answers are lost, processes end and rows are deleted.     *)
EveryAccountAudited ==
    /\ audit["created"] = Born
    /\ disclosed \subseteq audit["exported"]
    /\ Present(rows) \cup audit["tested"] \cup audit["exported"] \subseteq Born

-----------------------------------------------------------------------------
Row == OAuthRow \cup [email : {NoEmail}, token : Secrets \cup {"none"}]
Work == [pc : {"idle", "import", "batch", "refresh", "update", "export"}, id : Nat, row : Row,
         audited : BOOLEAN, index : Nat, seen : SUBSET Ids]

\* One type invariant for the whole state.
TypeOK ==
    /\ rows \in [Ids -> Row]
    /\ revision \in Nat
    /\ audit \in [Audited -> SUBSET Ids]
    /\ issued \in [Identities -> 0..MaxTokens]
    /\ memory \in [Replicas -> [Ids -> Row]]
    /\ work \in [Workers -> Work]
    /\ birth \in [Ids -> [row : Row, seen : SUBSET Ids]]
    /\ broken \subseteq Identities
    /\ disclosed \subseteq Ids
    /\ submitted \in Nat /\ acknowledged \in Nat

\* What the table and the replicas hold, and what goroutines work on, are
\* accounts that were registered, under the email of their registration.
Registered(row, id) == row # NoRow => id \in Born /\ row.email = birth[id].row.email

LineageInv ==
    /\ \A id \in Ids : Registered(rows[id], id)
    /\ \A r \in Replicas, id \in Ids : Registered(memory[r][id], id)
    /\ \A w \in Workers : work[w].pc \in {"refresh", "update"} =>
            IsOAuth(work[w].row) /\ work[w].id \in Born /\ Registered(work[w].row, work[w].id)
    /\ \A w \in Workers : work[w].pc = "export" => work[w].id \in audit["exported"]
    /\ \A w \in Workers : work[w].pc = "batch" => work[w].index \in 1..Len(Batch)

\* An import saw only accounts of other identities, and the index keeps the
\* emails of the table apart.
Unlike(seen, row) ==
    \A a \in seen : /\ a \in Born /\ IsOAuth(birth[a].row) /\ IsOAuth(row)
                    /\ Fold[birth[a].row.email] # Fold[row.email]

SeenInv ==
    /\ \A w \in Workers : work[w].pc = "import" =>
            IsOAuth(work[w].row) /\ Unlike(work[w].seen, work[w].row)
    /\ \A id \in Born : Unlike(birth[id].seen, birth[id].row)
    /\ \A a, b \in Ids : a # b /\ IsOAuth(rows[a]) /\ IsOAuth(rows[b]) => rows[a].email # rows[b].email

\* The goroutines that have a new token of identity f and have not saved it.
Saving(f) == {w \in Workers : work[w].pc = "update" /\ Identity(w) = f}
OfIdentity(row, f) == IsOAuth(row) /\ Fold[row.email] = f
Single(f) == \A a, b \in BornAs(f) : a = b

\* Token t is no newer than the last one that was saved.
Saved(t, f) == t < issued[f] \/ (t = issued[f] /\ Saving(f) = {})

TokenInvOf(f) ==
    /\ \A v, w \in Saving(f) : v = w
    /\ \A w \in Saving(f) : work[w].row.token = issued[f]
    /\ \A id \in Ids : OfIdentity(rows[id], f) =>
            Saved(rows[id].token, f) /\ (rows[id].token = issued[f] \/ Saving(f) # {})
    /\ \A r \in Replicas, id \in Ids :
            OfIdentity(memory[r][id], f) => Saved(memory[r][id].token, f)
    /\ \A w \in Workers : work[w].pc = "refresh" /\ Identity(w) = f => Saved(work[w].row.token, f)
    /\ \A w \in Workers : work[w].pc = "import" /\ Identity(w) = f =>
            work[w].row.token = issued[f] \/ BornAs(f) # {}

\* An identity with one account and no fault has its newest token with one
\* goroutine, or in the table.
TokenInv == \A f \in Identities \ broken : Single(f) => TokenInvOf(f)

\* The batches in progress account for the keys registered so far.
At(from, to) == {w \in Workers : work[w].pc = "batch" /\ work[w].index \in from..to}

CountInv ==
    /\ \A i \in 1..Len(Batch) :
            /\ acknowledged + Cardinality(At(i + 1, Len(Batch))) <= Copies(Batch[i])
            /\ Copies(Batch[i]) + Cardinality(At(1, i)) <= submitted
    /\ \A i, j \in 1..Len(Batch) : i < j =>
            Copies(Batch[j]) + Cardinality(At(i + 1, j)) <= Copies(Batch[i])
=============================================================================
