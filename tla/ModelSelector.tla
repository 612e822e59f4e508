---------------------------- MODULE ModelSelector ----------------------------
(***************************************************************************)
(* The allow-list of models that Selector.Pick applies                     *)
(* (internal/auth/selector/selector.go) and its administration             *)
(* (internal/store/admin_models.go, model_overrides.go).                   *)
(*                                                                         *)
(* A replica caches the list of overrides for TTL.  A mutex protects the   *)
(* refresh, but Pick scans the slice it was handed after the mutex is      *)
(* free, and a refresh appends to s.cache[:0]: it overwrites the array of  *)
(* the slices handed out before, unless the new list needs a larger one.   *)
(* A slice is an array and a length; an array is a function from positions *)
(* to rows.  While a refresh writes to an array, a scan that reads one of  *)
(* its rows finds the old or the new value of every field, or, as a string *)
(* is two words, neither.  MaxCall bounds a refresh and a scan; MaxTime    *)
(* and MaxChanges bound a behaviour.                                       *)
(***************************************************************************)
EXTENDS Naturals, Sequences, FiniteSets

CONSTANTS
    Callers,        \* goroutines that call Pick
    Models,         \* aliases, in the order of ListModelOverrides
    Providers,
    Requests,       \* what Pick is asked for: a model and a provider
    Garbled,        \* a string made of the words of two others
    TTL,            \* overrideCacheTTL
    MaxCall, MaxTime, MaxChanges

Aliases == {Models[i] : i \in 1..Len(Models)}

ASSUME SelectorAssumption ==
    /\ "free" \notin Callers
    /\ Len(Models) \in Nat
    /\ Requests \subseteq Aliases \X Providers /\ Requests # {}
    /\ Garbled \notin Aliases \cup Providers
    /\ {"denied", "error"} \cap (Providers \cup {Garbled}) = {}
    /\ TTL \in Nat \ {0}
    /\ MaxCall \in Nat /\ MaxTime \in Nat /\ MaxChanges \in Nat

VARIABLES
    now,
    table,          \* model_overrides: NoOverride, or provider and enabled
    heldUntil,      \* heldUntil[r][d]: the first instant after the last one at
                    \* which the table gave decision d for r, before the present
    changes,        \* changes made so far
    mutex,          \* who has s.mu
    array,          \* the backing arrays, as many as there may be
    capacity,       \* their capacities; 0 when not allocated
    cache,          \* s.cache
    expiresAt,      \* s.expiresAt; 0 before the first refresh
    pick,           \* what every caller is doing
    overlapped      \* callers whose array was written while they scanned it

dbVars == <<table, heldUntil, changes>>
cacheVars == <<array, capacity, cache, expiresAt>>
vars == <<now, dbVars, mutex, cacheVars, pick, overlapped>>

Overrides == [provider : Providers, enabled : BOOLEAN]
NoOverride == [provider |-> Garbled, enabled |-> FALSE]
Decisions == Providers \cup {"denied"}

Slots == 1..Len(Models)
Arrays == 1..Len(Models)
Row == [alias : Aliases \cup {Garbled}, provider : Providers \cup {Garbled}, enabled : BOOLEAN]
ZeroRow == [alias |-> Garbled, provider |-> Garbled, enabled |-> FALSE]

Slice == [array : Arrays, len : 0..Len(Models)]
NoSlice == [array |-> 1, len |-> 0]
NoPick == [pc |-> "idle", request |-> CHOOSE r \in Requests : TRUE,
           since |-> 0, slice |-> NoSlice, index |-> 1, rows |-> <<>>, answer |-> "error"]
Picks == [pc : {"idle", "lock", "query", "copy", "scan", "done"}, request : Requests,
          since : 0..MaxTime, slice : Slice, index : Nat \ {0}, rows : Seq(Row),
          answer : Decisions \cup {"error", Garbled}]

\* One type invariant for the whole state.
TypeOK ==
    /\ now \in 0..MaxTime
    /\ table \in [Aliases -> Overrides \cup {NoOverride}]
    /\ heldUntil \in [Requests -> [Decisions -> 0..(MaxTime + 1)]]
    /\ changes \in 0..MaxChanges
    /\ mutex \in Callers \cup {"free"}
    /\ array \in [Arrays -> [Slots -> Row]]
    /\ capacity \in [Arrays -> 0..Len(Models)]
    /\ cache \in Slice /\ cache.len <= capacity[cache.array]
    /\ expiresAt \in Nat
    /\ pick \in [Callers -> Picks]
    /\ \A c \in Callers : pick[c].slice.len <= capacity[pick[c].slice.array]
    /\ overlapped \subseteq Callers

-----------------------------------------------------------------------------
(* The table. *)

\* What Pick decides about request r where the table is t.
Decide(t, r) ==
    IF \A a \in Aliases : t[a] = NoOverride THEN r[2]
    ELSE IF t[r[1]].enabled THEN t[r[1]].provider ELSE "denied"

\* ORDER BY alias: the members of a set of places, the first one first.
Ascending(P) ==
    CHOOSE s \in [1..Cardinality(P) -> P] :
        \A i, j \in 1..Cardinality(P) : i < j => s[i] < s[j]

Present == {k \in Slots : table[Models[k]] # NoOverride}
RowOf(m) == [alias |-> m, provider |-> table[m].provider, enabled |-> table[m].enabled]

\* ModelOverrideRepository.List: the rows in the order of the aliases.
List == [i \in 1..Cardinality(Present) |-> RowOf(Models[Ascending(Present)[i]])]

Change(t) ==
    /\ changes < MaxChanges
    /\ changes' = changes + 1
    /\ table' = t
    /\ heldUntil' = [r \in Requests |-> [d \in Decisions |->
            IF Decide(table, r) = d THEN now + 1 ELSE heldUntil[r][d]]]
    /\ UNCHANGED <<now, mutex, cacheVars, pick, overlapped>>

\* UpsertWithAudit: the row and the audit record in one transaction.
UpsertWithAudit(m, o) == Change([table EXCEPT ![m] = o])

\* DeleteWithAudit; without a row it is ErrNotFound and nothing changes.
DeleteWithAudit(m) == table[m] # NoOverride /\ Change([table EXCEPT ![m] = NoOverride])

-----------------------------------------------------------------------------
(* Pick. *)

Pick(c, r) ==
    /\ pick[c].pc = "idle"
    /\ pick' = [pick EXCEPT ![c] = [NoPick EXCEPT !.pc = "lock", !.request = r]]
    /\ UNCHANGED <<now, dbVars, mutex, cacheVars, overlapped>>

\* The record of caller c when it starts to scan slice s.
Scanning(c, s) == [pick[c] EXCEPT !.pc = "scan", !.slice = s, !.index = 1, !.rows = <<>>]

\* listOverrides: the cached slice is still good.
ListCached(c) ==
    /\ pick[c].pc = "lock" /\ mutex = "free"
    /\ now < expiresAt
    /\ pick' = [pick EXCEPT ![c] = [Scanning(c, cache) EXCEPT !.since = now]]
    /\ UNCHANGED <<now, dbVars, mutex, cacheVars, overlapped>>

\* listOverrides: it is not, and the query starts with the mutex held.
ListExpired(c) ==
    /\ pick[c].pc = "lock" /\ mutex = "free"
    /\ now >= expiresAt
    /\ mutex' = c
    /\ pick' = [pick EXCEPT ![c].pc = "query", ![c].since = now]
    /\ UNCHANGED <<now, dbVars, cacheVars, overlapped>>

Fits(rows) == Len(rows) <= capacity[cache.array]

\* Callers that hold a slice of the array that a refresh with rows overwrites.
Exposed(rows) ==
    IF Fits(rows) /\ rows # <<>>
    THEN {c \in Callers : pick[c].pc = "scan" /\ pick[c].slice.array = cache.array}
    ELSE {}

\* The query answers and append begins to write.
QueryAnswered(c) ==
    /\ pick[c].pc = "query"
    /\ pick' = [pick EXCEPT ![c].pc = "copy", ![c].rows = List]
    /\ overlapped' = overlapped \cup Exposed(List)
    /\ UNCHANGED <<now, dbVars, mutex, cacheVars>>

\* Deviation: when the query fails the old list is good enough.
QueryFails_ServesStale(c) ==
    /\ pick[c].pc = "query"
    /\ mutex' = "free"
    /\ pick' = [pick EXCEPT ![c] = Scanning(c, cache)]
    /\ UNCHANGED <<now, dbVars, cacheVars, overlapped>>

\* The query fails: Pick returns the error, the cache stays expired.
QueryFails(c) ==
    /\ pick[c].pc = "query"
    /\ mutex' = "free"
    /\ pick' = [pick EXCEPT ![c].pc = "done"]
    /\ UNCHANGED <<now, dbVars, cacheVars, overlapped>>

Overwritten(cells, rows) == [i \in Slots |-> IF i <= Len(rows) THEN rows[i] ELSE cells[i]]

\* Deviation: the rows are copied over s.cache[:len(rows)] whatever its capacity.
Install_NoGrowth(c) ==
    LET rows == pick[c].rows
        s == [cache EXCEPT !.len = Len(rows)]
    IN  /\ pick[c].pc = "copy"
        /\ array' = [array EXCEPT ![cache.array] = Overwritten(@, rows)]
        /\ cache' = s
        /\ pick' = [pick EXCEPT ![c] = Scanning(c, s)]
        /\ expiresAt' = now + TTL
        /\ mutex' = "free"
        /\ UNCHANGED <<now, dbVars, capacity, overlapped>>

\* append is done; where a larger array was needed its capacity is rounded up.
Install(c) ==
    LET rows == pick[c].rows
        a == IF Fits(rows) THEN cache.array ELSE CHOOSE b \in Arrays : capacity[b] = 0
    IN  /\ pick[c].pc = "copy"
        /\ \E n \in Len(rows)..Len(Models) :
            /\ Fits(rows) => n = capacity[a]
            /\ capacity' = [capacity EXCEPT ![a] = n]
            /\ array' = [array EXCEPT ![a] = Overwritten(@, rows)]
            /\ cache' = [array |-> a, len |-> Len(rows)]
            /\ pick' = [pick EXCEPT ![c] = Scanning(c, [array |-> a, len |-> Len(rows)])]
        /\ expiresAt' = now + TTL
        /\ mutex' = "free"
        /\ UNCHANGED <<now, dbVars, overlapped>>

\* What the scan of c may find at its position.
Reads(c) ==
    LET a == pick[c].slice.array
        i == pick[c].index
        old == array[a][i]
        writers == {w \in Callers : /\ pick[w].pc = "copy"
                                    /\ Fits(pick[w].rows) /\ cache.array = a
                                    /\ i <= Len(pick[w].rows)}
        Torn(x, y) == IF x = y THEN {x} ELSE {x, y, Garbled}
    IN  IF writers = {} THEN {old}
        ELSE LET new == pick[CHOOSE w \in writers : TRUE].rows[i]
             IN  [alias : Torn(old.alias, new.alias),
                  provider : Torn(old.provider, new.provider),
                  enabled : {old.enabled, new.enabled}]

Answer(c, d) == pick' = [pick EXCEPT ![c].pc = "done", ![c].answer = d]

\* providerForModel without overrides: every model is allowed.
NoOverrides(c) ==
    /\ pick[c].pc = "scan" /\ pick[c].slice.len = 0
    /\ Answer(c, pick[c].request[2])
    /\ UNCHANGED <<now, dbVars, mutex, cacheVars, overlapped>>

\* providerForModel: the loop is over.
NotAllowed(c) ==
    /\ pick[c].pc = "scan" /\ pick[c].slice.len > 0
    /\ pick[c].index > pick[c].slice.len
    /\ Answer(c, "denied")
    /\ UNCHANGED <<now, dbVars, mutex, cacheVars, overlapped>>

\* providerForModel: one turn of the loop.
ScanRow(c) ==
    /\ pick[c].pc = "scan" /\ pick[c].index <= pick[c].slice.len
    /\ \E row \in Reads(c) :
        IF row.alias = pick[c].request[1]
        THEN Answer(c, IF row.enabled THEN row.provider ELSE "denied")
        ELSE pick' = [pick EXCEPT ![c].index = @ + 1]
    /\ UNCHANGED <<now, dbVars, mutex, cacheVars, overlapped>>

\* filterByProvider and the fallback selector: Pick returns an account of the
\* answered provider or an error.
Return(c) ==
    /\ pick[c].pc = "done"
    /\ pick' = [pick EXCEPT ![c] = NoPick]
    /\ overlapped' = overlapped \ {c}
    /\ UNCHANGED <<now, dbVars, mutex, cacheVars>>

\* Time passes, but never beyond MaxCall of a refresh or a scan.
Tick ==
    /\ now < MaxTime
    /\ \A c \in Callers : pick[c].pc \in {"query", "copy", "scan"} => now < pick[c].since + MaxCall
    /\ now' = now + 1
    /\ UNCHANGED <<dbVars, mutex, cacheVars, pick, overlapped>>

-----------------------------------------------------------------------------
\* The process starts with whatever overrides the table holds.
Init ==
    /\ now = 0
    /\ table \in [Aliases -> Overrides \cup {NoOverride}]
    /\ heldUntil = [r \in Requests |-> [d \in Decisions |-> 0]]
    /\ changes = 0
    /\ mutex = "free"
    /\ array = [a \in Arrays |-> [i \in Slots |-> ZeroRow]]
    /\ capacity = [a \in Arrays |-> 0]
    /\ cache = NoSlice
    /\ expiresAt = 0
    /\ pick = [c \in Callers |-> NoPick]
    /\ overlapped = {}

Refresh(c) == QueryAnswered(c) \/ QueryFails(c) \/ Install(c)
ProviderForModel(c) == NoOverrides(c) \/ NotAllowed(c) \/ ScanRow(c)

\* The endpoints of an administrator.
Administer ==
    \/ \E m \in Aliases, o \in Overrides : UpsertWithAudit(m, o)
    \/ \E m \in Aliases : DeleteWithAudit(m)

Next ==
    \/ Administer
    \/ \E c \in Callers :
        \/ \E r \in Requests : Pick(c, r)
        \/ ListCached(c)
        \/ ListExpired(c)
        \/ Refresh(c)
        \/ ProviderForModel(c)
        \/ Return(c)
    \/ Tick

Spec == Init /\ [][Next]_vars

-----------------------------------------------------------------------------
\* The table gave decision d for the request of c at an instant no more than
\* one TTL, and the time a refresh takes, before c was handed its list.
Recent(c, d) ==
    LET r == pick[c].request
        q == heldUntil[r][d]
    IN  \/ Decide(table, r) = d
        \/ q > 0 /\ pick[c].since < q - 1 + TTL + MaxCall

Decided(c) == pick[c].pc = "done" /\ pick[c].answer # "error"

(* A Pick whose array no refresh overwrote decides as the table did at     *)
(* most one TTL and one refresh ago: a model that was disabled, moved to   *)
(* another provider or removed, or the last override deleted, shows no     *)
(* later, and a failed query never brings an older list back.              *)
DecisionIsRecent == \A c \in Callers : Decided(c) /\ c \notin overlapped => Recent(c, pick[c].answer)

(* docs/architecture.md, lines 309-310: Pick loads the overrides through a *)
(* TTL cache and applies the allow-list and the provider of the enabled    *)
(* override.  A scan that a refresh overlaps may apply a row that was      *)
(* never in the table.                                                     *)
EveryDecisionIsRecent == \A c \in Callers : Decided(c) => Recent(c, pick[c].answer)
=============================================================================
