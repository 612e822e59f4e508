------------------------- MODULE ModelSelectorProofs -------------------------
(***************************************************************************)
(* Proofs about ModelSelector, for any callers, models, providers and      *)
(* bounds: slices stay within their arrays, and a decision whose array no  *)
(* refresh overwrote is recent.                                            *)
(*                                                                         *)
(* First the list: every set of places has an increasing enumeration, by   *)
(* the least bound of the sets that have none, so that List holds exactly  *)
(* the overrides and a scan of it decides as the table does.  Then         *)
(* SelectorInv, which follows a decision from the table to the rows being  *)
(* copied, to the cache, to a scan and to the answer.                      *)
(***************************************************************************)
EXTENDS ModelSelector, FiniteSetTheorems, TLAPS

-----------------------------------------------------------------------------
(* Enumerations of a set of places in increasing order. *)

Increasing(s, n) == \A i, j \in 1..n : i < j => s[i] < s[j]

\* P can be listed in increasing order.
Enumerable(P) == \E s \in [1..Cardinality(P) -> P] : Increasing(s, Cardinality(P))

LEMMA LeastOfNaturals ==
    ASSUME NEW S \in SUBSET Nat, S # {}
    PROVE  \E x \in S : \A y \in S : x <= y
<1>1. IsWellFoundedOn(OpToRel(<, Nat), Nat)
  BY NatLessThanWellFounded
<1>2. PICK x \in S : \A y \in S : ~ (<<y, x>> \in OpToRel(<, Nat))
  BY <1>1, WFMin
<1>3. ASSUME NEW y \in S
      PROVE  x <= y
  <2>1. x \in Nat /\ y \in Nat
    OBVIOUS
  <2>2. y < x => <<y, x>> \in OpToRel(<, Nat)
    BY <2>1, Zenon DEF OpToRel
  <2>3. ~(y < x)
    BY <1>2, <2>2, Zenon
  <2>. QED BY <2>1, <2>3
<1>. QED BY <1>3

\* A set of places of one of the first n natural numbers is finite.
LEMMA PlacesFinite ==
    ASSUME NEW n \in Nat, NEW P \in SUBSET (1..n)
    PROVE  /\ IsFiniteSet(P)
           /\ Cardinality(P) \in 0..n
<1>1. IsFiniteSet(1..n) /\ Cardinality(1..n) = n
  BY FS_Interval
<1>2. IsFiniteSet(P) /\ Cardinality(P) <= n
  BY <1>1, FS_Subset
<1>. QED BY <1>2, FS_CardinalityType

\* Listing P without its largest member k, and then k.
LEMMA ExtendEnumeration ==
    ASSUME NEW k \in Nat \ {0}, NEW P \in SUBSET (1..k), k \in P, Enumerable(P \ {k})
    PROVE  Enumerable(P)
<1>. DEFINE Q == P \ {k}
            n == Cardinality(Q)
<1>1. k - 1 \in Nat /\ Q \in SUBSET (1..(k - 1))
  OBVIOUS
<1>2. n \in Nat /\ IsFiniteSet(P)
  BY <1>1, PlacesFinite
<1>3. Cardinality(P) = n + 1
  <2>1. /\ Cardinality(Q) = Cardinality(P) - 1
        /\ Cardinality(P) \in Nat
    BY <1>2, FS_RemoveElement, FS_CardinalityType
  <2>. QED BY <2>1
<1>. HIDE DEF n
<1>4. PICK s \in [1..n -> Q] : Increasing(s, n)
  BY DEF Enumerable, n
<1>5. \A q \in Q : q < k
  OBVIOUS
<1>. DEFINE t == [i \in 1..(n + 1) |-> IF i = n + 1 THEN k ELSE s[i]]
<1>6. t \in [1..(n + 1) -> P]
  BY <1>2, <1>4
<1>7. Increasing(t, n + 1)
  <2>. SUFFICES ASSUME NEW i \in 1..(n + 1), NEW j \in 1..(n + 1), i < j
                PROVE  t[i] < t[j]
    BY DEF Increasing
  <2>1. i \in 1..n /\ t[i] = s[i] /\ s[i] \in Q
    BY <1>2, <1>4
  <2>2. CASE j = n + 1
    BY <2>1, <2>2, <1>5
  <2>3. CASE j # n + 1
    <3>1. j \in 1..n /\ t[j] = s[j]
      BY <2>3, <1>2
    <3>. QED BY <3>1, <2>1, <1>4 DEF Increasing
  <2>. QED BY <2>2, <2>3
<1>. QED BY <1>3, <1>6, <1>7 DEF Enumerable

\* Every set of places can be listed in increasing order: there is no least
\* bound of the sets that cannot.
LEMMA PlacesEnumerable ==
    ASSUME NEW n \in Nat, NEW P \in SUBSET (1..n)
    PROVE  Enumerable(P)
<1>. DEFINE Bad == {k \in Nat : \E Q \in SUBSET (1..k) : ~Enumerable(Q)}
<1>1. SUFFICES Bad = {}
  OBVIOUS
<1>2. SUFFICES ASSUME Bad # {}
               PROVE  FALSE
  OBVIOUS
<1>3. PICK k \in Bad : \A m \in Bad : k <= m
  <2>. HIDE DEF Bad
  <2>1. Bad \in SUBSET Nat
    BY DEF Bad
  <2>. QED BY <2>1, <1>2, LeastOfNaturals
<1>4. PICK Q \in SUBSET (1..k) : ~Enumerable(Q)
  BY <1>3
<1>5. k # 0
  <2>1. SUFFICES ASSUME k = 0
                 PROVE  FALSE
    OBVIOUS
  <2>2. Q = {}
    BY <2>1, <1>4
  <2>3. Cardinality(Q) = 0
    BY <2>2, FS_EmptySet
  <2>4. 1..0 = {}
    OBVIOUS
  <2>5. [i \in {} |-> i] \in [{} -> Q]
    OBVIOUS
  <2>6. Enumerable(Q)
    BY <2>3, <2>4, <2>5 DEF Enumerable, Increasing
  <2>. QED BY <2>6, <1>4
<1>6. k \in Nat /\ k - 1 \in Nat /\ k - 1 < k
  BY <1>3, <1>5
<1>7. \A R \in SUBSET (1..(k - 1)) : Enumerable(R)
  <2>1. k - 1 \notin Bad
    <3>. HIDE DEF Bad
    <3>. QED BY <1>3, <1>6
  <2>. QED BY <2>1, <1>6
<1>8. CASE k \in Q
  <2>1. Q \ {k} \in SUBSET (1..(k - 1))
    BY <1>6, <1>4
  <2>2. Enumerable(Q \ {k})
    BY <2>1, <1>7
  <2>. QED BY <2>2, <1>8, <1>4, <1>5, <1>6, ExtendEnumeration
<1>9. CASE k \notin Q
  <2>1. Q \in SUBSET (1..(k - 1))
    BY <1>6, <1>4, <1>9
  <2>. QED BY <2>1, <1>7, <1>4
<1>. QED BY <1>8, <1>9

\* Ascending lists the whole set.
LEMMA AscendingListsAll ==
    ASSUME NEW n \in Nat, NEW P \in SUBSET (1..n)
    PROVE  /\ Ascending(P) \in [1..Cardinality(P) -> P]
           /\ \A p \in P : \E i \in 1..Cardinality(P) : Ascending(P)[i] = p
<1>. DEFINE m == Cardinality(P)
            s == Ascending(P)
<1>1. s \in [1..m -> P] /\ Increasing(s, m)
  BY PlacesEnumerable DEF Enumerable, Ascending, Increasing
<1>2. m \in Nat /\ IsFiniteSet(P)
  BY PlacesFinite
<1>. HIDE DEF m, s
<1>3. s \in Injection(1..m, P)
  <2>1. ASSUME NEW i \in 1..m, NEW j \in 1..m, s[i] = s[j]
        PROVE  i = j
    <3>1. s[i] \in Nat /\ s[j] \in Nat
      <4>1. s[i] \in P /\ s[j] \in P
        BY <1>1
      <4>2. \A p \in P : p \in Nat
        OBVIOUS
      <4>. QED BY <4>1, <4>2
    <3>. QED BY <1>1, <1>2, <2>1, <3>1 DEF Increasing
  <2>. QED BY <1>1, <2>1 DEF Injection, IsInjective
<1>4. Cardinality(1..m) = m
  BY <1>2, FS_Interval
<1>5. s \in Surjection(1..m, P)
  BY <1>2, <1>3, <1>4, FS_Injection DEF m
<1>. QED BY <1>1, <1>5 DEF Surjection, m, s

-----------------------------------------------------------------------------
(* What a scan of a list may answer. *)

Verdict(row) == IF row.enabled THEN row.provider ELSE "denied"
Verdicts == Decisions \cup {Garbled}

\* providerForModel may answer d to request r on the first n rows of cells.
Gives(cells, n, r, d) ==
    \/ n = 0 /\ d = r[2]
    \/ n > 0 /\ d = "denied" /\ \A i \in 1..n : cells[i].alias # r[1]
    \/ \E i \in 1..n : cells[i].alias = r[1] /\ d = Verdict(cells[i])

-----------------------------------------------------------------------------
(* The inductive invariant. *)

\* The caller with the mutex is the one that refreshes; a refresh or a scan
\* has lasted no longer than MaxCall.
Timely(c) ==
    /\ pick[c].pc \in {"query", "copy"} => mutex = c
    /\ pick[c].since <= now
    /\ pick[c].pc \in {"query", "copy", "scan"} => now <= pick[c].since + MaxCall

\* Nothing is answered before there is a list.
Unanswered(c) == pick[c].pc \in {"lock", "query"} => pick[c].answer = "error"

\* The rows that c is about to install decide as the table did at some time
\* after the query began.
CopyRecent(c) ==
    pick[c].pc = "copy" =>
        /\ Len(pick[c].rows) <= Len(Models)
        /\ \A r \in Requests, d \in Verdicts :
            Gives(pick[c].rows, Len(pick[c].rows), r, d) =>
                d \in Decisions /\ (Decide(table, r) = d \/ heldUntil[r][d] > pick[c].since)

\* Every scanner of the array that c overwrites is known to be overlapped.
CopyExposes(c) ==
    pick[c].pc = "copy" /\ Fits(pick[c].rows) /\ pick[c].rows # <<>> =>
        \A x \in Callers :
            pick[x].pc = "scan" /\ pick[x].slice.array = cache.array => x \in overlapped

\* The list that c scans decides recently, and c has met no row of its model.
ScanRecent(c) ==
    pick[c].pc = "scan" /\ c \notin overlapped =>
        /\ \A d \in Verdicts :
            Gives(array[pick[c].slice.array], pick[c].slice.len, pick[c].request, d) =>
                d \in Decisions /\ Recent(c, d)
        /\ \A i \in 1..pick[c].slice.len :
            i < pick[c].index => array[pick[c].slice.array][i].alias # pick[c].request[1]

AnswerRecent(c) ==
    Decided(c) /\ c \notin overlapped =>
        pick[c].answer \in Decisions /\ Recent(c, pick[c].answer)

\* The cached list decides as the table did at most MaxCall before the refresh.
CacheRecent ==
    /\ expiresAt <= now + TTL
    /\ expiresAt > 0 => \A r \in Requests, d \in Verdicts :
        Gives(array[cache.array], cache.len, r, d) =>
            /\ d \in Decisions
            /\ \/ Decide(table, r) = d
               \/ heldUntil[r][d] > 0 /\ expiresAt < heldUntil[r][d] + TTL + MaxCall

\* Every array is larger than the one before it, so that one is left to grow to.
Allocated == {a \in Arrays : capacity[a] > 0}
RoomToGrow == Cardinality(Allocated) <= capacity[cache.array]

CallerInv(c) ==
    /\ Timely(c)
    /\ Unanswered(c)
    /\ CopyRecent(c)
    /\ CopyExposes(c)
    /\ ScanRecent(c)
    /\ AnswerRecent(c)

SelectorInv ==
    /\ TypeOK
    /\ RoomToGrow
    /\ CacheRecent
    /\ \A c \in Callers : CallerInv(c)

-----------------------------------------------------------------------------
(* The list of the overrides. *)

LEMMA ConstantFacts ==
    /\ Len(Models) \in Nat \ {0}
    /\ TTL \in Nat \ {0} /\ MaxCall \in Nat /\ MaxTime \in Nat
    /\ \A r \in Requests : r[1] \in Aliases /\ r[2] \in Providers
    /\ NoOverride \notin Overrides
    /\ NoPick \in Picks
<1>1. Len(Models) \in Nat /\ Requests \subseteq Aliases \X Providers /\ Requests # {}
  BY SelectorAssumption
<1>2. TTL \in Nat \ {0} /\ MaxCall \in Nat /\ MaxTime \in Nat
  BY SelectorAssumption
<1>3. Len(Models) # 0
  BY <1>1 DEF Aliases
<1>4. NoOverride \notin Overrides
  BY SelectorAssumption DEF NoOverride, Overrides
<1>5. NoPick \in Picks
  <2>1. NoSlice \in Slice
    BY <1>1, <1>3 DEF NoSlice, Slice, Arrays
  <2>2. (CHOOSE r \in Requests : TRUE) \in Requests
    BY <1>1
  <2>3. <<>> \in Seq(Row)
    OBVIOUS
  <2>. QED BY <2>1, <2>2, <2>3, <1>2 DEF NoPick, Picks
<1>. QED BY <1>1, <1>2, <1>3, <1>4, <1>5

\* The list holds one row for every override and nothing else.
LEMMA ListHolds ==
    ASSUME table \in [Aliases -> Overrides \cup {NoOverride}]
    PROVE  /\ List \in Seq(Row)
           /\ Len(List) \in 0..Len(Models)
           /\ \A i \in 1..Len(List) : \E k \in Present : List[i] = RowOf(Models[k])
           /\ \A k \in Present : \E i \in 1..Len(List) : List[i] = RowOf(Models[k])
<1>. DEFINE n == Cardinality(Present)
            s == Ascending(Present)
<1>1. Len(Models) \in Nat /\ Present \in SUBSET (1..Len(Models))
  BY ConstantFacts DEF Present, Slots
<1>2. n \in 0..Len(Models)
  BY <1>1, PlacesFinite
<1>3. s \in [1..n -> Present] /\ \A k \in Present : \E i \in 1..n : s[i] = k
  BY <1>1, AscendingListsAll
<1>4. \A k \in Present : RowOf(Models[k]) \in Row
  <2>. SUFFICES ASSUME NEW k \in Present
                PROVE  RowOf(Models[k]) \in Row
    OBVIOUS
  <2>1. Models[k] \in Aliases
    BY DEF Present, Slots, Aliases
  <2>2. table[Models[k]] \in Overrides
    BY <2>1 DEF Present
  <2>. QED BY <2>1, <2>2 DEF RowOf, Row, Overrides
<1>5. List = [i \in 1..n |-> RowOf(Models[s[i]])]
  BY DEF List
<1>. HIDE DEF n, s
<1>6. List \in [1..n -> Row]
  BY <1>3, <1>4, <1>5
<1>7. List \in Seq(Row) /\ Len(List) = n
  BY <1>2, <1>6, <1>1
<1>8. \A i \in 1..n : s[i] \in Present /\ List[i] = RowOf(Models[s[i]])
  BY <1>3, <1>5
<1>. QED BY <1>2, <1>3, <1>7, <1>8

\* A scan of the list as the table holds it decides as the table does.
LEMMA ListDecides ==
    ASSUME table \in [Aliases -> Overrides \cup {NoOverride}],
           NEW r \in Requests, NEW d, Gives(List, Len(List), r, d)
    PROVE  d = Decide(table, r) /\ d \in Decisions
<1>1. r[1] \in Aliases /\ r[2] \in Providers
  BY ConstantFacts
<1>2. \A a \in Aliases : table[a] \in Overrides \/ table[a] = NoOverride
  OBVIOUS
<1>3. /\ Len(List) \in Nat
      /\ \A i \in 1..Len(List) : \E k \in Present : List[i] = RowOf(Models[k])
      /\ \A k \in Present : \E i \in 1..Len(List) : List[i] = RowOf(Models[k])
  BY ListHolds, ConstantFacts
<1>4. \A a \in Aliases : table[a] # NoOverride => \E k \in Present : Models[k] = a
  BY DEF Aliases, Present, Slots
<1>5. \A k \in Present : Models[k] \in Aliases /\ table[Models[k]] # NoOverride
  BY DEF Aliases, Present, Slots
<1>6. CASE Len(List) = 0
  <2>1. Present = {}
    BY <1>3, <1>6
  <2>2. \A a \in Aliases : table[a] = NoOverride
    BY <2>1, <1>4
  <2>3. d = r[2]
    BY <1>6 DEF Gives
  <2>. QED BY <2>2, <2>3, <1>1 DEF Decide, Decisions
<1>7. CASE Len(List) > 0
  <2>1. PICK j \in 1..Len(List) : TRUE
    BY <1>3, <1>7
  <2>2. PICK b \in Aliases : table[b] # NoOverride
    BY <2>1, <1>3, <1>5
  <2>3. Decide(table, r) = IF table[r[1]].enabled THEN table[r[1]].provider ELSE "denied"
    BY <2>2 DEF Decide
  <2>4. CASE d = "denied" /\ \A i \in 1..Len(List) : List[i].alias # r[1]
    <3>1. ASSUME NEW k \in Present
          PROVE  Models[k] # r[1]
      <4>1. PICK i \in 1..Len(List) : List[i] = RowOf(Models[k])
        BY <1>3
      <4>2. List[i].alias = Models[k]
        BY <4>1 DEF RowOf
      <4>. QED BY <4>2, <2>4
    <3>2. table[r[1]] = NoOverride
      BY <3>1, <1>1, <1>4
    <3>. QED BY <3>2, <2>3, <2>4 DEF NoOverride, Decisions
  <2>5. CASE \E i \in 1..Len(List) : List[i].alias = r[1] /\ d = Verdict(List[i])
    <3>1. PICK i \in 1..Len(List) : List[i].alias = r[1] /\ d = Verdict(List[i])
      BY <2>5
    <3>2. PICK k \in Present : List[i] = RowOf(Models[k])
      BY <1>3
    <3>3. Models[k] = r[1]
      BY <3>1, <3>2 DEF RowOf
    <3>4. d = IF table[r[1]].enabled THEN table[r[1]].provider ELSE "denied"
      BY <3>1, <3>2, <3>3 DEF RowOf, Verdict
    <3>5. table[r[1]] \in Overrides
      BY <3>3, <1>2, <1>5
    <3>. QED BY <3>4, <3>5, <2>3 DEF Overrides, Decisions
  <2>. QED BY <2>4, <2>5, <1>7 DEF Gives
<1>. QED BY <1>3, <1>6, <1>7

-----------------------------------------------------------------------------
(* Steps of one caller. *)

\* Only the record of c changes, and it stays well-typed.
Moves(c) ==
    /\ pick' \in [Callers -> Picks]
    /\ \A x \in Callers : x # c => pick'[x] = pick[x]

\* The fields of a Pick that a step to control point pc leaves as they are.
Keeps(c, pc) ==
    /\ Moves(c)
    /\ pick'[c].pc = pc
    /\ pick'[c].request = pick[c].request
    /\ pick'[c].since = pick[c].since

LEMMA ReplacesPick ==
    ASSUME pick \in [Callers -> Picks], NEW c \in Callers, NEW p \in Picks,
           pick' = [pick EXCEPT ![c] = p]
    PROVE  Moves(c) /\ pick'[c] = p
BY DEF Moves

LEMMA PickEffect ==
    ASSUME pick \in [Callers -> Picks], NEW c \in Callers, NEW r \in Requests, Pick(c, r)
    PROVE  /\ Moves(c)
           /\ pick'[c].pc = "lock" /\ pick'[c].since = 0
           /\ pick'[c].slice = NoSlice /\ pick'[c].answer = "error"
<1>. DEFINE p == [NoPick EXCEPT !.pc = "lock", !.request = r]
<1>1. p \in Picks
  BY ConstantFacts DEF Picks
<1>2. p.pc = "lock" /\ p.since = 0 /\ p.slice = NoSlice /\ p.answer = "error"
  BY DEF NoPick
<1>3. pick' = [pick EXCEPT ![c] = p]
  BY DEF Pick
<1>. HIDE DEF p
<1>. QED BY <1>1, <1>2, <1>3, ReplacesPick

LEMMA ReturnEffect ==
    ASSUME pick \in [Callers -> Picks], NEW c \in Callers, Return(c)
    PROVE  /\ Moves(c)
           /\ pick'[c].pc = "idle" /\ pick'[c].since = 0
           /\ pick'[c].slice = NoSlice /\ pick'[c].answer = "error"
<1>1. NoPick.pc = "idle" /\ NoPick.since = 0 /\ NoPick.slice = NoSlice /\ NoPick.answer = "error"
  BY DEF NoPick
<1>2. pick' = [pick EXCEPT ![c] = NoPick]
  BY DEF Return
<1>. QED BY <1>1, <1>2, ConstantFacts, ReplacesPick

LEMMA ScanningRecord ==
    ASSUME pick \in [Callers -> Picks], NEW c \in Callers, NEW s \in Slice
    PROVE  /\ Scanning(c, s) \in Picks
           /\ Scanning(c, s).pc = "scan" /\ Scanning(c, s).slice = s /\ Scanning(c, s).index = 1
           /\ Scanning(c, s).request = pick[c].request /\ Scanning(c, s).since = pick[c].since
<1>1. pick[c] \in Picks
  OBVIOUS
<1>2. <<>> \in Seq(Row) /\ 1 \in Nat \ {0}
  OBVIOUS
<1>. DEFINE p == [pick[c] EXCEPT !.pc = "scan", !.slice = s, !.index = 1, !.rows = <<>>]
<1>3. p \in Picks
  BY <1>1, <1>2 DEF Picks
<1>4. /\ p.pc = "scan" /\ p.slice = s /\ p.index = 1
      /\ p.request = pick[c].request /\ p.since = pick[c].since
  BY <1>1 DEF Picks
<1>. QED BY <1>3, <1>4, Zenon DEF Scanning

LEMMA ListCachedEffect ==
    ASSUME TypeOK, NEW c \in Callers, ListCached(c)
    PROVE  /\ Moves(c)
           /\ pick'[c].pc = "scan" /\ pick'[c].request = pick[c].request
           /\ pick'[c].since = now /\ pick'[c].slice = cache /\ pick'[c].index = 1
<1>. DEFINE q == Scanning(c, cache)
            p == [q EXCEPT !.since = now]
<1>1. pick \in [Callers -> Picks] /\ cache \in Slice /\ now \in 0..MaxTime
  BY DEF TypeOK
<1>2. /\ q \in Picks
      /\ q.pc = "scan" /\ q.slice = cache /\ q.index = 1 /\ q.request = pick[c].request
  BY <1>1, ScanningRecord
<1>3. pick' = [pick EXCEPT ![c] = p]
  BY DEF ListCached
<1>. HIDE DEF q
<1>4. p \in Picks /\ p.since = now
  BY <1>1, <1>2 DEF Picks
<1>5. p.pc = q.pc /\ p.slice = q.slice /\ p.index = q.index /\ p.request = q.request
  BY <1>2 DEF Picks
<1>. HIDE DEF p
<1>6. Moves(c) /\ pick'[c] = p
  BY <1>1, <1>3, <1>4, ReplacesPick
<1>. QED BY <1>2, <1>4, <1>5, <1>6

LEMMA ListExpiredEffect ==
    ASSUME TypeOK, NEW c \in Callers, ListExpired(c)
    PROVE  /\ Moves(c)
           /\ pick'[c].pc = "query" /\ pick'[c].since = now
           /\ pick'[c].slice = pick[c].slice /\ pick'[c].answer = pick[c].answer
<1>. DEFINE p == [pick[c] EXCEPT !.pc = "query", !.since = now]
<1>1. pick \in [Callers -> Picks] /\ now \in 0..MaxTime /\ pick[c] \in Picks
  BY DEF TypeOK
<1>2. /\ p \in Picks /\ p.pc = "query" /\ p.since = now
      /\ p.slice = pick[c].slice /\ p.answer = pick[c].answer
  BY <1>1 DEF Picks
<1>3. pick' = [pick EXCEPT ![c] = p]
  BY <1>1 DEF ListExpired
<1>. HIDE DEF p
<1>. QED BY <1>1, <1>2, <1>3, ReplacesPick

LEMMA QueryAnsweredEffect ==
    ASSUME TypeOK, NEW c \in Callers, QueryAnswered(c)
    PROVE  Keeps(c, "copy") /\ pick'[c].slice = pick[c].slice /\ pick'[c].rows = List
<1>. DEFINE p == [pick[c] EXCEPT !.pc = "copy", !.rows = List]
<1>1. pick \in [Callers -> Picks] /\ pick[c] \in Picks
  BY DEF TypeOK
<1>2. List \in Seq(Row)
  BY ListHolds DEF TypeOK
<1>3. /\ p \in Picks /\ p.pc = "copy" /\ p.rows = List
      /\ p.request = pick[c].request /\ p.since = pick[c].since /\ p.slice = pick[c].slice
  BY <1>1, <1>2 DEF Picks
<1>4. pick' = [pick EXCEPT ![c] = p]
  BY <1>1 DEF QueryAnswered
<1>. HIDE DEF p
<1>. QED BY <1>1, <1>3, <1>4, ReplacesPick DEF Keeps

LEMMA QueryFailsEffect ==
    ASSUME TypeOK, NEW c \in Callers, QueryFails(c)
    PROVE  /\ Keeps(c, "done")
           /\ pick'[c].slice = pick[c].slice /\ pick'[c].answer = pick[c].answer
<1>. DEFINE p == [pick[c] EXCEPT !.pc = "done"]
<1>1. pick \in [Callers -> Picks] /\ pick[c] \in Picks
  BY DEF TypeOK
<1>2. /\ p \in Picks /\ p.pc = "done" /\ p.answer = pick[c].answer
      /\ p.request = pick[c].request /\ p.since = pick[c].since /\ p.slice = pick[c].slice
  BY <1>1 DEF Picks
<1>3. pick' = [pick EXCEPT ![c] = p]
  BY <1>1 DEF QueryFails
<1>. HIDE DEF p
<1>. QED BY <1>1, <1>2, <1>3, ReplacesPick DEF Keeps

LEMMA AnswerEffect ==
    ASSUME TypeOK, NEW c \in Callers, NEW d \in Verdicts, Answer(c, d)
    PROVE  Keeps(c, "done") /\ pick'[c].slice = pick[c].slice /\ pick'[c].answer = d
<1>. DEFINE p == [pick[c] EXCEPT !.pc = "done", !.answer = d]
<1>1. pick \in [Callers -> Picks] /\ pick[c] \in Picks
  BY DEF TypeOK
<1>2. /\ p \in Picks /\ p.pc = "done" /\ p.answer = d
      /\ p.request = pick[c].request /\ p.since = pick[c].since /\ p.slice = pick[c].slice
  BY <1>1 DEF Picks, Verdicts
<1>3. pick' = [pick EXCEPT ![c] = p]
  BY <1>1 DEF Answer
<1>. HIDE DEF p
<1>. QED BY <1>1, <1>2, <1>3, ReplacesPick DEF Keeps

LEMMA NextRowEffect ==
    ASSUME TypeOK, NEW c \in Callers, pick' = [pick EXCEPT ![c].index = @ + 1]
    PROVE  /\ Keeps(c, pick[c].pc)
           /\ pick'[c].slice = pick[c].slice /\ pick'[c].index = pick[c].index + 1
<1>. DEFINE p == [pick[c] EXCEPT !.index = @ + 1]
<1>1. pick \in [Callers -> Picks] /\ pick[c] \in Picks
  BY DEF TypeOK
<1>2. pick[c].index + 1 \in Nat \ {0}
  <2>1. pick[c].index \in Nat \ {0}
    BY <1>1 DEF Picks
  <2>. QED BY <2>1
<1>3. p = [pick[c] EXCEPT !.index = pick[c].index + 1]
  BY <1>1 DEF Picks
<1>4. /\ p \in Picks /\ p.pc = pick[c].pc /\ p.index = pick[c].index + 1
      /\ p.request = pick[c].request /\ p.since = pick[c].since /\ p.slice = pick[c].slice
  BY <1>1, <1>2, <1>3 DEF Picks
<1>5. pick' = [pick EXCEPT ![c] = p]
  BY <1>1
<1>. HIDE DEF p
<1>. QED BY <1>1, <1>4, <1>5, ReplacesPick DEF Keeps

-----------------------------------------------------------------------------
(* Steps that leave the table, the time and the cache alone. *)

LEMMA TypeStep ==
    ASSUME TypeOK, NEW c \in Callers, Moves(c),
           pick'[c].slice.len <= capacity[pick'[c].slice.array],
           UNCHANGED <<now, dbVars, cacheVars>>,
           mutex' \in Callers \cup {"free"}, overlapped' \subseteq Callers
    PROVE  TypeOK'
<1>1. UNCHANGED <<now, table, heldUntil, changes, array, capacity, cache, expiresAt>>
  BY DEF dbVars, cacheVars
<1>2. \A x \in Callers : pick'[x].slice.len <= capacity'[pick'[x].slice.array]
  <2>. SUFFICES ASSUME NEW x \in Callers
                PROVE  pick'[x].slice.len <= capacity'[pick'[x].slice.array]
    OBVIOUS
  <2>1. CASE x = c
    BY <2>1, <1>1
  <2>2. CASE x # c
    <3>1. pick'[x] = pick[x]
      BY <2>2 DEF Moves
    <3>. QED BY <3>1, <1>1 DEF TypeOK
  <2>. QED BY <2>1, <2>2
<1>3. pick' \in [Callers -> Picks]
  BY DEF Moves
<1>. QED BY <1>1, <1>2, <1>3 DEF TypeOK

\* What is true of a caller stays true while others move.
LEMMA OtherCaller ==
    ASSUME NEW x \in Callers, CallerInv(x), pick'[x] = pick[x],
           UNCHANGED <<now, dbVars, array>>,
           pick[x].pc \in {"query", "copy"} => mutex' = x,
           x \in overlapped => x \in overlapped'
    PROVE  (Timely(x) /\ Unanswered(x) /\ CopyRecent(x) /\ ScanRecent(x) /\ AnswerRecent(x))'
<1>1. UNCHANGED <<now, table, heldUntil, array>>
  BY DEF dbVars
<1>2. Timely(x)'
  BY <1>1 DEF CallerInv, Timely
<1>3. CopyRecent(x)'
  BY <1>1 DEF CallerInv, CopyRecent
<1>4. \A d : Recent(x, d)' <=> Recent(x, d)
  BY <1>1 DEF Recent
<1>5. ScanRecent(x)'
  BY <1>1, <1>4 DEF CallerInv, ScanRecent
<1>6. AnswerRecent(x)'
  BY <1>1, <1>4 DEF CallerInv, AnswerRecent, Decided
<1>7. Unanswered(x)'
  BY DEF CallerInv, Unanswered
<1>. QED BY <1>2, <1>3, <1>5, <1>6, <1>7

\* A step of c that starts no scan while a refresh writes.
LEMMA QuietStep ==
    ASSUME SelectorInv, NEW c \in Callers, Moves(c),
           pick'[c].slice.len <= capacity[pick'[c].slice.array],
           UNCHANGED <<now, dbVars, cacheVars>>,
           mutex' \in Callers \cup {"free"}, overlapped' \subseteq Callers,
           \A x \in Callers : x # c /\ pick[x].pc \in {"query", "copy"} => mutex' = x,
           \A x \in overlapped : x \in overlapped' \/ (x = c /\ pick'[c].pc # "scan"),
           pick'[c].pc = "scan" =>
               \/ pick[c].pc = "scan" /\ pick'[c].slice = pick[c].slice
               \/ \A x \in Callers : pick[x].pc # "copy",
           CallerInv(c)'
    PROVE  SelectorInv'
<1>1. UNCHANGED <<now, table, heldUntil, array, capacity, cache, expiresAt>>
  BY DEF dbVars, cacheVars
<1>2. TypeOK'
  BY TypeStep DEF SelectorInv
<1>3. RoomToGrow'
  BY <1>1 DEF SelectorInv, RoomToGrow, Allocated
<1>4. CacheRecent'
  BY <1>1 DEF SelectorInv, CacheRecent
<1>5. ASSUME NEW x \in Callers, x # c
      PROVE  CallerInv(x)'
  <2>1. pick'[x] = pick[x]
    BY <1>5 DEF Moves
  <2>2. x \in overlapped => x \in overlapped'
    BY <1>5
  <2>3. (Timely(x) /\ Unanswered(x) /\ CopyRecent(x) /\ ScanRecent(x) /\ AnswerRecent(x))'
    BY <1>1, <1>5, <2>1, <2>2, OtherCaller DEF SelectorInv, dbVars
  <2>4. CopyExposes(x)'
    <3>. SUFFICES ASSUME pick[x].pc = "copy", Fits(pick[x].rows), pick[x].rows # <<>>,
                         NEW y \in Callers,
                         pick'[y].pc = "scan", pick'[y].slice.array = cache.array
                  PROVE  y \in overlapped'
      BY <1>1, <2>1 DEF CopyExposes, Fits
    <3>1. \A z \in Callers :
            pick[z].pc = "scan" /\ pick[z].slice.array = cache.array => z \in overlapped
      BY DEF SelectorInv, CallerInv, CopyExposes
    <3>2. pick[y].pc = "scan" /\ pick[y].slice = pick'[y].slice
      <4>1. CASE y = c
        BY <4>1
      <4>2. CASE y # c
        BY <4>2 DEF Moves
      <4>. QED BY <4>1, <4>2
    <3>. QED BY <3>1, <3>2
  <2>. QED BY <2>3, <2>4 DEF CallerInv
<1>6. \A x \in Callers : CallerInv(x)'
  BY <1>5
<1>. QED BY <1>2, <1>3, <1>4, <1>6 DEF SelectorInv

-----------------------------------------------------------------------------
(* The steps of Pick that leave the cache alone. *)

\* What the invariant says of the caller that moves.
LEMMA CallerFacts ==
    ASSUME SelectorInv, NEW c \in Callers
    PROVE  /\ TypeOK /\ pick \in [Callers -> Picks] /\ pick[c] \in Picks
           /\ now \in Nat /\ mutex \in Callers \cup {"free"} /\ overlapped \subseteq Callers
           /\ cache \in Slice /\ cache.len <= capacity[cache.array]
           /\ pick[c].slice.len <= capacity[pick[c].slice.array]
           /\ pick[c].request \in Requests /\ pick[c].since \in Nat
           /\ Timely(c) /\ Unanswered(c)
           /\ CopyRecent(c) /\ CopyExposes(c) /\ ScanRecent(c) /\ AnswerRecent(c)
           /\ \A x \in Callers : pick[x].pc \in {"query", "copy"} => mutex = x
<1>1. TypeOK /\ CallerInv(c) /\ \A x \in Callers : CallerInv(x)
  BY DEF SelectorInv
<1>2. /\ pick \in [Callers -> Picks] /\ pick[c] \in Picks
      /\ mutex \in Callers \cup {"free"} /\ overlapped \subseteq Callers
      /\ cache \in Slice /\ cache.len <= capacity[cache.array]
      /\ pick[c].slice.len <= capacity[pick[c].slice.array]
  BY <1>1 DEF TypeOK
<1>3. now \in Nat
  BY <1>1, ConstantFacts DEF TypeOK
<1>4. pick[c].request \in Requests /\ pick[c].since \in Nat
  BY <1>2, ConstantFacts DEF Picks
<1>5. \A x \in Callers : pick[x].pc \in {"query", "copy"} => mutex = x
  BY <1>1 DEF CallerInv, Timely
<1>. QED BY <1>1, <1>2, <1>3, <1>4, <1>5 DEF CallerInv

\* Before its list and after its return a call has nothing to keep.
LEMMA IdleInv ==
    ASSUME NEW c \in Callers, pick'[c].pc \in {"idle", "lock"}, pick'[c].since = 0,
           pick'[c].answer = "error",
           now' \in Nat
    PROVE  CallerInv(c)'
<1>1. 0 <= now'
  OBVIOUS
<1>. QED
  BY <1>1 DEF CallerInv, Timely, Unanswered, CopyRecent, CopyExposes, ScanRecent, AnswerRecent, Decided

LEMMA NoSliceFits ==
    ASSUME TypeOK
    PROVE  NoSlice.len <= capacity[NoSlice.array]
<1>1. 1 \in Arrays
  BY ConstantFacts DEF Arrays
<1>2. capacity[1] \in 0..Len(Models)
  BY <1>1 DEF TypeOK
<1>. QED BY <1>2, ConstantFacts DEF NoSlice

LEMMA PickStep ==
    ASSUME SelectorInv, NEW c \in Callers, NEW r \in Requests, Pick(c, r)
    PROVE  SelectorInv'
<1>1. TypeOK /\ now \in Nat /\ mutex \in Callers \cup {"free"} /\ overlapped \subseteq Callers
      /\ pick \in [Callers -> Picks]
      /\ \A x \in Callers : pick[x].pc \in {"query", "copy"} => mutex = x
  BY CallerFacts
<1>2. UNCHANGED <<now, dbVars, mutex, cacheVars, overlapped>>
  BY DEF Pick
<1>3. /\ Moves(c) /\ pick'[c].pc = "lock" /\ pick'[c].since = 0
      /\ pick'[c].slice = NoSlice /\ pick'[c].answer = "error"
  BY <1>1, PickEffect
<1>4. CallerInv(c)'
  BY <1>1, <1>2, <1>3, IdleInv
<1>. QED BY <1>1, <1>2, <1>3, <1>4, NoSliceFits, QuietStep

LEMMA ReturnStep ==
    ASSUME SelectorInv, NEW c \in Callers, Return(c)
    PROVE  SelectorInv'
<1>1. TypeOK /\ now \in Nat /\ mutex \in Callers \cup {"free"} /\ overlapped \subseteq Callers
      /\ pick \in [Callers -> Picks]
      /\ \A x \in Callers : pick[x].pc \in {"query", "copy"} => mutex = x
  BY CallerFacts
<1>2. UNCHANGED <<now, dbVars, mutex, cacheVars>> /\ overlapped' = overlapped \ {c}
  BY DEF Return
<1>3. /\ Moves(c) /\ pick'[c].pc = "idle" /\ pick'[c].since = 0
      /\ pick'[c].slice = NoSlice /\ pick'[c].answer = "error"
  BY <1>1, ReturnEffect
<1>4. CallerInv(c)'
  BY <1>1, <1>2, <1>3, IdleInv
<1>. QED BY <1>1, <1>2, <1>3, <1>4, NoSliceFits, QuietStep

\* The list that the mutex covers is recent to a caller that arrives in time.
LEMMA ListCachedStep ==
    ASSUME SelectorInv, NEW c \in Callers, ListCached(c)
    PROVE  SelectorInv'
<1>1. TypeOK /\ now \in Nat /\ mutex \in Callers \cup {"free"} /\ overlapped \subseteq Callers
      /\ pick \in [Callers -> Picks] /\ cache \in Slice /\ cache.len <= capacity[cache.array]
      /\ pick[c].request \in Requests
      /\ \A x \in Callers : pick[x].pc \in {"query", "copy"} => mutex = x
  BY CallerFacts
<1>2. /\ UNCHANGED <<now, dbVars, mutex, cacheVars, overlapped>>
      /\ mutex = "free" /\ now < expiresAt
  BY DEF ListCached
<1>3. UNCHANGED <<now, table, heldUntil, array, capacity, cache, expiresAt>>
  BY <1>2 DEF dbVars, cacheVars
<1>4. /\ Moves(c)
      /\ pick'[c].pc = "scan" /\ pick'[c].request = pick[c].request
      /\ pick'[c].since = now /\ pick'[c].slice = cache /\ pick'[c].index = 1
  BY <1>1, ListCachedEffect
<1>5. \A x \in Callers : pick[x].pc \notin {"query", "copy"}
  BY <1>1, <1>2, SelectorAssumption
<1>6. ScanRecent(c)'
  <2>1. ASSUME NEW d \in Verdicts,
               Gives(array[cache.array], cache.len, pick[c].request, d)
        PROVE  d \in Decisions /\ Recent(c, d)'
    <3>. DEFINE q == heldUntil[pick[c].request][d]
    <3>1. expiresAt \in Nat /\ expiresAt > 0
      BY <1>1, <1>2 DEF TypeOK
    <3>2. /\ d \in Decisions
          /\ \/ Decide(table, pick[c].request) = d
             \/ q > 0 /\ expiresAt < q + TTL + MaxCall
      BY <2>1, <3>1, <1>1 DEF SelectorInv, CacheRecent
    <3>3. q \in Nat
      BY <3>2, <1>1, ConstantFacts DEF TypeOK
    <3>. HIDE DEF q
    <3>4. Decide(table, pick[c].request) = d \/ (q > 0 /\ now < q - 1 + TTL + MaxCall)
      BY <3>1, <3>2, <3>3, <1>1, <1>2, ConstantFacts
    <3>. QED BY <3>2, <3>4, <1>3, <1>4 DEF Recent, q
  <2>2. \A i \in 1..pick'[c].slice.len : ~(i < 1)
    OBVIOUS
  <2>. QED BY <2>1, <2>2, <1>3, <1>4 DEF ScanRecent
<1>7. Timely(c)'
  BY <1>1, <1>3, <1>4, ConstantFacts DEF Timely
<1>8. CallerInv(c)'
  BY <1>4, <1>6, <1>7 DEF CallerInv, Unanswered, CopyRecent, CopyExposes, AnswerRecent, Decided
<1>. QED BY <1>1, <1>2, <1>3, <1>4, <1>5, <1>8, QuietStep

LEMMA ListExpiredStep ==
    ASSUME SelectorInv, NEW c \in Callers, ListExpired(c)
    PROVE  SelectorInv'
<1>1. TypeOK /\ now \in Nat /\ overlapped \subseteq Callers
      /\ pick[c].slice.len <= capacity[pick[c].slice.array] /\ Unanswered(c)
      /\ \A x \in Callers : pick[x].pc \in {"query", "copy"} => mutex = x
  BY CallerFacts
<1>2. /\ UNCHANGED <<now, dbVars, cacheVars, overlapped>>
      /\ mutex = "free" /\ mutex' = c /\ pick[c].pc = "lock"
  BY DEF ListExpired
<1>3. /\ Moves(c) /\ pick'[c].pc = "query" /\ pick'[c].since = now
      /\ pick'[c].slice = pick[c].slice /\ pick'[c].answer = pick[c].answer
  BY <1>1, ListExpiredEffect
<1>4. \A x \in Callers : pick[x].pc \notin {"query", "copy"}
  BY <1>1, <1>2, SelectorAssumption
<1>5. Timely(c)'
  BY <1>1, <1>2, <1>3, ConstantFacts DEF Timely
<1>6. CallerInv(c)'
  BY <1>1, <1>2, <1>3, <1>5
     DEF CallerInv, Unanswered, CopyRecent, CopyExposes, ScanRecent, AnswerRecent, Decided
<1>. QED BY <1>1, <1>2, <1>3, <1>4, <1>6, QuietStep

LEMMA QueryAnsweredStep ==
    ASSUME SelectorInv, NEW c \in Callers, QueryAnswered(c)
    PROVE  SelectorInv'
<1>1. TypeOK /\ now \in Nat /\ mutex \in Callers \cup {"free"} /\ overlapped \subseteq Callers
      /\ pick[c].slice.len <= capacity[pick[c].slice.array] /\ Timely(c)
      /\ \A x \in Callers : pick[x].pc \in {"query", "copy"} => mutex = x
  BY CallerFacts
<1>2. /\ UNCHANGED <<now, dbVars, mutex, cacheVars>>
      /\ overlapped' = overlapped \cup Exposed(List) /\ pick[c].pc = "query"
  BY DEF QueryAnswered
<1>3. UNCHANGED <<now, table, heldUntil, mutex, array, capacity, cache>>
  BY <1>2 DEF dbVars, cacheVars
<1>4. Keeps(c, "copy") /\ pick'[c].slice = pick[c].slice /\ pick'[c].rows = List
  BY <1>1, QueryAnsweredEffect
<1>5. Exposed(List) \subseteq Callers
  BY DEF Exposed
<1>6. Timely(c)'
  BY <1>1, <1>2, <1>3, <1>4 DEF Timely, Keeps
<1>7. CopyRecent(c)'
  <2>1. table \in [Aliases -> Overrides \cup {NoOverride}]
    BY <1>1 DEF TypeOK
  <2>2. Len(List) <= Len(Models)
    BY <2>1, ListHolds, ConstantFacts
  <2>3. \A r \in Requests, d \in Verdicts :
          Gives(List, Len(List), r, d) => d = Decide(table, r) /\ d \in Decisions
    BY <2>1, ListDecides
  <2>. QED BY <2>2, <2>3, <1>3, <1>4 DEF CopyRecent, Keeps
<1>8. CopyExposes(c)'
  <2>. SUFFICES ASSUME Fits(List), List # <<>>, NEW x \in Callers,
                       pick'[x].pc = "scan", pick'[x].slice.array = cache.array
                PROVE  x \in overlapped'
    BY <1>3, <1>4 DEF CopyExposes, Fits, Keeps
  <2>1. x # c
    BY <1>4 DEF Keeps
  <2>2. pick'[x] = pick[x]
    BY <2>1, <1>4 DEF Keeps, Moves
  <2>. QED BY <2>2, <1>2 DEF Exposed
<1>9. CallerInv(c)'
  BY <1>4, <1>6, <1>7, <1>8 DEF CallerInv, Unanswered, Keeps, ScanRecent, AnswerRecent, Decided
<1>. QED BY <1>1, <1>2, <1>4, <1>5, <1>9, QuietStep DEF Keeps

LEMMA QueryFailsStep ==
    ASSUME SelectorInv, NEW c \in Callers, QueryFails(c)
    PROVE  SelectorInv'
<1>1. TypeOK /\ now \in Nat /\ overlapped \subseteq Callers
      /\ pick[c].slice.len <= capacity[pick[c].slice.array] /\ Timely(c) /\ Unanswered(c)
      /\ \A x \in Callers : pick[x].pc \in {"query", "copy"} => mutex = x
  BY CallerFacts
<1>2. /\ UNCHANGED <<now, dbVars, cacheVars, overlapped>>
      /\ mutex' = "free" /\ pick[c].pc = "query"
  BY DEF QueryFails
<1>3. Keeps(c, "done") /\ pick'[c].slice = pick[c].slice /\ pick'[c].answer = pick[c].answer
  BY <1>1, QueryFailsEffect
<1>4. Timely(c)'
  BY <1>1, <1>2, <1>3 DEF Timely, Keeps
<1>5. CallerInv(c)'
  BY <1>1, <1>2, <1>3, <1>4
     DEF CallerInv, Unanswered, Keeps, CopyRecent, CopyExposes, ScanRecent, AnswerRecent, Decided
<1>6. \A x \in Callers : x # c => pick[x].pc \notin {"query", "copy"}
  BY <1>1, <1>2
<1>. QED BY <1>1, <1>2, <1>3, <1>5, <1>6, QuietStep DEF Keeps

-----------------------------------------------------------------------------
(* providerForModel. *)

\* An answer that is recent unless the array was overwritten.
LEMMA AnsweredStep ==
    ASSUME SelectorInv, NEW c \in Callers, NEW d \in Verdicts,
           Answer(c, d), UNCHANGED <<now, dbVars, mutex, cacheVars, overlapped>>,
           pick[c].pc = "scan", c \notin overlapped => d \in Decisions /\ Recent(c, d)
    PROVE  SelectorInv'
<1>1. TypeOK /\ now \in Nat /\ mutex \in Callers \cup {"free"} /\ overlapped \subseteq Callers
      /\ pick[c].slice.len <= capacity[pick[c].slice.array] /\ Timely(c)
      /\ \A x \in Callers : pick[x].pc \in {"query", "copy"} => mutex = x
  BY CallerFacts
<1>2. UNCHANGED <<now, table, heldUntil, mutex, overlapped>>
  BY DEF dbVars
<1>3. Keeps(c, "done") /\ pick'[c].slice = pick[c].slice /\ pick'[c].answer = d
  BY <1>1, AnswerEffect
<1>4. Timely(c)'
  BY <1>1, <1>2, <1>3 DEF Timely, Keeps
<1>5. AnswerRecent(c)'
  <2>1. Recent(c, d)' <=> Recent(c, d)
    BY <1>2, <1>3 DEF Recent, Keeps
  <2>. QED BY <2>1, <1>2, <1>3 DEF AnswerRecent, Recent
<1>6. CallerInv(c)'
  BY <1>3, <1>4, <1>5 DEF CallerInv, Unanswered, Keeps, CopyRecent, CopyExposes, ScanRecent
<1>. QED BY <1>1, <1>2, <1>3, <1>6, QuietStep DEF Keeps

LEMMA NoOverridesStep ==
    ASSUME SelectorInv, NEW c \in Callers, NoOverrides(c)
    PROVE  SelectorInv'
<1>. DEFINE d == pick[c].request[2]
<1>1. pick[c].request \in Requests /\ ScanRecent(c)
  BY CallerFacts
<1>2. d \in Verdicts
  BY <1>1, ConstantFacts DEF Verdicts, Decisions
<1>3. /\ pick[c].pc = "scan" /\ pick[c].slice.len = 0
      /\ Answer(c, d) /\ UNCHANGED <<now, dbVars, mutex, cacheVars, overlapped>>
  BY DEF NoOverrides
<1>4. Gives(array[pick[c].slice.array], pick[c].slice.len, pick[c].request, d)
  BY <1>3 DEF Gives
<1>. HIDE DEF d
<1>5. c \notin overlapped => d \in Decisions /\ Recent(c, d)
  BY <1>1, <1>2, <1>3, <1>4 DEF ScanRecent
<1>. QED BY <1>2, <1>3, <1>5, AnsweredStep

LEMMA NotAllowedStep ==
    ASSUME SelectorInv, NEW c \in Callers, NotAllowed(c)
    PROVE  SelectorInv'
<1>1. ScanRecent(c) /\ pick[c].slice.len \in Nat /\ pick[c].index \in Nat
  BY CallerFacts DEF Picks, Slice
<1>2. "denied" \in Verdicts
  BY DEF Verdicts, Decisions
<1>3. /\ pick[c].pc = "scan" /\ pick[c].slice.len > 0 /\ pick[c].index > pick[c].slice.len
      /\ Answer(c, "denied") /\ UNCHANGED <<now, dbVars, mutex, cacheVars, overlapped>>
  BY DEF NotAllowed
<1>4. ASSUME c \notin overlapped
      PROVE  "denied" \in Decisions /\ Recent(c, "denied")
  <2>1. \A i \in 1..pick[c].slice.len :
          array[pick[c].slice.array][i].alias # pick[c].request[1]
    BY <1>1, <1>3, <1>4 DEF ScanRecent
  <2>2. Gives(array[pick[c].slice.array], pick[c].slice.len, pick[c].request, "denied")
    BY <2>1, <1>3 DEF Gives
  <2>. QED BY <2>2, <1>1, <1>2, <1>3, <1>4 DEF ScanRecent
<1>. QED BY <1>2, <1>3, <1>4, AnsweredStep

\* What a scan reads: the row itself unless a refresh writes to its array, and
\* then a value of the type.
LEMMA ReadsRow ==
    ASSUME SelectorInv, NEW c \in Callers, NEW row \in Reads(c),
           pick[c].pc = "scan", pick[c].index <= pick[c].slice.len
    PROVE  /\ row \in Row
           /\ c \notin overlapped => row = array[pick[c].slice.array][pick[c].index]
<1>. DEFINE a == pick[c].slice.array
            i == pick[c].index
            old == array[a][i]
            writers == {w \in Callers : /\ pick[w].pc = "copy"
                                        /\ Fits(pick[w].rows) /\ cache.array = a
                                        /\ i <= Len(pick[w].rows)}
            Torn(x, y) == IF x = y THEN {x} ELSE {x, y, Garbled}
            new == pick[CHOOSE w \in writers : TRUE].rows[i]
<1>1. TypeOK /\ pick \in [Callers -> Picks] /\ pick[c] \in Picks
  BY CallerFacts
<1>2. a \in Arrays /\ i \in Slots
  <2>1. pick[c].slice \in Slice /\ i \in Nat \ {0}
    BY <1>1 DEF Picks
  <2>. QED BY <2>1, ConstantFacts DEF Slice, Slots
<1>3. old \in Row
  BY <1>1, <1>2 DEF TypeOK
<1>4. row \in IF writers = {} THEN {old}
              ELSE [alias : Torn(old.alias, new.alias),
                    provider : Torn(old.provider, new.provider),
                    enabled : {old.enabled, new.enabled}]
  BY DEF Reads
<1>5. CASE writers = {}
  BY <1>3, <1>4, <1>5
<1>6. CASE writers # {}
  <2>. DEFINE w == CHOOSE w \in writers : TRUE
  <2>1. w \in writers
    BY <1>6
  <2>2. w \in Callers /\ pick[w].pc = "copy" /\ Fits(pick[w].rows) /\ cache.array = a
        /\ i <= Len(pick[w].rows)
    BY <2>1
  <2>. HIDE DEF w
  <2>3. pick[w].rows \in Seq(Row)
    BY <2>2, <1>1 DEF Picks
  <2>4. pick[w].rows[i] \in Row /\ pick[w].rows # <<>>
    BY <2>2, <2>3, <1>2 DEF Slots
  <2>5. new \in Row
    BY <2>4 DEF w
  <2>6. c \in overlapped
    <3>1. CopyExposes(w)
      BY <2>2, CallerFacts
    <3>. QED BY <3>1, <2>2, <2>4 DEF CopyExposes
  <2>. HIDE DEF new, old, writers
  <2>7. row \in Row
    BY <1>3, <1>4, <1>6, <2>5 DEF Row
  <2>. QED BY <2>6, <2>7
<1>. QED BY <1>5, <1>6

LEMMA ScanRowStep ==
    ASSUME SelectorInv, NEW c \in Callers, ScanRow(c)
    PROVE  SelectorInv'
<1>1. TypeOK /\ now \in Nat /\ mutex \in Callers \cup {"free"} /\ overlapped \subseteq Callers
      /\ pick[c].slice.len <= capacity[pick[c].slice.array] /\ pick[c] \in Picks
      /\ Timely(c) /\ ScanRecent(c)
      /\ \A x \in Callers : pick[x].pc \in {"query", "copy"} => mutex = x
  BY CallerFacts
<1>2. /\ pick[c].pc = "scan" /\ pick[c].index <= pick[c].slice.len
      /\ UNCHANGED <<now, dbVars, mutex, cacheVars, overlapped>>
  BY DEF ScanRow
<1>3. PICK row \in Reads(c) :
        IF row.alias = pick[c].request[1]
        THEN Answer(c, Verdict(row))
        ELSE pick' = [pick EXCEPT ![c].index = @ + 1]
  BY DEF ScanRow, Verdict
<1>. DEFINE cells == array[pick[c].slice.array]
            i == pick[c].index
<1>4. row \in Row /\ (c \notin overlapped => row = cells[i])
  BY <1>2, ReadsRow
<1>5. i \in 1..pick[c].slice.len /\ pick[c].slice.len \in Nat /\ i \in Nat
  BY <1>1, <1>2 DEF Picks, Slice
<1>. HIDE DEF i, cells
<1>6. CASE row.alias = pick[c].request[1]
  <2>1. Verdict(row) \in Verdicts
    BY <1>4 DEF Verdict, Verdicts, Row, Decisions
  <2>2. ASSUME c \notin overlapped
        PROVE  Verdict(row) \in Decisions /\ Recent(c, Verdict(row))
    <3>1. Gives(cells, pick[c].slice.len, pick[c].request, Verdict(row))
      BY <2>2, <1>4, <1>5, <1>6 DEF Gives
    <3>. QED BY <3>1, <2>1, <2>2, <1>1, <1>2 DEF ScanRecent, cells
  <2>. QED BY <2>1, <2>2, <1>2, <1>3, <1>6, AnsweredStep
<1>7. CASE row.alias # pick[c].request[1]
  <2>1. Keeps(c, "scan") /\ pick'[c].slice = pick[c].slice /\ pick'[c].index = i + 1
    BY <1>1, <1>2, <1>3, <1>7, NextRowEffect DEF i
  <2>2. UNCHANGED <<now, table, heldUntil, mutex, array, overlapped>>
    BY <1>2 DEF dbVars, cacheVars
  <2>3. Timely(c)'
    BY <1>1, <1>2, <2>1, <2>2 DEF Timely, Keeps
  <2>4. ScanRecent(c)'
    <3>. SUFFICES ASSUME c \notin overlapped
                  PROVE  ScanRecent(c)'
      BY <2>2 DEF ScanRecent
    <3>1. \A d \in Verdicts : Recent(c, d)' <=> Recent(c, d)
      BY <2>1, <2>2 DEF Recent, Keeps
    <3>2. \A d \in Verdicts :
            Gives(cells, pick[c].slice.len, pick[c].request, d) => d \in Decisions /\ Recent(c, d)
      BY <1>1, <1>2 DEF ScanRecent, cells
    <3>3. \A j \in 1..pick[c].slice.len : j < i => cells[j].alias # pick[c].request[1]
      BY <1>1, <1>2 DEF ScanRecent, cells, i
    <3>4. \A j \in 1..pick[c].slice.len : j < i + 1 => cells[j].alias # pick[c].request[1]
      BY <3>3, <1>4, <1>5, <1>7
    <3>. QED BY <3>1, <3>2, <3>4, <2>1, <2>2 DEF ScanRecent, Keeps, cells
  <2>5. CallerInv(c)'
    BY <2>1, <2>3, <2>4
       DEF CallerInv, Unanswered, Keeps, CopyRecent, CopyExposes, AnswerRecent, Decided
  <2>. QED BY <1>1, <1>2, <2>1, <2>2, <2>5, QuietStep DEF Keeps
<1>. QED BY <1>6, <1>7

-----------------------------------------------------------------------------
(* append. *)

LEMMA FreeArray ==
    ASSUME TypeOK, RoomToGrow, capacity[cache.array] < Len(Models)
    PROVE  \E b \in Arrays : capacity[b] = 0
<1>1. Len(Models) \in Nat /\ capacity \in [Arrays -> 0..Len(Models)] /\ cache.array \in Arrays
  BY ConstantFacts DEF TypeOK, Slice
<1>2. SUFFICES ASSUME \A b \in Arrays : capacity[b] # 0
               PROVE  FALSE
  OBVIOUS
<1>3. \A b \in Arrays : capacity[b] > 0
  BY <1>1, <1>2
<1>4. Allocated = 1..Len(Models)
  BY <1>3 DEF Allocated, Arrays
<1>5. Cardinality(Allocated) = Len(Models)
  <2>1. \A n \in Nat : Cardinality(1..n) = n
    BY FS_Interval
  <2>. QED BY <2>1, <1>1, <1>4
<1>6. capacity[cache.array] \in Nat
  BY <1>1
<1>. QED BY <1>1, <1>5, <1>6 DEF RoomToGrow

\* append writes rows to array a: the one of the cache where they fit, and one
\* that was not allocated, with capacity n, where they do not.
Writes(rows, a, n) ==
    /\ a \in Arrays /\ n \in Len(rows)..Len(Models)
    /\ IF Fits(rows) THEN a = cache.array /\ n = capacity[a] ELSE capacity[a] = 0
    /\ capacity' = [capacity EXCEPT ![a] = n]
    /\ array' = [array EXCEPT ![a] = Overwritten(@, rows)]
    /\ cache' = [array |-> a, len |-> Len(rows)]

LEMMA InstallEffect ==
    ASSUME SelectorInv, NEW c \in Callers, Install(c)
    PROVE  /\ pick[c].rows \in Seq(Row) /\ Len(pick[c].rows) \in 0..Len(Models)
           /\ \E a \in Arrays, n \in Nat : Writes(pick[c].rows, a, n)
           /\ Keeps(c, "scan") /\ pick'[c].slice = cache' /\ pick'[c].index = 1
<1>. DEFINE rows == pick[c].rows
            b == IF Fits(rows) THEN cache.array ELSE CHOOSE b \in Arrays : capacity[b] = 0
<1>1. TypeOK /\ RoomToGrow /\ CopyRecent(c) /\ pick \in [Callers -> Picks]
      /\ pick[c] \in Picks /\ cache \in Slice
  BY CallerFacts DEF SelectorInv
<1>2. Len(Models) \in Nat /\ capacity \in [Arrays -> 0..Len(Models)] /\ cache.array \in Arrays
  BY <1>1, ConstantFacts DEF TypeOK, Slice
<1>3. rows \in Seq(Row) /\ Len(rows) \in 0..Len(Models)
  <2>1. rows \in Seq(Row)
    BY <1>1 DEF Picks
  <2>2. Len(rows) <= Len(Models)
    BY <1>1 DEF Install, CopyRecent
  <2>. QED BY <2>1, <2>2, <1>2
<1>4. PICK n \in Len(rows)..Len(Models) :
        /\ Fits(rows) => n = capacity[b]
        /\ capacity' = [capacity EXCEPT ![b] = n]
        /\ array' = [array EXCEPT ![b] = Overwritten(@, rows)]
        /\ cache' = [array |-> b, len |-> Len(rows)]
        /\ pick' = [pick EXCEPT ![c] = Scanning(c, [array |-> b, len |-> Len(rows)])]
  BY DEF Install
<1>5. b \in Arrays /\ IF Fits(rows) THEN b = cache.array ELSE capacity[b] = 0
  <2>1. CASE Fits(rows)
    BY <2>1, <1>2
  <2>2. CASE ~Fits(rows)
    <3>1. capacity[cache.array] < Len(Models)
      BY <2>2, <1>2, <1>3 DEF Fits
    <3>2. \E a \in Arrays : capacity[a] = 0
      BY <3>1, <1>1, FreeArray
    <3>. QED BY <3>2, <2>2
  <2>. QED BY <2>1, <2>2
<1>. HIDE DEF b, rows
<1>6. n \in Nat
  BY <1>2, <1>3, <1>4
<1>7. Writes(rows, b, n)
  BY <1>4, <1>5 DEF Writes
<1>8. cache' \in Slice
  BY <1>3, <1>4, <1>5 DEF Slice
<1>9. pick' = [pick EXCEPT ![c] = Scanning(c, cache')]
  BY <1>4
<1>. DEFINE p == Scanning(c, cache')
<1>10. /\ p \in Picks
       /\ p.pc = "scan" /\ p.slice = cache' /\ p.index = 1
       /\ p.request = pick[c].request /\ p.since = pick[c].since
  BY <1>1, <1>8, ScanningRecord
<1>. HIDE DEF p
<1>11. Moves(c) /\ pick'[c] = p
  BY <1>1, <1>9, <1>10, ReplacesPick DEF p
<1>12. Keeps(c, "scan") /\ pick'[c].slice = cache' /\ pick'[c].index = 1
  BY <1>10, <1>11 DEF Keeps
<1>. QED BY <1>3, <1>5, <1>6, <1>7, <1>12 DEF rows

\* Capacities never shrink, and the room left never runs out.
LEMMA WritesRoom ==
    ASSUME TypeOK, RoomToGrow, NEW rows \in Seq(Row), NEW a \in Arrays, NEW n \in Nat,
           Writes(rows, a, n)
    PROVE  /\ capacity' \in [Arrays -> 0..Len(Models)]
           /\ cache' \in Slice /\ cache'.len <= capacity'[cache'.array]
           /\ \A b \in Arrays : capacity[b] <= capacity'[b]
           /\ RoomToGrow'
<1>1. Len(Models) \in Nat /\ capacity \in [Arrays -> 0..Len(Models)] /\ cache.array \in Arrays
  BY ConstantFacts DEF TypeOK, Slice
<1>2. Len(rows) \in Nat /\ n \in Len(rows)..Len(Models)
  BY DEF Writes
<1>3. /\ capacity' = [capacity EXCEPT ![a] = n]
      /\ cache' = [array |-> a, len |-> Len(rows)]
  BY DEF Writes
<1>4. capacity' \in [Arrays -> 0..Len(Models)] /\ capacity'[a] = n
  BY <1>1, <1>2, <1>3
<1>5. cache' \in Slice /\ cache'.len = Len(rows) /\ cache'.array = a
  BY <1>1, <1>2, <1>3 DEF Slice
<1>6. capacity[a] <= n /\ capacity[a] \in Nat
  BY <1>1 DEF Writes
<1>7. \A b \in Arrays : capacity[b] <= capacity'[b]
  BY <1>1, <1>3, <1>6
<1>8. RoomToGrow'
  <2>1. CASE Fits(rows)
    <3>1. capacity' = capacity /\ a = cache.array
      BY <2>1, <1>1, <1>3 DEF Writes
    <3>. QED BY <3>1, <1>5 DEF RoomToGrow, Allocated
  <2>2. CASE ~Fits(rows)
    <3>1. capacity[cache.array] < Len(rows) /\ capacity[cache.array] \in Nat
      BY <2>2, <1>1, <1>2 DEF Fits
    <3>2. n > 0
      BY <3>1, <1>2
    <3>3. Allocated' = Allocated \cup {a}
      <4>1. \A b \in Arrays : b # a => capacity'[b] = capacity[b]
        BY <1>1, <1>3
      <4>. QED BY <4>1, <3>2, <1>4 DEF Allocated
    <3>4. IsFiniteSet(Allocated) /\ Cardinality(Allocated) \in Nat
      <4>1. Allocated \in SUBSET (1..Len(Models))
        BY DEF Allocated, Arrays
      <4>. QED BY <4>1, <1>1, PlacesFinite
    <3>5. /\ IsFiniteSet(Allocated \cup {a})
          /\ Cardinality(Allocated \cup {a}) <= Cardinality(Allocated) + 1
          /\ Cardinality(Allocated \cup {a}) \in Nat
      <4>. HIDE DEF Allocated
      <4>1. /\ IsFiniteSet(Allocated \cup {a})
            /\ Cardinality(Allocated \cup {a}) =
                 IF a \in Allocated THEN Cardinality(Allocated) ELSE Cardinality(Allocated) + 1
        BY <3>4, FS_AddElement
      <4>. QED BY <4>1, <3>4
    <3>6. Cardinality(Allocated) <= capacity[cache.array]
      BY DEF RoomToGrow
    <3>7. Cardinality(Allocated') <= n
      BY <3>1, <3>3, <3>4, <3>5, <3>6, <1>2
    <3>. QED BY <3>7, <1>4, <1>5 DEF RoomToGrow
  <2>. QED BY <2>1, <2>2
<1>. QED BY <1>4, <1>5, <1>2, <1>7, <1>8

LEMMA WritesCells ==
    ASSUME TypeOK, NEW rows \in Seq(Row), NEW a \in Arrays, NEW n \in Nat, Writes(rows, a, n)
    PROVE  /\ array' \in [Arrays -> [Slots -> Row]]
           /\ \A i \in 1..Len(rows) : array'[a][i] = rows[i]
           /\ \A b \in Arrays : b # a => array'[b] = array[b]
           /\ rows = <<>> => array' = array
<1>1. Len(Models) \in Nat /\ array \in [Arrays -> [Slots -> Row]]
  BY ConstantFacts DEF TypeOK
<1>2. Len(rows) \in Nat /\ Len(rows) <= Len(Models)
  BY <1>1 DEF Writes
<1>. DEFINE cells == Overwritten(array[a], rows)
<1>3. array' = [array EXCEPT ![a] = cells]
  BY DEF Writes
<1>4. array[a] \in [Slots -> Row]
  BY <1>1
<1>5. \A i \in 1..Len(rows) : rows[i] \in Row
  OBVIOUS
<1>6. \A i \in Slots : i <= Len(rows) => i \in 1..Len(rows)
  BY <1>1, <1>2 DEF Slots
<1>7. cells \in [Slots -> Row]
  BY <1>4, <1>5, <1>6 DEF Overwritten
<1>8. \A i \in 1..Len(rows) : cells[i] = rows[i]
  BY <1>1, <1>2 DEF Overwritten, Slots
<1>9. rows = <<>> => cells = array[a]
  <2>. SUFFICES ASSUME rows = <<>>
                PROVE  cells = array[a]
    OBVIOUS
  <2>1. \A i \in Slots : cells[i] = array[a][i]
    BY <1>1 DEF Overwritten, Slots
  <2>. QED BY <2>1, <1>4, <1>7
<1>. HIDE DEF cells
<1>. QED BY <1>1, <1>3, <1>7, <1>8, <1>9

LEMMA GivesSame ==
    ASSUME NEW cells, NEW other, NEW n, \A i \in 1..n : cells[i] = other[i],
           NEW r, NEW d, Gives(cells, n, r, d)
    PROVE  Gives(other, n, r, d)
BY DEF Gives

\* A refresh does not touch the rows of a scan that is not overlapped.
LEMMA ScanUntouched ==
    ASSUME SelectorInv, NEW c \in Callers, pick[c].pc = "copy",
           NEW a \in Arrays, NEW n \in Nat, Writes(pick[c].rows, a, n),
           NEW x \in Callers, pick[x].pc = "scan", x \notin overlapped
    PROVE  \A i \in 1..pick[x].slice.len :
               array'[pick[x].slice.array][i] = array[pick[x].slice.array][i]
<1>. DEFINE rows == pick[c].rows
            b == pick[x].slice.array
<1>1. /\ TypeOK /\ CopyExposes(c) /\ pick[c] \in Picks
  BY CallerFacts
<1>2. pick[x] \in Picks /\ pick[x].slice.len <= capacity[b]
  BY CallerFacts
<1>3. rows \in Seq(Row) /\ b \in Arrays /\ pick[x].slice.len \in Nat
  BY <1>1, <1>2, ConstantFacts DEF Picks, Slice
<1>4. (b # a => array'[b] = array[b]) /\ (rows = <<>> => array' = array)
  BY <1>1, <1>3, WritesCells
<1>5. CASE Fits(rows) /\ rows # <<>>
  <2>1. b # a
    BY <1>1, <1>5 DEF CopyExposes, Writes
  <2>. QED BY <2>1, <1>4
<1>6. CASE rows = <<>>
  BY <1>4, <1>6
<1>7. CASE ~Fits(rows) /\ b = a
  <2>1. pick[x].slice.len = 0
    BY <1>2, <1>3, <1>7 DEF Writes
  <2>. QED BY <2>1
<1>8. CASE b # a
  BY <1>4, <1>8
<1>. QED BY <1>5, <1>6, <1>7, <1>8

LEMMA InstallStep ==
    ASSUME SelectorInv, NEW c \in Callers, Install(c)
    PROVE  SelectorInv'
<1>. DEFINE rows == pick[c].rows
<1>1. TypeOK /\ RoomToGrow /\ now \in Nat /\ pick[c].since \in Nat /\ pick[c].request \in Requests
      /\ Timely(c) /\ CopyRecent(c)
      /\ \A x \in Callers : pick[x].pc \in {"query", "copy"} => mutex = x
  BY CallerFacts DEF SelectorInv
<1>2. /\ pick[c].pc = "copy" /\ expiresAt' = now + TTL /\ mutex' = "free"
      /\ UNCHANGED <<now, table, heldUntil, changes, overlapped>>
  BY DEF Install, dbVars
<1>3. rows \in Seq(Row) /\ Len(rows) \in 0..Len(Models)
  BY InstallEffect
<1>4. PICK a \in Arrays, n \in Nat : Writes(rows, a, n)
  BY InstallEffect
<1>5. Keeps(c, "scan") /\ pick'[c].slice = cache' /\ pick'[c].index = 1
  BY InstallEffect
<1>6. /\ capacity' \in [Arrays -> 0..Len(Models)]
      /\ cache' \in Slice /\ cache'.len <= capacity'[cache'.array]
      /\ \A b \in Arrays : capacity[b] <= capacity'[b]
      /\ RoomToGrow'
  BY <1>1, <1>3, <1>4, WritesRoom
<1>7. /\ array' \in [Arrays -> [Slots -> Row]]
      /\ \A i \in 1..Len(rows) : array'[a][i] = rows[i]
  BY <1>1, <1>3, <1>4, WritesCells
<1>8. cache'.array = a /\ cache'.len = Len(rows)
  BY <1>4 DEF Writes
<1>9. \A x \in Callers : x # c => pick[x].pc \notin {"query", "copy"} /\ pick'[x] = pick[x]
  BY <1>1, <1>2, <1>5 DEF Keeps, Moves
<1>10. now + TTL \in Nat
  BY <1>1, ConstantFacts
<1>11. TypeOK'
  <2>1. \A x \in Callers : pick'[x].slice.len <= capacity'[pick'[x].slice.array]
    <3>. SUFFICES ASSUME NEW x \in Callers
                  PROVE  pick'[x].slice.len <= capacity'[pick'[x].slice.array]
      OBVIOUS
    <3>1. CASE x = c
      BY <3>1, <1>5, <1>6
    <3>2. CASE x # c
      <4>1. /\ pick[x].slice.len \in Nat /\ pick[x].slice.array \in Arrays
            /\ pick[x].slice.len <= capacity[pick[x].slice.array]
        BY CallerFacts, ConstantFacts DEF Picks, Slice
      <4>2. capacity[pick[x].slice.array] \in Nat /\ capacity'[pick[x].slice.array] \in Nat
        BY <4>1, <1>1, <1>6, ConstantFacts DEF TypeOK
      <4>. QED BY <4>1, <4>2, <3>2, <1>6, <1>9
    <3>. QED BY <3>1, <3>2
  <2>2. pick' \in [Callers -> Picks]
    BY <1>5 DEF Keeps, Moves
  <2>. QED BY <2>1, <2>2, <1>1, <1>2, <1>6, <1>7, <1>10 DEF TypeOK
<1>12. \A r \in Requests, d \in Verdicts :
         Gives(array'[cache'.array], cache'.len, r, d) =>
             d \in Decisions /\ (Decide(table, r) = d \/ heldUntil[r][d] > pick[c].since)
  <2>1. ASSUME NEW r \in Requests, NEW d \in Verdicts,
               Gives(array'[cache'.array], cache'.len, r, d)
        PROVE  Gives(rows, Len(rows), r, d)
    BY <2>1, <1>7, <1>8, GivesSame
  <2>. QED BY <2>1, <1>1, <1>2 DEF CopyRecent
<1>13. \A r \in Requests, d \in Decisions : heldUntil[r][d] \in Nat
  BY <1>1, ConstantFacts DEF TypeOK
<1>14. now <= pick[c].since + MaxCall /\ pick[c].since <= now
  BY <1>1, <1>2 DEF Timely
<1>15. CacheRecent'
  <2>1. ASSUME NEW r \in Requests, NEW d \in Decisions, heldUntil[r][d] > pick[c].since
        PROVE  heldUntil[r][d] > 0 /\ now + TTL < heldUntil[r][d] + TTL + MaxCall
    BY <2>1, <1>1, <1>13, <1>14, ConstantFacts
  <2>2. now + TTL <= now + TTL
    BY <1>10
  <2>. QED BY <2>1, <2>2, <1>2, <1>12 DEF CacheRecent
<1>16. CallerInv(c)'
  <2>1. Timely(c)'
    BY <1>2, <1>5, <1>14 DEF Timely, Keeps
  <2>2. ASSUME NEW d \in Decisions,
               Decide(table, pick[c].request) = d \/ heldUntil[pick[c].request][d] > pick[c].since
        PROVE  Recent(c, d)'
    <3>. DEFINE q == heldUntil[pick[c].request][d]
    <3>1. q \in Nat
      BY <1>1, <1>13
    <3>. HIDE DEF q
    <3>2. q > pick[c].since => q > 0 /\ pick[c].since < q - 1 + TTL + MaxCall
      BY <3>1, <1>1, ConstantFacts
    <3>. QED BY <3>2, <2>2, <1>2, <1>5 DEF Recent, Keeps, q
  <2>3. ScanRecent(c)'
    <3>1. \A i \in 1..cache'.len : ~(i < 1)
      OBVIOUS
    <3>2. \A d \in Verdicts :
            Gives(array'[cache'.array], cache'.len, pick[c].request, d) =>
                d \in Decisions /\ Recent(c, d)'
      BY <2>2, <1>1, <1>12
    <3>. QED BY <3>1, <3>2, <1>5 DEF ScanRecent, Keeps
  <2>. QED BY <2>1, <2>3, <1>5
           DEF CallerInv, Unanswered, Keeps, CopyRecent, CopyExposes, AnswerRecent, Decided
<1>17. ASSUME NEW x \in Callers, x # c
       PROVE  CallerInv(x)'
  <2>1. pick[x].pc \notin {"query", "copy"} /\ pick'[x] = pick[x]
    BY <1>9, <1>17
  <2>2. Timely(x) /\ Unanswered(x) /\ ScanRecent(x) /\ AnswerRecent(x)
    BY CallerFacts
  <2>3. \A d : Recent(x, d)' <=> Recent(x, d)
    BY <2>1, <1>2 DEF Recent
  <2>4. Timely(x)' /\ Unanswered(x)' /\ AnswerRecent(x)'
    BY <2>1, <2>2, <2>3, <1>2 DEF Timely, Unanswered, AnswerRecent, Decided
  <2>5. ScanRecent(x)'
    <3>. SUFFICES ASSUME pick[x].pc = "scan", x \notin overlapped
                  PROVE  ScanRecent(x)'
      BY <2>1, <1>2 DEF ScanRecent
    <3>. DEFINE b == pick[x].slice.array
                l == pick[x].slice.len
    <3>1. \A i \in 1..l : array'[b][i] = array[b][i]
      BY <1>2, <1>4, ScanUntouched
    <3>. HIDE DEF b, l
    <3>2. \A d \in Verdicts :
            Gives(array'[b], l, pick[x].request, d) => Gives(array[b], l, pick[x].request, d)
      BY <3>1, GivesSame
    <3>3. \A d \in Verdicts :
            Gives(array[b], l, pick[x].request, d) => d \in Decisions /\ Recent(x, d)
      BY <2>2 DEF ScanRecent, b, l
    <3>4. \A i \in 1..l : i < pick[x].index => array'[b][i].alias # pick[x].request[1]
      BY <3>1, <2>2 DEF ScanRecent, b, l
    <3>. QED BY <3>2, <3>3, <3>4, <2>1, <2>3 DEF ScanRecent, b, l
  <2>. QED BY <2>1, <2>4, <2>5 DEF CallerInv, CopyRecent, CopyExposes
<1>18. \A x \in Callers : CallerInv(x)'
  BY <1>16, <1>17
<1>. QED BY <1>6, <1>11, <1>15, <1>18 DEF SelectorInv

-----------------------------------------------------------------------------
(* The administrator and the clock. *)

\* A change of the table dates the decisions that it ends.
LEMMA ChangeStep ==
    ASSUME SelectorInv, NEW t \in [Aliases -> Overrides \cup {NoOverride}], Change(t)
    PROVE  SelectorInv'
<1>1. TypeOK /\ RoomToGrow /\ CacheRecent /\ \A x \in Callers : CallerInv(x)
  BY DEF SelectorInv
<1>2. /\ table' = t /\ changes < MaxChanges /\ changes' = changes + 1
      /\ UNCHANGED <<now, mutex, array, capacity, cache, expiresAt, pick, overlapped>>
  BY DEF Change, cacheVars
<1>3. now \in 0..MaxTime /\ MaxTime \in Nat /\ now \in Nat /\ expiresAt \in Nat
  BY <1>1, ConstantFacts DEF TypeOK
<1>4. heldUntil' \in [Requests -> [Decisions -> 0..(MaxTime + 1)]]
  <2>1. heldUntil \in [Requests -> [Decisions -> 0..(MaxTime + 1)]]
    BY <1>1 DEF TypeOK
  <2>2. now + 1 \in 0..(MaxTime + 1)
    BY <1>3
  <2>. QED BY <2>1, <2>2 DEF Change
<1>5. \A r \in Requests, d \in Decisions :
        heldUntil'[r][d] = IF Decide(table, r) = d THEN now + 1 ELSE heldUntil[r][d]
  BY DEF Change
<1>6. TypeOK'
  <2>1. changes \in 0..MaxChanges /\ MaxChanges \in Nat
    BY <1>1, SelectorAssumption DEF TypeOK
  <2>2. changes' \in 0..MaxChanges
    BY <2>1, <1>2
  <2>. QED BY <2>2, <1>1, <1>2, <1>4 DEF TypeOK
<1>7. RoomToGrow'
  BY <1>1, <1>2 DEF RoomToGrow, Allocated
<1>8. CacheRecent'
  <2>1. ASSUME NEW r \in Requests, NEW d \in Decisions,
               \/ Decide(table, r) = d
               \/ heldUntil[r][d] > 0 /\ expiresAt < heldUntil[r][d] + TTL + MaxCall
        PROVE  heldUntil'[r][d] > 0 /\ expiresAt < heldUntil'[r][d] + TTL + MaxCall
    <3>1. expiresAt <= now + TTL
      BY <1>1 DEF CacheRecent
    <3>2. expiresAt < now + 1 + TTL + MaxCall /\ now + 1 > 0
      BY <3>1, <1>3, ConstantFacts
    <3>. QED BY <2>1, <3>2, <1>5
  <2>. QED BY <2>1, <1>1, <1>2 DEF CacheRecent
<1>9. ASSUME NEW c \in Callers
      PROVE  CallerInv(c)'
  <2>1. /\ Timely(c) /\ Unanswered(c) /\ CopyRecent(c) /\ CopyExposes(c)
        /\ ScanRecent(c) /\ AnswerRecent(c)
        /\ pick[c].since \in Nat /\ pick[c].request \in Requests /\ pick[c] \in Picks
    BY CallerFacts
  <2>2. pick[c].since <= now
    BY <2>1 DEF Timely
  <2>3. Timely(c)' /\ Unanswered(c)' /\ CopyExposes(c)'
    BY <2>1, <1>2 DEF Timely, Unanswered, CopyExposes, Fits
  <2>4. ASSUME NEW r \in Requests, NEW d \in Decisions,
               Decide(table, r) = d \/ heldUntil[r][d] > pick[c].since
        PROVE  heldUntil'[r][d] > pick[c].since
    <3>1. now + 1 > pick[c].since
      BY <2>1, <2>2, <1>3
    <3>. QED BY <2>4, <3>1, <1>5
  <2>5. CopyRecent(c)'
    BY <2>1, <2>4, <1>2 DEF CopyRecent
  <2>6. ASSUME NEW d \in Decisions, Recent(c, d)
        PROVE  Recent(c, d)'
    <3>. DEFINE r == pick[c].request
    <3>1. now + 1 > 0 /\ pick[c].since < now + 1 - 1 + TTL + MaxCall
      BY <2>1, <2>2, <1>3, ConstantFacts
    <3>2. CASE Decide(table, r) = d
      <4>1. heldUntil'[r][d] = now + 1
        BY <3>2, <2>1, <1>5
      <4>2. heldUntil'[r][d] > 0 /\ pick[c].since < heldUntil'[r][d] - 1 + TTL + MaxCall
        <5>. HIDE DEF r
        <5>. QED BY <4>1, <3>1, <1>3, <2>1, ConstantFacts
      <4>3. pick' = pick
        BY <1>2
      <4>. QED BY <4>2, <4>3 DEF Recent
    <3>3. CASE Decide(table, r) # d
      <4>1. heldUntil'[r][d] = heldUntil[r][d]
        BY <3>3, <2>1, <1>5
      <4>. QED BY <4>1, <3>3, <2>6, <1>2 DEF Recent
    <3>. QED BY <3>2, <3>3
  <2>7. ScanRecent(c)'
    BY <2>1, <2>6, <1>2 DEF ScanRecent
  <2>8. AnswerRecent(c)'
    <3>. SUFFICES ASSUME Decided(c), c \notin overlapped
                  PROVE  AnswerRecent(c)'
      BY <1>2 DEF AnswerRecent, Decided
    <3>1. pick[c].answer \in Decisions /\ Recent(c, pick[c].answer)
      BY <2>1 DEF AnswerRecent
    <3>2. PICK d \in Decisions : d = pick[c].answer
      BY <3>1
    <3>3. Recent(c, d)'
      BY <3>1, <3>2, <2>6
    <3>4. pick' = pick
      BY <1>2
    <3>. QED BY <3>2, <3>3, <3>4 DEF AnswerRecent, Recent
  <2>. QED BY <2>3, <2>5, <2>7, <2>8 DEF CallerInv
<1>. QED BY <1>6, <1>7, <1>8, <1>9 DEF SelectorInv

LEMMA TickStep ==
    ASSUME SelectorInv, Tick
    PROVE  SelectorInv'
<1>1. TypeOK /\ RoomToGrow /\ CacheRecent /\ \A x \in Callers : CallerInv(x)
  BY DEF SelectorInv
<1>2. /\ now < MaxTime /\ now' = now + 1
      /\ UNCHANGED <<table, heldUntil, changes, mutex, array, capacity, cache, expiresAt,
                     pick, overlapped>>
      /\ \A c \in Callers :
           pick[c].pc \in {"query", "copy", "scan"} => now < pick[c].since + MaxCall
  BY DEF Tick, dbVars, cacheVars
<1>3. now \in 0..MaxTime /\ MaxTime \in Nat /\ now \in Nat /\ expiresAt \in Nat
  BY <1>1, ConstantFacts DEF TypeOK
<1>4. TypeOK'
  <2>1. now' \in 0..MaxTime
    BY <1>2, <1>3
  <2>. QED BY <2>1, <1>1, <1>2 DEF TypeOK
<1>5. RoomToGrow'
  BY <1>1, <1>2 DEF RoomToGrow, Allocated
<1>6. CacheRecent'
  <2>1. expiresAt <= now + 1 + TTL
    BY <1>1, <1>3, ConstantFacts DEF CacheRecent
  <2>. QED BY <2>1, <1>1, <1>2 DEF CacheRecent
<1>7. ASSUME NEW c \in Callers
      PROVE  CallerInv(c)'
  <2>1. /\ Timely(c) /\ Unanswered(c) /\ CopyRecent(c) /\ CopyExposes(c)
        /\ ScanRecent(c) /\ AnswerRecent(c) /\ pick[c].since \in Nat
    BY CallerFacts
  <2>2. Timely(c)'
    BY <2>1, <1>2, <1>3, <1>7, ConstantFacts DEF Timely
  <2>3. Unanswered(c)' /\ CopyRecent(c)' /\ CopyExposes(c)'
    BY <2>1, <1>2 DEF Unanswered, CopyRecent, CopyExposes, Fits
  <2>4. \A d : Recent(c, d)' <=> Recent(c, d)
    BY <1>2 DEF Recent
  <2>5. ScanRecent(c)' /\ AnswerRecent(c)'
    BY <2>1, <2>4, <1>2 DEF ScanRecent, AnswerRecent, Decided
  <2>. QED BY <2>2, <2>3, <2>5 DEF CallerInv
<1>. QED BY <1>4, <1>5, <1>6, <1>7 DEF SelectorInv

-----------------------------------------------------------------------------
(* The theorems. *)

LEMMA SelectorInit ==
    ASSUME Init
    PROVE  SelectorInv
<1>1. 1 \in Arrays /\ NoSlice \in Slice /\ NoSlice.array = 1 /\ NoSlice.len = 0
  BY ConstantFacts DEF NoSlice, Slice, Arrays
<1>2. NoPick \in Picks /\ NoPick.pc = "idle" /\ NoPick.since = 0 /\ NoPick.slice = NoSlice
  BY ConstantFacts DEF NoPick
<1>3. ZeroRow \in Row
  BY DEF ZeroRow, Row
<1>4. capacity \in [Arrays -> 0..Len(Models)] /\ \A a \in Arrays : capacity[a] = 0
  BY ConstantFacts DEF Init
<1>5. TypeOK
  <2>1. now \in 0..MaxTime /\ changes \in 0..MaxChanges /\ expiresAt \in Nat
    BY SelectorAssumption DEF Init
  <2>2. heldUntil \in [Requests -> [Decisions -> 0..(MaxTime + 1)]]
    BY ConstantFacts DEF Init
  <2>3. array \in [Arrays -> [Slots -> Row]]
    BY <1>3 DEF Init
  <2>4. pick \in [Callers -> Picks] /\ \A c \in Callers : pick[c] = NoPick
    BY <1>2 DEF Init
  <2>. QED BY <2>1, <2>2, <2>3, <2>4, <1>1, <1>2, <1>4 DEF Init, TypeOK
<1>6. RoomToGrow
  <2>1. Allocated = {}
    BY <1>4 DEF Allocated
  <2>2. capacity[cache.array] = 0
    BY <1>1, <1>4 DEF Init
  <2>. QED BY <2>1, <2>2, FS_EmptySet DEF RoomToGrow
<1>7. CacheRecent
  BY ConstantFacts DEF Init, CacheRecent
<1>8. \A c \in Callers : CallerInv(c)
  <2>1. \A c \in Callers : pick[c].pc = "idle" /\ pick[c].since = 0 /\ now = 0
    BY <1>2 DEF Init
  <2>. QED BY <2>1 DEF CallerInv, Timely, Unanswered, CopyRecent, CopyExposes, ScanRecent,
                       AnswerRecent, Decided
<1>. QED BY <1>5, <1>6, <1>7, <1>8 DEF SelectorInv

LEMMA SelectorStutter ==
    ASSUME SelectorInv, UNCHANGED vars
    PROVE  SelectorInv'
<1>1. UNCHANGED <<now, table, heldUntil, changes, mutex, array, capacity, cache, expiresAt,
                  pick, overlapped>>
  BY DEF vars, dbVars, cacheVars
<1>2. TypeOK'
  BY <1>1 DEF SelectorInv, TypeOK
<1>3. RoomToGrow' /\ CacheRecent'
  BY <1>1 DEF SelectorInv, RoomToGrow, Allocated, CacheRecent
<1>4. ASSUME NEW c \in Callers
      PROVE  CallerInv(c)'
  <2>1. CallerInv(c)
    BY DEF SelectorInv
  <2>2. \A d : Recent(c, d)' <=> Recent(c, d)
    BY <1>1 DEF Recent
  <2>. QED BY <2>1, <2>2, <1>1 DEF CallerInv, Timely, Unanswered, CopyRecent, CopyExposes, Fits,
                                   ScanRecent, AnswerRecent, Decided
<1>. QED BY <1>2, <1>3, <1>4 DEF SelectorInv

LEMMA SelectorNext ==
    ASSUME SelectorInv, [Next]_vars
    PROVE  SelectorInv'
<1>1. table \in [Aliases -> Overrides \cup {NoOverride}]
  BY DEF SelectorInv, TypeOK
<1>2. ASSUME NEW m \in Aliases, NEW o \in Overrides, UpsertWithAudit(m, o)
      PROVE  SelectorInv'
  <2>1. [table EXCEPT ![m] = o] \in [Aliases -> Overrides \cup {NoOverride}]
    BY <1>1
  <2>. QED BY <2>1, <1>2, ChangeStep DEF UpsertWithAudit
<1>3. ASSUME NEW m \in Aliases, DeleteWithAudit(m)
      PROVE  SelectorInv'
  <2>1. [table EXCEPT ![m] = NoOverride] \in [Aliases -> Overrides \cup {NoOverride}]
    BY <1>1
  <2>. QED BY <2>1, <1>3, ChangeStep DEF DeleteWithAudit
<1>4. ASSUME NEW c \in Callers, NEW r \in Requests, Pick(c, r)
      PROVE  SelectorInv'
  BY <1>4, PickStep
<1>5. ASSUME NEW c \in Callers, ListCached(c) \/ ListExpired(c)
      PROVE  SelectorInv'
  BY <1>5, ListCachedStep, ListExpiredStep
<1>6. ASSUME NEW c \in Callers, Refresh(c)
      PROVE  SelectorInv'
  BY <1>6, QueryAnsweredStep, QueryFailsStep, InstallStep DEF Refresh
<1>7. ASSUME NEW c \in Callers, ProviderForModel(c)
      PROVE  SelectorInv'
  BY <1>7, NoOverridesStep, NotAllowedStep, ScanRowStep DEF ProviderForModel
<1>8. ASSUME NEW c \in Callers, Return(c)
      PROVE  SelectorInv'
  BY <1>8, ReturnStep
<1>9. CASE Tick
  BY <1>9, TickStep
<1>10. CASE UNCHANGED vars
  BY <1>10, SelectorStutter
<1>. QED BY <1>2, <1>3, <1>4, <1>5, <1>6, <1>7, <1>8, <1>9, <1>10 DEF Next, Administer

THEOREM SelectorInvariant == Spec => []SelectorInv
<1>1. Init => SelectorInv
  BY SelectorInit
<1>2. SelectorInv /\ [Next]_vars => SelectorInv'
  BY SelectorNext
<1>. QED BY <1>1, <1>2, PTL DEF Spec

(* listOverrides and append keep every slice within the capacity of its    *)
(* array, and an array is left whenever the list outgrows the one in use:  *)
(* no scan reads a row beyond the array it was handed.                     *)
THEOREM SelectorTypeCorrect == Spec => []TypeOK
<1>1. SelectorInv => TypeOK
  BY DEF SelectorInv
<1>. QED BY <1>1, SelectorInvariant, PTL

(* A Pick whose array no refresh overwrote answers as model_overrides did  *)
(* at most overrideCacheTTL and one refresh before Pick had its list, for  *)
(* any number of callers, models and providers.                            *)
THEOREM DecisionsAreRecent == Spec => []DecisionIsRecent
<1>1. SelectorInv => DecisionIsRecent
  BY DEF SelectorInv, CallerInv, AnswerRecent, DecisionIsRecent
<1>. QED BY <1>1, SelectorInvariant, PTL
=============================================================================
