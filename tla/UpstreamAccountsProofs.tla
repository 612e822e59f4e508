----------------------- MODULE UpstreamAccountsProofs ------------------------
(***************************************************************************)
(* Proofs about the administration of upstream accounts, for any number of *)
(* replicas, goroutines, emails and keys in a batch.  The invariants are   *)
(* proved one on top of the other: the types, LineageInv and the audit     *)
(* log, SeenInv, TokenInv and CountInv.                                    *)
(***************************************************************************)
EXTENDS UpstreamAccounts, FiniteSetTheorems, TLAPS

(* Rows: of OAuth accounts, of provider keys, and none. *)
LEMMA RowFacts ==
  /\ NoRow \in Row /\ ~IsOAuth(NoRow)
  /\ \A row \in OAuthRow : row \in Row /\ IsOAuth(row) /\ row # NoRow
  /\ \A row \in Row : IsOAuth(row) => row \in OAuthRow
  /\ \A row \in OAuthRow : row.email \in Emails /\ row.token \in Nat /\ row.token <= MaxTokens
  /\ \A row \in OAuthRow : Fold[row.email] \in Identities
  <1> USE AccountsAssumption
  <1>1. NoRow \in Row /\ ~IsOAuth(NoRow)
    BY DEF NoRow, Row, IsOAuth
  <1>2. \A row \in OAuthRow : row.email \in Emails /\ row.token \in Nat /\ row.token <= MaxTokens
    BY DEF OAuthRow
  <1>3. \A row \in OAuthRow : row \in Row /\ IsOAuth(row) /\ row # NoRow
    BY <1>1, <1>2 DEF Row, IsOAuth
  <1>4. \A row \in Row : IsOAuth(row) => row \in OAuthRow
    BY DEF Row, IsOAuth
  <1>5. \A row \in OAuthRow : Fold[row.email] \in Identities
    BY <1>2 DEF Identities
  <1> QED
    BY <1>1, <1>2, <1>3, <1>4, <1>5

(* The row of a provider key. *)
LEMMA KeyFacts ==
  ASSUME NEW i \in 1..Len(Batch)
  PROVE  LET row == [email |-> NoEmail, token |-> Batch[i]]
         IN  row \in Row /\ ~IsOAuth(row) /\ row # NoRow
  <1>1. Batch[i] \in Secrets /\ Batch[i] # "none"
    BY AccountsAssumption DEF Secrets
  <1> QED
    BY <1>1 DEF Row, IsOAuth, NoRow

(* A goroutine that does nothing. *)
LEMMA NoWorkFacts == NoWork \in Work /\ NoWork.pc = "idle"
  BY RowFacts DEF NoWork, Work

(* The table and the memory after one row was written or deleted. *)
Writes(r, id, row, answered) ==
    /\ rows' \in [Ids -> Row] /\ revision' \in Nat /\ memory' \in [Replicas -> [Ids -> Row]]
    /\ rows'[id] = row /\ \A x \in Ids : x # id => rows'[x] = rows[x]
    /\ \A q \in Replicas, x \in Ids :
            memory'[q][x] = IF q = r /\ x = id /\ answered THEN row ELSE memory[q][x]

(* What every save does to the table, the memory and the audit log. *)
Logs(id, action) ==
    /\ audit' \in [Audited -> SUBSET Ids]
    /\ \A a \in Audited : audit'[a] = IF a = action THEN audit[a] \cup {id} ELSE audit[a]

LEMMA SaveFacts ==
  ASSUME TypeOK, NEW r \in Replicas, NEW id \in Ids, NEW row \in Row,
         NEW action \in Audited \cup {"none"}, NEW answered \in BOOLEAN,
         Save(r, id, row, action, answered)
  PROVE  Writes(r, id, row, answered) /\ Unique(id, row) /\ Logs(id, action)
  <1> USE DEF TypeOK
  <1>1. rows' = [rows EXCEPT ![id] = row] /\ Unique(id, row) /\ revision' \in Nat
    BY DEF Save, Upsert
  <1>2. rows' \in [Ids -> Row] /\ rows'[id] = row /\ \A x \in Ids : x # id => rows'[x] = rows[x]
    BY <1>1
  <1>3. audit' = [a \in Audited |-> IF a = action THEN audit[a] \cup {id} ELSE audit[a]]
    BY DEF Save
  <1>4. Logs(id, action)
    BY <1>3 DEF Logs
  <1>5. memory' = IF answered THEN [memory EXCEPT ![r][id] = row] ELSE memory
    BY DEF Save
  <1>6. [memory[r] EXCEPT ![id] = row] \in [Ids -> Row]
    OBVIOUS
  <1>7. memory' \in [Replicas -> [Ids -> Row]]
    BY <1>5, <1>6
  <1>8. \A q \in Replicas, x \in Ids :
            memory'[q][x] = IF q = r /\ x = id /\ answered THEN row ELSE memory[q][x]
    BY <1>5
  <1> QED
    BY <1>1, <1>2, <1>4, <1>7, <1>8 DEF Writes

(* A registration adds one account to those ever registered. *)
LEMMA BirthFacts ==
  ASSUME TypeOK, NEW w \in Workers, NEW row \in Row, row # NoRow, NEW seen \in SUBSET Ids,
         NEW answered \in BOOLEAN, Register(w, row, seen, answered)
  PROVE  \E id \in Ids \ Born :
            /\ Save(Host[w], id, row, "created", answered)
            /\ birth' \in [Ids -> [row : Row, seen : SUBSET Ids]]
            /\ birth'[id] = [row |-> row, seen |-> seen]
            /\ \A x \in Ids : x # id => birth'[x] = birth[x]
            /\ Born' = Born \cup {id}
  <1>1. PICK id \in Ids \ Born : /\ Save(Host[w], id, row, "created", answered)
                                 /\ birth' = [birth EXCEPT ![id] = [row |-> row, seen |-> seen]]
    BY DEF Register
  <1>2. [row |-> row, seen |-> seen] \in [row : Row, seen : SUBSET Ids]
    OBVIOUS
  <1>3. /\ birth' \in [Ids -> [row : Row, seen : SUBSET Ids]]
        /\ birth'[id] = [row |-> row, seen |-> seen]
        /\ \A x \in Ids : x # id => birth'[x] = birth[x]
    BY <1>1, <1>2 DEF TypeOK
  <1>4. birth'[id] # NoBirth
    BY <1>3 DEF NoBirth
  <1>5. Born' = Born \cup {id}
    BY <1>3, <1>4 DEF Born
  <1> QED
    BY <1>1, <1>3, <1>5

(* One goroutine changes its record, the others keep theirs. *)
LEMMA WorkFacts ==
  ASSUME TypeOK, NEW w \in Workers, NEW record \in Work, work' = [work EXCEPT ![w] = record]
  PROVE  /\ work' \in [Workers -> Work] /\ work'[w] = record
         /\ \A v \in Workers : v # w => work'[v] = work[v]
  BY DEF TypeOK

(* The record after Refreshed. *)
LEMMA RefreshedFacts ==
  ASSUME TypeOK, LineageInv, NEW w \in Workers, Refreshed(w)
  PROVE  /\ work' \in [Workers -> Work]
         /\ work'[w].pc = "update" /\ work'[w].id = work[w].id
         /\ work'[w].row \in OAuthRow /\ work[w].row \in OAuthRow
         /\ work'[w].row.email = work[w].row.email
         /\ work'[w].row.token = work[w].row.token + 1
         /\ \A v \in Workers : v # w => work'[v] = work[v]
         /\ Identity(w) \in Identities
         /\ work[w].pc = "refresh" /\ work[w].row.token = issued[Identity(w)]
         /\ issued' \in [Identities -> 0..MaxTokens]
         /\ \A f \in Identities : issued'[f] = IF f = Identity(w) THEN issued[f] + 1 ELSE issued[f]
  <1>1. work[w] \in Work /\ work[w].pc = "refresh"
    BY DEF TypeOK, Refreshed, Rotate
  <1>2. work[w].row \in OAuthRow
    BY <1>1, RowFacts DEF LineageInv, Work
  <1>3. Identity(w) \in Identities
    BY <1>2, RowFacts DEF Identity
  <1>4. /\ issued' = [issued EXCEPT ![Identity(w)] = @ + 1] /\ issued[Identity(w)] < MaxTokens
        /\ work[w].row.token = issued[Identity(w)]
    BY DEF Refreshed, Rotate
  <1>a. MaxTokens \in Nat
    BY AccountsAssumption
  <1>b. issued[Identity(w)] \in 0..MaxTokens /\ issued[Identity(w)] + 1 \in 0..MaxTokens
    BY <1>3, <1>4, <1>a DEF TypeOK
  <1>5. issued' \in [Identities -> 0..MaxTokens]
    BY <1>3, <1>4, <1>b DEF TypeOK
  <1>6. \A f \in Identities : issued'[f] = IF f = Identity(w) THEN issued[f] + 1 ELSE issued[f]
    BY <1>3, <1>4 DEF TypeOK
  <1>7. work[w].row.token + 1 \in 0..MaxTokens
    BY <1>4, <1>b
  <1> DEFINE row == [work[w].row EXCEPT !.token = @ + 1]
  <1>8. row \in OAuthRow /\ row.email = work[w].row.email /\ row.token = work[w].row.token + 1
    BY <1>2, <1>7 DEF OAuthRow
  <1> HIDE DEF row
  <1> DEFINE record == [work[w] EXCEPT !.pc = "update", !.row = row]
  <1>9. work' = [work EXCEPT ![w] = record]
    BY DEF Refreshed, row
  <1>10. row \in Row
    BY <1>8, RowFacts
  <1>11. record \in Work
    BY <1>1, <1>10 DEF Work
  <1>12. record.pc = "update" /\ record.id = work[w].id /\ record.row = row
    BY <1>1 DEF Work
  <1> HIDE DEF record
  <1> QED
    BY <1>1, <1>2, <1>3, <1>4, <1>5, <1>6, <1>8, <1>9, <1>11, <1>12, WorkFacts

(* The registration of one key, and the next turn of the loop. *)
KeyTurn(w, answered) ==
    LET i == work[w].index
        row == [email |-> NoEmail, token |-> Batch[i]]
    IN  /\ work[w].pc = "batch" /\ i \in 1..Len(Batch) /\ row \in Row /\ row # NoRow
        /\ Register(w, row, {}, answered)
        /\ work' \in [Workers -> Work]
        /\ \/ /\ work'[w] = NoWork /\ (i = Len(Batch) \/ ~answered)
              /\ acknowledged' = IF i = Len(Batch) /\ answered THEN acknowledged + 1
                                 ELSE acknowledged
           \/ /\ work'[w].pc = "batch" /\ work'[w].index = i + 1 /\ i + 1 \in 1..Len(Batch)
              /\ acknowledged' = acknowledged
        /\ \A v \in Workers : v # w => work'[v] = work[v]
        /\ acknowledged' \in Nat
        /\ UNCHANGED <<issued, broken, disclosed, submitted>>

LEMMA KeyRegisterFacts ==
  ASSUME TypeOK, LineageInv, NEW w \in Workers, NEW answered \in BOOLEAN, KeyRegister(w, answered)
  PROVE  KeyTurn(w, answered)
  <1> DEFINE i == work[w].index
  <1> DEFINE row == [email |-> NoEmail, token |-> Batch[i]]
  <1>1. work[w].pc = "batch" /\ work[w] \in Work /\ i \in 1..Len(Batch)
    BY DEF KeyRegister, LineageInv, TypeOK
  <1>2. row \in Row /\ row # NoRow
    BY <1>1, KeyFacts
  <1>3. Register(w, row, {}, answered) /\ UNCHANGED <<issued, broken, disclosed, submitted>>
    BY DEF KeyRegister
  <1>4. acknowledged' = IF i = Len(Batch) /\ answered THEN acknowledged + 1 ELSE acknowledged
    BY DEF KeyRegister
  <1>5. CASE i = Len(Batch) \/ ~answered
    <2>1. work' = [work EXCEPT ![w] = NoWork]
      BY <1>5 DEF KeyRegister, Finish
    <2> QED BY <1>1, <1>2, <1>3, <1>4, <1>5, <2>1, WorkFacts, NoWorkFacts DEF TypeOK, KeyTurn
  <1>6. CASE ~(i = Len(Batch) \/ ~answered)
    <2> DEFINE record == [work[w] EXCEPT !.index = @ + 1]
    <2>1. work' = [work EXCEPT ![w].index = @ + 1]
      BY <1>6 DEF KeyRegister
    <2>2. work' = [work EXCEPT ![w] = record]
      BY <2>1 DEF TypeOK
    <2>3. i + 1 \in 1..Len(Batch)
      BY <1>1, <1>6, AccountsAssumption
    <2>4. record \in Work /\ record.pc = "batch" /\ record.index = i + 1
      BY <1>1 DEF Work
    <2> HIDE DEF record
    <2>5. /\ work' \in [Workers -> Work] /\ work'[w].pc = "batch" /\ work'[w].index = i + 1
          /\ \A v \in Workers : v # w => work'[v] = work[v]
      BY <2>2, <2>4, WorkFacts
    <2> QED BY <1>1, <1>2, <1>3, <1>4, <1>6, <2>3, <2>5 DEF TypeOK, KeyTurn
  <1> QED
    BY <1>5, <1>6

(* The records with which goroutines begin. *)
LEMMA BeginFacts ==
  ASSUME TypeOK, NEW w \in Workers
  PROVE  /\ \A row \in OAuthRow : Import(w, row) =>
                /\ work' \in [Workers -> Work] /\ work'[w].pc = "import" /\ work'[w].row = row
                /\ work'[w].seen = OAuthAccounts(Host[w])
                /\ \A v \in Workers : v # w => work'[v] = work[v]
         /\ CreateKeys(w) =>
                /\ work' \in [Workers -> Work] /\ work'[w].pc = "batch" /\ work'[w].index = 1
                /\ \A v \in Workers : v # w => work'[v] = work[v]
         /\ \A id \in Ids, audited \in BOOLEAN : Refresh(w, id, audited) =>
                /\ work' \in [Workers -> Work] /\ work'[w].pc = "refresh" /\ work'[w].id = id
                /\ work'[w].row = memory[Host[w]][id]
                /\ \A v \in Workers : v # w => work'[v] = work[v]
         /\ \A id \in Ids : Export(w, id) =>
                /\ work' \in [Workers -> Work] /\ work'[w].pc = "export" /\ work'[w].id = id
                /\ \A v \in Workers : v # w => work'[v] = work[v]
  <1>h. Host[w] \in Replicas
    BY AccountsAssumption
  <1>n. NoWork \in Work
    BY NoWorkFacts
  <1>i. Ids \subseteq Nat
    BY DEF Ids
  <1>1. ASSUME NEW row \in OAuthRow, Import(w, row)
        PROVE  /\ work' \in [Workers -> Work] /\ work'[w].pc = "import" /\ work'[w].row = row
               /\ work'[w].seen = OAuthAccounts(Host[w])
               /\ \A v \in Workers : v # w => work'[v] = work[v]
    <2> DEFINE record == [NoWork EXCEPT !.pc = "import", !.row = row, !.seen = OAuthAccounts(Host[w])]
    <2>1. work' = [work EXCEPT ![w] = record]
      BY <1>1 DEF Import, Start
    <2>2. OAuthAccounts(Host[w]) \subseteq Ids /\ row \in Row
      BY RowFacts DEF OAuthAccounts, Present
    <2>3. /\ record \in Work /\ record.pc = "import" /\ record.row = row
          /\ record.seen = OAuthAccounts(Host[w])
      BY <1>n, <2>2 DEF Work
    <2> HIDE DEF record
    <2> QED BY <2>1, <2>3, WorkFacts
  <1>2. ASSUME CreateKeys(w)
        PROVE  /\ work' \in [Workers -> Work] /\ work'[w].pc = "batch" /\ work'[w].index = 1
               /\ \A v \in Workers : v # w => work'[v] = work[v]
    <2> DEFINE record == [NoWork EXCEPT !.pc = "batch"]
    <2>1. work' = [work EXCEPT ![w] = record]
      BY <1>2 DEF CreateKeys, Start
    <2>2. record \in Work /\ record.pc = "batch" /\ record.index = NoWork.index
      BY <1>n DEF Work
    <2>3. NoWork.index = 1
      BY DEF NoWork
    <2> HIDE DEF record
    <2> QED BY <2>1, <2>2, <2>3, WorkFacts
  <1>3. ASSUME NEW id \in Ids, NEW audited \in BOOLEAN, Refresh(w, id, audited)
        PROVE  /\ work' \in [Workers -> Work] /\ work'[w].pc = "refresh" /\ work'[w].id = id
               /\ work'[w].row = memory[Host[w]][id]
               /\ \A v \in Workers : v # w => work'[v] = work[v]
    <2> DEFINE record == [NoWork EXCEPT !.pc = "refresh", !.id = id, !.row = memory[Host[w]][id],
                                        !.audited = audited]
    <2>1. work' = [work EXCEPT ![w] = record]
      BY <1>3 DEF Refresh, Start
    <2>2. memory[Host[w]][id] \in Row
      BY <1>h DEF TypeOK
    <2>3. /\ record \in Work /\ record.pc = "refresh" /\ record.id = id
          /\ record.row = memory[Host[w]][id]
      BY <1>i, <1>n, <2>2 DEF Work
    <2> HIDE DEF record
    <2> QED BY <2>1, <2>3, WorkFacts
  <1>4. ASSUME NEW id \in Ids, Export(w, id)
        PROVE  /\ work' \in [Workers -> Work] /\ work'[w].pc = "export" /\ work'[w].id = id
               /\ \A v \in Workers : v # w => work'[v] = work[v]
    <2> DEFINE record == [NoWork EXCEPT !.pc = "export", !.id = id]
    <2>1. work' = [work EXCEPT ![w] = record]
      BY <1>4 DEF Export, Start
    <2>2. record \in Work /\ record.pc = "export" /\ record.id = id
      BY <1>i, <1>n DEF Work
    <2> HIDE DEF record
    <2> QED BY <2>1, <2>2, WorkFacts
  <1> QED
    BY <1>1, <1>2, <1>3, <1>4

(* A goroutine that ends, in whatever way. *)
Ends(w) ==
    ImportFails(w) \/ KeyFails(w) \/ RefreshFails(w) \/ RefreshLost(w) \/ UpdateFails(w)
        \/ ExportFails(w) \/ Disclose(w)

LEMMA EndFacts ==
  ASSUME TypeOK, LineageInv, NEW w \in Workers, Ends(w)
  PROVE  /\ work' \in [Workers -> Work] /\ work'[w] = NoWork
         /\ \A v \in Workers : v # w => work'[v] = work[v]
         /\ issued' \in [Identities -> 0..MaxTokens]
         /\ \A f \in Identities : f \notin broken' => issued'[f] = issued[f]
         /\ broken \subseteq broken' /\ broken' \subseteq Identities
         /\ work[w].pc = "update" => Identity(w) \in broken'
         /\ disclosed' = disclosed \/ (work[w].pc = "export" /\ disclosed' = disclosed \cup {work[w].id})
         /\ UNCHANGED <<dbVars, birth, batchVars>>
  <1>1. work' = [work EXCEPT ![w] = NoWork]
    BY DEF Ends, ImportFails, KeyFails, RefreshFails, RefreshLost, UpdateFails, ExportFails,
           Disclose, Finish
  <1>2. work[w].pc \in {"refresh", "update"} => Identity(w) \in Identities
    <2>1. work[w].pc \in {"refresh", "update"} => work[w].row \in OAuthRow
      BY RowFacts DEF LineageInv, TypeOK, Work
    <2> QED BY <2>1, RowFacts DEF Identity
  <1>3. UNCHANGED <<dbVars, birth, batchVars>>
    BY DEF Ends, ImportFails, KeyFails, RefreshFails, RefreshLost, UpdateFails, ExportFails,
           Disclose, ghosts
  <1>4. CASE RefreshLost(w)
    <2>1. issued' = [issued EXCEPT ![Identity(w)] = @ + 1] /\ issued[Identity(w)] < MaxTokens
      BY <1>4 DEF RefreshLost, Rotate
    <2>2. /\ work[w].pc = "refresh" /\ broken' = broken \cup {Identity(w)}
          /\ disclosed' = disclosed
      BY <1>4 DEF RefreshLost, Rotate
    <2>3. MaxTokens \in Nat
      BY AccountsAssumption
    <2>4. issued[Identity(w)] + 1 \in 0..MaxTokens
      BY <1>2, <2>1, <2>2, <2>3 DEF TypeOK
    <2>5. issued' \in [Identities -> 0..MaxTokens]
      BY <1>2, <2>1, <2>2, <2>4 DEF TypeOK
    <2>6. \A f \in Identities : f # Identity(w) => issued'[f] = issued[f]
      BY <2>1 DEF TypeOK
    <2>7. broken \subseteq broken' /\ broken' \subseteq Identities
      BY <1>2, <2>2 DEF TypeOK
    <2> QED BY <1>1, <1>3, <2>2, <2>5, <2>6, <2>7, WorkFacts, NoWorkFacts
  <1>5. CASE ~RefreshLost(w)
    <2>1. issued' = issued
      BY <1>5 DEF Ends, ImportFails, KeyFails, RefreshFails, UpdateFails, ExportFails, Disclose
    <2>2. /\ broken' = broken \/ (work[w].pc = "update" /\ broken' = broken \cup {Identity(w)})
          /\ work[w].pc = "update" => Identity(w) \in broken'
          /\ disclosed' = disclosed \/ (work[w].pc = "export" /\ disclosed' = disclosed \cup {work[w].id})
      BY <1>5 DEF Ends, ImportFails, KeyFails, RefreshFails, UpdateFails, ExportFails, Disclose, ghosts
    <2>3. broken \subseteq broken' /\ broken' \subseteq Identities
      BY <1>2, <2>2 DEF TypeOK
    <2>4. issued' \in [Identities -> 0..MaxTokens]
      BY <2>1 DEF TypeOK
    <2> QED BY <1>1, <1>3, <2>1, <2>2, <2>3, <2>4, WorkFacts, NoWorkFacts
  <1> QED
    BY <1>4, <1>5

LEMMA UpdateFacts ==
  ASSUME TypeOK, LineageInv, NEW w \in Workers, NEW answered \in BOOLEAN, Update(w, answered)
  PROVE  LET id == work[w].id
         IN  /\ id \in Born /\ id \in Ids /\ work[w].pc = "update" /\ work[w].row \in OAuthRow
             /\ Writes(Host[w], id, work[w].row, answered) /\ Unique(id, work[w].row)
             /\ audit' \in [Audited -> SUBSET Ids]
             /\ \A a \in Audited \ {"tested"} : audit'[a] = audit[a]
             /\ audit'["tested"] \subseteq audit["tested"] \cup {id}
             /\ work' \in [Workers -> Work] /\ work'[w] = NoWork
             /\ \A v \in Workers : v # w => work'[v] = work[v]
             /\ UNCHANGED <<issued, ghosts, batchVars>>
  <1> DEFINE id == work[w].id
  <1> DEFINE action == IF work[w].audited THEN "tested" ELSE "none"
  <1>1. work[w].pc = "update" /\ work[w] \in Work
    BY DEF Update, TypeOK
  <1>2. id \in Born /\ id \in Ids /\ work[w].row \in OAuthRow /\ work[w].row \in Row
    BY <1>1, RowFacts DEF LineageInv, Born, Work
  <1>3. Save(Host[w], id, work[w].row, action, answered) /\ action \in Audited \cup {"none"}
    BY DEF Update, Audited
  <1>4. Host[w] \in Replicas
    BY AccountsAssumption
  <1> HIDE DEF action
  <1>5. Writes(Host[w], id, work[w].row, answered) /\ Unique(id, work[w].row) /\ Logs(id, action)
    BY <1>2, <1>3, <1>4, SaveFacts
  <1>6. audit' \in [Audited -> SUBSET Ids]
    BY <1>5 DEF Logs
  <1>7. /\ \A a \in Audited \ {"tested"} : audit'[a] = audit[a]
        /\ audit'["tested"] \subseteq audit["tested"] \cup {id}
    <2>1. action \in {"tested", "none"} /\ "none" \notin Audited /\ "tested" \in Audited
      BY DEF action, Audited
    <2> QED BY <1>5, <2>1 DEF Logs
  <1>8. work' = [work EXCEPT ![w] = NoWork] /\ UNCHANGED <<issued, ghosts, batchVars>>
    BY DEF Update, Finish
  <1> QED
    BY <1>1, <1>2, <1>5, <1>6, <1>7, <1>8, WorkFacts, NoWorkFacts

LEMMA PersistFacts ==
  ASSUME TypeOK, NEW r \in Replicas, NEW id \in Ids, Persist(r, id)
  PROVE  LET row == memory[r][id]
         IN  /\ row \in Row /\ row # NoRow
             /\ Writes(r, id, row, TRUE) /\ Unique(id, row) /\ memory' = memory
             /\ audit' = audit
             /\ broken' = IF IsOAuth(row) /\ rows[id] # row THEN broken \cup {Fold[row.email]}
                          ELSE broken
             /\ broken' \subseteq Identities
             /\ UNCHANGED <<issued, work, birth, disclosed, batchVars>>
  <1> DEFINE row == memory[r][id]
  <1>1. row \in Row /\ row # NoRow
    BY DEF TypeOK, Persist
  <1>2. Save(r, id, row, "none", TRUE)
    BY DEF Persist
  <1>3. Writes(r, id, row, TRUE) /\ Unique(id, row) /\ Logs(id, "none")
    BY <1>1, <1>2, SaveFacts
  <1>5. memory' = memory
    <2>1. memory' \in [Replicas -> [Ids -> Row]] /\ \A q \in Replicas : memory'[q] = memory[q]
      BY <1>3 DEF TypeOK, Writes
    <2> QED BY <2>1 DEF TypeOK
  <1>6. audit' = audit
    <2>1. "none" \notin Audited
      BY DEF Audited
    <2> QED BY <1>3, <2>1 DEF TypeOK, Logs
  <1>7. /\ broken' = IF IsOAuth(row) /\ rows[id] # row THEN broken \cup {Fold[row.email]} ELSE broken
        /\ UNCHANGED <<issued, work, birth, disclosed, batchVars>>
    BY DEF Persist
  <1>8. broken' \subseteq Identities
    BY <1>1, <1>7, RowFacts DEF TypeOK
  <1> QED
    BY <1>1, <1>3, <1>5, <1>6, <1>7, <1>8

LEMMA DeleteFacts ==
  ASSUME TypeOK, NEW r \in Replicas, NEW id \in Ids, NEW answered \in BOOLEAN, Delete(r, id, answered)
  PROVE  /\ Writes(r, id, NoRow, answered)
         /\ UNCHANGED <<audit, issued, work, ghosts, batchVars>>
  <1>1. /\ rows' = [rows EXCEPT ![id] = NoRow] /\ revision' = revision + 1
        /\ memory' = IF answered THEN [memory EXCEPT ![r][id] = NoRow] ELSE memory
        /\ UNCHANGED <<audit, issued, work, ghosts, batchVars>>
    BY DEF Delete
  <1>2. [memory[r] EXCEPT ![id] = NoRow] \in [Ids -> Row] /\ NoRow \in Row
    BY RowFacts DEF TypeOK
  <1>3. memory' \in [Replicas -> [Ids -> Row]]
    BY <1>1, <1>2 DEF TypeOK
  <1>4. \A q \in Replicas, x \in Ids :
            memory'[q][x] = IF q = r /\ x = id /\ answered THEN NoRow ELSE memory[q][x]
    BY <1>1 DEF TypeOK
  <1> QED
    BY <1>1, <1>2, <1>3, <1>4 DEF Writes, TypeOK

LEMMA RestartFacts ==
  ASSUME TypeOK, LineageInv, NEW r \in Replicas, Restart(r)
  PROVE  /\ memory' \in [Replicas -> [Ids -> Row]]
         /\ \A q \in Replicas : memory'[q] = IF q = r THEN rows ELSE memory[q]
         /\ work' \in [Workers -> Work]
         /\ \A w \in Workers : work'[w] = work[w] \/ work'[w] = NoWork
         /\ broken \subseteq broken' /\ broken' \subseteq Identities
         /\ \A w \in Workers : work[w].pc = "update" /\ work'[w] # work[w] => Identity(w) \in broken'
         /\ UNCHANGED <<rows, revision, audit, issued, birth, disclosed, batchVars>>
  <1> DEFINE gone == {w \in Workers : Host[w] = r}
  <1>1. /\ memory' = [memory EXCEPT ![r] = rows]
        /\ work' = [w \in Workers |-> IF w \in gone THEN NoWork ELSE work[w]]
        /\ broken' = broken \cup {Identity(w) : w \in {v \in gone : work[v].pc = "update"}}
        /\ UNCHANGED <<rows, revision, audit, issued, birth, disclosed, batchVars>>
    BY DEF Restart
  <1>2. \A w \in Workers : work[w].pc = "update" => Identity(w) \in Identities
    <2>1. \A w \in Workers : work[w].pc = "update" => work[w].row \in OAuthRow
      BY RowFacts DEF LineageInv, TypeOK, Work
    <2> QED BY <2>1, RowFacts DEF Identity
  <1>3. broken' \subseteq Identities
    BY <1>1, <1>2 DEF TypeOK
  <1> QED
    BY <1>1, <1>3, NoWorkFacts DEF TypeOK

LEMMA ImportRegisterFacts ==
  ASSUME TypeOK, SeenInv, NEW w \in Workers, NEW answered \in BOOLEAN, ImportRegister(w, answered)
  PROVE  /\ work[w].pc = "import" /\ work[w].row \in OAuthRow /\ work[w].seen \in SUBSET Ids
         /\ Register(w, work[w].row, work[w].seen, answered)
         /\ work' \in [Workers -> Work] /\ work'[w] = NoWork
         /\ \A v \in Workers : v # w => work'[v] = work[v]
         /\ UNCHANGED <<issued, broken, disclosed, batchVars>>
  <1>1. work[w].pc = "import" /\ work[w] \in Work
    BY DEF ImportRegister, TypeOK
  <1>2. work[w].row \in OAuthRow /\ work[w].seen \in SUBSET Ids
    BY <1>1, RowFacts DEF SeenInv, Work
  <1>3. work' = [work EXCEPT ![w] = NoWork]
    BY DEF ImportRegister, Finish
  <1> QED
    BY <1>1, <1>2, <1>3, WorkFacts, NoWorkFacts DEF ImportRegister

(* A registration, of whatever row. *)
Registers(r, id, row, seen, answered) ==
    /\ Writes(r, id, row, answered) /\ Unique(id, row)
    /\ audit' \in [Audited -> SUBSET Ids]
    /\ audit'["created"] = audit["created"] \cup {id}
    /\ audit'["tested"] = audit["tested"] /\ audit'["exported"] = audit["exported"]
    /\ birth' \in [Ids -> [row : Row, seen : SUBSET Ids]]
    /\ birth'[id] = [row |-> row, seen |-> seen]
    /\ \A x \in Ids : x # id => birth'[x] = birth[x]
    /\ Born' = Born \cup {id}

LEMMA RegisterFacts ==
  ASSUME TypeOK, NEW w \in Workers, NEW row \in Row, row # NoRow, NEW seen \in SUBSET Ids,
         NEW answered \in BOOLEAN, Register(w, row, seen, answered)
  PROVE  \E id \in Ids \ Born : Registers(Host[w], id, row, seen, answered)
  <1>1. PICK id \in Ids \ Born :
            /\ Save(Host[w], id, row, "created", answered)
            /\ birth' \in [Ids -> [row : Row, seen : SUBSET Ids]]
            /\ birth'[id] = [row |-> row, seen |-> seen]
            /\ \A x \in Ids : x # id => birth'[x] = birth[x]
            /\ Born' = Born \cup {id}
    BY BirthFacts
  <1>2. Host[w] \in Replicas /\ "created" \in Audited
    BY AccountsAssumption DEF Audited
  <1>3. Writes(Host[w], id, row, answered) /\ Unique(id, row) /\ Logs(id, "created")
    BY <1>1, <1>2, SaveFacts
  <1>4. audit' \in [Audited -> SUBSET Ids]
    BY <1>3 DEF Logs
  <1>5. /\ audit'["created"] = audit["created"] \cup {id}
        /\ audit'["tested"] = audit["tested"] /\ audit'["exported"] = audit["exported"]
    BY <1>3 DEF Audited, Logs
  <1> QED
    BY <1>1, <1>3, <1>4, <1>5 DEF Registers

-----------------------------------------------------------------------------
(* Every step keeps the types. *)
LEMMA AccountTypes == TypeOK /\ LineageInv /\ SeenInv /\ [Next]_vars => TypeOK'
  <1> SUFFICES ASSUME TypeOK, LineageInv, SeenInv, [Next]_vars PROVE TypeOK'
    OBVIOUS
  <1> USE DEF dbVars, ghosts, batchVars
  <1>1. ASSUME NEW w \in Workers, NEW row \in OAuthRow, Import(w, row) PROVE TypeOK'
    <2>1. work' \in [Workers -> Work]
      BY <1>1, BeginFacts
    <2>2. broken' \subseteq Identities
      BY <1>1, RowFacts DEF Import, TypeOK
    <2> QED BY <1>1, <2>1, <2>2 DEF Import, TypeOK
  <1>2. ASSUME NEW w \in Workers, CreateKeys(w) PROVE TypeOK'
    <2>1. work' \in [Workers -> Work]
      BY <1>2, BeginFacts
    <2> QED BY <1>2, <2>1 DEF CreateKeys, TypeOK
  <1>3. ASSUME NEW w \in Workers, NEW id \in Ids, NEW audited \in BOOLEAN, Refresh(w, id, audited)
        PROVE  TypeOK'
    <2>1. work' \in [Workers -> Work]
      BY <1>3, BeginFacts
    <2> QED BY <1>3, <2>1 DEF Refresh, TypeOK
  <1>4. ASSUME NEW w \in Workers, NEW id \in Ids, Export(w, id) PROVE TypeOK'
    <2>1. work' \in [Workers -> Work]
      BY <1>4, BeginFacts
    <2>2. audit' \in [Audited -> SUBSET Ids]
      BY <1>4 DEF Export, TypeOK, Audited
    <2> QED BY <1>4, <2>1, <2>2 DEF Export, TypeOK
  <1>5. ASSUME NEW w \in Workers, Ends(w) PROVE TypeOK'
    <2>1. /\ work' \in [Workers -> Work] /\ issued' \in [Identities -> 0..MaxTokens]
          /\ broken' \subseteq Identities
          /\ disclosed' = disclosed \/ (work[w].pc = "export" /\ disclosed' = disclosed \cup {work[w].id})
          /\ UNCHANGED <<dbVars, birth, batchVars>>
      BY <1>5, EndFacts
    <2>2. disclosed' \subseteq Ids
      BY <2>1 DEF TypeOK, LineageInv, Audited
    <2> QED BY <2>1, <2>2 DEF TypeOK
  <1>6. ASSUME NEW w \in Workers, Refreshed(w) PROVE TypeOK'
    <2>1. work' \in [Workers -> Work] /\ issued' \in [Identities -> 0..MaxTokens]
      BY <1>6, RefreshedFacts
    <2> QED BY <1>6, <2>1 DEF Refreshed, TypeOK
  <1>7. ASSUME NEW w \in Workers, NEW answered \in BOOLEAN, ImportRegister(w, answered) PROVE TypeOK'
    <2>1. /\ work[w].row \in OAuthRow /\ work[w].seen \in SUBSET Ids
          /\ Register(w, work[w].row, work[w].seen, answered)
          /\ work' \in [Workers -> Work] /\ UNCHANGED <<issued, broken, disclosed, batchVars>>
      BY <1>7, ImportRegisterFacts
    <2>2. work[w].row \in Row /\ work[w].row # NoRow
      BY <2>1, RowFacts
    <2>3. PICK id \in Ids \ Born : Registers(Host[w], id, work[w].row, work[w].seen, answered)
      BY <2>1, <2>2, RegisterFacts
    <2> QED BY <2>1, <2>3 DEF Registers, Writes, TypeOK
  <1>8. ASSUME NEW w \in Workers, NEW answered \in BOOLEAN, KeyRegister(w, answered) PROVE TypeOK'
    <2> DEFINE row == [email |-> NoEmail, token |-> Batch[work[w].index]]
    <2>1. /\ row \in Row /\ row # NoRow /\ Register(w, row, {}, answered)
          /\ work' \in [Workers -> Work] /\ acknowledged' \in Nat
          /\ UNCHANGED <<issued, broken, disclosed, submitted>>
      BY <1>8, KeyRegisterFacts DEF KeyTurn
    <2> HIDE DEF row
    <2>2. {} \in SUBSET Ids
      OBVIOUS
    <2>3. PICK id \in Ids \ Born : Registers(Host[w], id, row, {}, answered)
      BY <2>1, <2>2, RegisterFacts
    <2> QED BY <2>1, <2>3 DEF Registers, Writes, TypeOK
  <1>9. ASSUME NEW w \in Workers, NEW answered \in BOOLEAN, Update(w, answered) PROVE TypeOK'
    <2>1. /\ Writes(Host[w], work[w].id, work[w].row, answered)
          /\ audit' \in [Audited -> SUBSET Ids] /\ work' \in [Workers -> Work]
          /\ UNCHANGED <<issued, ghosts, batchVars>>
      BY <1>9, UpdateFacts
    <2> QED BY <2>1 DEF Writes, TypeOK
  <1>10. ASSUME NEW r \in Replicas, NEW id \in Ids, Persist(r, id) PROVE TypeOK'
    <2>1. /\ Writes(r, id, memory[r][id], TRUE) /\ audit' = audit /\ broken' \subseteq Identities
          /\ UNCHANGED <<issued, work, birth, disclosed, batchVars>>
      BY <1>10, PersistFacts
    <2> QED BY <2>1 DEF Writes, TypeOK
  <1>11. ASSUME NEW r \in Replicas, NEW id \in Ids, NEW answered \in BOOLEAN, Delete(r, id, answered)
         PROVE  TypeOK'
    <2>1. Writes(r, id, NoRow, answered) /\ UNCHANGED <<audit, issued, work, ghosts, batchVars>>
      BY <1>11, DeleteFacts
    <2> QED BY <2>1 DEF Writes, TypeOK
  <1>12. ASSUME NEW r \in Replicas, Restart(r) PROVE TypeOK'
    <2>1. /\ memory' \in [Replicas -> [Ids -> Row]] /\ work' \in [Workers -> Work]
          /\ broken' \subseteq Identities
          /\ UNCHANGED <<rows, revision, audit, issued, birth, disclosed, batchVars>>
      BY <1>12, RestartFacts
    <2> QED BY <2>1 DEF TypeOK
  <1>13. CASE UNCHANGED vars
    BY <1>13 DEF vars, TypeOK
  <1> QED
    BY <1>1, <1>2, <1>3, <1>4, <1>5, <1>6, <1>7, <1>8, <1>9, <1>10, <1>11, <1>12, <1>13
       DEF Next, Administer, RefreshAccount, Ends

-----------------------------------------------------------------------------
(* LineageInv and the audit log. *)

AuditInv ==
    /\ audit["created"] = Born
    /\ disclosed \subseteq audit["exported"]
    /\ audit["tested"] \cup audit["exported"] \subseteq Born

(* Registrations and audit records are never taken back. *)
Kept ==
    /\ Born \subseteq Born' /\ \A y \in Born : birth'[y] = birth[y]
    /\ audit["exported"] \subseteq audit'["exported"]
    /\ broken \subseteq broken'

LEMMA HistoryKept == TypeOK /\ LineageInv /\ SeenInv /\ [Next]_vars => Kept
  <1> SUFFICES ASSUME TypeOK, LineageInv, SeenInv, [Next]_vars PROVE Kept
    OBVIOUS
  <1> USE DEF dbVars, ghosts, batchVars, Kept
  <1>a. Born \subseteq Ids
    BY DEF Born
  <1>b. CASE birth' = birth /\ audit' = audit /\ broken \subseteq broken'
    BY <1>b DEF Born
  <1>1. ASSUME NEW w \in Workers, NEW row \in OAuthRow, Import(w, row) PROVE Kept
    BY <1>b, <1>1 DEF Import
  <1>2. ASSUME NEW w \in Workers, CreateKeys(w) PROVE Kept
    BY <1>b, <1>2 DEF CreateKeys
  <1>3. ASSUME NEW w \in Workers, NEW id \in Ids, NEW audited \in BOOLEAN, Refresh(w, id, audited)
        PROVE  Kept
    BY <1>b, <1>3 DEF Refresh
  <1>4. ASSUME NEW w \in Workers, NEW id \in Ids, Export(w, id) PROVE Kept
    <2>1. birth' = birth /\ broken' = broken
      BY <1>4 DEF Export
    <2>2. audit["exported"] \subseteq audit'["exported"]
      BY <1>4 DEF Export, TypeOK, Audited
    <2> QED BY <2>1, <2>2 DEF Born
  <1>5. ASSUME NEW w \in Workers, Ends(w) PROVE Kept
    <2>1. broken \subseteq broken' /\ UNCHANGED <<dbVars, birth, batchVars>>
      BY <1>5, EndFacts
    <2> QED BY <1>b, <2>1
  <1>6. ASSUME NEW w \in Workers, Refreshed(w) PROVE Kept
    BY <1>b, <1>6 DEF Refreshed
  <1>7. ASSUME NEW r, NEW id \in Ids \ Born, NEW row, NEW seen, NEW answered,
               Registers(r, id, row, seen, answered), broken' = broken
        PROVE  Kept
    BY <1>a, <1>7 DEF Registers
  <1>8. ASSUME NEW w \in Workers, NEW answered \in BOOLEAN, ImportRegister(w, answered) PROVE Kept
    <2>1. /\ work[w].row \in OAuthRow /\ work[w].seen \in SUBSET Ids
          /\ Register(w, work[w].row, work[w].seen, answered) /\ broken' = broken
      BY <1>8, ImportRegisterFacts
    <2>2. work[w].row \in Row /\ work[w].row # NoRow
      BY <2>1, RowFacts
    <2>3. PICK id \in Ids \ Born : Registers(Host[w], id, work[w].row, work[w].seen, answered)
      BY <2>1, <2>2, RegisterFacts
    <2> QED BY <1>7, <2>1, <2>3
  <1>9. ASSUME NEW w \in Workers, NEW answered \in BOOLEAN, KeyRegister(w, answered) PROVE Kept
    <2> DEFINE row == [email |-> NoEmail, token |-> Batch[work[w].index]]
    <2>1. row \in Row /\ row # NoRow /\ Register(w, row, {}, answered) /\ broken' = broken
      BY <1>9, KeyRegisterFacts DEF KeyTurn
    <2> HIDE DEF row
    <2>2. {} \in SUBSET Ids
      OBVIOUS
    <2>3. PICK id \in Ids \ Born : Registers(Host[w], id, row, {}, answered)
      BY <2>1, <2>2, RegisterFacts
    <2> QED BY <1>7, <2>1, <2>3
  <1>10. ASSUME NEW w \in Workers, NEW answered \in BOOLEAN, Update(w, answered) PROVE Kept
    <2>1. birth' = birth /\ broken' = broken /\ audit'["exported"] = audit["exported"]
      <3>1. "exported" \in Audited \ {"tested"}
        BY DEF Audited
      <3> QED BY <1>10, <3>1, UpdateFacts
    <2> QED BY <2>1 DEF Born
  <1>11. ASSUME NEW r \in Replicas, NEW id \in Ids, Persist(r, id) PROVE Kept
    <2>1. broken \subseteq broken' /\ birth' = birth /\ audit' = audit
      BY <1>11, PersistFacts
    <2> QED BY <1>b, <2>1
  <1>12. ASSUME NEW r \in Replicas, NEW id \in Ids, NEW answered \in BOOLEAN, Delete(r, id, answered)
         PROVE  Kept
    BY <1>b, <1>12 DEF Delete
  <1>13. ASSUME NEW r \in Replicas, Restart(r) PROVE Kept
    BY <1>b, <1>13 DEF Restart
  <1>14. CASE UNCHANGED vars
    BY <1>b, <1>14 DEF vars
  <1> HIDE DEF Kept
  <1> QED
    BY <1>1, <1>2, <1>3, <1>4, <1>5, <1>6, <1>8, <1>9, <1>10, <1>11, <1>12, <1>13, <1>14
       DEF Next, Administer, RefreshAccount, Ends

(* The part of LineageInv about one goroutine. *)
WorkLineage(w) ==
    /\ work[w].pc \in {"refresh", "update"} =>
            IsOAuth(work[w].row) /\ work[w].id \in Born /\ Registered(work[w].row, work[w].id)
    /\ work[w].pc = "export" => work[w].id \in audit["exported"]
    /\ work[w].pc = "batch" => work[w].index \in 1..Len(Batch)

LEMMA WorkLineageKept ==
  ASSUME LineageInv, Kept, NEW w \in Workers, work'[w] = work[w] \/ work'[w] = NoWork
  PROVE  WorkLineage(w)'
  <1>1. CASE work'[w] = work[w]
    <2>1. WorkLineage(w)
      BY DEF LineageInv, WorkLineage
    <2> QED BY <1>1, <2>1 DEF WorkLineage, Registered, Kept
  <1>2. CASE work'[w] = NoWork
    BY <1>2, NoWorkFacts DEF WorkLineage
  <1> QED
    BY <1>1, <1>2

(* The part of LineageInv about the table and the replicas. *)
StoreLineage ==
    /\ \A id \in Ids : Registered(rows[id], id)
    /\ \A r \in Replicas, id \in Ids : Registered(memory[r][id], id)

LEMMA StoreLineageKept ==
  ASSUME LineageInv, Kept, rows' = rows,
         \A r \in Replicas, id \in Ids : memory'[r][id] \in {memory[r][id], rows[id]}
  PROVE  StoreLineage'
  BY DEF LineageInv, StoreLineage, Registered, Kept

LEMMA StoreLineageWrites ==
  ASSUME LineageInv, Kept, NEW r \in Replicas, NEW id \in Ids, NEW row, NEW answered \in BOOLEAN,
         Writes(r, id, row, answered),
         row # NoRow => id \in Born' /\ row.email = birth'[id].row.email
  PROVE  StoreLineage'
  <1>1. \A x \in Ids : Registered(rows[x], x)'
    BY DEF LineageInv, Registered, Kept, Writes
  <1>2. \A q \in Replicas, x \in Ids : Registered(memory[q][x], x)'
    BY DEF LineageInv, Registered, Kept, Writes
  <1> QED
    BY <1>1, <1>2 DEF StoreLineage

LEMMA LineageStep == TypeOK /\ LineageInv /\ SeenInv /\ [Next]_vars => LineageInv'
  <1> SUFFICES ASSUME TypeOK, LineageInv, SeenInv, [Next]_vars PROVE LineageInv'
    OBVIOUS
  <1> USE DEF dbVars, ghosts, batchVars
  <1>k. Kept
    BY HistoryKept
  <1>0. ASSUME StoreLineage', \A v \in Workers : WorkLineage(v)' PROVE LineageInv'
    BY <1>0 DEF StoreLineage, WorkLineage, LineageInv
  <1>s. UNCHANGED <<rows, memory>> => StoreLineage'
    BY <1>k, StoreLineageKept
  <1>w. ASSUME NEW w \in Workers, \A v \in Workers : v # w => work'[v] = work[v], WorkLineage(w)'
        PROVE  \A v \in Workers : WorkLineage(v)'
    BY <1>k, <1>w, WorkLineageKept
  <1>n. ASSUME NEW w \in Workers, \A v \in Workers : v # w => work'[v] = work[v], work'[w] = NoWork
        PROVE  \A v \in Workers : WorkLineage(v)'
    BY <1>k, <1>n, WorkLineageKept
  <1>h. \A w \in Workers : Host[w] \in Replicas
    BY AccountsAssumption
  <1>1. ASSUME NEW w \in Workers, NEW row \in OAuthRow, Import(w, row) PROVE LineageInv'
    <2>1. work'[w].pc = "import" /\ \A v \in Workers : v # w => work'[v] = work[v]
      BY <1>1, BeginFacts
    <2>2. WorkLineage(w)'
      BY <2>1 DEF WorkLineage
    <2> QED BY <1>0, <1>1, <1>s, <1>w, <2>1, <2>2 DEF Import
  <1>2. ASSUME NEW w \in Workers, CreateKeys(w) PROVE LineageInv'
    <2>1. /\ work'[w].pc = "batch" /\ work'[w].index = 1
          /\ \A v \in Workers : v # w => work'[v] = work[v]
      BY <1>2, BeginFacts
    <2>2. 1 \in 1..Len(Batch)
      BY AccountsAssumption
    <2>3. WorkLineage(w)'
      BY <2>1, <2>2 DEF WorkLineage
    <2> QED BY <1>0, <1>2, <1>s, <1>w, <2>1, <2>3 DEF CreateKeys
  <1>3. ASSUME NEW w \in Workers, NEW id \in Ids, NEW audited \in BOOLEAN, Refresh(w, id, audited)
        PROVE  LineageInv'
    <2>1. /\ work'[w].pc = "refresh" /\ work'[w].id = id /\ work'[w].row = memory[Host[w]][id]
          /\ \A v \in Workers : v # w => work'[v] = work[v]
      BY <1>3, BeginFacts
    <2>2. IsOAuth(memory[Host[w]][id]) /\ memory[Host[w]][id] # NoRow
      BY <1>3, RowFacts DEF Refresh
    <2>3. Registered(memory[Host[w]][id], id)
      BY <1>h DEF LineageInv
    <2>4. WorkLineage(w)'
      BY <1>k, <2>1, <2>2, <2>3 DEF WorkLineage, Registered, Kept
    <2> QED BY <1>0, <1>3, <1>s, <1>w, <2>1, <2>4 DEF Refresh
  <1>4. ASSUME NEW w \in Workers, NEW id \in Ids, Export(w, id) PROVE LineageInv'
    <2>1. /\ work'[w].pc = "export" /\ work'[w].id = id
          /\ \A v \in Workers : v # w => work'[v] = work[v]
      BY <1>4, BeginFacts
    <2>2. id \in audit'["exported"]
      BY <1>4 DEF Export, TypeOK, Audited
    <2>3. WorkLineage(w)'
      BY <2>1, <2>2 DEF WorkLineage
    <2> QED BY <1>0, <1>4, <1>s, <1>w, <2>1, <2>3 DEF Export
  <1>5. ASSUME NEW w \in Workers, Ends(w) PROVE LineageInv'
    <2>1. /\ work'[w] = NoWork /\ \A v \in Workers : v # w => work'[v] = work[v]
          /\ UNCHANGED dbVars
      BY <1>5, EndFacts
    <2> QED BY <1>0, <1>s, <1>n, <2>1
  <1>6. ASSUME NEW w \in Workers, Refreshed(w) PROVE LineageInv'
    <2>1. /\ work'[w].pc = "update" /\ work'[w].id = work[w].id /\ work[w].pc = "refresh"
          /\ work'[w].row \in OAuthRow /\ work'[w].row.email = work[w].row.email
          /\ work[w].row \in OAuthRow
          /\ \A v \in Workers : v # w => work'[v] = work[v]
      BY <1>6, RefreshedFacts
    <2>2. work[w].id \in Born /\ work[w].row.email = birth[work[w].id].row.email
      BY <2>1, RowFacts DEF LineageInv, Registered
    <2>3. WorkLineage(w)'
      BY <1>k, <2>1, <2>2, RowFacts DEF WorkLineage, Registered, Kept
    <2> QED BY <1>0, <1>6, <1>s, <1>w, <2>1, <2>3 DEF Refreshed
  <1>7. ASSUME NEW w \in Workers, NEW answered \in BOOLEAN, ImportRegister(w, answered)
        PROVE  LineageInv'
    <2>1. /\ work[w].row \in OAuthRow /\ work[w].seen \in SUBSET Ids
          /\ Register(w, work[w].row, work[w].seen, answered)
          /\ work'[w] = NoWork /\ \A v \in Workers : v # w => work'[v] = work[v]
      BY <1>7, ImportRegisterFacts
    <2>2. work[w].row \in Row /\ work[w].row # NoRow
      BY <2>1, RowFacts
    <2>3. PICK id \in Ids \ Born : Registers(Host[w], id, work[w].row, work[w].seen, answered)
      BY <2>1, <2>2, RegisterFacts
    <2>4. Writes(Host[w], id, work[w].row, answered) /\ id \in Born' /\ birth'[id].row = work[w].row
      BY <2>3 DEF Registers
    <2>5. StoreLineage'
      BY <1>h, <1>k, <2>4, StoreLineageWrites
    <2> QED BY <1>0, <1>n, <2>1, <2>5
  <1>8. ASSUME NEW w \in Workers, NEW answered \in BOOLEAN, KeyRegister(w, answered) PROVE LineageInv'
    <2> DEFINE row == [email |-> NoEmail, token |-> Batch[work[w].index]]
    <2>1. /\ row \in Row /\ row # NoRow /\ Register(w, row, {}, answered)
          /\ \A v \in Workers : v # w => work'[v] = work[v]
          /\ \/ work'[w] = NoWork
             \/ work'[w].pc = "batch" /\ work'[w].index \in 1..Len(Batch)
      BY <1>8, KeyRegisterFacts DEF KeyTurn
    <2> HIDE DEF row
    <2>2. {} \in SUBSET Ids
      OBVIOUS
    <2>3. PICK id \in Ids \ Born : Registers(Host[w], id, row, {}, answered)
      BY <2>1, <2>2, RegisterFacts
    <2>4. Writes(Host[w], id, row, answered) /\ id \in Born' /\ birth'[id].row = row
      BY <2>3 DEF Registers
    <2>5. StoreLineage'
      BY <1>h, <1>k, <2>4, StoreLineageWrites
    <2>6. WorkLineage(w)'
      BY <2>1, NoWorkFacts DEF WorkLineage
    <2> QED BY <1>0, <1>w, <2>1, <2>5, <2>6
  <1>9. ASSUME NEW w \in Workers, NEW answered \in BOOLEAN, Update(w, answered) PROVE LineageInv'
    <2>1. /\ work[w].id \in Ids /\ work[w].pc = "update"
          /\ Writes(Host[w], work[w].id, work[w].row, answered)
          /\ work'[w] = NoWork /\ \A v \in Workers : v # w => work'[v] = work[v]
      BY <1>9, UpdateFacts
    <2>2. Registered(work[w].row, work[w].id)
      BY <2>1 DEF LineageInv
    <2>3. work[w].row # NoRow =>
              work[w].id \in Born' /\ work[w].row.email = birth'[work[w].id].row.email
      BY <1>k, <2>2 DEF Registered, Kept
    <2>4. StoreLineage'
      BY <1>h, <1>k, <2>1, <2>3, StoreLineageWrites
    <2> QED BY <1>0, <1>n, <2>1, <2>4
  <1>10. ASSUME NEW r \in Replicas, NEW id \in Ids, Persist(r, id) PROVE LineageInv'
    <2>1. Writes(r, id, memory[r][id], TRUE) /\ work' = work
      BY <1>10, PersistFacts
    <2>2. Registered(memory[r][id], id)
      BY DEF LineageInv
    <2>3. memory[r][id] # NoRow => id \in Born' /\ memory[r][id].email = birth'[id].row.email
      BY <1>k, <2>2 DEF Registered, Kept
    <2>4. StoreLineage'
      BY <1>k, <2>1, <2>3, StoreLineageWrites
    <2> QED BY <1>0, <1>k, <2>1, <2>4, WorkLineageKept
  <1>11. ASSUME NEW r \in Replicas, NEW id \in Ids, NEW answered \in BOOLEAN, Delete(r, id, answered)
         PROVE  LineageInv'
    <2>1. Writes(r, id, NoRow, answered) /\ work' = work
      BY <1>11, DeleteFacts
    <2>2. StoreLineage'
      BY <1>k, <2>1, StoreLineageWrites
    <2> QED BY <1>0, <1>k, <2>1, <2>2, WorkLineageKept
  <1>12. ASSUME NEW r \in Replicas, Restart(r) PROVE LineageInv'
    <2>1. /\ \A q \in Replicas : memory'[q] = IF q = r THEN rows ELSE memory[q]
          /\ \A w \in Workers : work'[w] = work[w] \/ work'[w] = NoWork
          /\ rows' = rows
      BY <1>12, RestartFacts
    <2>2. \A q \in Replicas, id \in Ids : memory'[q][id] \in {memory[q][id], rows[id]}
      BY <2>1
    <2>3. StoreLineage'
      BY <1>k, <2>1, <2>2, StoreLineageKept
    <2> QED BY <1>0, <1>k, <2>1, <2>3, WorkLineageKept
  <1>13. CASE UNCHANGED vars
    <2>1. work' = work /\ StoreLineage'
      BY <1>13, <1>s DEF vars
    <2> QED BY <1>0, <1>k, <2>1, WorkLineageKept
  <1> QED
    BY <1>1, <1>2, <1>3, <1>4, <1>5, <1>6, <1>7, <1>8, <1>9, <1>10, <1>11, <1>12, <1>13
       DEF Next, Administer, RefreshAccount, Ends

(* The audit log: a registration and its record are one transaction, and   *)
(* the record of an export precedes the answer.                            *)
LEMMA AuditStep == TypeOK /\ LineageInv /\ SeenInv /\ AuditInv /\ [Next]_vars => AuditInv'
  <1> SUFFICES ASSUME TypeOK, LineageInv, SeenInv, AuditInv, [Next]_vars PROVE AuditInv'
    OBVIOUS
  <1> USE DEF dbVars, ghosts, batchVars
  <1>0. CASE UNCHANGED <<audit, birth, disclosed>>
    BY <1>0 DEF AuditInv, Born
  <1>1. ASSUME NEW w \in Workers, NEW row \in OAuthRow, Import(w, row) PROVE AuditInv'
    BY <1>0, <1>1 DEF Import
  <1>2. ASSUME NEW w \in Workers, CreateKeys(w) PROVE AuditInv'
    BY <1>0, <1>2 DEF CreateKeys
  <1>3. ASSUME NEW w \in Workers, NEW id \in Ids, NEW audited \in BOOLEAN, Refresh(w, id, audited)
        PROVE  AuditInv'
    BY <1>0, <1>3 DEF Refresh
  <1>4. ASSUME NEW w \in Workers, NEW id \in Ids, Export(w, id) PROVE AuditInv'
    <2>1. Host[w] \in Replicas
      BY AccountsAssumption
    <2>2. IsOAuth(memory[Host[w]][id])
      BY <1>4 DEF Export
    <2>3. id \in Born
      BY <2>1, <2>2, RowFacts DEF LineageInv, Registered
    <2>4. /\ audit'["created"] = audit["created"] /\ audit'["tested"] = audit["tested"]
          /\ audit'["exported"] = audit["exported"] \cup {id} /\ UNCHANGED <<birth, disclosed>>
      BY <1>4 DEF Export, TypeOK, Audited
    <2>5. Born' = Born
      BY <2>4 DEF Born
    <2> QED BY <2>3, <2>4, <2>5 DEF AuditInv
  <1>5. ASSUME NEW w \in Workers, Ends(w) PROVE AuditInv'
    <2>1. /\ disclosed' = disclosed \/ (work[w].pc = "export" /\ disclosed' = disclosed \cup {work[w].id})
          /\ UNCHANGED <<audit, birth>>
      BY <1>5, EndFacts
    <2>2. work[w].pc = "export" => work[w].id \in audit["exported"]
      BY DEF LineageInv
    <2>3. Born' = Born
      BY <2>1 DEF Born
    <2> QED BY <2>1, <2>2, <2>3 DEF AuditInv
  <1>6. ASSUME NEW w \in Workers, Refreshed(w) PROVE AuditInv'
    BY <1>0, <1>6 DEF Refreshed
  <1>7. ASSUME NEW r, NEW id \in Ids \ Born, NEW row, NEW seen, NEW answered,
               Registers(r, id, row, seen, answered), disclosed' = disclosed
        PROVE  AuditInv'
    BY <1>7 DEF Registers, AuditInv
  <1>8. ASSUME NEW w \in Workers, NEW answered \in BOOLEAN, ImportRegister(w, answered) PROVE AuditInv'
    <2>1. /\ work[w].row \in OAuthRow /\ work[w].seen \in SUBSET Ids
          /\ Register(w, work[w].row, work[w].seen, answered) /\ disclosed' = disclosed
      BY <1>8, ImportRegisterFacts
    <2>2. work[w].row \in Row /\ work[w].row # NoRow
      BY <2>1, RowFacts
    <2>3. PICK id \in Ids \ Born : Registers(Host[w], id, work[w].row, work[w].seen, answered)
      BY <2>1, <2>2, RegisterFacts
    <2> QED BY <1>7, <2>1, <2>3
  <1>9. ASSUME NEW w \in Workers, NEW answered \in BOOLEAN, KeyRegister(w, answered) PROVE AuditInv'
    <2> DEFINE row == [email |-> NoEmail, token |-> Batch[work[w].index]]
    <2>1. row \in Row /\ row # NoRow /\ Register(w, row, {}, answered) /\ disclosed' = disclosed
      BY <1>9, KeyRegisterFacts DEF KeyTurn
    <2> HIDE DEF row
    <2>2. {} \in SUBSET Ids
      OBVIOUS
    <2>3. PICK id \in Ids \ Born : Registers(Host[w], id, row, {}, answered)
      BY <2>1, <2>2, RegisterFacts
    <2> QED BY <1>7, <2>1, <2>3
  <1>10. ASSUME NEW w \in Workers, NEW answered \in BOOLEAN, Update(w, answered) PROVE AuditInv'
    <2>1. "exported" \in Audited \ {"tested"} /\ "created" \in Audited \ {"tested"}
      BY DEF Audited
    <2>2. /\ audit'["exported"] = audit["exported"] /\ audit'["created"] = audit["created"]
          /\ audit'["tested"] \subseteq audit["tested"] \cup {work[w].id} /\ work[w].id \in Born
          /\ UNCHANGED <<birth, disclosed>>
      BY <1>10, <2>1, UpdateFacts
    <2>3. Born' = Born
      BY <2>2 DEF Born
    <2> QED BY <2>2, <2>3 DEF AuditInv
  <1>11. ASSUME NEW r \in Replicas, NEW id \in Ids, Persist(r, id) PROVE AuditInv'
    <2>1. UNCHANGED <<audit, birth, disclosed>>
      BY <1>11, PersistFacts
    <2> QED BY <1>0, <2>1
  <1>12. ASSUME NEW r \in Replicas, NEW id \in Ids, NEW answered \in BOOLEAN, Delete(r, id, answered)
         PROVE  AuditInv'
    BY <1>0, <1>12 DEF Delete
  <1>13. ASSUME NEW r \in Replicas, Restart(r) PROVE AuditInv'
    BY <1>0, <1>13 DEF Restart
  <1>14. CASE UNCHANGED vars
    BY <1>0, <1>14 DEF vars
  <1> QED
    BY <1>1, <1>2, <1>3, <1>4, <1>5, <1>6, <1>8, <1>9, <1>10, <1>11, <1>12, <1>13, <1>14
       DEF Next, Administer, RefreshAccount, Ends

-----------------------------------------------------------------------------
(* SeenInv. *)

DistinctEmails ==
    \A a, b \in Ids : a # b /\ IsOAuth(rows[a]) /\ IsOAuth(rows[b]) => rows[a].email # rows[b].email

LEMMA UniqueKept ==
  ASSUME TypeOK, SeenInv, NEW r, NEW id \in Ids, NEW row, NEW answered,
         Writes(r, id, row, answered), Unique(id, row)
  PROVE  DistinctEmails'
  <1>1. DistinctEmails
    BY DEF SeenInv, DistinctEmails
  <1>2. \A x \in Ids : x # id /\ IsOAuth(rows[x]) /\ IsOAuth(row) => rows[x].email # row.email
    BY RowFacts DEF Unique, Present
  <1>3. rows'[id] = row /\ \A x \in Ids : x # id => rows'[x] = rows[x]
    BY DEF Writes
  <1> QED
    BY <1>1, <1>2, <1>3 DEF DistinctEmails, IsOAuth

(* What a goroutine or a registration saw stays of other identities. *)
ImportSeen(w) == work[w].pc = "import" => IsOAuth(work[w].row) /\ Unlike(work[w].seen, work[w].row)
BirthSeen(id) == Unlike(birth[id].seen, birth[id].row)

LEMMA ImportSeenKept ==
  ASSUME SeenInv, Kept, NEW w \in Workers, work'[w] = work[w] \/ work'[w] = NoWork
  PROVE  ImportSeen(w)'
  <1>1. CASE work'[w] = work[w]
    <2>1. ImportSeen(w)
      BY DEF SeenInv, ImportSeen
    <2> QED BY <1>1, <2>1 DEF ImportSeen, Unlike, Kept
  <1>2. CASE work'[w] = NoWork
    BY <1>2, NoWorkFacts DEF ImportSeen
  <1> QED
    BY <1>1, <1>2

LEMMA BirthSeenKept ==
  ASSUME SeenInv, Kept, NEW id \in Born
  PROVE  BirthSeen(id)'
  <1>1. BirthSeen(id) /\ birth'[id] = birth[id]
    BY DEF SeenInv, BirthSeen, Kept
  <1> QED
    BY <1>1 DEF BirthSeen, Unlike, Kept

LEMMA SeenStep == TypeOK /\ LineageInv /\ SeenInv /\ [Next]_vars => SeenInv'
  <1> SUFFICES ASSUME TypeOK, LineageInv, SeenInv, [Next]_vars PROVE SeenInv'
    OBVIOUS
  <1> USE DEF dbVars, ghosts, batchVars
  <1>k. Kept
    BY HistoryKept
  <1>0. ASSUME \A w \in Workers : ImportSeen(w)', \A id \in Born' : BirthSeen(id)', DistinctEmails'
        PROVE  SeenInv'
    BY <1>0 DEF SeenInv, ImportSeen, BirthSeen, DistinctEmails
  <1>b. birth' = birth => \A id \in Born' : BirthSeen(id)'
    BY <1>k, BirthSeenKept DEF Born
  <1>d. rows' = rows => DistinctEmails'
    BY DEF SeenInv, DistinctEmails
  <1>w. ASSUME NEW w \in Workers, \A v \in Workers : v # w => work'[v] = work[v], ImportSeen(w)'
        PROVE  \A v \in Workers : ImportSeen(v)'
    BY <1>k, <1>w, ImportSeenKept
  <1>n. ASSUME NEW w \in Workers, \A v \in Workers : v # w => work'[v] = work[v],
               work'[w] = NoWork \/ work'[w].pc # "import"
        PROVE  \A v \in Workers : ImportSeen(v)'
    <2>1. ImportSeen(w)'
      BY <1>n, NoWorkFacts DEF ImportSeen
    <2> QED BY <1>n, <1>w, <2>1
  <1>1. ASSUME NEW w \in Workers, NEW row \in OAuthRow, Import(w, row) PROVE SeenInv'
    <2>1. /\ work'[w].pc = "import" /\ work'[w].row = row
          /\ work'[w].seen = OAuthAccounts(Host[w])
          /\ \A v \in Workers : v # w => work'[v] = work[v]
      BY <1>1, BeginFacts
    <2>2. Host[w] \in Replicas /\ IsOAuth(row)
      BY AccountsAssumption, RowFacts
    <2>3. ASSUME NEW a \in OAuthAccounts(Host[w])
          PROVE  /\ a \in Born /\ IsOAuth(birth[a].row)
                 /\ Fold[birth[a].row.email] # Fold[row.email]
      <3>1. a \in Ids /\ IsOAuth(memory[Host[w]][a]) /\ memory[Host[w]][a] # NoRow
        BY RowFacts DEF OAuthAccounts, Present
      <3>2. a \in Born /\ memory[Host[w]][a].email = birth[a].row.email
        BY <2>2, <3>1 DEF LineageInv, Registered
      <3>3. Fold[memory[Host[w]][a].email] # Fold[row.email]
        BY <1>1 DEF Import, HasDuplicate
      <3> QED BY <3>1, <3>2, <3>3 DEF IsOAuth
    <2>4. birth' = birth /\ rows' = rows
      BY <1>1 DEF Import
    <2>5. ImportSeen(w)'
      BY <2>1, <2>2, <2>3, <2>4 DEF ImportSeen, Unlike, Born
    <2> QED BY <1>0, <1>b, <1>d, <1>w, <2>1, <2>4, <2>5
  <1>2. ASSUME NEW w \in Workers, CreateKeys(w) PROVE SeenInv'
    <2>1. work'[w].pc = "batch" /\ \A v \in Workers : v # w => work'[v] = work[v]
      BY <1>2, BeginFacts
    <2> QED BY <1>0, <1>2, <1>b, <1>d, <1>n, <2>1 DEF CreateKeys
  <1>3. ASSUME NEW w \in Workers, NEW id \in Ids, NEW audited \in BOOLEAN, Refresh(w, id, audited)
        PROVE  SeenInv'
    <2>1. work'[w].pc = "refresh" /\ \A v \in Workers : v # w => work'[v] = work[v]
      BY <1>3, BeginFacts
    <2> QED BY <1>0, <1>3, <1>b, <1>d, <1>n, <2>1 DEF Refresh
  <1>4. ASSUME NEW w \in Workers, NEW id \in Ids, Export(w, id) PROVE SeenInv'
    <2>1. work'[w].pc = "export" /\ \A v \in Workers : v # w => work'[v] = work[v]
      BY <1>4, BeginFacts
    <2> QED BY <1>0, <1>4, <1>b, <1>d, <1>n, <2>1 DEF Export
  <1>5. ASSUME NEW w \in Workers, Ends(w) PROVE SeenInv'
    <2>1. /\ work'[w] = NoWork /\ \A v \in Workers : v # w => work'[v] = work[v]
          /\ UNCHANGED <<rows, birth>>
      BY <1>5, EndFacts
    <2> QED BY <1>0, <1>b, <1>d, <1>n, <2>1
  <1>6. ASSUME NEW w \in Workers, Refreshed(w) PROVE SeenInv'
    <2>1. work'[w].pc = "update" /\ \A v \in Workers : v # w => work'[v] = work[v]
      BY <1>6, RefreshedFacts
    <2> QED BY <1>0, <1>6, <1>b, <1>d, <1>n, <2>1 DEF Refreshed
  <1>7. ASSUME NEW w \in Workers, NEW answered \in BOOLEAN, ImportRegister(w, answered)
        PROVE  SeenInv'
    <2>1. /\ work[w].row \in OAuthRow /\ work[w].seen \in SUBSET Ids /\ work[w].pc = "import"
          /\ Register(w, work[w].row, work[w].seen, answered)
          /\ work'[w] = NoWork /\ \A v \in Workers : v # w => work'[v] = work[v]
      BY <1>7, ImportRegisterFacts
    <2>2. work[w].row \in Row /\ work[w].row # NoRow
      BY <2>1, RowFacts
    <2>3. PICK id \in Ids \ Born : Registers(Host[w], id, work[w].row, work[w].seen, answered)
      BY <2>1, <2>2, RegisterFacts
    <2>4. /\ birth'[id].row = work[w].row /\ birth'[id].seen = work[w].seen
          /\ Born' = Born \cup {id}
          /\ Writes(Host[w], id, work[w].row, answered) /\ Unique(id, work[w].row)
      BY <2>3 DEF Registers
    <2>5. Unlike(work[w].seen, work[w].row)
      BY <2>1 DEF SeenInv
    <2>6. BirthSeen(id)'
      BY <1>k, <2>4, <2>5 DEF BirthSeen, Unlike, Kept
    <2>7. \A x \in Born' : BirthSeen(x)'
      BY <1>k, <2>4, <2>6, BirthSeenKept
    <2>8. DistinctEmails'
      BY <2>4, UniqueKept
    <2> QED BY <1>0, <1>n, <2>1, <2>7, <2>8
  <1>8. ASSUME NEW w \in Workers, NEW answered \in BOOLEAN, KeyRegister(w, answered) PROVE SeenInv'
    <2> DEFINE row == [email |-> NoEmail, token |-> Batch[work[w].index]]
    <2>1. /\ row \in Row /\ row # NoRow /\ Register(w, row, {}, answered)
          /\ \A v \in Workers : v # w => work'[v] = work[v]
          /\ work'[w] = NoWork \/ work'[w].pc # "import"
      BY <1>8, KeyRegisterFacts DEF KeyTurn
    <2> HIDE DEF row
    <2>2. {} \in SUBSET Ids
      OBVIOUS
    <2>3. PICK id \in Ids \ Born : Registers(Host[w], id, row, {}, answered)
      BY <2>1, <2>2, RegisterFacts
    <2>4. /\ birth'[id].seen = {} /\ Born' = Born \cup {id}
          /\ Writes(Host[w], id, row, answered) /\ Unique(id, row)
      BY <2>3 DEF Registers
    <2>5. BirthSeen(id)'
      BY <2>4 DEF BirthSeen, Unlike
    <2>6. \A x \in Born' : BirthSeen(x)'
      BY <1>k, <2>4, <2>5, BirthSeenKept
    <2>7. DistinctEmails'
      BY <2>4, UniqueKept
    <2> QED BY <1>0, <1>n, <2>1, <2>6, <2>7
  <1>9. ASSUME NEW w \in Workers, NEW answered \in BOOLEAN, Update(w, answered) PROVE SeenInv'
    <2>1. /\ work[w].id \in Ids /\ Unique(work[w].id, work[w].row)
          /\ Writes(Host[w], work[w].id, work[w].row, answered)
          /\ work'[w] = NoWork /\ \A v \in Workers : v # w => work'[v] = work[v]
          /\ birth' = birth
      BY <1>9, UpdateFacts
    <2>2. DistinctEmails'
      BY <2>1, UniqueKept
    <2> QED BY <1>0, <1>b, <1>n, <2>1, <2>2
  <1>10. ASSUME NEW r \in Replicas, NEW id \in Ids, Persist(r, id) PROVE SeenInv'
    <2>1. /\ Writes(r, id, memory[r][id], TRUE) /\ Unique(id, memory[r][id])
          /\ UNCHANGED <<work, birth>>
      BY <1>10, PersistFacts
    <2>2. DistinctEmails'
      BY <2>1, UniqueKept
    <2> QED BY <1>0, <1>b, <1>k, <2>1, <2>2, ImportSeenKept
  <1>11. ASSUME NEW r \in Replicas, NEW id \in Ids, NEW answered \in BOOLEAN, Delete(r, id, answered)
         PROVE  SeenInv'
    <2>1. Writes(r, id, NoRow, answered) /\ UNCHANGED <<work, birth>>
      BY <1>11, DeleteFacts
    <2>2. Unique(id, NoRow)
      BY RowFacts DEF Unique
    <2>3. DistinctEmails'
      BY <2>1, <2>2, UniqueKept
    <2> QED BY <1>0, <1>b, <1>k, <2>1, <2>3, ImportSeenKept
  <1>12. ASSUME NEW r \in Replicas, Restart(r) PROVE SeenInv'
    <2>1. /\ \A w \in Workers : work'[w] = work[w] \/ work'[w] = NoWork
          /\ UNCHANGED <<rows, birth>>
      BY <1>12, RestartFacts
    <2> QED BY <1>0, <1>b, <1>d, <1>k, <2>1, ImportSeenKept
  <1>13. CASE UNCHANGED vars
    BY <1>0, <1>b, <1>d, <1>k, <1>13, ImportSeenKept DEF vars
  <1> QED
    BY <1>1, <1>2, <1>3, <1>4, <1>5, <1>6, <1>7, <1>8, <1>9, <1>10, <1>11, <1>12, <1>13
       DEF Next, Administer, RefreshAccount, Ends

-----------------------------------------------------------------------------
(* TokenInv. *)

(* A step that leaves the newest token of identity f where it is. *)
LEMMA TokenKept ==
  ASSUME NEW f \in Identities, TokenInvOf(f), issued'[f] = issued[f], BornAs(f) \subseteq BornAs(f)',
         \A id \in Ids : OfIdentity(rows'[id], f) => rows'[id] = rows[id],
         \A r \in Replicas, id \in Ids :
            OfIdentity(memory'[r][id], f) => memory'[r][id] \in {memory[r][id], rows[id]},
         \A w \in Saving(f) : work'[w] = work[w],
         \A w \in Workers : Fold[work'[w].row.email] = f /\ work'[w] # work[w] =>
            /\ work'[w].pc # "update"
            /\ work'[w].pc = "refresh" =>
                    \E r \in Replicas, id \in Ids :
                        work'[w].row = memory[r][id] /\ OfIdentity(memory[r][id], f)
            /\ work'[w].pc = "import" => work'[w].row.token = issued[f]
  PROVE  TokenInvOf(f)'
  <1>1. Saving(f)' = Saving(f)
    BY DEF Saving, Identity
  <1>2. \A t : (t < issued'[f] \/ (t = issued'[f] /\ Saving(f)' = {})) <=> Saved(t, f)
    BY <1>1 DEF Saved
  <1>3. /\ \A v, w \in Saving(f)' : v = w
        /\ \A w \in Saving(f)' : work'[w].row.token = issued'[f]
    BY <1>1 DEF TokenInvOf
  <1>4. \A id \in Ids : OfIdentity(rows'[id], f) =>
            Saved(rows'[id].token, f) /\ (rows'[id].token = issued'[f] \/ Saving(f)' # {})
    BY <1>1 DEF TokenInvOf
  <1>5. ASSUME NEW r \in Replicas, NEW id \in Ids, OfIdentity(memory'[r][id], f)
        PROVE  Saved(memory'[r][id].token, f)
    BY <1>5 DEF TokenInvOf
  <1>6. ASSUME NEW w \in Workers, work'[w].pc = "refresh", Fold[work'[w].row.email] = f
        PROVE  Saved(work'[w].row.token, f)
    <2>1. CASE work'[w] = work[w]
      BY <1>6, <2>1 DEF TokenInvOf, Identity
    <2>2. CASE work'[w] # work[w]
      <3>1. PICK r \in Replicas, id \in Ids : work'[w].row = memory[r][id] /\ OfIdentity(memory[r][id], f)
        BY <1>6, <2>2
      <3> QED BY <3>1 DEF TokenInvOf
    <2> QED BY <2>1, <2>2
  <1>7. ASSUME NEW w \in Workers, work'[w].pc = "import", Fold[work'[w].row.email] = f
        PROVE  work'[w].row.token = issued'[f] \/ BornAs(f)' # {}
    BY <1>7 DEF TokenInvOf, Identity
  <1> QED
    BY <1>2, <1>3, <1>4, <1>5, <1>6, <1>7 DEF TokenInvOf, Saved, OfIdentity, IsOAuth, Identity

(* Where a token is held there is a registered account of its identity. *)
LEMMA HolderIsBorn ==
  ASSUME TypeOK, LineageInv, NEW f \in Identities
  PROVE  /\ \A w \in Workers : work[w].pc \in {"refresh", "update"} /\ Identity(w) = f =>
                work[w].id \in BornAs(f)
         /\ \A id \in Ids : OfIdentity(rows[id], f) => id \in BornAs(f)
  <1>1. ASSUME NEW w \in Workers, work[w].pc \in {"refresh", "update"}, Identity(w) = f
        PROVE  work[w].id \in BornAs(f)
    <2>1. /\ IsOAuth(work[w].row) /\ work[w].id \in Born
          /\ work[w].row.email = birth[work[w].id].row.email
      BY <1>1, RowFacts DEF LineageInv, Registered
    <2> QED BY <1>1, <2>1 DEF BornAs, IsOAuth, Identity
  <1>2. ASSUME NEW id \in Ids, OfIdentity(rows[id], f) PROVE id \in BornAs(f)
    <2>1. id \in Born /\ rows[id].email = birth[id].row.email
      BY <1>2, RowFacts DEF LineageInv, Registered, OfIdentity
    <2> QED BY <1>2, <2>1 DEF BornAs, IsOAuth, OfIdentity
  <1> QED
    BY <1>1, <1>2

(* The three steps that move the newest token of f. *)

LEMMA TokenRefreshed ==
  ASSUME TypeOK, LineageInv, NEW w \in Workers, Refreshed(w), NEW f \in Identities,
         f = Identity(w), TokenInvOf(f), BornAs(f) \subseteq BornAs(f)'
  PROVE  TokenInvOf(f)'
  <1>1. /\ work'[w].pc = "update" /\ Fold[work'[w].row.email] = f
        /\ work[w].pc = "refresh" /\ work[w].row.token = issued[f]
        /\ work'[w].row.token = issued[f] + 1 /\ issued'[f] = issued[f] + 1
        /\ \A v \in Workers : v # w => work'[v] = work[v]
    BY RefreshedFacts DEF Identity
  <1>2. issued[f] \in Nat
    BY DEF TypeOK
  <1>3. Saving(f) = {}
    <2>1. Saved(work[w].row.token, f)
      BY <1>1 DEF TokenInvOf
    <2> QED BY <1>1, <1>2, <2>1 DEF Saved
  <1>4. Saving(f)' = {w}
    BY <1>1, <1>3 DEF Saving, Identity
  <1>5. BornAs(f)' # {}
    BY <1>1, HolderIsBorn
  <1>6. \A t \in Nat : Saved(t, f) => t < issued'[f]
    BY <1>1, <1>2 DEF Saved
  <1>7. rows' = rows /\ memory' = memory
    BY DEF Refreshed, dbVars
  <1>n. /\ \A id \in Ids : OfIdentity(rows[id], f) => rows[id].token \in Nat
        /\ \A r \in Replicas, id \in Ids : OfIdentity(memory[r][id], f) => memory[r][id].token \in Nat
        /\ \A v \in Workers : work[v].pc = "refresh" => work[v].row.token \in Nat
    <2>1. \A row \in Row : IsOAuth(row) => row.token \in Nat
      BY RowFacts
    <2> QED BY <2>1 DEF TypeOK, OfIdentity, LineageInv, Work
  <1>8. \A id \in Ids : OfIdentity(rows'[id], f) => rows'[id].token < issued'[f]
    BY <1>6, <1>7, <1>n DEF TokenInvOf
  <1>9. \A r \in Replicas, id \in Ids :
            OfIdentity(memory'[r][id], f) => memory'[r][id].token < issued'[f]
    BY <1>6, <1>7, <1>n DEF TokenInvOf
  <1>10. \A v \in Workers : work'[v].pc = "refresh" /\ Fold[work'[v].row.email] = f =>
            work'[v].row.token < issued'[f]
    BY <1>1, <1>6, <1>n DEF TokenInvOf, Identity
  <1> QED
    BY <1>1, <1>4, <1>5, <1>8, <1>9, <1>10 DEF TokenInvOf, Saved, OfIdentity, IsOAuth, Identity

LEMMA TokenImported ==
  ASSUME TypeOK, LineageInv, SeenInv, NEW w \in Workers, NEW answered \in BOOLEAN,
         ImportRegister(w, answered),
         NEW f \in Identities, f = Identity(w), TokenInvOf(f), Single(f)'
  PROVE  TokenInvOf(f)'
  <1>1. /\ work[w].row \in OAuthRow /\ work[w].seen \in SUBSET Ids /\ work[w].pc = "import"
        /\ Register(w, work[w].row, work[w].seen, answered)
        /\ work'[w] = NoWork /\ \A v \in Workers : v # w => work'[v] = work[v]
        /\ issued' = issued
    BY ImportRegisterFacts
  <1>2. work[w].row \in Row /\ work[w].row # NoRow /\ OfIdentity(work[w].row, f)
    BY <1>1, RowFacts DEF OfIdentity, Identity
  <1>3. PICK id \in Ids \ Born : Registers(Host[w], id, work[w].row, work[w].seen, answered)
    BY <1>1, <1>2, RegisterFacts
  <1>4. /\ birth'[id].row = work[w].row /\ Born' = Born \cup {id}
        /\ \A x \in Ids : x # id => birth'[x] = birth[x]
        /\ Writes(Host[w], id, work[w].row, answered)
    BY <1>3 DEF Registers
  <1>5. id \in BornAs(f)' /\ BornAs(f) \subseteq BornAs(f)' /\ id \notin BornAs(f)
    <2>1. Born \subseteq Ids /\ id \notin Born
      BY DEF Born
    <2> QED BY <1>2, <1>4, <2>1 DEF BornAs, OfIdentity, IsOAuth
  <1>6. BornAs(f) = {}
    BY <1>5 DEF Single
  <1>7. work[w].row.token = issued[f]
    BY <1>1, <1>6 DEF TokenInvOf
  <1>8. Saving(f) = {} /\ \A x \in Ids : ~OfIdentity(rows[x], f)
    BY <1>6, HolderIsBorn DEF Saving
  <1>9. Saving(f)' = {}
    BY <1>1, <1>8, NoWorkFacts DEF Saving, Identity
  <1>10. \A x \in Ids : OfIdentity(rows'[x], f) => rows'[x].token = issued'[f]
    BY <1>1, <1>4, <1>7, <1>8 DEF Writes
  <1>11. \A r \in Replicas, x \in Ids : OfIdentity(memory'[r][x], f) =>
            memory'[r][x].token < issued'[f] \/ memory'[r][x].token = issued'[f]
    BY <1>1, <1>4, <1>7 DEF Writes, TokenInvOf, Saved
  <1>12. \A v \in Workers : work'[v].pc = "refresh" /\ Fold[work'[v].row.email] = f =>
            work'[v].row.token < issued'[f] \/ work'[v].row.token = issued'[f]
    BY <1>1, NoWorkFacts DEF TokenInvOf, Saved, Identity
  <1> QED
    BY <1>5, <1>9, <1>10, <1>11, <1>12 DEF TokenInvOf, Saved, OfIdentity, IsOAuth, Identity

LEMMA TokenUpdated ==
  ASSUME TypeOK, LineageInv, NEW w \in Workers, NEW answered \in BOOLEAN, Update(w, answered),
         NEW f \in Identities, f = Identity(w), TokenInvOf(f), Single(f)
  PROVE  TokenInvOf(f)'
  <1> DEFINE id == work[w].id
  <1>1. /\ id \in Ids /\ work[w].pc = "update" /\ work[w].row \in OAuthRow
        /\ Writes(Host[w], id, work[w].row, answered)
        /\ work'[w] = NoWork /\ \A v \in Workers : v # w => work'[v] = work[v]
        /\ UNCHANGED <<issued, ghosts>>
    BY UpdateFacts
  <1>2. w \in Saving(f) /\ id \in BornAs(f)
    BY <1>1, HolderIsBorn DEF Saving
  <1>3. work[w].row.token = issued[f] /\ Saving(f) = {w}
    BY <1>2 DEF TokenInvOf
  <1>4. Saving(f)' = {}
    BY <1>1, <1>3, NoWorkFacts DEF Saving, Identity
  <1>5. \A x \in Ids : OfIdentity(rows[x], f) => x = id
    BY <1>2, HolderIsBorn DEF Single
  <1>6. \A x \in Ids : OfIdentity(rows'[x], f) => rows'[x].token = issued'[f]
    BY <1>1, <1>3, <1>5 DEF Writes
  <1>7. \A r \in Replicas, x \in Ids : OfIdentity(memory'[r][x], f) =>
            memory'[r][x].token < issued'[f] \/ memory'[r][x].token = issued'[f]
    BY <1>1, <1>3 DEF Writes, TokenInvOf, Saved
  <1>8. \A v \in Workers : work'[v].pc = "refresh" /\ Fold[work'[v].row.email] = f =>
            work'[v].row.token < issued'[f] \/ work'[v].row.token = issued'[f]
    BY <1>1, NoWorkFacts DEF TokenInvOf, Saved, Identity
  <1>9. BornAs(f)' # {}
    BY <1>1, <1>2 DEF BornAs, Born, ghosts
  <1> QED
    BY <1>4, <1>6, <1>7, <1>8, <1>9 DEF TokenInvOf, Saved, OfIdentity, IsOAuth, Identity

LEMMA TokenStep == TypeOK /\ LineageInv /\ SeenInv /\ TokenInv /\ [Next]_vars => TokenInv'
  <1> SUFFICES ASSUME TypeOK, LineageInv, SeenInv, TokenInv, [Next]_vars,
                      NEW f \in Identities, f \notin broken', Single(f)'
               PROVE  TokenInvOf(f)'
    BY DEF TokenInv
  <1> USE DEF dbVars, ghosts, batchVars
  <1>k. Kept
    BY HistoryKept
  <1>b. BornAs(f) \subseteq BornAs(f)'
    BY <1>k DEF BornAs, Kept
  <1>t. TokenInvOf(f) /\ Single(f)
    BY <1>k, <1>b DEF TokenInv, Kept, Single
  <1>h. \A w \in Workers : Host[w] \in Replicas
    BY AccountsAssumption
  <1>0. ASSUME UNCHANGED <<rows, memory>>, issued'[f] = issued[f],
               NEW w \in Workers, w \notin Saving(f), \A v \in Workers : v # w => work'[v] = work[v],
               Fold[work'[w].row.email] = f =>
                    /\ work'[w].pc # "update"
                    /\ work'[w].pc = "refresh" =>
                            \E r \in Replicas, id \in Ids :
                                work'[w].row = memory[r][id] /\ OfIdentity(memory[r][id], f)
                    /\ work'[w].pc = "import" => work'[w].row.token = issued[f]
        PROVE  TokenInvOf(f)'
    <2>1. \A v \in Saving(f) : work'[v] = work[v]
      BY <1>0 DEF Saving
    <2> QED BY <1>0, <1>b, <1>t, <2>1, TokenKept
  <1>1. ASSUME NEW w \in Workers, NEW row \in OAuthRow, Import(w, row) PROVE TokenInvOf(f)'
    <2>1. /\ work'[w].pc = "import" /\ work'[w].row = row
          /\ \A v \in Workers : v # w => work'[v] = work[v]
      BY <1>1, BeginFacts
    <2>2. w \notin Saving(f) /\ UNCHANGED <<rows, memory, issued>>
      BY <1>1 DEF Import, Start, Saving
    <2>3. ASSUME Fold[row.email] = f PROVE row.token = issued[f]
      <3>1. row.token <= issued[f] /\ ~(row.token < issued[f])
        BY <1>1, <2>3 DEF Import
      <3>2. row.token \in Nat /\ issued[f] \in Nat
        BY RowFacts DEF TypeOK
      <3> QED BY <3>1, <3>2
    <2> QED BY <1>0, <2>1, <2>2, <2>3
  <1>2. ASSUME NEW w \in Workers, CreateKeys(w) PROVE TokenInvOf(f)'
    <2>1. work'[w].pc = "batch" /\ \A v \in Workers : v # w => work'[v] = work[v]
      BY <1>2, BeginFacts
    <2>2. w \notin Saving(f) /\ UNCHANGED <<rows, memory, issued>>
      BY <1>2 DEF CreateKeys, Start, Saving
    <2> QED BY <1>0, <2>1, <2>2
  <1>3. ASSUME NEW w \in Workers, NEW id \in Ids, NEW audited \in BOOLEAN, Refresh(w, id, audited)
        PROVE  TokenInvOf(f)'
    <2>1. /\ work'[w].pc = "refresh" /\ work'[w].row = memory[Host[w]][id]
          /\ \A v \in Workers : v # w => work'[v] = work[v]
      BY <1>3, BeginFacts
    <2>2. w \notin Saving(f) /\ UNCHANGED <<rows, memory, issued>> /\ IsOAuth(memory[Host[w]][id])
      BY <1>3 DEF Refresh, Start, Saving
    <2>3. Fold[work'[w].row.email] = f =>
              \E r \in Replicas, x \in Ids :
                  work'[w].row = memory[r][x] /\ OfIdentity(memory[r][x], f)
      BY <1>h, <2>1, <2>2 DEF OfIdentity
    <2> QED BY <1>0, <2>1, <2>2, <2>3
  <1>4. ASSUME NEW w \in Workers, NEW id \in Ids, Export(w, id) PROVE TokenInvOf(f)'
    <2>1. work'[w].pc = "export" /\ \A v \in Workers : v # w => work'[v] = work[v]
      BY <1>4, BeginFacts
    <2>2. w \notin Saving(f) /\ UNCHANGED <<rows, memory, issued>>
      BY <1>4 DEF Export, Start, Saving
    <2> QED BY <1>0, <2>1, <2>2
  <1>5. ASSUME NEW w \in Workers, Ends(w) PROVE TokenInvOf(f)'
    <2>1. /\ work'[w] = NoWork /\ \A v \in Workers : v # w => work'[v] = work[v]
          /\ issued'[f] = issued[f] /\ (work[w].pc = "update" => Identity(w) \in broken')
          /\ UNCHANGED <<rows, memory>>
      BY <1>5, EndFacts
    <2>2. w \notin Saving(f)
      BY <2>1 DEF Saving
    <2> QED BY <1>0, <2>1, <2>2, NoWorkFacts
  <1>6. ASSUME NEW w \in Workers, Refreshed(w) PROVE TokenInvOf(f)'
    <2>1. CASE f = Identity(w)
      BY <1>6, <1>b, <1>t, <2>1, TokenRefreshed
    <2>2. CASE f # Identity(w)
      <3>1. /\ work'[w].row.email = work[w].row.email /\ issued'[f] = issued[f]
            /\ \A v \in Workers : v # w => work'[v] = work[v]
        BY <1>6, <2>2, RefreshedFacts
      <3>2. w \notin Saving(f) /\ UNCHANGED <<rows, memory>>
        BY <1>6, <2>2 DEF Refreshed, Saving
      <3>3. Fold[work'[w].row.email] # f
        BY <2>2, <3>1 DEF Identity
      <3> QED BY <1>0, <3>1, <3>2, <3>3
    <2> QED BY <2>1, <2>2
  <1>7. ASSUME NEW r \in Replicas, NEW id \in Ids, NEW row, NEW answered \in BOOLEAN,
               Writes(r, id, row, answered), OfIdentity(row, f) => rows[id] = row /\ memory[r][id] = row,
               issued' = issued, \A w \in Saving(f) : work'[w] = work[w],
               \A w \in Workers : work'[w] = work[w] \/ work'[w].pc \in {"idle", "batch"}
        PROVE  TokenInvOf(f)'
    <2>1. \A x \in Ids : OfIdentity(rows'[x], f) => rows'[x] = rows[x]
      BY <1>7 DEF Writes
    <2>2. \A q \in Replicas, x \in Ids :
              OfIdentity(memory'[q][x], f) => memory'[q][x] \in {memory[q][x], rows[x]}
      BY <1>7 DEF Writes
    <2> QED BY <1>7, <1>b, <1>t, <2>1, <2>2, TokenKept
  <1>8. ASSUME NEW w \in Workers, NEW answered \in BOOLEAN, ImportRegister(w, answered)
        PROVE  TokenInvOf(f)'
    <2>1. CASE f = Identity(w)
      BY <1>8, <1>t, <2>1, TokenImported
    <2>2. CASE f # Identity(w)
      <3>1. /\ work[w].row \in OAuthRow /\ work[w].seen \in SUBSET Ids /\ work[w].pc = "import"
            /\ Register(w, work[w].row, work[w].seen, answered)
            /\ work'[w] = NoWork /\ \A v \in Workers : v # w => work'[v] = work[v]
            /\ issued' = issued
        BY <1>8, ImportRegisterFacts
      <3>2. work[w].row \in Row /\ work[w].row # NoRow
        BY <3>1, RowFacts
      <3>3. PICK id \in Ids \ Born : Registers(Host[w], id, work[w].row, work[w].seen, answered)
        BY <3>1, <3>2, RegisterFacts
      <3>4. Writes(Host[w], id, work[w].row, answered) /\ ~OfIdentity(work[w].row, f)
        BY <2>2, <3>3 DEF Registers, OfIdentity, Identity
      <3>5. \A v \in Saving(f) : work'[v] = work[v]
        BY <3>1 DEF Saving
      <3> QED BY <1>7, <1>h, <3>1, <3>4, <3>5, NoWorkFacts
    <2> QED BY <2>1, <2>2
  <1>9. ASSUME NEW w \in Workers, NEW answered \in BOOLEAN, KeyRegister(w, answered)
        PROVE  TokenInvOf(f)'
    <2> DEFINE row == [email |-> NoEmail, token |-> Batch[work[w].index]]
    <2>1. /\ row \in Row /\ row # NoRow /\ Register(w, row, {}, answered) /\ work[w].pc = "batch"
          /\ \A v \in Workers : v # w => work'[v] = work[v]
          /\ work'[w] = NoWork \/ work'[w].pc = "batch"
          /\ issued' = issued
      BY <1>9, KeyRegisterFacts DEF KeyTurn
    <2>2. ~OfIdentity(row, f)
      BY DEF OfIdentity, IsOAuth
    <2> HIDE DEF row
    <2>3. {} \in SUBSET Ids
      OBVIOUS
    <2>4. PICK id \in Ids \ Born : Registers(Host[w], id, row, {}, answered)
      BY <2>1, <2>3, RegisterFacts
    <2>5. Writes(Host[w], id, row, answered)
      BY <2>4 DEF Registers
    <2>6. \A v \in Saving(f) : work'[v] = work[v]
      BY <2>1 DEF Saving
    <2> QED BY <1>7, <1>h, <2>1, <2>2, <2>5, <2>6, NoWorkFacts
  <1>10. ASSUME NEW w \in Workers, NEW answered \in BOOLEAN, Update(w, answered) PROVE TokenInvOf(f)'
    <2>1. CASE f = Identity(w)
      BY <1>10, <1>t, <2>1, TokenUpdated
    <2>2. CASE f # Identity(w)
      <3>1. /\ work[w].id \in Ids /\ Writes(Host[w], work[w].id, work[w].row, answered)
            /\ work'[w] = NoWork /\ \A v \in Workers : v # w => work'[v] = work[v]
            /\ issued' = issued
        BY <1>10, UpdateFacts
      <3>2. ~OfIdentity(work[w].row, f) /\ \A v \in Saving(f) : work'[v] = work[v]
        BY <2>2, <3>1 DEF OfIdentity, Identity, Saving
      <3> QED BY <1>7, <1>h, <3>1, <3>2, NoWorkFacts
    <2> QED BY <2>1, <2>2
  <1>11. ASSUME NEW r \in Replicas, NEW id \in Ids, Persist(r, id) PROVE TokenInvOf(f)'
    <2>1. /\ Writes(r, id, memory[r][id], TRUE) /\ UNCHANGED <<issued, work>>
          /\ broken' = IF IsOAuth(memory[r][id]) /\ rows[id] # memory[r][id]
                       THEN broken \cup {Fold[memory[r][id].email]} ELSE broken
      BY <1>11, PersistFacts
    <2>2. OfIdentity(memory[r][id], f) => rows[id] = memory[r][id]
      BY <2>1 DEF OfIdentity
    <2> QED BY <1>7, <2>1, <2>2
  <1>12. ASSUME NEW r \in Replicas, NEW id \in Ids, NEW answered \in BOOLEAN, Delete(r, id, answered)
         PROVE  TokenInvOf(f)'
    <2>1. Writes(r, id, NoRow, answered) /\ UNCHANGED <<issued, work>>
      BY <1>12, DeleteFacts
    <2>2. ~OfIdentity(NoRow, f)
      BY RowFacts DEF OfIdentity
    <2> QED BY <1>7, <2>1, <2>2
  <1>13. ASSUME NEW r \in Replicas, Restart(r) PROVE TokenInvOf(f)'
    <2>1. /\ \A q \in Replicas : memory'[q] = IF q = r THEN rows ELSE memory[q]
          /\ \A w \in Workers : work'[w] = work[w] \/ work'[w] = NoWork
          /\ \A w \in Workers : work[w].pc = "update" /\ work'[w] # work[w] => Identity(w) \in broken'
          /\ UNCHANGED <<rows, issued>>
      BY <1>13, RestartFacts
    <2>2. \A q \in Replicas, id \in Ids : memory'[q][id] \in {memory[q][id], rows[id]}
      BY <2>1
    <2>3. \A w \in Saving(f) : work'[w] = work[w]
      BY <2>1 DEF Saving
    <2> QED BY <1>b, <1>t, <2>1, <2>2, <2>3, NoWorkFacts, TokenKept
  <1>14. CASE UNCHANGED vars
    <2>1. UNCHANGED <<rows, memory, issued, work>>
      BY <1>14 DEF vars
    <2> QED BY <1>b, <1>t, <2>1, TokenKept
  <1> QED
    BY <1>1, <1>2, <1>3, <1>4, <1>5, <1>6, <1>8, <1>9, <1>10, <1>11, <1>12, <1>13, <1>14
       DEF Next, Administer, RefreshAccount, Ends

-----------------------------------------------------------------------------
(* CountInv. *)

Holders(k) == {id \in Born : birth[id].row.token = k}

LEMMA FiniteIds == IsFiniteSet(Ids) /\ Born \subseteq Ids
  <1>1. 1 \in Int /\ MaxIds \in Int
    BY AccountsAssumption
  <1> QED
    BY <1>1, FS_Interval DEF Ids, Born

LEMMA CopiesType ==
  ASSUME NEW k
  PROVE  IsFiniteSet(Holders(k)) /\ Copies(k) = Cardinality(Holders(k)) /\ Copies(k) \in Nat
  <1>1. Holders(k) \in SUBSET Ids
    BY FiniteIds DEF Holders
  <1>2. IsFiniteSet(Holders(k))
    BY <1>1, FiniteIds, FS_Subset
  <1>3. Copies(k) = Cardinality(Holders(k))
    BY DEF Copies, Holders
  <1> QED
    BY <1>2, <1>3, FS_CardinalityType

(* A registration adds one copy of its key. *)
LEMMA CopiesAdded ==
  ASSUME NEW r, NEW id \in Ids \ Born, NEW row, NEW seen, NEW answered,
         Registers(r, id, row, seen, answered), NEW k
  PROVE  Copies(k)' = IF row.token = k THEN Copies(k) + 1 ELSE Copies(k)
  <1>1. /\ birth'[id].row = row /\ Born' = Born \cup {id}
        /\ \A x \in Born : birth'[x] = birth[x]
    BY FiniteIds DEF Registers
  <1>2. Holders(k)' = IF row.token = k THEN Holders(k) \cup {id} ELSE Holders(k)
    BY <1>1 DEF Holders
  <1>3. id \notin Holders(k)
    BY DEF Holders
  <1>4. Copies(k)' = Cardinality(Holders(k)')
    BY DEF Copies, Holders
  <1>5. Cardinality(Holders(k) \cup {id}) = Cardinality(Holders(k)) + 1
    BY <1>3, CopiesType, FS_AddElement
  <1> QED
    BY <1>2, <1>4, <1>5, CopiesType

LEMMA CopiesSame ==
  ASSUME birth' = birth, NEW k
  PROVE  Copies(k)' = Copies(k)
  BY DEF Copies, Born

LEMMA AtType ==
  ASSUME NEW from, NEW to
  PROVE  IsFiniteSet(At(from, to)) /\ Cardinality(At(from, to)) \in Nat
  <1>1. At(from, to) \in SUBSET Workers /\ IsFiniteSet(Workers)
    BY AccountsAssumption DEF At
  <1>2. IsFiniteSet(At(from, to))
    BY <1>1, FS_Subset
  <1> QED
    BY <1>2, FS_CardinalityType

(* No goroutine begins a batch or goes on with it. *)
LEMMA AtShrinks ==
  ASSUME \A w \in Workers : work'[w] = work[w] \/ work'[w].pc # "batch", NEW from, NEW to
  PROVE  Cardinality(At(from, to)') <= Cardinality(At(from, to)) /\ Cardinality(At(from, to)') \in Nat
  <1>1. At(from, to)' \in SUBSET At(from, to)
    BY DEF At
  <1>2. IsFiniteSet(At(from, to)') /\ Cardinality(At(from, to)') <= Cardinality(At(from, to))
    BY <1>1, AtType, FS_Subset
  <1> QED
    BY <1>2, FS_CardinalityType

(* One goroutine moves. *)
LEMMA AtMoves ==
  ASSUME NEW w \in Workers, \A v \in Workers : v # w => work'[v] = work[v], NEW from, NEW to
  PROVE  \E n \in Nat :
            /\ Cardinality(At(from, to)) =
                  IF work[w].pc = "batch" /\ work[w].index \in from..to THEN n + 1 ELSE n
            /\ Cardinality(At(from, to)') =
                  IF work'[w].pc = "batch" /\ work'[w].index \in from..to THEN n + 1 ELSE n
  <1> DEFINE Others == At(from, to) \ {w}
  <1>1. IsFiniteSet(Others)
    BY AtType, FS_RemoveElement
  <1>2. Cardinality(Others) \in Nat /\ w \notin Others
    BY <1>1, FS_CardinalityType
  <1>3. At(from, to) = IF work[w].pc = "batch" /\ work[w].index \in from..to
                       THEN Others \cup {w} ELSE Others
    BY DEF At
  <1>4. At(from, to)' = IF work'[w].pc = "batch" /\ work'[w].index \in from..to
                        THEN Others \cup {w} ELSE Others
    BY DEF At
  <1> HIDE DEF Others
  <1>5. Cardinality(Others \cup {w}) = Cardinality(Others) + 1
    BY <1>1, <1>2, FS_AddElement
  <1> QED
    BY <1>2, <1>3, <1>4, <1>5

(* A step that is no business of the batches. *)
LEMMA CountKept ==
  ASSUME CountInv, TypeOK, UNCHANGED batchVars,
         \A i \in 1..Len(Batch) : Copies(Batch[i])' = Copies(Batch[i]),
         \A w \in Workers : work'[w] = work[w] \/ work'[w].pc # "batch"
  PROVE  CountInv'
  <1>n. Len(Batch) \in Nat
    BY AccountsAssumption
  <1>t. \A i \in 1..Len(Batch) : Copies(Batch[i]) \in Nat
    BY CopiesType
  <1>u. submitted' = submitted /\ acknowledged' = acknowledged /\ submitted \in Nat /\ acknowledged \in Nat
    BY DEF batchVars, TypeOK
  <1>1. ASSUME NEW i \in 1..Len(Batch)
        PROVE  /\ acknowledged' + Cardinality(At(i + 1, Len(Batch))') <= Copies(Batch[i])'
               /\ Copies(Batch[i])' + Cardinality(At(1, i)') <= submitted'
    <2>1. /\ Cardinality(At(i + 1, Len(Batch))') <= Cardinality(At(i + 1, Len(Batch)))
          /\ Cardinality(At(i + 1, Len(Batch))') \in Nat /\ Cardinality(At(i + 1, Len(Batch))) \in Nat
      BY AtShrinks, AtType
    <2>2. /\ Cardinality(At(1, i)') <= Cardinality(At(1, i))
          /\ Cardinality(At(1, i)') \in Nat /\ Cardinality(At(1, i)) \in Nat
      BY AtShrinks, AtType
    <2>3. /\ acknowledged + Cardinality(At(i + 1, Len(Batch))) <= Copies(Batch[i])
          /\ Copies(Batch[i]) + Cardinality(At(1, i)) <= submitted
      BY DEF CountInv
    <2> QED BY <1>t, <1>u, <2>1, <2>2, <2>3
  <1>2. ASSUME NEW i \in 1..Len(Batch), NEW j \in 1..Len(Batch), i < j
        PROVE  Copies(Batch[j])' + Cardinality(At(i + 1, j)') <= Copies(Batch[i])'
    <2>1. /\ Cardinality(At(i + 1, j)') <= Cardinality(At(i + 1, j))
          /\ Cardinality(At(i + 1, j)') \in Nat /\ Cardinality(At(i + 1, j)) \in Nat
      BY AtShrinks, AtType
    <2>2. Copies(Batch[j]) + Cardinality(At(i + 1, j)) <= Copies(Batch[i])
      BY <1>2 DEF CountInv
    <2> QED BY <1>t, <2>1, <2>2
  <1> QED
    BY <1>1, <1>2 DEF CountInv

(* A batch is received. *)
LEMMA CountCreate ==
  ASSUME CountInv, TypeOK, NEW w \in Workers, CreateKeys(w)
  PROVE  CountInv'
  <1>n. Len(Batch) \in Nat
    BY AccountsAssumption
  <1>t. \A i \in 1..Len(Batch) : Copies(Batch[i]) \in Nat
    BY CopiesType
  <1>1. /\ work'[w].pc = "batch" /\ work'[w].index = 1 /\ work[w].pc = "idle"
        /\ \A v \in Workers : v # w => work'[v] = work[v]
    BY BeginFacts DEF CreateKeys, Start
  <1>2. /\ submitted' = submitted + 1 /\ acknowledged' = acknowledged
        /\ submitted \in Nat /\ acknowledged \in Nat /\ birth' = birth
    BY DEF CreateKeys, TypeOK, ghosts
  <1>3. \A i \in 1..Len(Batch) : Copies(Batch[i])' = Copies(Batch[i])
    BY <1>2, CopiesSame
  <1>4. ASSUME NEW from, NEW to
        PROVE  \E n \in Nat : /\ Cardinality(At(from, to)) = n
                              /\ Cardinality(At(from, to)') = IF 1 \in from..to THEN n + 1 ELSE n
    <2>1. PICK n \in Nat :
            /\ Cardinality(At(from, to)) =
                  IF work[w].pc = "batch" /\ work[w].index \in from..to THEN n + 1 ELSE n
            /\ Cardinality(At(from, to)') =
                  IF work'[w].pc = "batch" /\ work'[w].index \in from..to THEN n + 1 ELSE n
      BY <1>1, AtMoves
    <2> QED BY <1>1, <2>1
  <1>5. ASSUME NEW i \in 1..Len(Batch)
        PROVE  /\ acknowledged' + Cardinality(At(i + 1, Len(Batch))') <= Copies(Batch[i])'
               /\ Copies(Batch[i])' + Cardinality(At(1, i)') <= submitted'
    <2>1. PICK m \in Nat : /\ Cardinality(At(i + 1, Len(Batch))) = m
                           /\ Cardinality(At(i + 1, Len(Batch))') =
                                  IF 1 \in (i + 1)..Len(Batch) THEN m + 1 ELSE m
      BY <1>4
    <2>2. PICK n \in Nat : /\ Cardinality(At(1, i)) = n
                           /\ Cardinality(At(1, i)') = IF 1 \in 1..i THEN n + 1 ELSE n
      BY <1>4
    <2>3. 1 \notin (i + 1)..Len(Batch) /\ 1 \in 1..i
      BY <1>n
    <2>4. /\ acknowledged + Cardinality(At(i + 1, Len(Batch))) <= Copies(Batch[i])
          /\ Copies(Batch[i]) + Cardinality(At(1, i)) <= submitted
      BY DEF CountInv
    <2>5. Copies(Batch[i])' = Copies(Batch[i]) /\ Copies(Batch[i]) \in Nat
      BY <1>3, <1>t
    <2> QED BY <1>2, <2>1, <2>2, <2>3, <2>4, <2>5
  <1>6. ASSUME NEW i \in 1..Len(Batch), NEW j \in 1..Len(Batch), i < j
        PROVE  Copies(Batch[j])' + Cardinality(At(i + 1, j)') <= Copies(Batch[i])'
    <2>1. PICK n \in Nat : /\ Cardinality(At(i + 1, j)) = n
                           /\ Cardinality(At(i + 1, j)') = IF 1 \in (i + 1)..j THEN n + 1 ELSE n
      BY <1>4
    <2>2. 1 \notin (i + 1)..j
      BY <1>n
    <2>3. Copies(Batch[j]) + Cardinality(At(i + 1, j)) <= Copies(Batch[i])
      BY <1>6 DEF CountInv
    <2> QED BY <1>3, <2>1, <2>2, <2>3
  <1> QED
    BY <1>5, <1>6 DEF CountInv

(* One key of a batch is registered. *)
LEMMA CountRegister ==
  ASSUME CountInv, TypeOK, LineageInv, NEW w \in Workers, NEW answered \in BOOLEAN,
         KeyRegister(w, answered)
  PROVE  CountInv'
  <1> DEFINE x == work[w].index
  <1> DEFINE row == [email |-> NoEmail, token |-> Batch[x]]
  <1> DEFINE more == work'[w].pc = "batch"
  <1>n. Len(Batch) \in Nat /\ \A i, j \in 1..Len(Batch) : Batch[i] = Batch[j] => i = j
    BY AccountsAssumption
  <1>1. /\ row \in Row /\ row # NoRow /\ Register(w, row, {}, answered)
        /\ work[w].pc = "batch" /\ x \in 1..Len(Batch)
        /\ \A v \in Workers : v # w => work'[v] = work[v]
        /\ submitted' = submitted
    BY KeyRegisterFacts DEF KeyTurn
  <1>2. /\ more => x < Len(Batch) /\ work'[w].index = x + 1 /\ acknowledged' = acknowledged
        /\ ~more => acknowledged' = acknowledged \/ (x = Len(Batch) /\ acknowledged' = acknowledged + 1)
    <2>1. KeyTurn(w, answered)
      BY KeyRegisterFacts
    <2>2. \/ work'[w] = NoWork /\ (acknowledged' = acknowledged
                                    \/ (x = Len(Batch) /\ acknowledged' = acknowledged + 1))
          \/ /\ work'[w].pc = "batch" /\ work'[w].index = x + 1 /\ x + 1 \in 1..Len(Batch)
             /\ acknowledged' = acknowledged
      BY <2>1 DEF KeyTurn
    <2> QED BY <1>1, <1>n, <2>2, NoWorkFacts
  <1>3. submitted \in Nat /\ acknowledged \in Nat
    BY DEF TypeOK
  <1>4. row.token = Batch[x]
    OBVIOUS
  <1> HIDE DEF row
  <1>5. {} \in SUBSET Ids
    OBVIOUS
  <1>6. PICK id \in Ids \ Born : Registers(Host[w], id, row, {}, answered)
    BY <1>1, <1>5, RegisterFacts
  <1>7. ASSUME NEW i \in 1..Len(Batch)
        PROVE  /\ Copies(Batch[i]) \in Nat
               /\ Copies(Batch[i])' = IF i = x THEN Copies(Batch[i]) + 1 ELSE Copies(Batch[i])
    <2>1. Copies(Batch[i])' = IF row.token = Batch[i] THEN Copies(Batch[i]) + 1 ELSE Copies(Batch[i])
      BY <1>6, CopiesAdded
    <2> QED BY <1>1, <1>4, <1>n, <2>1, CopiesType
  <1>8. ASSUME NEW from, NEW to
        PROVE  \E n \in Nat :
                  /\ Cardinality(At(from, to)) = IF x \in from..to THEN n + 1 ELSE n
                  /\ Cardinality(At(from, to)') = IF more /\ x + 1 \in from..to THEN n + 1 ELSE n
    <2>1. PICK n \in Nat :
            /\ Cardinality(At(from, to)) =
                  IF work[w].pc = "batch" /\ work[w].index \in from..to THEN n + 1 ELSE n
            /\ Cardinality(At(from, to)') =
                  IF work'[w].pc = "batch" /\ work'[w].index \in from..to THEN n + 1 ELSE n
      BY <1>1, AtMoves
    <2> QED BY <1>1, <1>2, <2>1
  <1>9. ASSUME NEW i \in 1..Len(Batch)
        PROVE  /\ acknowledged' + Cardinality(At(i + 1, Len(Batch))') <= Copies(Batch[i])'
               /\ Copies(Batch[i])' + Cardinality(At(1, i)') <= submitted'
    <2>1. PICK m \in Nat :
              /\ Cardinality(At(i + 1, Len(Batch))) = IF x \in (i + 1)..Len(Batch) THEN m + 1 ELSE m
              /\ Cardinality(At(i + 1, Len(Batch))') =
                    IF more /\ x + 1 \in (i + 1)..Len(Batch) THEN m + 1 ELSE m
      BY <1>8
    <2>2. PICK n \in Nat :
              /\ Cardinality(At(1, i)) = IF x \in 1..i THEN n + 1 ELSE n
              /\ Cardinality(At(1, i)') = IF more /\ x + 1 \in 1..i THEN n + 1 ELSE n
      BY <1>8
    <2>3. /\ acknowledged + Cardinality(At(i + 1, Len(Batch))) <= Copies(Batch[i])
          /\ Copies(Batch[i]) + Cardinality(At(1, i)) <= submitted
      BY DEF CountInv
    <2>4. /\ Copies(Batch[i]) \in Nat
          /\ Copies(Batch[i])' = IF i = x THEN Copies(Batch[i]) + 1 ELSE Copies(Batch[i])
      BY <1>7
    <2> HIDE DEF x, more
    <2>5. acknowledged' + Cardinality(At(i + 1, Len(Batch))') <= Copies(Batch[i])'
      BY <1>1, <1>2, <1>3, <1>n, <2>1, <2>3, <2>4
    <2>6. Copies(Batch[i])' + Cardinality(At(1, i)') <= submitted'
      BY <1>1, <1>2, <1>3, <1>n, <2>2, <2>3, <2>4
    <2> QED BY <2>5, <2>6
  <1>10. ASSUME NEW i \in 1..Len(Batch), NEW j \in 1..Len(Batch), i < j
         PROVE  Copies(Batch[j])' + Cardinality(At(i + 1, j)') <= Copies(Batch[i])'
    <2>1. PICK n \in Nat :
              /\ Cardinality(At(i + 1, j)) = IF x \in (i + 1)..j THEN n + 1 ELSE n
              /\ Cardinality(At(i + 1, j)') = IF more /\ x + 1 \in (i + 1)..j THEN n + 1 ELSE n
      BY <1>8
    <2>2. Copies(Batch[j]) + Cardinality(At(i + 1, j)) <= Copies(Batch[i])
      BY <1>10 DEF CountInv
    <2>3. /\ Copies(Batch[i]) \in Nat /\ Copies(Batch[j]) \in Nat
          /\ Copies(Batch[i])' = IF i = x THEN Copies(Batch[i]) + 1 ELSE Copies(Batch[i])
          /\ Copies(Batch[j])' = IF j = x THEN Copies(Batch[j]) + 1 ELSE Copies(Batch[j])
      BY <1>7
    <2> HIDE DEF x, more
    <2> QED BY <1>1, <1>n, <1>10, <2>1, <2>2, <2>3
  <1> QED
    BY <1>9, <1>10 DEF CountInv

LEMMA CountStep == TypeOK /\ LineageInv /\ SeenInv /\ CountInv /\ [Next]_vars => CountInv'
  <1> SUFFICES ASSUME TypeOK, LineageInv, SeenInv, CountInv, [Next]_vars PROVE CountInv'
    OBVIOUS
  <1> USE DEF ghosts, batchVars
  <1>0. ASSUME birth' = birth, UNCHANGED batchVars,
               \A w \in Workers : work'[w] = work[w] \/ work'[w].pc # "batch"
        PROVE  CountInv'
    <2>1. \A i \in 1..Len(Batch) : Copies(Batch[i])' = Copies(Batch[i])
      BY <1>0, CopiesSame
    <2> QED BY <1>0, <2>1, CountKept
  <1>1. ASSUME NEW w \in Workers, NEW row \in OAuthRow, Import(w, row) PROVE CountInv'
    <2>1. work'[w].pc = "import" /\ \A v \in Workers : v # w => work'[v] = work[v]
      BY <1>1, BeginFacts
    <2> QED BY <1>0, <1>1, <2>1 DEF Import
  <1>2. ASSUME NEW w \in Workers, CreateKeys(w) PROVE CountInv'
    BY <1>2, CountCreate
  <1>3. ASSUME NEW w \in Workers, NEW id \in Ids, NEW audited \in BOOLEAN, Refresh(w, id, audited)
        PROVE  CountInv'
    <2>1. work'[w].pc = "refresh" /\ \A v \in Workers : v # w => work'[v] = work[v]
      BY <1>3, BeginFacts
    <2> QED BY <1>0, <1>3, <2>1 DEF Refresh
  <1>4. ASSUME NEW w \in Workers, NEW id \in Ids, Export(w, id) PROVE CountInv'
    <2>1. work'[w].pc = "export" /\ \A v \in Workers : v # w => work'[v] = work[v]
      BY <1>4, BeginFacts
    <2> QED BY <1>0, <1>4, <2>1 DEF Export
  <1>5. ASSUME NEW w \in Workers, Ends(w) PROVE CountInv'
    <2>1. /\ work'[w] = NoWork /\ \A v \in Workers : v # w => work'[v] = work[v]
          /\ UNCHANGED <<birth, batchVars>>
      BY <1>5, EndFacts
    <2> QED BY <1>0, <2>1, NoWorkFacts
  <1>6. ASSUME NEW w \in Workers, Refreshed(w) PROVE CountInv'
    <2>1. work'[w].pc = "update" /\ \A v \in Workers : v # w => work'[v] = work[v]
      BY <1>6, RefreshedFacts
    <2> QED BY <1>0, <1>6, <2>1 DEF Refreshed
  <1>7. ASSUME NEW w \in Workers, NEW answered \in BOOLEAN, ImportRegister(w, answered) PROVE CountInv'
    <2>1. /\ work[w].row \in OAuthRow /\ work[w].seen \in SUBSET Ids
          /\ Register(w, work[w].row, work[w].seen, answered)
          /\ work'[w] = NoWork /\ \A v \in Workers : v # w => work'[v] = work[v]
          /\ UNCHANGED batchVars
      BY <1>7, ImportRegisterFacts
    <2>2. work[w].row \in Row /\ work[w].row # NoRow /\ work[w].row.token \in Nat
      BY <2>1, RowFacts
    <2>3. PICK id \in Ids \ Born : Registers(Host[w], id, work[w].row, work[w].seen, answered)
      BY <2>1, <2>2, RegisterFacts
    <2>4. \A i \in 1..Len(Batch) : work[w].row.token # Batch[i]
      BY <2>2, AccountsAssumption DEF Secrets
    <2>5. \A i \in 1..Len(Batch) : Copies(Batch[i])' = Copies(Batch[i])
      BY <2>3, <2>4, CopiesAdded
    <2> QED BY <2>1, <2>5, CountKept, NoWorkFacts
  <1>8. ASSUME NEW w \in Workers, NEW answered \in BOOLEAN, KeyRegister(w, answered) PROVE CountInv'
    BY <1>8, CountRegister
  <1>9. ASSUME NEW w \in Workers, NEW answered \in BOOLEAN, Update(w, answered) PROVE CountInv'
    <2>1. /\ work'[w] = NoWork /\ \A v \in Workers : v # w => work'[v] = work[v]
          /\ UNCHANGED <<birth, batchVars>>
      BY <1>9, UpdateFacts
    <2> QED BY <1>0, <2>1, NoWorkFacts
  <1>10. ASSUME NEW r \in Replicas, NEW id \in Ids, Persist(r, id) PROVE CountInv'
    BY <1>0, <1>10, PersistFacts
  <1>11. ASSUME NEW r \in Replicas, NEW id \in Ids, NEW answered \in BOOLEAN, Delete(r, id, answered)
         PROVE  CountInv'
    BY <1>0, <1>11 DEF Delete
  <1>12. ASSUME NEW r \in Replicas, Restart(r) PROVE CountInv'
    <2>1. /\ \A w \in Workers : work'[w] = work[w] \/ work'[w] = NoWork
          /\ UNCHANGED <<birth, batchVars>>
      BY <1>12, RestartFacts
    <2> QED BY <1>0, <2>1, NoWorkFacts
  <1>13. CASE UNCHANGED vars
    BY <1>0, <1>13 DEF vars
  <1> QED
    BY <1>1, <1>2, <1>3, <1>4, <1>5, <1>6, <1>7, <1>8, <1>9, <1>10, <1>11, <1>12, <1>13
       DEF Next, Administer, RefreshAccount, Ends

-----------------------------------------------------------------------------
AccountsInv == TypeOK /\ LineageInv /\ AuditInv /\ SeenInv /\ TokenInv /\ CountInv

LEMMA AccountsInit == Init => AccountsInv
  <1> SUFFICES ASSUME Init PROVE AccountsInv
    OBVIOUS
  <1> USE DEF Init
  <1>a. /\ {MaxTokens, MaxIds} \subseteq Nat /\ Len(Batch) \in Nat
        /\ Host \in [Workers -> Replicas]
    BY AccountsAssumption
  <1>b. NoBirth \in [row : Row, seen : SUBSET Ids]
    BY RowFacts DEF NoBirth
  <1>1. TypeOK
    <2>1. rows \in [Ids -> Row] /\ memory \in [Replicas -> [Ids -> Row]]
      BY RowFacts
    <2>2. work \in [Workers -> Work] /\ birth \in [Ids -> [row : Row, seen : SUBSET Ids]]
      BY <1>b, NoWorkFacts
    <2>3. issued \in [Identities -> 0..MaxTokens] /\ audit \in [Audited -> SUBSET Ids]
      BY <1>a
    <2> QED BY <2>1, <2>2, <2>3 DEF TypeOK
  <1>2. Born = {} /\ \A w \in Workers : work[w].pc = "idle"
    BY NoWorkFacts DEF Born
  <1>3. LineageInv
    BY <1>2 DEF LineageInv, Registered
  <1>4. AuditInv
    BY <1>2 DEF AuditInv, Audited
  <1>5. SeenInv
    BY <1>2, RowFacts DEF SeenInv
  <1>6. TokenInv
    BY <1>2, RowFacts DEF TokenInv, TokenInvOf, Saving, OfIdentity
  <1>7. CountInv
    <2>1. Cardinality({}) = 0
      BY FS_EmptySet
    <2>2. \A from, to : At(from, to) = {}
      BY <1>2 DEF At
    <2>3. \A k : Copies(k) = 0
      BY <1>2, <2>1 DEF Copies
    <2>4. \A from, to : Cardinality(At(from, to)) = 0
      BY <2>1, <2>2
    <2>5. submitted = 0 /\ acknowledged = 0
      OBVIOUS
    <2> QED BY <2>3, <2>4, <2>5 DEF CountInv
  <1> QED
    BY <1>1, <1>3, <1>4, <1>5, <1>6, <1>7 DEF AccountsInv

(* The inductive invariant. *)
LEMMA AccountsInductive == Spec => []AccountsInv
  <1>1. AccountsInv /\ [Next]_vars => AccountsInv'
    BY AccountTypes, LineageStep, AuditStep, SeenStep, TokenStep, CountStep DEF AccountsInv
  <1> QED
    BY <1>1, AccountsInit, PTL DEF Spec

(* The state of the accounts, the replicas and the goroutines stays within *)
(* its types.                                                              *)
THEOREM AccountsTypeCorrect == Spec => []TypeOK
  BY AccountsInductive, PTL DEF AccountsInv

(* Save, Register and Export: the audit log names exactly the accounts     *)
(* ever registered and every account that was exported, whatever fails.    *)
THEOREM AuditIsComplete == Spec => []EveryAccountAudited
  <1>1. AccountsInv => EveryAccountAudited
    <2> SUFFICES ASSUME AccountsInv PROVE EveryAccountAudited
      OBVIOUS
    <2>1. Present(rows) \subseteq Born
      BY DEF AccountsInv, LineageInv, Registered, Present
    <2> QED BY <2>1 DEF AccountsInv, AuditInv, EveryAccountAudited
  <1> QED
    BY <1>1, AccountsInductive, PTL

(* hasDuplicate and the unique index: where an identity has two accounts,  *)
(* the import of the later one could not see the earlier one.              *)
THEOREM DuplicatesAreUnseen == Spec => []DuplicatesWereUnseen
  <1>1. AccountsInv => DuplicatesWereUnseen
    <2> SUFFICES ASSUME AccountsInv, NEW a \in Present(rows), NEW b \in Present(rows),
                        a < b, IsOAuth(rows[a]), IsOAuth(rows[b]),
                        Fold[rows[a].email] = Fold[rows[b].email]
                 PROVE  rows[a].email # rows[b].email /\ a \notin birth[b].seen
      BY DEF DuplicatesWereUnseen
    <2>1. a \in Ids /\ b \in Ids /\ rows[a] # NoRow /\ rows[b] # NoRow /\ a # b
      BY DEF Present, Ids
    <2>2. rows[a].email # rows[b].email
      BY <2>1 DEF AccountsInv, SeenInv
    <2>3. /\ b \in Born /\ rows[a].email = birth[a].row.email
          /\ rows[b].email = birth[b].row.email
      BY <2>1 DEF AccountsInv, LineageInv, Registered
    <2>4. a \notin birth[b].seen
      BY <2>3 DEF AccountsInv, SeenInv, Unlike
    <2> QED BY <2>2, <2>4
  <1> QED
    BY <1>1, AccountsInductive, PTL

(* AdminProviderKeyHandler.Create: an acknowledged batch registered every  *)
(* key, a failed one a prefix, and none was registered too often.          *)
THEOREM BatchesArePrefixes == Spec => []BatchIsPrefix
  <1>1. AccountsInv => BatchIsPrefix
    <2> SUFFICES ASSUME AccountsInv PROVE BatchIsPrefix
      OBVIOUS
    <2>1. acknowledged \in Nat /\ submitted \in Nat
      BY DEF AccountsInv, TypeOK
    <2>2. \A i \in 1..Len(Batch) : acknowledged <= Copies(Batch[i]) /\ Copies(Batch[i]) <= submitted
      <3> TAKE i \in 1..Len(Batch)
      <3>1. /\ acknowledged + Cardinality(At(i + 1, Len(Batch))) <= Copies(Batch[i])
            /\ Copies(Batch[i]) + Cardinality(At(1, i)) <= submitted
        BY DEF AccountsInv, CountInv
      <3>2. /\ Cardinality(At(i + 1, Len(Batch))) \in Nat /\ Cardinality(At(1, i)) \in Nat
            /\ Copies(Batch[i]) \in Nat
        BY AtType, CopiesType
      <3> QED BY <2>1, <3>1, <3>2
    <2>3. \A i, j \in 1..Len(Batch) : i < j => Copies(Batch[j]) <= Copies(Batch[i])
      <3> SUFFICES ASSUME NEW i \in 1..Len(Batch), NEW j \in 1..Len(Batch), i < j
                   PROVE  Copies(Batch[j]) <= Copies(Batch[i])
        OBVIOUS
      <3>1. Copies(Batch[j]) + Cardinality(At(i + 1, j)) <= Copies(Batch[i])
        BY DEF AccountsInv, CountInv
      <3>2. Cardinality(At(i + 1, j)) \in Nat /\ Copies(Batch[i]) \in Nat /\ Copies(Batch[j]) \in Nat
        BY AtType, CopiesType
      <3> QED BY <3>1, <3>2
    <2> QED BY <2>2, <2>3 DEF BatchIsPrefix, Secrets
  <1> QED
    BY <1>1, AccountsInductive, PTL

(* Checker.Test, the SDK's refresh and the store: the table has the token  *)
(* the provider accepts, but for the cases CredentialSurvives names.       *)
THEOREM CredentialIsKept == Spec => []CredentialSurvives
  <1>1. AccountsInv => CredentialSurvives
    <2> SUFFICES ASSUME AccountsInv, NEW id \in Present(rows), IsOAuth(rows[id])
                 PROVE  LET f == Fold[rows[id].email]
                        IN  \/ rows[id].token = issued[f]
                            \/ InFlight(f)
                            \/ f \in broken
                            \/ Cardinality(BornAs(f)) > 1
      BY DEF CredentialSurvives
    <2> DEFINE f == Fold[rows[id].email]
    <2>1. id \in Ids /\ f \in Identities
      BY RowFacts DEF Present, AccountsInv, TypeOK
    <2> HIDE DEF f
    <2>2. CASE f \notin broken /\ Single(f)
      <3>1. TokenInvOf(f)
        BY <2>1, <2>2 DEF AccountsInv, TokenInv
      <3>2. OfIdentity(rows[id], f)
        BY DEF OfIdentity, f
      <3>3. rows[id].token = issued[f] \/ Saving(f) # {}
        BY <2>1, <3>1, <3>2 DEF TokenInvOf
      <3>4. Saving(f) # {} => InFlight(f)
        BY <3>1 DEF TokenInvOf, InFlight, Saving
      <3> QED BY <3>3, <3>4 DEF f
    <2>3. CASE ~Single(f)
      <3>1. PICK a \in BornAs(f), b \in BornAs(f) : a # b
        BY <2>3 DEF Single
      <3>2. BornAs(f) \in SUBSET Ids
        BY FiniteIds DEF BornAs
      <3>3. IsFiniteSet(BornAs(f))
        BY <3>2, FiniteIds, FS_Subset
      <3> DEFINE A == {a}
      <3>4. IsFiniteSet(A) /\ Cardinality(A) = 1 /\ b \notin A
        BY <3>1, FS_Singleton
      <3>5. A \cup {b} \in SUBSET BornAs(f)
        OBVIOUS
      <3> HIDE DEF A
      <3> DEFINE B == BornAs(f)
      <3>6. IsFiniteSet(B) /\ A \cup {b} \in SUBSET B
        BY <3>3, <3>5
      <3>7. Cardinality(A \cup {b}) = Cardinality(A) + 1
        BY <3>4, FS_AddElement
      <3>8. 1 + 1 = 2
        OBVIOUS
      <3>9. Cardinality(A \cup {b}) = 2
        BY <3>4, <3>7, <3>8
      <3>10. Cardinality(B) \in Nat
        BY <3>6, FS_CardinalityType
      <3> HIDE DEF B
      <3>11. Cardinality(A \cup {b}) <= Cardinality(B)
        BY <3>6, FS_Subset
      <3>12. 2 <= Cardinality(B) /\ Cardinality(B) \in Nat
        BY <3>9, <3>10, <3>11
      <3> QED BY <3>12 DEF f, B
    <2> QED BY <2>2, <2>3 DEF f
  <1> QED
    BY <1>1, AccountsInductive, PTL
=============================================================================
