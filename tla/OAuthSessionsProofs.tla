------------------------- MODULE OAuthSessionsProofs -------------------------
(***************************************************************************)
(* One outcome for every OAuth session, for any number of callers, retries *)
(* and failures.  The inductive invariant joins what is promised with      *)
(* LockInv: the row lock of a cancellation keeps its session pending.      *)
(***************************************************************************)
EXTENDS OAuthSessions, TLAPS

OAuthInv == TypeOK /\ LockInv /\ OneWinner /\ TablesAgree

\* What a caller that has ended looks like.
LEMMA IdleType == Idle \in CallRecord
  BY OAuthAssumption DEF Idle, Outcomes, CallRecord

\* A call that goes on to its next statement.
LEMMA PcType ==
    ASSUME NEW r \in CallRecord, NEW p \in {"updated", "audited"}
    PROVE  [r EXCEPT !.pc = p] \in CallRecord
  BY DEF CallRecord

\* Before anything happens no session, no record and no winner is there.
LEMMA OAuthInit == Init => OAuthInv
  BY IdleType, OAuthAssumption
     DEF Init, CallRecord, OAuthInv, TypeOK, LockInv, OneWinner, TablesAgree, NoSession, Idle, Outcomes

\* Sessions and accounts come and go: the foreign key forgets an account with
\* its row, and no outcome or lock changes.
LEMMA FlowStep ==
    ASSUME OAuthInv,
           \/ \E s \in States : Create(s)
           \/ \E a \in Accounts : CreateAccount(a) \/ DeleteAccount(a)
    PROVE  OAuthInv'
  <1> USE OAuthAssumption DEF OAuthInv, TypeOK, CallRecord, LockInv, OneWinner, TablesAgree, Outcomes
  <1>1. CASE \E s \in States : Create(s)
    BY <1>1 DEF Create, NoSession
  <1>2. CASE \E a \in Accounts : CreateAccount(a)
    BY <1>2 DEF CreateAccount
  <1>3. CASE \E a \in Accounts : DeleteAccount(a)
    BY <1>3 DEF DeleteAccount
  <1> QED
    BY <1>1, <1>2, <1>3

\* An UPDATE that finds its row pending is the first to record an outcome.
LEMMA RecordStep ==
    ASSUME OAuthInv, NEW c \in Callers, NEW answered \in BOOLEAN,
           Complete(c, answered) \/ Fail(c, answered) \/ CancelCommit(c, answered)
    PROVE  OAuthInv'
  <1> USE IdleType, OAuthAssumption
      DEF CallRecord, OAuthInv, TypeOK, LockInv, OneWinner, TablesAgree, Outcomes, Return, Told, Turn, Pending
  <1>1. CASE Complete(c, answered)
    BY <1>1 DEF Complete, Idle
  <1>2. CASE Fail(c, answered)
    BY <1>2 DEF Fail, Idle
  <1>3. CASE CancelCommit(c, answered)
    BY <1>3 DEF CancelCommit, Idle
  <1> QED
    BY <1>1, <1>2, <1>3

\* The other steps of a call record nothing; an error frees the caller's lock.
LEMMA CallStep ==
    ASSUME OAuthInv, NEW c \in Callers,
           \/ \E s \in States, wants \in Outcomes, a \in Accounts \cup {NoAccount} :
                  Call(c, s, wants, a)
           \/ UnknownAccount(c) \/ NotFound(c) \/ CancelUpdate(c) \/ CancelAudit(c)
           \/ Error(c)
    PROVE  OAuthInv'
  <1> USE IdleType, OAuthAssumption
      DEF CallRecord, OAuthInv, TypeOK, LockInv, OneWinner, TablesAgree, Outcomes, Return, Turn, Pending
  <1>1. CASE \E s \in States, wants \in Outcomes, a \in Accounts \cup {NoAccount} :
                  Call(c, s, wants, a)
    BY <1>1 DEF Call
  <1>2. CASE UnknownAccount(c) \/ NotFound(c)
    <2>1. call' = [call EXCEPT ![c] = Idle] /\ UNCHANGED <<session, accounts, audit, lock, won>>
      BY <1>2 DEF UnknownAccount, NotFound
    <2>2. TypeOK'
      BY <2>1
    <2>3. LockInv'
      BY <2>1 DEF Idle
    <2> QED
      BY <2>1, <2>2, <2>3
  <1>3. CASE CancelUpdate(c)
    <2>1. TypeOK'
      <3>1. call' \in [Callers -> CallRecord]
        BY <1>3, PcType DEF CancelUpdate
      <3> QED
        BY <1>3, <3>1 DEF CancelUpdate
    <2>2. LockInv'
      BY <1>3 DEF CancelUpdate
    <2>3. OneWinner' /\ TablesAgree'
      <3> USE DEF CancelUpdate
      <3> HIDE DEF TypeOK, LockInv, Turn, Pending
      <3> QED
        BY <1>3
    <2> QED
      BY <2>1, <2>2, <2>3
  <1>4. CASE CancelAudit(c)
    <2>1. TypeOK'
      <3>1. call' \in [Callers -> CallRecord]
        BY <1>4, PcType DEF CancelAudit
      <3> QED
        BY <1>4, <3>1 DEF CancelAudit
    <2>2. LockInv'
      BY <1>4 DEF CancelAudit
    <2>3. OneWinner' /\ TablesAgree'
      <3> USE DEF CancelAudit
      <3> HIDE DEF TypeOK, LockInv
      <3> QED
        BY <1>4
    <2> QED
      BY <2>1, <2>2, <2>3
  <1>5. CASE Error(c)
    BY <1>5 DEF Error, Idle
  <1> QED
    BY <1>1, <1>2, <1>3, <1>4, <1>5

\* One step of the specification.
LEMMA OAuthStep == OAuthInv /\ [Next]_vars => OAuthInv'
  <1> SUFFICES ASSUME OAuthInv, [Next]_vars
               PROVE  OAuthInv'
    OBVIOUS
  <1>1. CASE Next
    BY <1>1, FlowStep, RecordStep, CallStep DEF Next, Served
  <1>2. CASE UNCHANGED vars
    BY <1>2 DEF vars, OAuthInv, TypeOK, LockInv, OneWinner, TablesAgree
  <1> QED
    BY <1>1, <1>2

\* The invariant of the whole specification.
LEMMA OAuthInvariant == Spec => []OAuthInv
  BY OAuthInit, OAuthStep, PTL DEF Spec

\* The table of sessions, the locks and the calls keep their types.
THEOREM OAuthTypeCorrect == Spec => []TypeOK
  <1>1. OAuthInv => TypeOK
    BY DEF OAuthInv
  <1> QED
    BY <1>1, OAuthInvariant, PTL

\* Whatever callers race for a session and however often they try again, at
\* most one is told that its outcome was recorded, and the session has it.
THEOREM SessionHasOneWinner == Spec => []OneWinner
  <1>1. OAuthInv => OneWinner
    BY DEF OAuthInv
  <1> QED
    BY <1>1, OAuthInvariant, PTL

\* Sessions, audit log and accounts agree after every failure and deletion.
THEOREM SessionTablesAgree == Spec => []TablesAgree
  <1>1. OAuthInv => TablesAgree
    BY DEF OAuthInv
  <1> QED
    BY <1>1, OAuthInvariant, PTL

\* An outcome, once recorded, stays.
THEOREM SessionOutcomeIsFinal == Spec => OutcomeIsFinal
  <1> DEFINE Final ==
        \A s \in States : session[s].status \in Outcomes =>
            /\ session'[s].status = session[s].status
            /\ session'[s].auth # session[s].auth =>
                    session'[s].auth = NoAccount /\ session[s].auth \notin accounts'
  <1>1. ASSUME OAuthInv, Next
        PROVE  Final
    <2> USE <1>1, OAuthAssumption
        DEF OAuthInv, TypeOK, CallRecord, LockInv, Outcomes, Turn, Pending
    <2>1. CASE \E s \in States : Create(s)
      BY <2>1 DEF Create, NoSession
    <2>2. CASE \E a \in Accounts : CreateAccount(a) \/ DeleteAccount(a)
      BY <2>2 DEF CreateAccount, DeleteAccount
    <2>3. ASSUME NEW c \in Callers,
                 \E s \in States, wants \in Outcomes, a \in Accounts \cup {NoAccount} :
                    Call(c, s, wants, a)
          PROVE  Final
      BY <2>3 DEF Call
    <2>4. ASSUME NEW c \in Callers, Served(c)
          PROVE  Final
      <3>1. CASE \E answered \in BOOLEAN : Complete(c, answered)
        BY <3>1, <2>4 DEF Complete
      <3>2. CASE \E answered \in BOOLEAN : Fail(c, answered)
        BY <3>2, <2>4 DEF Fail
      <3>3. CASE \E answered \in BOOLEAN : CancelCommit(c, answered)
        BY <3>3, <2>4 DEF CancelCommit
      <3>4. CASE UnknownAccount(c) \/ NotFound(c) \/ CancelUpdate(c) \/ CancelAudit(c)
        BY <3>4, <2>4 DEF UnknownAccount, NotFound, CancelUpdate, CancelAudit
      <3> QED
        BY <2>4, <3>1, <3>2, <3>3, <3>4 DEF Served
    <2>5. ASSUME NEW c \in Callers, Error(c)
          PROVE  Final
      BY <2>5 DEF Error
    <2> QED
      BY <1>1, <2>1, <2>2, <2>3, <2>4, <2>5 DEF Next
  <1>2. OAuthInv /\ [Next]_vars => [Final]_vars
    BY <1>1
  <1> QED
    BY <1>2, OAuthInvariant, PTL DEF Spec, OutcomeIsFinal
=============================================================================
