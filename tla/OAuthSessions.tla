---------------------------- MODULE OAuthSessions ----------------------------
(***************************************************************************)
(* The OAuth sessions all replicas share (internal/store/oauth_sessions.go *)
(* and internal/httpapi/admin_oauth_sessions.go).  A login flow creates a  *)
(* pending session; its completion, its failure and the administrators'    *)
(* cancellations race for it, each with an UPDATE that asks for the status *)
(* "pending".  A cancellation is a transaction that holds the lock of the  *)
(* row while it writes its audit record, so the others wait for it.        *)
(*                                                                         *)
(* Callers fail, lose the answer of a commit and try again, without bound. *)
(* expires_at is written and never read, so time plays no part.            *)
(*                                                                         *)
(* This is the contract of the repository of sessions.  There is no login  *)
(* flow yet (internal/auth/oauth has no code): main wires List, Get and    *)
(* CancelWithAudit, and only tests call Create, Complete and Fail.         *)
(***************************************************************************)
EXTENDS Naturals

CONSTANTS Callers, States, Accounts, Nobody, NoAccount

ASSUME OAuthAssumption ==
    /\ States # {}
    /\ Nobody \notin Callers
    /\ NoAccount \notin Accounts

Outcomes == {"completed", "error", "cancelled"}

VARIABLES
    session,    \* oauth_sessions
    accounts,   \* IDs in upstream_accounts
    audit,      \* records "oauth.session.cancelled" of every session
    lock,       \* the transaction that has updated the row
    call,       \* the call every caller is in
    won         \* ghost: callers that were told ok, by the outcome they asked for

vars == <<session, accounts, audit, lock, call, won>>

NoSession == [status |-> "absent", auth |-> NoAccount]
Idle == [pc |-> "idle", state |-> CHOOSE s \in States : TRUE, wants |-> "cancelled", auth |-> NoAccount]

CallRecord == [pc : {"idle", "called", "updated", "audited"}, state : States,
               wants : Outcomes, auth : Accounts \cup {NoAccount}]

\* The type invariant.
TypeOK ==
    /\ session \in [States -> [status : {"absent", "pending"} \cup Outcomes,
                               auth : Accounts \cup {NoAccount}]]
    /\ accounts \subseteq Accounts
    /\ audit \in [States -> Nat]
    /\ lock \in [States -> Callers \cup {Nobody}]
    /\ call \in [Callers -> CallRecord]
    /\ won \in [States -> [Outcomes -> Nat]]

Init ==
    /\ session = [s \in States |-> NoSession]
    /\ accounts = {}
    /\ audit = [s \in States |-> 0]
    /\ lock = [s \in States |-> Nobody]
    /\ call = [c \in Callers |-> Idle]
    /\ won = [s \in States |-> [o \in Outcomes |-> 0]]

-----------------------------------------------------------------------------
(* The flow that creates the session, and the accounts it refers to. *)

\* OAuthSessionRepository.Create: a state that exists is refused.
Create(s) ==
    /\ session[s] = NoSession
    /\ session' = [session EXCEPT ![s].status = "pending"]
    /\ UNCHANGED <<accounts, audit, lock, call, won>>

CreateAccount(a) ==
    /\ a \notin accounts
    /\ accounts' = accounts \cup {a}
    /\ UNCHANGED <<session, audit, lock, call, won>>

\* ON DELETE SET NULL.
DeleteAccount(a) ==
    /\ a \in accounts
    /\ accounts' = accounts \ {a}
    /\ session' = [s \in States |-> IF session[s].auth = a
                                    THEN [session[s] EXCEPT !.auth = NoAccount]
                                    ELSE session[s]]
    /\ UNCHANGED <<audit, lock, call, won>>

-----------------------------------------------------------------------------
(* Complete, Fail and CancelWithAudit. *)

Call(c, s, wants, a) ==
    /\ call[c].pc = "idle"
    /\ wants # "completed" => a = NoAccount
    /\ call' = [call EXCEPT ![c] = [pc |-> "called", state |-> s, wants |-> wants, auth |-> a]]
    /\ UNCHANGED <<session, accounts, audit, lock, won>>

Turn(c, wants) ==
    /\ call[c].pc = "called"
    /\ call[c].wants = wants
    /\ lock[call[c].state] = Nobody

Pending(c) == session[call[c].state].status = "pending"

Return(c) == call' = [call EXCEPT ![c] = Idle]

\* Nil for the caller, or an error although the change is there.
Told(c, answered) ==
    won' = IF answered THEN [won EXCEPT ![call[c].state][call[c].wants] = @ + 1] ELSE won

\* Deviation: a failed session may still be completed.
Complete_AfterError(c, answered) ==
    /\ Turn(c, "completed")
    /\ session[call[c].state].status \in {"pending", "error"}
    /\ call[c].auth \in accounts \cup {NoAccount}
    /\ session' = [session EXCEPT ![call[c].state] = [status |-> "completed", auth |-> call[c].auth]]
    /\ Told(c, answered)
    /\ Return(c)
    /\ UNCHANGED <<accounts, audit, lock>>

\* Complete: an empty account ID is stored as NULL, an unknown one refused.
Complete(c, answered) ==
    /\ Turn(c, "completed")
    /\ Pending(c)
    /\ call[c].auth \in accounts \cup {NoAccount}
    /\ session' = [session EXCEPT ![call[c].state] = [status |-> "completed", auth |-> call[c].auth]]
    /\ Told(c, answered)
    /\ Return(c)
    /\ UNCHANGED <<accounts, audit, lock>>

Fail(c, answered) ==
    /\ Turn(c, "error")
    /\ Pending(c)
    /\ session' = [session EXCEPT ![call[c].state].status = "error"]
    /\ Told(c, answered)
    /\ Return(c)
    /\ UNCHANGED <<accounts, audit, lock>>

\* Deviation: zero rows are not an error.
NotFound_Ignored(c) ==
    /\ Turn(c, call[c].wants)
    /\ ~Pending(c)
    /\ Told(c, TRUE)
    /\ Return(c)
    /\ UNCHANGED <<session, accounts, audit, lock>>

\* The foreign key refuses the row.
UnknownAccount(c) ==
    /\ Turn(c, "completed")
    /\ Pending(c)
    /\ call[c].auth \notin accounts \cup {NoAccount}
    /\ Return(c)
    /\ UNCHANGED <<session, accounts, audit, lock, won>>

\* No row was updated: ErrNotFound, and 404 for an administrator.
NotFound(c) ==
    /\ Turn(c, call[c].wants)
    /\ ~Pending(c)
    /\ Return(c)
    /\ UNCHANGED <<session, accounts, audit, lock, won>>

\* The UPDATE of CancelWithAudit: the row is locked until the transaction ends.
CancelUpdate(c) ==
    /\ Turn(c, "cancelled")
    /\ Pending(c)
    /\ lock' = [lock EXCEPT ![call[c].state] = c]
    /\ call' = [call EXCEPT ![c].pc = "updated"]
    /\ UNCHANGED <<session, accounts, audit, won>>

\* Deviation: the record is inserted on another connection.
CancelAudit_OwnConnection(c) ==
    /\ call[c].pc = "updated"
    /\ audit' = [audit EXCEPT ![call[c].state] = @ + 1]
    /\ call' = [call EXCEPT ![c].pc = "audited"]
    /\ UNCHANGED <<session, accounts, lock, won>>

\* The INSERT, visible to nobody before the commit.
CancelAudit(c) ==
    /\ call[c].pc = "updated"
    /\ call' = [call EXCEPT ![c].pc = "audited"]
    /\ UNCHANGED <<session, accounts, audit, lock, won>>

CancelCommit(c, answered) ==
    /\ call[c].pc = "audited"
    /\ session' = [session EXCEPT ![call[c].state].status = "cancelled"]
    /\ audit' = [audit EXCEPT ![call[c].state] = @ + 1]
    /\ lock' = [lock EXCEPT ![call[c].state] = Nobody]
    /\ Told(c, answered)
    /\ Return(c)
    /\ UNCHANGED accounts

\* Deviation: an error leaves the transaction open.
Error_NoRollback(c) ==
    /\ call[c].pc # "idle"
    /\ Return(c)
    /\ UNCHANGED <<session, accounts, audit, lock, won>>

\* A statement or the commit fails, or the replica ends.  The deferred
\* Rollback, or the lost connection, ends the transaction.
Error(c) ==
    /\ call[c].pc # "idle"
    /\ lock' = [s \in States |-> IF lock[s] = c THEN Nobody ELSE lock[s]]
    /\ Return(c)
    /\ UNCHANGED <<session, accounts, audit, won>>

\* What PostgreSQL answers when nothing fails.
Served(c) ==
    \/ \E answered \in BOOLEAN :
        Complete(c, answered) \/ Fail(c, answered) \/ CancelCommit(c, answered)
    \/ UnknownAccount(c)
    \/ NotFound(c)
    \/ CancelUpdate(c)
    \/ CancelAudit(c)

Next ==
    \/ \E s \in States : Create(s)
    \/ \E a \in Accounts : CreateAccount(a) \/ DeleteAccount(a)
    \/ \E c \in Callers :
        \/ \E s \in States, wants \in Outcomes, a \in Accounts \cup {NoAccount} : Call(c, s, wants, a)
        \/ Served(c)
        \/ Error(c)

Spec == Init /\ [][Next]_vars

\* A statement is answered once its row is free: locks are granted in the
\* order of a queue, so nobody is passed over for ever.
LiveSpec == Spec /\ \A c \in Callers : SF_vars(Served(c))

-----------------------------------------------------------------------------
(* At most one caller is told that its outcome was recorded, and it is the *)
(* outcome the session has from then on, whoever raced, retried or failed. *)
OneWinner ==
    \A s \in States, o \in Outcomes :
        won[s][o] > 0 => /\ won[s][o] = 1
                         /\ session[s].status = o

(* A session that is no longer pending keeps its outcome; of its account   *)
(* it only forgets one that is deleted at that moment.                     *)
OutcomeIsFinal ==
    [][\A s \in States : session[s].status \in Outcomes =>
            /\ session'[s].status = session[s].status
            /\ session'[s].auth # session[s].auth =>
                    session'[s].auth = NoAccount /\ session[s].auth \notin accounts']_vars

(* A session is cancelled if and only if the audit log has one record of   *)
(* it: no failure between the two statements leaves one without the other. *)
(* The account of a session exists, and only a completed one has any.      *)
TablesAgree ==
    \A s \in States :
        /\ audit[s] = IF session[s].status = "cancelled" THEN 1 ELSE 0
        /\ session[s].auth # NoAccount =>
                session[s].auth \in accounts /\ session[s].status = "completed"

(* The strengthening that makes them inductive: a cancellation between its *)
(* UPDATE and its commit has the lock of its row, and a locked row is one  *)
(* that is still pending for everybody else.                               *)
LockInv ==
    /\ \A c \in Callers : call[c].pc \in {"updated", "audited"} =>
            lock[call[c].state] = c /\ call[c].wants = "cancelled"
    /\ \A s \in States : lock[s] # Nobody => session[s].status = "pending"

(* Every call returns, whatever transaction it waits for.                  *)
CallsReturn == \A c \in Callers : call[c].pc # "idle" ~> call[c].pc = "idle"
=============================================================================
