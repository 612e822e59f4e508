------------------------ MODULE LeaderElectionProofs ------------------------
(***************************************************************************)
(* Exclusion of the session-cleanup leaders, for any number of replicas    *)
(* and faults.  The inductive invariant is LeaseInv: the lease of a        *)
(* connection that works is backed by the lock in PostgreSQL.              *)
(***************************************************************************)
EXTENDS LeaderElection, TLAPS

LeaderInv == TypeOK /\ LeaseInv

\* Every step of the runner keeps the invariant: the lock is granted to a free
\* lock only, and an unlock through a dead connection leaves it alone.
LEMMA RunStep ==
    ASSUME LeaderInv, NEW r \in Replicas, Run(r)
    PROVE  LeaderInv'
  <1> USE LeaderAssumption DEF LeaderInv, TypeOK, LeaseInv, RunnerPC, Goto
  <1>1. CASE LoopCancelled(r)
    BY <1>1 DEF LoopCancelled
  <1>2. CASE TryLock(r)
    BY <1>2 DEF TryLock
  <1>3. CASE TryLockBusy(r)
    BY <1>3 DEF TryLockBusy
  <1>4. CASE TryLockError(r)
    BY <1>4 DEF TryLockError
  <1>5. CASE TryLockAnswerLost(r)
    BY <1>5 DEF TryLockAnswerLost, Fault
  <1>6. CASE WaitForRetry(r)
    BY <1>6 DEF WaitForRetry
  <1>7. CASE Cleanup(r)
    BY <1>7 DEF Cleanup
  <1>8. CASE CleanupError(r)
    BY <1>8 DEF CleanupError, vars
  <1>9. CASE JobReturns(r)
    BY <1>9 DEF JobReturns
  <1>10. CASE Release(r)
    BY <1>10 DEF Release
  <1>11. CASE ReleaseError(r)
    BY <1>11 DEF ReleaseError, Fault
  <1> HIDE DEF LeaderInv
  <1> QED
    BY <1>1, <1>2, <1>3, <1>4, <1>5, <1>6, <1>7, <1>8, <1>9, <1>10, <1>11 DEF Run

\* So does every step of main and of its environment.
LEMMA LifecycleStep ==
    ASSUME LeaderInv, NEW r \in Replicas, Lifecycle(r) \/ ConnectionLost(r)
    PROVE  LeaderInv'
  <1> USE LeaderAssumption DEF LeaderInv, TypeOK, LeaseInv, RunnerPC, Fault
  <1>1. CASE Terminate(r)
    BY <1>1 DEF Terminate
  <1>2. CASE TerminateAgain(r)
    BY <1>2 DEF TerminateAgain
  <1>3. CASE ServiceFails(r)
    BY <1>3 DEF ServiceFails
  <1>4. CASE PoolClosed(r)
    BY <1>4 DEF PoolClosed
  <1>5. CASE Crash(r)
    BY <1>5 DEF Crash
  <1>6. CASE Start(r)
    BY <1>6 DEF Start
  <1>7. CASE ConnectionLost(r)
    BY <1>7 DEF ConnectionLost
  <1> HIDE DEF LeaderInv
  <1> QED
    BY <1>1, <1>2, <1>3, <1>4, <1>5, <1>6, <1>7 DEF Lifecycle

\* The state of the lease and the lock agree in every reachable state.
LEMMA LeaderInvariant == Spec => []LeaderInv
  <1>1. Init => LeaderInv
    <2> SUFFICES ASSUME Init PROVE LeaderInv
      OBVIOUS
    <2>1. faults \in 0..MaxFaults
      BY LeaderAssumption DEF Init
    <2>2. lock \in {"free", "orphan"} \cup Replicas /\ backlog \in BOOLEAN
      BY DEF Init
    <2>3. /\ conn \in [Replicas -> {"none", "up", "down"}]
          /\ runner \in [Replicas -> RunnerPC]
          /\ main \in [Replicas -> {"running", "closing", "exited"}]
      BY DEF Init, RunnerPC
    <2>4. cancelled \in [Replicas -> BOOLEAN]
      BY DEF Init
    <2>5. LeaseInv
      BY DEF Init, LeaseInv
    <2> QED
      BY <2>1, <2>2, <2>3, <2>4, <2>5 DEF LeaderInv, TypeOK
  <1>2. LeaderInv /\ [Next]_vars => LeaderInv'
    <2> SUFFICES ASSUME LeaderInv, [Next]_vars PROVE LeaderInv'
      OBVIOUS
    <2>1. ASSUME NEW r \in Replicas, Run(r) \/ Lifecycle(r) \/ ConnectionLost(r)
          PROVE  LeaderInv'
      BY <2>1, RunStep, LifecycleStep
    <2>2. CASE ServerReaps
      BY <2>2, LeaderAssumption DEF ServerReaps, LeaderInv, TypeOK, LeaseInv
    <2>3. CASE Lapse
      BY <2>3 DEF Lapse, LeaderInv, TypeOK, LeaseInv
    <2>4. CASE UNCHANGED vars
      BY <2>4 DEF vars, LeaderInv, TypeOK, LeaseInv
    <2> QED
      BY <2>1, <2>2, <2>3, <2>4 DEF Next
  <1> QED
    BY <1>1, <1>2, PTL DEF Spec

(* The state of LeaderRunner, the lease and the lock keeps its type.       *)
THEOREM LeaderTypeCorrect == Spec => []TypeOK
  <1>1. LeaderInv => TypeOK
    BY DEF LeaderInv
  <1> QED
    BY <1>1, LeaderInvariant, PTL

(* However many replicas there are and whatever fails, two of them run the *)
(* cleanup job at once only if one lost the connection of its lease.       *)
THEOREM LeadersExclude == Spec => []Exclusion
  <1>1. LeaderInv => Exclusion
    <2> SUFFICES ASSUME LeaderInv, NEW r \in Replicas, NEW s \in Replicas,
                        Leading(r), Leading(s), r # s
                 PROVE  "down" \in {conn[r], conn[s]}
      BY DEF Exclusion
    <2>1. conn[r] \in {"up", "down"} /\ conn[s] \in {"up", "down"}
      BY DEF LeaderInv, TypeOK, LeaseInv, Leading
    <2>2. ~(conn[r] = "up" /\ conn[s] = "up")
      BY DEF LeaderInv, LeaseInv
    <2> QED
      BY <2>1, <2>2
  <1> QED
    BY <1>1, LeaderInvariant, PTL
=============================================================================
