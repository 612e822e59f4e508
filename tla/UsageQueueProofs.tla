-------------------------- MODULE UsageQueueProofs ---------------------------
(***************************************************************************)
(* Proofs about the usage writer, for any number of producers, callers of  *)
(* Close and events, and any capacity and batch size: no event is sent on  *)
(* the closed channel, a clean Close leaves nothing behind, the plugin     *)
(* implements the ledger, and no event is counted twice or out of order.   *)
(* The inductive invariant is the conjunction of the types,                *)
(* NoSendOnClosed, RunInv, CloseInv and HeldInv; the last result adds      *)
(* ReportInv and OrderInv.                                                 *)
(***************************************************************************)
EXTENDS UsageQueue, SequenceTheorems, TLAPS

(* The members of a sequence, through the operations on it. *)
LEMMA MembersOfAppend ==
  ASSUME NEW S, NEW s \in Seq(S), NEW e \in S
  PROVE  ToSet(Append(s, e)) = ToSet(s) \cup {e}
  <1>1. DOMAIN Append(s, e) = 1..(Len(s) + 1) /\ DOMAIN s = 1..Len(s) /\ Len(s) \in Nat
    BY AppendProperties, LenProperties
  <1>2. \A i \in 1..Len(s) : Append(s, e)[i] = s[i]
    BY AppendProperties
  <1>3. Append(s, e)[Len(s) + 1] = e
    BY AppendProperties
  <1> QED
    BY <1>1, <1>2, <1>3 DEF ToSet

LEMMA MembersOfConcat ==
  ASSUME NEW S, NEW s \in Seq(S), NEW t \in Seq(S)
  PROVE  ToSet(s \o t) = ToSet(s) \cup ToSet(t)
  <1>1. /\ DOMAIN (s \o t) = 1..(Len(s) + Len(t))
        /\ DOMAIN s = 1..Len(s) /\ DOMAIN t = 1..Len(t)
        /\ Len(s) \in Nat /\ Len(t) \in Nat
    BY ConcatProperties, LenProperties
  <1>2. \A i \in 1..(Len(s) + Len(t)) : (s \o t)[i] = IF i <= Len(s) THEN s[i] ELSE t[i - Len(s)]
    BY ConcatProperties
  <1>3. \A i \in 1..Len(s) : i \in 1..(Len(s) + Len(t)) /\ (s \o t)[i] = s[i]
    BY <1>1, <1>2
  <1>4. \A i \in 1..Len(t) : i + Len(s) \in 1..(Len(s) + Len(t)) /\ (s \o t)[i + Len(s)] = t[i]
    BY <1>1, <1>2
  <1>5. \A i \in 1..(Len(s) + Len(t)) : i <= Len(s) \/ i - Len(s) \in 1..Len(t)
    BY <1>1
  <1>6. ToSet(s \o t) \subseteq ToSet(s) \cup ToSet(t)
    BY <1>1, <1>2, <1>5 DEF ToSet
  <1>7. ToSet(s) \subseteq ToSet(s \o t) /\ ToSet(t) \subseteq ToSet(s \o t)
    BY <1>1, <1>3, <1>4 DEF ToSet
  <1> QED
    BY <1>6, <1>7

LEMMA MembersOfEmpty == ToSet(<<>>) = {}
  BY DEF ToSet

LEMMA MembersOfHeadTail ==
  ASSUME NEW S, NEW s \in Seq(S), s # <<>>
  PROVE  ToSet(s) = {Head(s)} \cup ToSet(Tail(s))
  <1>1. /\ DOMAIN s = 1..Len(s) /\ Len(s) \in Nat \ {0}
        /\ DOMAIN Tail(s) = 1..(Len(s) - 1)
    BY EmptySeq, LenProperties, HeadTailProperties
  <1>2. \A i \in 1..(Len(s) - 1) : Tail(s)[i] = s[i + 1]
    BY HeadTailProperties
  <1>3. Head(s) = s[1]
    OBVIOUS
  <1>4. \A i \in 1..Len(s) : i = 1 \/ i - 1 \in 1..(Len(s) - 1)
    BY <1>1
  <1>5. \A i \in 1..(Len(s) - 1) : i + 1 \in 1..Len(s)
    BY <1>1
  <1>6. ToSet(Tail(s)) \subseteq ToSet(s) /\ Head(s) \in ToSet(s)
    BY <1>1, <1>2, <1>3, <1>5 DEF ToSet
  <1>7. ASSUME NEW i \in 1..Len(s), i # 1 PROVE s[i] \in ToSet(Tail(s))
    <2>1. i - 1 \in 1..(Len(s) - 1) /\ Tail(s)[i - 1] = s[i]
      BY <1>1, <1>2, <1>7
    <2> QED BY <1>1, <2>1 DEF ToSet
  <1>8. ToSet(s) \subseteq {Head(s)} \cup ToSet(Tail(s))
    <2>1. ASSUME NEW x \in ToSet(s) PROVE x = Head(s) \/ x \in ToSet(Tail(s))
      <3>1. PICK i \in 1..Len(s) : x = s[i]
        BY <1>1, <2>1 DEF ToSet
      <3> QED BY <1>3, <1>7, <3>1
    <2> QED BY <2>1
  <1> QED
    BY <1>6, <1>8

(* Members of a sequence over S are in S. *)
LEMMA MembersInSet ==
  ASSUME NEW S, NEW s \in Seq(S)
  PROVE  ToSet(s) \subseteq S
  BY LenProperties, ElementOfSeq DEF ToSet

-----------------------------------------------------------------------------
(* A producer that is not in HandleUsage. *)
LEMMA NoCallType == NoCall \in [pc : {"idle", "locked", "send"}, event : Events] /\ NoCall.pc = "idle"
  BY UsageAssumption DEF NoCall, SomeEvent

(* Every step keeps the types. *)
LEMMA QueueTypes == TypeOK /\ RunInv /\ [Next]_vars => TypeOK'
  <1> SUFFICES ASSUME TypeOK, RunInv, [Next]_vars PROVE TypeOK'
    OBVIOUS
  <1> USE UsageAssumption
  <1> USE DEF TypeOK, intakeVars, closeVars, runVars
  <1>e. <<>> \in Seq(Events) /\ Len(<<>>) = 0
    BY EmptySeq
  <1>1. ASSUME NEW p \in Producers, HandleUsage(p) PROVE TypeOK'
    <2>1. ASSUME NEW e \in Events, HandleSkip(p, e) \/ HandleRLock(p, e) PROVE TypeOK'
      BY <2>1 DEF HandleSkip, HandleRLock
    <2>2. CASE HandleCheck(p)
      <3>1. [producer[p] EXCEPT !.pc = "send"] \in [pc : {"idle", "locked", "send"}, event : Events]
        OBVIOUS
      <3>2. producer' \in [Producers -> [pc : {"idle", "locked", "send"}, event : Events]]
        BY <2>2, <3>1, NoCallType DEF HandleCheck, Returned
      <3> QED BY <2>2, <3>2 DEF HandleCheck
    <2>3. CASE HandleSend(p)
      <3>1. producer' \in [Producers -> [pc : {"idle", "locked", "send"}, event : Events]]
        BY <2>3, NoCallType DEF HandleSend, Returned
      <3>2. /\ queue' \in Seq(Events) /\ Len(queue') = Len(queue) + 1
            /\ accepted' \in Seq(Events)
        BY <2>3, AppendProperties DEF HandleSend
      <3>3. Len(queue') <= QueueCapacity
        BY <2>3, <3>2 DEF HandleSend
      <3> QED BY <2>3, <3>1, <3>2, <3>3 DEF HandleSend
    <2>4. CASE HandleDrop(p)
      BY <2>4, NoCallType DEF HandleDrop, Returned
    <2> HIDE DEF TypeOK
    <2> QED BY <1>1, <2>1, <2>2, <2>3, <2>4 DEF HandleUsage
  <1>2. CASE Receive
    <2>1. Head(queue) \in Events /\ Tail(queue) \in Seq(Events) /\ Len(Tail(queue)) = Len(queue) - 1
      BY <1>2, HeadTailProperties DEF Receive
    <2>2. batch' \in Seq(Events) /\ Len(batch') = Len(batch) + 1
      BY <1>2, <2>1, AppendProperties DEF Receive
    <2>3. Len(batch') <= BatchSize /\ Len(queue') <= QueueCapacity
      BY <1>2, <2>1, <2>2 DEF Receive, RunInv
    <2> QED BY <1>2, <2>1, <2>2, <2>3 DEF Receive, RunnerPC
  <1>3. CASE TickerFlush \/ ReceiveClosed
    BY <1>3 DEF TickerFlush, ReceiveClosed, RunnerPC
  <1>4. CASE Insert
    <2>1. rows \o batch \in Seq(Events)
      BY ConcatProperties
    <2>2. ToSet(batch) \subseteq Events
      BY MembersInSet
    <2>3. /\ runner' \in RunnerPC /\ rows' \in Seq(Events)
          /\ batch' \in {batch, <<>>} /\ lost' \in SUBSET Events
      BY <1>4, <2>1, <2>2 DEF Insert, InsertBatchOK, InsertBatchLate, InsertBatchFails, AfterInsert,
                              AfterFlush, RunnerPC
    <2>4. UNCHANGED <<intakeVars, queue, closeVars, touched>>
      BY <1>4 DEF Insert, InsertBatchOK, InsertBatchLate, InsertBatchFails
    <2>5. batch' \in Seq(Events) /\ Len(batch') <= BatchSize
      <3>1. CASE batch' = batch
        BY <3>1
      <3>2. CASE batch' = <<>>
        BY <1>e, <3>2
      <3> QED BY <2>3, <3>1, <3>2
    <2> QED BY <2>3, <2>4, <2>5
  <1>5. ASSUME NEW ok \in BOOLEAN, TouchKeys(ok) PROVE TypeOK'
    <2>1. ToSet(batch) \subseteq Events
      BY MembersInSet
    <2>2. touched' \in SUBSET Keys
      BY <1>5, <2>1 DEF TouchKeys
    <2> QED BY <1>e, <1>5, <2>2 DEF TouchKeys, AfterFlush, RunnerPC
  <1>6. ASSUME NEW c \in Closers, Close(c) PROVE TypeOK'
    BY <1>6 DEF Close, CloseOnce, CloseChannel, CloseOnceDone, CloseFlushed, CloseExpired, CloserPC
  <1>7. CASE Exit
    <2>1. ToSet(batch) \subseteq Events /\ ToSet(queue) \subseteq Events
      BY MembersInSet
    <2> QED BY <1>e, <1>7, <2>1 DEF Exit, RunnerPC
  <1>8. CASE UNCHANGED vars
    BY <1>8 DEF vars
  <1> HIDE DEF TypeOK
  <1> QED
    BY <1>1, <1>2, <1>3, <1>4, <1>5, <1>6, <1>7, <1>8 DEF Next, Run, Touch

-----------------------------------------------------------------------------
(* The batch is empty or full where run expects it.  A producer cannot add *)
(* to the drained queue, because it does not send on the closed channel.   *)
LEMMA RunStep == TypeOK /\ RunInv /\ CloseInv /\ NoSendOnClosed /\ [Next]_vars => RunInv'
  <1> SUFFICES ASSUME TypeOK, RunInv, CloseInv, NoSendOnClosed, [Next]_vars PROVE RunInv'
    OBVIOUS
  <1> USE UsageAssumption
  <1> USE DEF RunInv, Inserting, Touching, intakeVars, closeVars, runVars
  <1>t. /\ batch \in Seq(Events) /\ queue \in Seq(Events) /\ rows \in Seq(Events)
        /\ runner \in RunnerPC /\ closed \in BOOLEAN
        /\ Len(batch) \in Nat /\ BatchSize \in Nat \ {0}
    BY LenProperties DEF TypeOK
  <1>e. Len(<<>>) = 0
    BY EmptySeq
  <1>1. ASSUME NEW p \in Producers, HandleUsage(p) PROVE RunInv'
    <2>1. UNCHANGED <<closed, runner, batch, rows>>
      BY <1>1 DEF HandleUsage, HandleSkip, HandleRLock, HandleCheck, HandleSend, HandleDrop
    <2>2. closed => queue' = queue
      BY <1>1 DEF HandleUsage, HandleSkip, HandleRLock, HandleCheck, HandleSend, HandleDrop,
                  NoSendOnClosed
    <2> QED BY <2>1, <2>2
  <1>2. CASE Receive
    <2>1. Head(queue) \in Events
      BY <1>2, <1>t, HeadTailProperties DEF Receive
    <2>2. Len(batch') = Len(batch) + 1 /\ batch' # <<>>
      BY <1>2, <1>t, <2>1, AppendProperties DEF Receive
    <2>3. runner' \in {"select", "insert"} /\ (runner' = "select" => Len(batch) + 1 # BatchSize)
      BY <1>2 DEF Receive
    <2>4. runner' = "select" => Len(batch') < BatchSize
      BY <1>2, <1>t, <2>2, <2>3 DEF Receive
    <2> QED BY <2>2, <2>3, <2>4
  <1>3. CASE TickerFlush
    BY <1>3 DEF TickerFlush
  <1>4. CASE ReceiveClosed
    BY <1>4 DEF ReceiveClosed
  <1>5. CASE InsertBatchOK
    <2>1. ToSet(rows') = ToSet(rows) \cup ToSet(batch)
      BY <1>5, <1>t, MembersOfConcat DEF InsertBatchOK
    <2>2. ToSet(batch') \subseteq ToSet(rows')
      BY <1>5, <2>1 DEF InsertBatchOK
    <2>3. runner' \in {"touch", "finalTouch"} /\ (runner' = "finalTouch" => runner = "finalInsert")
      BY <1>5 DEF InsertBatchOK, AfterInsert
    <2> QED BY <1>5, <2>2, <2>3 DEF InsertBatchOK
  <1>6. CASE InsertBatchLate \/ InsertBatchFails \/ \E ok \in BOOLEAN : TouchKeys(ok)
    <2>1. batch' = <<>> /\ UNCHANGED <<closed, queue>>
      BY <1>6 DEF InsertBatchLate, InsertBatchFails, TouchKeys
    <2>2. runner' = AfterFlush /\ runner \in {"insert", "finalInsert", "touch", "finalTouch"}
      BY <1>6 DEF InsertBatchLate, InsertBatchFails, TouchKeys
    <2>3. \/ runner' = "select"
          \/ runner' = "done" /\ closed /\ queue = <<>>
      BY <2>2 DEF AfterFlush
    <2>4. Len(batch') < BatchSize
      BY <1>e, <1>t, <2>1
    <2> QED BY <2>1, <2>3, <2>4
  <1>7. ASSUME NEW c \in Closers, Close(c) PROVE RunInv'
    <2>1. UNCHANGED <<queue, runner, batch, rows>> /\ (closed => closed')
      BY <1>7 DEF Close, CloseOnce, CloseChannel, CloseOnceDone, CloseFlushed, CloseExpired
    <2> QED BY <2>1
  <1>8. CASE Exit
    <2>1. PICK c \in Closers : TRUE
      OBVIOUS
    <2>2. closed
      BY <1>8, <2>1 DEF Exit, CloseInv
    <2> QED BY <1>8, <2>2 DEF Exit
  <1>9. CASE UNCHANGED vars
    BY <1>9 DEF vars
  <1> HIDE DEF RunInv
  <1> QED
    BY <1>1, <1>2, <1>3, <1>4, <1>5, <1>6, <1>7, <1>8, <1>9 DEF Next, Run, Insert, Touch

(* The channel is closed once, under the lock. *)
LEMMA CloseStep == TypeOK /\ CloseInv /\ [Next]_vars => CloseInv'
  <1> SUFFICES ASSUME TypeOK, CloseInv, [Next]_vars PROVE CloseInv'
    OBVIOUS
  <1> USE DEF intakeVars, closeVars, runVars
  <1>t. closer \in [Closers -> CloserPC] /\ closed \in BOOLEAN /\ runner \in RunnerPC
    BY DEF TypeOK
  <1>1. CASE UNCHANGED closeVars /\ (runner \in {"done", "exited"} => runner' \in {"done", "exited"})
    BY <1>1, <1>t DEF CloseInv
  <1>2. ASSUME NEW c \in Closers, CloseOnce(c) PROVE CloseInv'
    <2>1. UNCHANGED <<closed, runner>>
      BY <1>2 DEF CloseOnce
    <2>2. closer' \in [Closers -> CloserPC] /\ \A d \in Closers : d # c => closer'[d] = closer[d]
      BY <1>2, <1>t DEF CloseOnce, CloserPC
    <2>3. closer'[c] = "lock" => ~closed /\ \A d \in Closers : closer[d] # "lock"
      BY <1>2, <1>t DEF CloseOnce
    <2>4. closer'[c] \in {"lock", "once"}
      BY <1>2, <1>t DEF CloseOnce
    <2> QED BY <2>1, <2>2, <2>3, <2>4 DEF CloseInv
  <1>3. ASSUME NEW c \in Closers, CloseChannel(c) PROVE CloseInv'
    <2>1. closed' = TRUE /\ runner' = runner /\ closer'[c] = "wait"
      BY <1>3, <1>t DEF CloseChannel
    <2>2. \A d \in Closers : d # c => closer'[d] = closer[d]
      BY <1>3, <1>t DEF CloseChannel
    <2>3. \A d \in Closers : d # c => closer[d] # "lock"
      BY <1>3 DEF CloseChannel, CloseInv
    <2> QED BY <2>1, <2>2, <2>3 DEF CloseInv
  <1>4. ASSUME NEW c \in Closers, CloseOnceDone(c) \/ CloseFlushed(c) \/ CloseExpired(c)
        PROVE  CloseInv'
    <2>1. UNCHANGED <<closed, runner>> /\ closed
      BY <1>4 DEF CloseOnceDone, CloseFlushed, CloseExpired, CloseInv
    <2>2. \A d \in Closers : d # c => closer'[d] = closer[d]
      BY <1>4, <1>t DEF CloseOnceDone, CloseFlushed, CloseExpired
    <2>3. /\ closer'[c] \in {"wait", "flushed", "expired"}
          /\ closer'[c] = "flushed" => runner = "done"
      BY <1>4, <1>t DEF CloseOnceDone, CloseFlushed, CloseExpired
    <2> QED BY <2>1, <2>2, <2>3 DEF CloseInv
  <1>5. ASSUME NEW p \in Producers, HandleUsage(p) PROVE CloseInv'
    BY <1>1, <1>5 DEF HandleUsage, HandleSkip, HandleRLock, HandleCheck, HandleSend, HandleDrop
  <1>6. CASE Run
    BY <1>1, <1>6 DEF Run, Receive, TickerFlush, ReceiveClosed, Insert, Touch, InsertBatchOK,
                      InsertBatchLate, InsertBatchFails, TouchKeys, Inserting, Touching
  <1>7. CASE Exit
    BY <1>1, <1>7 DEF Exit
  <1>8. CASE UNCHANGED vars
    BY <1>1, <1>8 DEF vars
  <1> QED
    BY <1>2, <1>3, <1>4, <1>5, <1>6, <1>7, <1>8 DEF Next, Close

(* A producer that found the channel open holds the read lock, and Lock is *)
(* granted only when none does.                                            *)
LEMMA SendStep == TypeOK /\ NoSendOnClosed /\ [Next]_vars => NoSendOnClosed'
  <1> SUFFICES ASSUME TypeOK, NoSendOnClosed, [Next]_vars PROVE NoSendOnClosed'
    OBVIOUS
  <1> USE DEF intakeVars, closeVars, runVars
  <1>t. producer \in [Producers -> [pc : {"idle", "locked", "send"}, event : Events]]
    BY DEF TypeOK
  <1>0. CASE UNCHANGED <<producer, closed>>
    BY <1>0 DEF NoSendOnClosed
  <1>1. ASSUME NEW p \in Producers, HandleUsage(p) PROVE NoSendOnClosed'
    <2>1. UNCHANGED closed
      BY <1>1 DEF HandleUsage, HandleSkip, HandleRLock, HandleCheck, HandleSend, HandleDrop
    <2>2. \A q \in Producers : q # p => producer'[q] = producer[q]
      BY <1>1, <1>t DEF HandleUsage, HandleSkip, HandleRLock, HandleCheck, HandleSend, HandleDrop,
                        Returned
    <2>3. producer'[p].pc = "send" => producer[p].pc = "send" \/ ~closed
      BY <1>1, <1>t, NoCallType
         DEF HandleUsage, HandleSkip, HandleRLock, HandleCheck, HandleSend, HandleDrop, Returned
    <2> QED BY <2>1, <2>2, <2>3 DEF NoSendOnClosed
  <1>2. ASSUME NEW c \in Closers, Close(c) PROVE NoSendOnClosed'
    <2>1. CASE CloseChannel(c)
      BY <2>1 DEF CloseChannel, NoSendOnClosed
    <2>2. CASE ~CloseChannel(c)
      BY <1>0, <1>2, <2>2 DEF Close, CloseOnce, CloseOnceDone, CloseFlushed, CloseExpired
    <2> QED BY <2>1, <2>2
  <1>3. CASE Run
    BY <1>0, <1>3 DEF Run, Receive, TickerFlush, ReceiveClosed, Insert, Touch, InsertBatchOK,
                      InsertBatchLate, InsertBatchFails, TouchKeys
  <1>4. CASE Exit \/ UNCHANGED vars
    BY <1>0, <1>4 DEF Exit, vars
  <1> QED
    BY <1>1, <1>2, <1>3, <1>4 DEF Next

(* What run does to the batch and the table, seen from outside: the        *)
(* unwritten events are the batch until its insert has been answered.      *)
LEMMA UnwrittenStep ==
  ASSUME TypeOK, RunInv
  PROVE  /\ Receive => /\ Unwritten = batch /\ queue # <<>>
                       /\ Unwritten' = Append(batch, Head(queue)) /\ queue' = Tail(queue)
                       /\ UNCHANGED <<rows, touched, lost, accepted, closed>>
         /\ TickerFlush \/ ReceiveClosed =>
                UNCHANGED <<Unwritten, queue, rows, touched, lost, accepted, closed>>
         /\ InsertBatchOK \/ InsertBatchLate =>
                /\ Unwritten = batch /\ batch # <<>>
                /\ Unwritten' = <<>> /\ rows' = rows \o batch
                /\ UNCHANGED <<queue, touched, lost, accepted, closed>>
         /\ InsertBatchFails => /\ Unwritten = batch /\ batch # <<>> /\ Unwritten' = <<>>
                                /\ lost' = lost \cup ToSet(batch)
                                /\ UNCHANGED <<queue, rows, touched, accepted, closed>>
         /\ Touch => UNCHANGED <<Unwritten, queue, rows, lost, accepted, closed>>
         /\ Exit => /\ Unwritten' = <<>> /\ queue' = <<>>
                    /\ lost' = lost \cup ToSet(Unwritten) \cup ToSet(queue)
                    /\ UNCHANGED <<rows, touched, accepted, closed>>
  <1> USE DEF Unwritten, Inserting, Touching, intakeVars, closeVars, runVars
  <1>1. Receive => /\ Unwritten = batch /\ queue # <<>>
                   /\ Unwritten' = Append(batch, Head(queue)) /\ queue' = Tail(queue)
                   /\ UNCHANGED <<rows, touched, lost, accepted, closed>>
    BY DEF Receive
  <1>2. TickerFlush \/ ReceiveClosed =>
            UNCHANGED <<Unwritten, queue, rows, touched, lost, accepted, closed>>
    BY DEF TickerFlush, ReceiveClosed
  <1>3. InsertBatchOK \/ InsertBatchLate =>
            /\ Unwritten = batch /\ batch # <<>>
            /\ Unwritten' = <<>> /\ rows' = rows \o batch
            /\ UNCHANGED <<queue, touched, lost, accepted, closed>>
    <2>1. InsertBatchOK => runner' \in {"touch", "finalTouch"}
      BY DEF InsertBatchOK, AfterInsert
    <2> QED BY <2>1 DEF InsertBatchOK, InsertBatchLate, RunInv
  <1>4. InsertBatchFails => /\ Unwritten = batch /\ batch # <<>> /\ Unwritten' = <<>>
                            /\ lost' = lost \cup ToSet(batch)
                            /\ UNCHANGED <<queue, rows, touched, accepted, closed>>
    BY DEF InsertBatchFails, RunInv
  <1>5. Touch => UNCHANGED <<Unwritten, queue, rows, lost, accepted, closed>>
    BY DEF Touch, TouchKeys
  <1>6. Exit => /\ Unwritten' = <<>> /\ queue' = <<>>
                /\ lost' = lost \cup ToSet(Unwritten) \cup ToSet(queue)
                /\ UNCHANGED <<rows, touched, accepted, closed>>
    <2>1. ToSet(Unwritten) = IF Touching THEN {} ELSE ToSet(batch)
      BY MembersOfEmpty
    <2> QED BY <2>1 DEF Exit
  <1> QED
    BY <1>1, <1>2, <1>3, <1>4, <1>5, <1>6

(* HandleUsage adds the event to the channel, or to nothing. *)
LEMMA IntakeStep ==
  ASSUME NEW p \in Producers, HandleUsage(p)
  PROVE  /\ UNCHANGED <<closed, runner, batch, Unwritten, rows, touched, lost>>
         /\ \/ UNCHANGED <<queue, accepted>>
            \/ /\ producer[p].pc = "send" /\ Len(queue) < QueueCapacity
               /\ queue' = Append(queue, producer[p].event)
               /\ accepted' = Append(accepted, producer[p].event)
  BY DEF HandleUsage, HandleSkip, HandleRLock, HandleCheck, HandleSend, HandleDrop,
         Unwritten, Touching, closeVars, runVars

(* Every accepted event stays accounted for. *)
LEMMA HeldStep == TypeOK /\ RunInv /\ HeldInv /\ [Next]_vars => HeldInv'
  <1> SUFFICES ASSUME TypeOK, RunInv, HeldInv, [Next]_vars PROVE HeldInv'
    OBVIOUS
  <1> DEFINE All == ToSet(rows) \cup ToSet(Unwritten) \cup ToSet(queue) \cup lost
  <1> DEFINE Used == \A k \in touched : \E e \in ToSet(rows) : k \in KeyOf[e]
  <1>t. /\ batch \in Seq(Events) /\ queue \in Seq(Events) /\ rows \in Seq(Events)
        /\ accepted \in Seq(Events) /\ Unwritten \in Seq(Events)
        /\ producer \in [Producers -> [pc : {"idle", "locked", "send"}, event : Events]]
    BY EmptySeq DEF TypeOK, Unwritten
  <1>h. ToSet(accepted) = All /\ Used
    BY DEF HeldInv
  <1>0. ASSUME ToSet(accepted') = ToSet(rows') \cup ToSet(Unwritten') \cup ToSet(queue') \cup lost',
               \A k \in touched' : \E e \in ToSet(rows') : k \in KeyOf[e]
        PROVE  HeldInv'
    BY <1>0 DEF HeldInv
  <1>1. ASSUME NEW p \in Producers, HandleUsage(p) PROVE HeldInv'
    <2>1. CASE UNCHANGED <<queue, accepted>>
      BY <1>0, <1>1, <1>h, <2>1, IntakeStep
    <2>2. CASE /\ queue' = Append(queue, producer[p].event)
               /\ accepted' = Append(accepted, producer[p].event)
      <3>1. producer[p].event \in Events
        BY <1>t
      <3>2. /\ ToSet(queue') = ToSet(queue) \cup {producer[p].event}
            /\ ToSet(accepted') = ToSet(accepted) \cup {producer[p].event}
        BY <1>t, <2>2, <3>1, MembersOfAppend
      <3> QED BY <1>0, <1>1, <1>h, <3>2, IntakeStep
    <2> QED BY <1>1, <2>1, <2>2, IntakeStep
  <1>2. CASE Receive
    <2>1. Head(queue) \in Events /\ queue # <<>>
      BY <1>2, <1>t, HeadTailProperties DEF Receive
    <2>2. ToSet(queue) = {Head(queue)} \cup ToSet(Tail(queue))
      BY <1>t, <2>1, MembersOfHeadTail
    <2>3. ToSet(Append(batch, Head(queue))) = ToSet(batch) \cup {Head(queue)}
      BY <1>t, <2>1, MembersOfAppend
    <2>4. /\ Unwritten = batch
          /\ Unwritten' = Append(batch, Head(queue)) /\ queue' = Tail(queue)
          /\ UNCHANGED <<rows, touched, lost, accepted>>
      BY <1>2, UnwrittenStep
    <2>5. ToSet(Unwritten') \cup ToSet(queue') = ToSet(Unwritten) \cup ToSet(queue)
      BY <2>2, <2>3, <2>4
    <2> QED BY <1>0, <1>h, <2>4, <2>5
  <1>3. CASE TickerFlush \/ ReceiveClosed
    <2>1. UNCHANGED <<Unwritten, queue, rows, touched, lost, accepted>>
      BY <1>3, UnwrittenStep
    <2> QED BY <1>0, <1>h, <2>1
  <1>4. CASE InsertBatchOK \/ InsertBatchLate
    <2>1. ToSet(rows \o batch) = ToSet(rows) \cup ToSet(batch)
      BY <1>t, MembersOfConcat
    <2>2. /\ Unwritten = batch /\ Unwritten' = <<>> /\ rows' = rows \o batch
          /\ UNCHANGED <<queue, touched, lost, accepted>>
      BY <1>4, UnwrittenStep
    <2> QED BY <1>0, <1>h, <2>1, <2>2, MembersOfEmpty
  <1>5. CASE InsertBatchFails
    <2>1. /\ Unwritten = batch /\ Unwritten' = <<>> /\ lost' = lost \cup ToSet(batch)
          /\ UNCHANGED <<queue, rows, touched, accepted>>
      BY <1>5, UnwrittenStep
    <2> QED BY <1>0, <1>h, <2>1, MembersOfEmpty
  <1>6. ASSUME NEW ok \in BOOLEAN, TouchKeys(ok) PROVE HeldInv'
    <2>1. UNCHANGED <<Unwritten, queue, rows, lost, accepted>>
      BY <1>6, UnwrittenStep DEF Touch
    <2>2. touched' \subseteq touched \cup UNION {KeyOf[e] : e \in ToSet(batch)}
      BY <1>6 DEF TouchKeys
    <2>3. ToSet(batch) \subseteq ToSet(rows)
      BY <1>6 DEF TouchKeys, RunInv
    <2>4. \A k \in touched' : \E e \in ToSet(rows) : k \in KeyOf[e]
      BY <1>h, <2>2, <2>3
    <2> QED BY <1>0, <1>h, <2>1, <2>4
  <1>7. CASE Exit
    <2>1. /\ Unwritten' = <<>> /\ queue' = <<>>
          /\ lost' = lost \cup ToSet(Unwritten) \cup ToSet(queue)
          /\ UNCHANGED <<rows, touched, accepted>>
      BY <1>7, UnwrittenStep
    <2> QED BY <1>0, <1>h, <2>1, MembersOfEmpty
  <1>8. ASSUME NEW c \in Closers, Close(c) PROVE HeldInv'
    BY <1>0, <1>h, <1>8
       DEF Close, CloseOnce, CloseChannel, CloseOnceDone, CloseFlushed, CloseExpired,
           Unwritten, Touching, intakeVars, runVars
  <1>9. CASE UNCHANGED vars
    BY <1>0, <1>h, <1>9 DEF vars, intakeVars, runVars, Unwritten, Touching
  <1> QED
    BY <1>1, <1>2, <1>3, <1>4, <1>5, <1>6, <1>7, <1>8, <1>9 DEF Next, Run, Insert, Touch

-----------------------------------------------------------------------------
QueueInv == TypeOK /\ NoSendOnClosed /\ RunInv /\ CloseInv /\ HeldInv

(* The inductive invariant. *)
LEMMA QueueInductive == Spec => []QueueInv
  <1>1. Init => QueueInv
    <2> SUFFICES ASSUME Init PROVE QueueInv
      OBVIOUS
    <2> USE UsageAssumption DEF Init
    <2>e. <<>> \in Seq(Events) /\ Len(<<>>) = 0
      BY EmptySeq
    <2>1. TypeOK
      <3>1. producer \in [Producers -> [pc : {"idle", "locked", "send"}, event : Events]]
        BY NoCallType
      <3>2. closer \in [Closers -> CloserPC] /\ runner \in RunnerPC
        BY DEF CloserPC, RunnerPC
      <3>3. QueueCapacity >= 0 /\ BatchSize >= 0
        OBVIOUS
      <3> QED BY <2>e, <3>1, <3>2, <3>3 DEF TypeOK
    <2>2. NoSendOnClosed
      BY NoCallType DEF NoSendOnClosed
    <2>3. RunInv
      BY <2>e DEF RunInv, Inserting, Touching
    <2>4. CloseInv
      <3>1. \A c \in Closers : closer[c] = "new"
        OBVIOUS
      <3> QED BY <3>1 DEF CloseInv
    <2>5. HeldInv
      BY MembersOfEmpty DEF HeldInv, Unwritten, Touching
    <2> QED BY <2>1, <2>2, <2>3, <2>4, <2>5 DEF QueueInv
  <1>2. QueueInv /\ [Next]_vars => QueueInv'
    BY QueueTypes, RunStep, CloseStep, SendStep, HeldStep DEF QueueInv
  <1> QED
    BY <1>1, <1>2, PTL DEF Spec

(* The state of BufferedPlugin stays within its types: the channel never   *)
(* holds more than its capacity, nor the batch more than BatchSize.        *)
THEOREM QueueTypeCorrect == Spec => []TypeOK
  BY QueueInductive, PTL DEF QueueInv

(* HandleUsage never sends on a closed channel, so that no request         *)
(* goroutine panics while the process shuts down.                          *)
THEOREM NoPanicOnSend == Spec => []NoSendOnClosed
  BY QueueInductive, PTL DEF QueueInv

(* When Close returns nil every event HandleUsage accepted is in           *)
(* usage_events or was in a batch that failed.                             *)
THEOREM CloseIsClean == Spec => []CleanClose
  <1>1. QueueInv => CleanClose
    <2> SUFFICES ASSUME QueueInv, NEW c \in Closers, closer[c] = "flushed"
                 PROVE  ToSet(accepted) = ToSet(rows) \cup lost
      BY DEF CleanClose
    <2>1. runner \in {"done", "exited"}
      BY DEF QueueInv, CloseInv
    <2>2. batch = <<>> /\ queue = <<>>
      BY <2>1 DEF QueueInv, RunInv
    <2>3. Unwritten = <<>>
      BY <2>2 DEF Unwritten
    <2> QED BY <2>2, <2>3, MembersOfEmpty DEF QueueInv, HeldInv
  <1> QED
    BY <1>1, QueueInductive, PTL

-----------------------------------------------------------------------------
(* The batch followed by the channel, through the operations on either. *)

LEMMA AppendBehind ==
  ASSUME NEW S, NEW s \in Seq(S), NEW t \in Seq(S), NEW e \in S
  PROVE  s \o Append(t, e) = Append(s \o t, e)
  <1>1. <<e>> \in Seq(S) /\ s \o t \in Seq(S)
    BY ConcatProperties
  <1>2. Append(t, e) = t \o <<e>> /\ Append(s \o t, e) = (s \o t) \o <<e>>
    BY <1>1, AppendIsConcat
  <1> QED
    BY <1>1, <1>2, ConcatAssociative

LEMMA HeadMovesOver ==
  ASSUME NEW S, NEW s \in Seq(S), NEW t \in Seq(S), t # <<>>
  PROVE  Append(s, Head(t)) \o Tail(t) = s \o t
  <1>1. Head(t) \in S /\ Tail(t) \in Seq(S) /\ <<Head(t)>> \in Seq(S)
    BY HeadTailProperties
  <1>2. Append(s, Head(t)) = s \o <<Head(t)>>
    BY <1>1, AppendIsConcat
  <1>3. <<Head(t)>> \o Tail(t) = t
    <2>1. /\ Len(t) \in Nat \ {0} /\ Len(Tail(t)) = Len(t) - 1
          /\ \A i \in 1..Len(Tail(t)) : Tail(t)[i] = t[i + 1]
      BY EmptySeq, HeadTailProperties
    <2>2. /\ <<Head(t)>> \o Tail(t) \in Seq(S)
          /\ Len(<<Head(t)>> \o Tail(t)) = Len(t)
          /\ \A i \in 1..Len(t) : (<<Head(t)>> \o Tail(t))[i] =
                 IF i <= 1 THEN <<Head(t)>>[i] ELSE Tail(t)[i - 1]
      <3>1. Len(<<Head(t)>>) = 1
        OBVIOUS
      <3>2. /\ <<Head(t)>> \o Tail(t) \in Seq(S)
            /\ Len(<<Head(t)>> \o Tail(t)) = Len(<<Head(t)>>) + Len(Tail(t))
            /\ \A i \in 1..(Len(<<Head(t)>>) + Len(Tail(t))) : (<<Head(t)>> \o Tail(t))[i] =
                   IF i <= Len(<<Head(t)>>) THEN <<Head(t)>>[i] ELSE Tail(t)[i - Len(<<Head(t)>>)]
        BY <1>1, ConcatProperties
      <3> QED BY <2>1, <3>1, <3>2
    <2>3. \A i \in 1..Len(t) : (<<Head(t)>> \o Tail(t))[i] = t[i]
      <3>1. TAKE i \in 1..Len(t)
      <3>2. CASE i = 1
        BY <2>2, <3>2
      <3>3. CASE i # 1
        <4>1. i - 1 \in 1..Len(Tail(t)) /\ i \in Nat /\ ~(i <= 1)
          BY <2>1, <3>3
        <4> QED BY <2>1, <2>2, <4>1
      <3> QED BY <3>2, <3>3
    <2> QED BY <2>2, <2>3, SeqEqual
  <1> QED
    BY <1>1, <1>2, <1>3, ConcatAssociative

LEMMA PrefixAndRest ==
  ASSUME NEW S, NEW s \in Seq(S), NEW t \in Seq(S), s # <<>>
  PROVE  /\ Len(s) \in Nat \ {0} /\ Len(s \o t) = Len(s) + Len(t)
         /\ Len(s) <= Len(s \o t)
         /\ SubSeq(s \o t, 1, Len(s)) = s
         /\ SubSeq(s \o t, Len(s) + 1, Len(s \o t)) = t
  <1>1. /\ Len(s) \in Nat \ {0} /\ Len(t) \in Nat
        /\ Len(s \o t) = Len(s) + Len(t)
    BY EmptySeq, LenProperties, ConcatProperties
  <1>2. SubSeq(s \o t, 1, Len(s)) = s
    <2>1. 1 \in 1..Len(s) /\ Len(s) \in 1..Len(s)
      BY <1>1
    <2> QED BY <2>1, SubSeqOfConcat1, SubSeqFull
  <1>3. SubSeq(s \o t, Len(s) + 1, Len(s \o t)) = t
    <2>1. CASE t = <<>>
      <3>1. Len(t) = 0
        BY <2>1, EmptySeq
      <3>2. Len(s \o t) < Len(s) + 1 /\ Len(s \o t) \in Int /\ Len(s) + 1 \in Int
        BY <1>1, <3>1
      <3> QED BY <2>1, <3>2, SubSeqEmpty
    <2>2. CASE t # <<>>
      <3>1. Len(t) \in Nat \ {0}
        BY <2>2, EmptySeq
      <3>2. /\ Len(s) + 1 \in (Len(s) + 1)..(Len(s) + Len(t))
            /\ Len(s) + Len(t) \in (Len(s) + 1)..(Len(s) + Len(t))
        BY <1>1, <3>1
      <3>3. (Len(s) + 1) - Len(s) = 1 /\ (Len(s) + Len(t)) - Len(s) = Len(t)
        BY <1>1, <3>1
      <3>4. SubSeq(s \o t, Len(s) + 1, Len(s) + Len(t)) = SubSeq(t, 1, Len(t))
        BY <3>2, <3>3, SubSeqOfConcat2
      <3> QED BY <1>1, <3>4, SubSeqFull
    <2> QED BY <2>1, <2>2
  <1> QED
    BY <1>1, <1>2, <1>3

(* Each step of the plugin is a step of the ledger, or leaves it alone.  A *)
(* send is an Accept, the answer to an insert settles the whole batch, a   *)
(* receive only moves the border between batch and channel.                *)
LEMMA LedgerStep == QueueInv /\ [Next]_vars => [Ledger!LedgerNext]_(Ledger!ledgerVars)
  <1> SUFFICES ASSUME QueueInv, [Next]_vars PROVE [Ledger!LedgerNext]_(Ledger!ledgerVars)
    OBVIOUS
  <1> USE UsageAssumption
  <1>t. /\ batch \in Seq(Events) /\ queue \in Seq(Events) /\ rows \in Seq(Events)
        /\ Unwritten \in Seq(Events) /\ Unwritten \o queue \in Seq(Events)
        /\ Len(queue) \in Nat /\ Len(Unwritten) \in Nat
        /\ Len(Unwritten) <= BatchSize /\ Len(batch) <= BatchSize
        /\ Len(Unwritten \o queue) = Len(Unwritten) + Len(queue)
        /\ producer \in [Producers -> [pc : {"idle", "locked", "send"}, event : Events]]
    <2>1. Unwritten \in Seq(Events) /\ Len(Unwritten) <= BatchSize
      BY EmptySeq DEF QueueInv, TypeOK, Unwritten
    <2> QED BY <2>1, LenProperties, ConcatProperties DEF QueueInv, TypeOK
  <1>0. CASE UNCHANGED <<Unwritten, queue, rows, closed>>
    BY <1>0 DEF Ledger!ledgerVars
  <1>1. ASSUME NEW p \in Producers, HandleUsage(p) PROVE [Ledger!LedgerNext]_(Ledger!ledgerVars)
    <2>1. CASE UNCHANGED <<queue, accepted>>
      BY <1>0, <1>1, <2>1, IntakeStep
    <2>2. CASE /\ producer[p].pc = "send" /\ Len(queue) < QueueCapacity
               /\ queue' = Append(queue, producer[p].event)
      <3>1. producer[p].event \in Events
        BY <1>t
      <3>2. ~closed /\ UNCHANGED <<closed, rows, Unwritten>>
        BY <1>1, <2>2, IntakeStep DEF QueueInv, NoSendOnClosed
      <3>3. Unwritten \o Append(queue, producer[p].event) = Append(Unwritten \o queue, producer[p].event)
        BY <1>t, <3>1, AppendBehind
      <3>4. (Unwritten \o queue)' = Append(Unwritten \o queue, producer[p].event)
        BY <2>2, <3>2, <3>3
      <3>5. Len(Unwritten \o queue) < QueueCapacity + BatchSize
        BY <1>t, <2>2
      <3>6. Ledger!Accept(producer[p].event)
        BY <3>2, <3>4, <3>5 DEF Ledger!Accept
      <3> QED BY <3>1, <3>6 DEF Ledger!LedgerNext
    <2> QED BY <1>1, <2>1, <2>2, IntakeStep
  <1>2. CASE Receive
    <2>1. /\ Unwritten = batch /\ queue # <<>>
          /\ Unwritten' = Append(batch, Head(queue)) /\ queue' = Tail(queue)
          /\ UNCHANGED <<rows, closed>>
      BY <1>2, UnwrittenStep DEF QueueInv
    <2>2. (Unwritten \o queue)' = Unwritten \o queue
      BY <1>t, <2>1, HeadMovesOver
    <2> QED BY <2>1, <2>2 DEF Ledger!ledgerVars
  <1>3. CASE TickerFlush \/ ReceiveClosed \/ Touch
    <2>1. UNCHANGED <<Unwritten, queue, rows, closed>>
      BY <1>3, UnwrittenStep DEF QueueInv
    <2> QED BY <1>0, <2>1
  <1>4. CASE Insert
    <2>1. /\ Unwritten = batch /\ batch # <<>> /\ Unwritten' = <<>> /\ UNCHANGED <<queue, closed>>
          /\ rows' = rows \o batch \/ rows' = rows
      BY <1>4, UnwrittenStep DEF QueueInv, Insert
    <2>2. /\ Len(batch) \in 1..BatchSize /\ Len(batch) <= Len(batch \o queue)
          /\ SubSeq(batch \o queue, 1, Len(batch)) = batch
          /\ SubSeq(batch \o queue, Len(batch) + 1, Len(batch \o queue)) = queue
      BY <1>t, <2>1, PrefixAndRest
    <2>3. (Unwritten \o queue)' = queue
      BY <1>t, <2>1, ConcatEmptySeq
    <2>4. Ledger!Write(Len(batch)) \/ Ledger!Lose(Len(batch))
      BY <2>1, <2>2, <2>3 DEF Ledger!Write, Ledger!Lose, Ledger!Behind
    <2> QED BY <2>1, <2>2, <2>4 DEF Ledger!LedgerNext, Ledger!Settle
  <1>5. ASSUME NEW c \in Closers, Close(c) PROVE [Ledger!LedgerNext]_(Ledger!ledgerVars)
    <2>1. UNCHANGED <<Unwritten, queue, rows>>
      BY <1>5 DEF Close, CloseOnce, CloseChannel, CloseOnceDone, CloseFlushed, CloseExpired,
                  runVars, Unwritten, Touching
    <2>2. CASE CloseChannel(c)
      <3>1. ~closed /\ closed' = TRUE
        BY <2>2 DEF CloseChannel, QueueInv, CloseInv
      <3>2. Ledger!Shut
        BY <2>1, <3>1 DEF Ledger!Shut
      <3> QED BY <3>2 DEF Ledger!LedgerNext
    <2>3. CASE ~CloseChannel(c)
      <3>1. UNCHANGED closed
        BY <1>5, <2>3 DEF Close, CloseOnce, CloseOnceDone, CloseFlushed, CloseExpired
      <3> QED BY <1>0, <2>1, <3>1
    <2> QED BY <2>2, <2>3
  <1>6. CASE Exit
    <2>1. PICK c \in Closers : TRUE
      OBVIOUS
    <2>2. closed
      BY <1>6, <2>1 DEF Exit, QueueInv, CloseInv
    <2>3. Unwritten' = <<>> /\ queue' = <<>> /\ UNCHANGED <<rows, closed>>
      BY <1>6, UnwrittenStep DEF QueueInv
    <2>4. (Unwritten \o queue)' = <<>>
      BY <2>3, EmptySeq, ConcatEmptySeq
    <2>5. Ledger!Abandon
      BY <2>2, <2>3, <2>4 DEF Ledger!Abandon
    <2> QED BY <2>5 DEF Ledger!LedgerNext
  <1>7. CASE UNCHANGED vars
    BY <1>0, <1>7 DEF vars, closeVars, runVars, Unwritten, Touching
  <1> QED
    BY <1>1, <1>2, <1>3, <1>4, <1>5, <1>6, <1>7 DEF Next, Run

(* BufferedPlugin implements the safety of the ledger: accepted events     *)
(* leave the buffer in the order of their arrival, a batch is written or   *)
(* lost as a whole, none is written twice, and nothing is accepted after   *)
(* Close.  This is ImplementsLedger without its fairness.                  *)
THEOREM QueueImplementsLedger == Spec => Ledger!LedgerSpec
  <1>1. Init => Ledger!LedgerInit
    BY EmptySeq, ConcatEmptySeq DEF Init, Ledger!LedgerInit, Unwritten, Touching
  <1> QED
    BY <1>1, LedgerStep, QueueInductive, PTL DEF Spec, Ledger!LedgerSpec
-----------------------------------------------------------------------------
(* The order of acceptance.  The three pieces of Kept are in order, each   *)
(* on its own and before the next, and no lost event is in any of them.    *)

Rising(s, P) == \A i, j \in DOMAIN s : i < j => P[s[i]] < P[s[j]]
Before(s, t, P) == \A a \in ToSet(s), b \in ToSet(t) : P[a] < P[b]
Busy(p) == producer[p].pc # "idle"

ReportInv ==
    /\ \A p \in Producers : Busy(p) => producer[p].event \in reported \ ToSet(accepted)
    /\ \A p, q \in Producers : Busy(p) /\ Busy(q) /\ producer[p].event = producer[q].event => p = q
    /\ ToSet(accepted) \subseteq reported
    /\ \A i, j \in DOMAIN accepted : accepted[i] = accepted[j] => i = j

OrderInv ==
    /\ Rising(rows, Place) /\ Rising(Unwritten, Place) /\ Rising(queue, Place)
    /\ Before(rows, Unwritten, Place) /\ Before(rows, queue, Place) /\ Before(Unwritten, queue, Place)
    /\ lost \cap (ToSet(rows) \cup ToSet(Unwritten) \cup ToSet(queue)) = {}

LEMMA RisingConcat ==
  ASSUME NEW S, NEW P, NEW s \in Seq(S), NEW t \in Seq(S)
  PROVE  Rising(s \o t, P) <=> Rising(s, P) /\ Rising(t, P) /\ Before(s, t, P)
  <1> DEFINE m == Len(s)
             n == Len(t)
             u == s \o t
  <1>1. /\ DOMAIN u = 1..(m + n) /\ DOMAIN s = 1..m /\ DOMAIN t = 1..n
        /\ m \in Nat /\ n \in Nat
    BY ConcatProperties, LenProperties
  <1>2. \A i \in 1..(m + n) : u[i] = IF i <= m THEN s[i] ELSE t[i - m]
    BY ConcatProperties
  <1>3. \A i \in 1..m : i \in 1..(m + n) /\ u[i] = s[i]
    BY <1>1, <1>2
  <1>4. \A i \in 1..n : i + m \in 1..(m + n) /\ u[i + m] = t[i]
    BY <1>1, <1>2
  <1> HIDE DEF m, n, u
  <1>5. ASSUME Rising(u, P) PROVE Rising(s, P) /\ Rising(t, P) /\ Before(s, t, P)
    <2>1. Rising(s, P)
      BY <1>1, <1>3, <1>5 DEF Rising
    <2>2. ASSUME NEW i \in 1..n, NEW j \in 1..n, i < j PROVE P[t[i]] < P[t[j]]
      <3>1. i + m \in 1..(m + n) /\ j + m \in 1..(m + n) /\ i + m < j + m
        BY <1>1, <2>2
      <3>2. u[i + m] = t[i] /\ u[j + m] = t[j]
        BY <1>4
      <3> QED BY <1>1, <1>5, <3>1, <3>2 DEF Rising
    <2>3. ASSUME NEW i \in 1..m, NEW j \in 1..n PROVE P[s[i]] < P[t[j]]
      <3>1. i \in 1..(m + n) /\ j + m \in 1..(m + n) /\ i < j + m
        BY <1>1
      <3>2. u[i] = s[i] /\ u[j + m] = t[j]
        BY <1>3, <1>4
      <3> QED BY <1>1, <1>5, <3>1, <3>2 DEF Rising
    <2> QED BY <1>1, <2>1, <2>2, <2>3 DEF Rising, Before, ToSet
  <1>6. ASSUME Rising(s, P), Rising(t, P), Before(s, t, P),
               NEW i \in 1..(m + n), NEW j \in 1..(m + n), i < j
        PROVE  P[u[i]] < P[u[j]]
    <2>1. CASE j <= m
      <3>1. i \in 1..m /\ j \in 1..m
        BY <1>1, <1>6, <2>1
      <3> QED BY <1>1, <1>3, <1>6, <3>1 DEF Rising
    <2>2. CASE i <= m /\ ~(j <= m)
      <3>1. i \in 1..m /\ j - m \in 1..n
        BY <1>1, <1>6, <2>2
      <3>2. u[i] = s[i] /\ u[j] = t[j - m]
        BY <1>2, <2>2
      <3>3. s[i] \in ToSet(s) /\ t[j - m] \in ToSet(t)
        BY <1>1, <3>1 DEF ToSet
      <3> QED BY <1>6, <3>2, <3>3 DEF Before
    <2>3. CASE ~(i <= m) /\ ~(j <= m)
      <3>1. i - m \in 1..n /\ j - m \in 1..n /\ i - m < j - m
        BY <1>1, <1>6, <2>3
      <3>2. u[i] = t[i - m] /\ u[j] = t[j - m]
        BY <1>2, <2>3
      <3> QED BY <1>1, <1>6, <3>1, <3>2 DEF Rising
    <2> QED BY <1>1, <1>6, <2>1, <2>2, <2>3
  <1> QED BY <1>1, <1>5, <1>6 DEF Rising, u

LEMMA RisingSingle ==
  ASSUME NEW P, NEW e
  PROVE  Rising(<<e>>, P) /\ ToSet(<<e>>) = {e}
  BY DEF Rising, ToSet

LEMMA RisingAppend ==
  ASSUME NEW S, NEW P, NEW s \in Seq(S), NEW e \in S
  PROVE  Rising(Append(s, e), P) <=> Rising(s, P) /\ \A a \in ToSet(s) : P[a] < P[e]
  <1>1. <<e>> \in Seq(S) /\ Append(s, e) = s \o <<e>>
    BY AppendIsConcat
  <1>2. Rising(s \o <<e>>, P) <=> Rising(s, P) /\ Rising(<<e>>, P) /\ Before(s, <<e>>, P)
    BY <1>1, RisingConcat
  <1>3. Before(s, <<e>>, P) <=> \A a \in ToSet(s) : P[a] < P[e]
    BY RisingSingle DEF Before
  <1> QED BY <1>1, <1>2, <1>3, RisingSingle

LEMMA RisingTail ==
  ASSUME NEW S, NEW P, NEW s \in Seq(S), s # <<>>, Rising(s, P)
  PROVE  Rising(Tail(s), P) /\ \A b \in ToSet(Tail(s)) : P[Head(s)] < P[b]
  <1>1. Head(s) \in S /\ Tail(s) \in Seq(S) /\ <<>> \in Seq(S) /\ <<Head(s)>> \in Seq(S)
    BY HeadTailProperties, EmptySeq
  <1>2. Append(<<>>, Head(s)) \o Tail(s) = <<>> \o s /\ <<>> \o s = s
    BY <1>1, HeadMovesOver, ConcatEmptySeq
  <1>3. Append(<<>>, Head(s)) = <<Head(s)>>
    OBVIOUS
  <1>4. Rising(<<Head(s)>> \o Tail(s), P)
    BY <1>2, <1>3
  <1>5. Rising(Tail(s), P) /\ Before(<<Head(s)>>, Tail(s), P)
    BY <1>1, <1>4, RisingConcat
  <1> QED BY <1>5, RisingSingle DEF Before

(* The place of an event that was accepted once. *)
LEMMA PlaceOf ==
  ASSUME NEW S, NEW s \in Seq(S), \A i, j \in DOMAIN s : s[i] = s[j] => i = j
  PROVE  /\ \A i \in DOMAIN s : AntiFunction(s)[s[i]] = i
         /\ \A a \in ToSet(s) : AntiFunction(s)[a] \in 1..Len(s)
  <1>1. DOMAIN s = 1..Len(s)
    BY LenProperties
  <1>2. ASSUME NEW i \in DOMAIN s PROVE AntiFunction(s)[s[i]] = i
    <2>1. s[i] \in Range(s)
      BY DEF Range
    <2>2. AntiFunction(s)[s[i]] = CHOOSE j \in DOMAIN s : s[i] \in Range(s) => s[j] = s[i]
      BY <2>1 DEF AntiFunction, Inverse
    <2> QED BY <2>1, <2>2
  <1> QED BY <1>1, <1>2 DEF ToSet

(* Every event is handed to HandleUsage once. *)
LEMMA ReportStep == TypeOK /\ ReportInv /\ [Next]_vars => ReportInv'
  <1> SUFFICES ASSUME TypeOK, ReportInv, [Next]_vars PROVE ReportInv'
    OBVIOUS
  <1>t. /\ producer \in [Producers -> [pc : {"idle", "locked", "send"}, event : Events]]
        /\ accepted \in Seq(Events)
    BY DEF TypeOK
  <1>0. CASE UNCHANGED <<producer, reported, accepted>>
    BY <1>0 DEF ReportInv, Busy
  <1>1. ASSUME NEW p \in Producers, HandleUsage(p) PROVE ReportInv'
    <2>1. ASSUME NEW e \in Events, HandleSkip(p, e) PROVE ReportInv'
      BY <2>1 DEF HandleSkip, ReportInv, Busy
    <2>2. ASSUME NEW e \in Events, HandleRLock(p, e) PROVE ReportInv'
      <3>1. /\ producer'[p] = [pc |-> "locked", event |-> e]
            /\ \A q \in Producers : q # p => producer'[q] = producer[q]
            /\ e \notin reported /\ reported' = reported \cup {e} /\ accepted' = accepted
        BY <1>t, <2>2 DEF HandleRLock
      <3> QED BY <3>1 DEF ReportInv, Busy
    <2>3. CASE HandleCheck(p) \/ HandleDrop(p)
      <3>1. /\ \A q \in Producers : q # p => producer'[q] = producer[q]
            /\ producer'[p].pc # "idle" => producer'[p].event = producer[p].event /\ Busy(p)
            /\ UNCHANGED <<reported, accepted>>
        BY <1>t, <2>3, NoCallType DEF HandleCheck, HandleDrop, Returned, Busy
      <3> QED BY <3>1 DEF ReportInv, Busy
    <2>4. CASE HandleSend(p)
      <3> DEFINE e == producer[p].event
      <3>1. /\ producer'[p].pc = "idle" /\ Busy(p)
            /\ \A q \in Producers : q # p => producer'[q] = producer[q]
            /\ reported' = reported /\ accepted' = Append(accepted, e) /\ e \in Events
        BY <1>t, <2>4, NoCallType DEF HandleSend, Returned, Busy
      <3>2. ToSet(accepted') = ToSet(accepted) \cup {e}
        BY <1>t, <3>1, MembersOfAppend
      <3>3. e \in reported /\ e \notin ToSet(accepted)
        BY <3>1 DEF ReportInv
      <3>4. \A q \in Producers : q # p /\ Busy(q) => producer[q].event # e
        BY <3>1 DEF ReportInv
      <3>5. \A i, j \in DOMAIN accepted' : accepted'[i] = accepted'[j] => i = j
        <4>1. /\ DOMAIN accepted' = 1..(Len(accepted) + 1) /\ DOMAIN accepted = 1..Len(accepted)
              /\ Len(accepted) \in Nat
          BY <1>t, <3>1, AppendProperties, LenProperties
        <4>2. /\ \A i \in 1..Len(accepted) : accepted'[i] = accepted[i]
              /\ accepted'[Len(accepted) + 1] = e
          BY <1>t, <3>1, AppendProperties
        <4>3. \A i \in 1..Len(accepted) : accepted[i] # e
          BY <3>3, <4>1 DEF ToSet
        <4>4. \A i \in 1..(Len(accepted) + 1) : i \in 1..Len(accepted) \/ i = Len(accepted) + 1
          BY <4>1
        <4> QED BY <4>1, <4>2, <4>3, <4>4 DEF ReportInv
      <3> QED BY <3>1, <3>2, <3>3, <3>4, <3>5 DEF ReportInv, Busy
    <2> QED BY <1>1, <2>1, <2>2, <2>3, <2>4 DEF HandleUsage
  <1>2. CASE Run \/ Exit
    BY <1>0, <1>2 DEF Run, Receive, TickerFlush, ReceiveClosed, Insert, Touch, InsertBatchOK,
                      InsertBatchLate, InsertBatchFails, TouchKeys, Exit, intakeVars
  <1>3. ASSUME NEW c \in Closers, Close(c) PROVE ReportInv'
    BY <1>0, <1>3 DEF Close, CloseOnce, CloseChannel, CloseOnceDone, CloseFlushed, CloseExpired,
                      intakeVars
  <1>4. CASE UNCHANGED vars
    BY <1>0, <1>4 DEF vars, intakeVars
  <1> QED
    BY <1>1, <1>2, <1>3, <1>4 DEF Next

(* An event that is sent comes after every other one. *)
LEMMA PlaceOfSent ==
  ASSUME TypeOK, ReportInv, NEW e \in Events \ ToSet(accepted), accepted' = Append(accepted, e), ReportInv'
  PROVE  /\ \A a \in ToSet(accepted) : Place'[a] = Place[a] /\ Place'[a] < Place'[e]
  <1>t. accepted \in Seq(Events) /\ accepted' \in Seq(Events)
    BY AppendProperties DEF TypeOK
  <1>1. \A i \in DOMAIN accepted : Place[accepted[i]] = i
    BY <1>t, PlaceOf DEF ReportInv, Place
  <1>2. \A i \in DOMAIN accepted' : Place'[accepted'[i]] = i
    BY <1>t, PlaceOf DEF ReportInv, Place
  <1>3. /\ DOMAIN accepted = 1..Len(accepted) /\ DOMAIN accepted' = 1..(Len(accepted) + 1)
        /\ Len(accepted) \in Nat
        /\ \A i \in 1..Len(accepted) : accepted'[i] = accepted[i]
        /\ accepted'[Len(accepted) + 1] = e
    BY <1>t, AppendProperties, LenProperties
  <1>4. Place'[e] = Len(accepted) + 1
    BY <1>2, <1>3
  <1>5. ASSUME NEW i \in 1..Len(accepted)
        PROVE  Place'[accepted[i]] = Place[accepted[i]] /\ Place'[accepted[i]] < Place'[e]
    <2>1. Place'[accepted[i]] = i /\ Place[accepted[i]] = i
      BY <1>1, <1>2, <1>3
    <2> QED BY <1>3, <1>4, <2>1
  <1> QED BY <1>3, <1>5 DEF ToSet

(* Pieces of one order that have an event in common are not apart. *)
LEMMA BeforeIsDisjoint ==
  ASSUME TypeOK, ReportInv, NEW s, NEW t, ToSet(s) \subseteq ToSet(accepted), Before(s, t, Place)
  PROVE  ToSet(s) \cap ToSet(t) = {}
  <1>1. \A a \in ToSet(accepted) : Place[a] \in 1..Len(accepted)
    BY PlaceOf DEF TypeOK, ReportInv, Place
  <1>2. \A a \in ToSet(s) : ~(Place[a] < Place[a])
    BY <1>1
  <1> QED BY <1>2 DEF Before

(* No step changes the order of the events that are left. *)
LEMMA OrderStep ==
  ASSUME TypeOK, RunInv, HeldInv, ReportInv, OrderInv, ReportInv', [Next]_vars
  PROVE  OrderInv'
  <1>t. /\ batch \in Seq(Events) /\ queue \in Seq(Events) /\ rows \in Seq(Events)
        /\ accepted \in Seq(Events) /\ Unwritten \in Seq(Events) /\ <<>> \in Seq(Events)
        /\ producer \in [Producers -> [pc : {"idle", "locked", "send"}, event : Events]]
    BY EmptySeq DEF TypeOK, Unwritten
  <1>h. /\ ToSet(rows) \subseteq ToSet(accepted) /\ ToSet(Unwritten) \subseteq ToSet(accepted)
        /\ ToSet(queue) \subseteq ToSet(accepted) /\ lost \subseteq ToSet(accepted)
    BY DEF HeldInv
  <1>o. OrderInv
    OBVIOUS
  <1>e. /\ \A P : Rising(<<>>, P)
        /\ \A s, P : Before(s, <<>>, P) /\ Before(<<>>, s, P)
    BY MembersOfEmpty DEF Rising, Before
  <1>0. CASE UNCHANGED <<rows, Unwritten, queue, lost, accepted>>
    BY <1>0 DEF OrderInv, Place
  <1>p. accepted' = accepted => Place' = Place
    BY DEF Place
  <1>1. ASSUME NEW p \in Producers, HandleUsage(p) PROVE OrderInv'
    <2>1. CASE UNCHANGED <<queue, accepted>>
      BY <1>0, <1>1, <2>1, IntakeStep
    <2>2. CASE /\ producer[p].pc = "send"
               /\ queue' = Append(queue, producer[p].event)
               /\ accepted' = Append(accepted, producer[p].event)
      <3> DEFINE e == producer[p].event
                 P == Place
                 Q == Place'
      <3>1. e \in Events \ ToSet(accepted)
        BY <1>t, <2>2 DEF ReportInv, Busy
      <3>2. \A a \in ToSet(accepted) : Q[a] = P[a] /\ Q[a] < Q[e]
        BY <2>2, <3>1, PlaceOfSent
      <3>3. UNCHANGED <<rows, Unwritten, lost>> /\ queue' = Append(queue, e)
        BY <1>1, <2>2, IntakeStep
      <3>4. ToSet(queue') = ToSet(queue) \cup {e}
        BY <1>t, <3>1, <3>3, MembersOfAppend
      <3>5. /\ Rising(rows, P) /\ Rising(Unwritten, P) /\ Rising(queue, P)
            /\ Before(rows, Unwritten, P) /\ Before(rows, queue, P) /\ Before(Unwritten, queue, P)
            /\ lost \cap (ToSet(rows) \cup ToSet(Unwritten) \cup ToSet(queue)) = {}
        BY <1>o DEF OrderInv
      <3> HIDE DEF e, P, Q
      <3>6. ASSUME NEW s, ToSet(s) \subseteq ToSet(accepted), Rising(s, P) PROVE Rising(s, Q)
        <4>1. \A i \in DOMAIN s : Q[s[i]] = P[s[i]]
          BY <3>2, <3>6 DEF ToSet
        <4> QED BY <3>6, <4>1 DEF Rising
      <3>7. Rising(rows, Q) /\ Rising(Unwritten, Q) /\ Rising(queue, Q)
        BY <1>h, <3>5, <3>6
      <3>8. Rising(queue', Q)
        <4>1. \A a \in ToSet(queue) : Q[a] < Q[e]
          BY <1>h, <3>2
        <4> QED BY <1>t, <3>1, <3>3, <3>7, <4>1, RisingAppend
      <3>9. Before(rows, Unwritten, Q) /\ Before(rows, queue', Q) /\ Before(Unwritten, queue', Q)
        BY <1>h, <3>2, <3>4, <3>5 DEF Before
      <3>10. lost \cap (ToSet(rows) \cup ToSet(Unwritten) \cup ToSet(queue')) = {}
        BY <1>h, <3>1, <3>4, <3>5
      <3> QED BY <3>3, <3>7, <3>8, <3>9, <3>10 DEF OrderInv, Q
    <2> QED BY <1>1, <2>1, <2>2, IntakeStep
  <1>2. CASE Receive
    <2>1. /\ Unwritten = batch /\ queue # <<>>
          /\ Unwritten' = Append(batch, Head(queue)) /\ queue' = Tail(queue)
          /\ UNCHANGED <<rows, lost, accepted>>
      BY <1>2, UnwrittenStep
    <2> DEFINE P == Place
               h == Head(queue)
               q == Tail(queue)
    <2>2. h \in Events /\ q \in Seq(Events)
      BY <1>t, <2>1, HeadTailProperties
    <2>3. ToSet(queue) = {h} \cup ToSet(q)
      BY <1>t, <2>1, MembersOfHeadTail
    <2>4. ToSet(Append(batch, h)) = ToSet(batch) \cup {h}
      BY <1>t, <2>2, MembersOfAppend
    <2>5. Rising(q, P) /\ \A b \in ToSet(q) : P[h] < P[b]
      BY <1>t, <1>o, <2>1, RisingTail DEF OrderInv
    <2>6. /\ Rising(rows, P) /\ Rising(batch, P)
          /\ Before(rows, batch, P) /\ Before(rows, queue, P) /\ Before(batch, queue, P)
          /\ lost \cap (ToSet(rows) \cup ToSet(batch) \cup ToSet(queue)) = {}
      BY <1>o, <2>1 DEF OrderInv
    <2> HIDE DEF P, h, q
    <2>7. Rising(Append(batch, h), P)
      <3>1. \A a \in ToSet(batch) : P[a] < P[h]
        BY <2>3, <2>6 DEF Before
      <3> QED BY <1>t, <2>2, <2>6, <3>1, RisingAppend
    <2>8. /\ Before(rows, Append(batch, h), P) /\ Before(rows, q, P)
          /\ Before(Append(batch, h), q, P)
      BY <2>3, <2>4, <2>5, <2>6 DEF Before
    <2>9. lost \cap (ToSet(rows) \cup ToSet(Append(batch, h)) \cup ToSet(q)) = {}
      BY <2>3, <2>4, <2>6
    <2> QED BY <1>p, <2>1, <2>5, <2>6, <2>7, <2>8, <2>9 DEF OrderInv, P, h, q
  <1>3. CASE TickerFlush \/ ReceiveClosed \/ Touch
    BY <1>0, <1>3, UnwrittenStep
  <1>4. CASE InsertBatchOK \/ InsertBatchLate
    <2>1. /\ Unwritten = batch /\ Unwritten' = <<>> /\ rows' = rows \o batch
          /\ UNCHANGED <<queue, lost, accepted>>
      BY <1>4, UnwrittenStep
    <2>2. ToSet(rows \o batch) = ToSet(rows) \cup ToSet(batch)
      BY <1>t, MembersOfConcat
    <2>3. Rising(rows \o batch, Place)
      BY <1>t, <1>o, <2>1, RisingConcat DEF OrderInv
    <2>4. Before(rows \o batch, queue, Place)
      BY <1>o, <2>1, <2>2 DEF OrderInv, Before
    <2>5. lost \cap (ToSet(rows \o batch) \cup ToSet(queue)) = {}
      BY <1>o, <2>1, <2>2 DEF OrderInv
    <2> QED BY <1>e, <1>o, <1>p, <2>1, <2>3, <2>4, <2>5, MembersOfEmpty DEF OrderInv
  <1>5. CASE InsertBatchFails \/ Exit
    <2>1. /\ Unwritten' = <<>> /\ queue' \in {queue, <<>>}
          /\ lost' \subseteq lost \cup ToSet(Unwritten) \cup ToSet(queue)
          /\ queue' = queue => lost' \subseteq lost \cup ToSet(Unwritten) \/ queue = <<>>
          /\ UNCHANGED <<rows, accepted>>
      BY <1>5, UnwrittenStep
    <2>2. /\ ToSet(rows) \cap ToSet(Unwritten) = {} /\ ToSet(rows) \cap ToSet(queue) = {}
          /\ ToSet(Unwritten) \cap ToSet(queue) = {}
      BY <1>h, <1>o, BeforeIsDisjoint DEF OrderInv
    <2>3. lost' \cap (ToSet(rows) \cup ToSet(<<>>) \cup ToSet(queue')) = {}
      BY <1>o, <2>1, <2>2, MembersOfEmpty DEF OrderInv
    <2> QED BY <1>e, <1>o, <1>p, <2>1, <2>3 DEF OrderInv
  <1>6. ASSUME NEW c \in Closers, Close(c) PROVE OrderInv'
    BY <1>0, <1>6 DEF Close, CloseOnce, CloseChannel, CloseOnceDone, CloseFlushed, CloseExpired,
                      Unwritten, Touching, intakeVars, runVars
  <1>7. CASE UNCHANGED vars
    BY <1>0, <1>7 DEF vars, intakeVars, runVars, Unwritten, Touching
  <1> QED
    BY <1>1, <1>2, <1>3, <1>4, <1>5, <1>6, <1>7 DEF Next, Run, Insert

(* HandleUsage, run and InsertBatch: what was accepted and did not fail is *)
(* in the table, the batch or the channel, once and in the order of        *)
(* acceptance, and a key was used only if one of its events is stored.     *)
THEOREM NothingIsMiscounted == Spec => []Accounting
  <1>1. Init => ReportInv /\ OrderInv
    BY MembersOfEmpty, NoCallType
       DEF Init, ReportInv, OrderInv, Rising, Before, Busy, Unwritten, Touching
  <1>2. QueueInv /\ ReportInv /\ OrderInv /\ [Next]_vars => ReportInv' /\ OrderInv'
    BY ReportStep, OrderStep DEF QueueInv
  <1>3. QueueInv /\ ReportInv /\ OrderInv => Accounting
    <2> SUFFICES ASSUME QueueInv, ReportInv, OrderInv PROVE Accounting
      OBVIOUS
    <2>1. /\ rows \in Seq(Events) /\ Unwritten \in Seq(Events) /\ queue \in Seq(Events)
          /\ rows \o Unwritten \in Seq(Events)
      <3>1. rows \in Seq(Events) /\ Unwritten \in Seq(Events) /\ queue \in Seq(Events)
        BY EmptySeq DEF QueueInv, TypeOK, Unwritten
      <3> QED BY <3>1, ConcatProperties
    <2>2. ToSet(rows \o Unwritten) = ToSet(rows) \cup ToSet(Unwritten)
      BY <2>1, MembersOfConcat
    <2>3. ToSet(Kept) = ToSet(rows) \cup ToSet(Unwritten) \cup ToSet(queue)
      <3>1. ToSet((rows \o Unwritten) \o queue) = ToSet(rows \o Unwritten) \cup ToSet(queue)
        BY <2>1, MembersOfConcat
      <3> QED BY <2>2, <3>1 DEF Kept
    <2>4. ToSet(Kept) = ToSet(accepted) \ lost
      BY <2>3 DEF QueueInv, HeldInv, OrderInv
    <2>5. Rising(rows \o Unwritten, Place) /\ Before(rows \o Unwritten, queue, Place)
      BY <2>1, <2>2, RisingConcat DEF OrderInv, Before
    <2>6. Rising(Kept, Place)
      BY <2>1, <2>5, RisingConcat DEF Kept, OrderInv
    <2> QED BY <2>4, <2>6 DEF Accounting, Rising, QueueInv, HeldInv
  <1> QED
    BY <1>1, <1>2, <1>3, QueueInductive, PTL DEF Spec
=============================================================================
