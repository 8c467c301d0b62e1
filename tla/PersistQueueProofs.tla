------------------------- MODULE PersistQueueProofs -------------------------
(***************************************************************************)
(* TLAPS proofs about PersistQueue, for any set of clients, capacity,      *)
(* batch size and number of calls.                                         *)
(***************************************************************************)
EXTENDS PersistQueue, SequenceTheorems, TLAPS

-----------------------------------------------------------------------------
(* Moving the head of one sequence to the end of another keeps their       *)
(* concatenation: what receiving into the batch does to batch \o buf.      *)
LEMMA MoveHead ==
  ASSUME NEW S, NEW s \in Seq(S), NEW t \in Seq(S), t # <<>>
  PROVE  Append(s, Head(t)) \o Tail(t) = s \o t
<1>1. /\ Head(t) \in S /\ Tail(t) \in Seq(S) /\ Len(Tail(t)) = Len(t) - 1
      /\ \A i \in 1..Len(Tail(t)) : Tail(t)[i] = t[i + 1]
  BY HeadTailProperties
<1>2. /\ Append(s, Head(t)) \in Seq(S)
      /\ Len(Append(s, Head(t))) = Len(s) + 1
      /\ \A i \in 1..Len(s) : Append(s, Head(t))[i] = s[i]
      /\ Append(s, Head(t))[Len(s) + 1] = Head(t)
  BY <1>1, AppendProperties
<1>3. Head(t) = t[1]
  OBVIOUS
<1>4. Len(t) \in Nat \ {0} /\ Len(s) \in Nat
  BY EmptySeq, LenProperties
<1> DEFINE l == Append(s, Head(t)) \o Tail(t)
           r == s \o t
<1>5. /\ l \in Seq(S) /\ Len(l) = Len(s) + Len(t)
      /\ \A i \in 1..Len(s) + Len(t) :
           l[i] = IF i <= Len(s) + 1 THEN Append(s, Head(t))[i]
                                     ELSE Tail(t)[i - (Len(s) + 1)]
  <2>1. /\ l \in Seq(S) /\ Len(l) = Len(s) + 1 + (Len(t) - 1)
        /\ \A i \in 1..Len(s) + 1 + (Len(t) - 1) :
             l[i] = IF i <= Len(s) + 1 THEN Append(s, Head(t))[i]
                                       ELSE Tail(t)[i - (Len(s) + 1)]
    BY <1>1, <1>2, ConcatProperties
  <2> QED BY <2>1, <1>4
<1>6. /\ r \in Seq(S) /\ Len(r) = Len(s) + Len(t)
      /\ \A i \in 1..Len(s) + Len(t) :
           r[i] = IF i <= Len(s) THEN s[i] ELSE t[i - Len(s)]
  BY ConcatProperties
<1>7. ASSUME NEW i \in 1..Len(l) PROVE l[i] = r[i]
  <2>1. CASE i <= Len(s)
    BY <2>1, <1>2, <1>4, <1>5, <1>6
  <2>2. CASE i = Len(s) + 1
    BY <2>2, <1>2, <1>3, <1>4, <1>5, <1>6
  <2>3. CASE i > Len(s) + 1
    <3>1. i - (Len(s) + 1) \in 1..Len(Tail(t))
      BY <2>3, <1>1, <1>4, <1>5
    <3>2. Tail(t)[i - (Len(s) + 1)] = t[(i - (Len(s) + 1)) + 1]
      BY <3>1, <1>1
    <3>3. (i - (Len(s) + 1)) + 1 = i - Len(s)
      BY <1>4, <1>5
    <3> QED BY <2>3, <3>2, <3>3, <1>4, <1>5, <1>6
  <2> QED BY <2>1, <2>2, <2>3, <1>4, <1>5
<1> HIDE DEF l, r
<1>8. l = r
  BY <1>5, <1>6, <1>7, SeqEqual
<1> QED BY <1>8 DEF l, r

(* Concatenation is associative.                                           *)
LEMMA Associative ==
  \A a, b, c \in Seq(Calls) : (a \o b) \o c = a \o (b \o c)
  BY ConcatAssociative, SMTT(60)

(* The same below a common prefix: receiving into the batch changes        *)
(* nothing in saved \o batch \o buf.                                       *)
LEMMA MoveHeadBelow ==
  \A r, s, t \in Seq(Calls) :
    t # <<>> => (r \o Append(s, Head(t))) \o Tail(t) = (r \o s) \o t
<1> TAKE r, s, t \in Seq(Calls)
<1> HAVE t # <<>>
<1> DEFINE x == Append(s, Head(t))
           y == Tail(t)
<1>1. y \in Seq(Calls) /\ Head(t) \in Calls
  BY HeadTailProperties
<1>2. x \in Seq(Calls)
  BY <1>1, AppendProperties
<1>3. x \o y = s \o t
  BY MoveHead
<1> HIDE DEF x, y
<1>4. (r \o x) \o y = r \o (x \o y)
  BY <1>1, <1>2, Associative, ZenonT(60)
<1>5. (r \o s) \o t = r \o (s \o t)
  BY Associative, ZenonT(60)
<1>6. (r \o x) \o y = (r \o s) \o t
  BY <1>3, <1>4, <1>5
<1> QED BY <1>6 DEF x, y

(* Appending to the last part of a concatenation appends to the whole.     *)
LEMMA AppendBelow ==
  ASSUME NEW S, NEW r \in Seq(S), NEW t \in Seq(S), NEW e \in S
  PROVE  r \o Append(t, e) = Append(r \o t, e)
<1> DEFINE x == <<e>>
<1>1. x \in Seq(S)
  OBVIOUS
<1>2. r \o t \in Seq(S)
  BY ConcatProperties
<1>3. Append(t, e) = t \o x /\ Append(r \o t, e) = (r \o t) \o x
  BY <1>2, AppendIsConcat
<1> HIDE DEF x
<1>4. (r \o t) \o x = r \o (t \o x)
  BY <1>1, ConcatAssociative
<1> QED BY <1>3, <1>4

-----------------------------------------------------------------------------
(* A state variable assigned TRUE or FALSE is Boolean.                     *)
LEMMA BooleanValue == \A x : (x = TRUE \/ x = FALSE) => x \in BOOLEAN
  OBVIOUS

(* The queue NewWithConfig returns has the types.                          *)
LEMMA TypeInit == Init => TypeOK
  BY QueueAssumption, BooleanValue DEF QueueAssumption, Init, TypeOK, ClientPC, WorkerPC, NoStats, Calls

(* Every step keeps the types, the capacity of the channel and the size of *)
(* a batch.                                                                *)
LEMMA TypeStep == TypeOK /\ [Next]_vars => TypeOK'
<1> SUFFICES ASSUME TypeOK, [Next]_vars PROVE TypeOK'
  OBVIOUS
<1> USE QueueAssumption, BooleanValue DEF QueueAssumption
<1> USE DEF TypeOK, ClientPC, WorkerPC, NoStats, Calls, Goto, CloseChannel,
            counters, lockVars, chanVars, workVars
<1>1. ASSUME NEW c \in Clients, ClientNext(c) PROVE TypeOK'
  <2>1. CASE EnqueueLock(c)
    BY <2>1 DEF EnqueueLock
  <2>2. CASE EnqueueSend(c)
    <3>1. received \in Calls
      BY <2>2 DEF EnqueueSend
    <3>2. buf' \in Seq(Calls) /\ Len(buf') <= Capacity /\ accepted' \in Seq(Calls)
      BY <2>2, <3>1, AppendProperties DEF EnqueueSend
    <3> QED BY <2>2, <3>2 DEF EnqueueSend
  <2>3. CASE EnqueueFull(c)
    BY <2>3 DEF EnqueueFull
  <2>4. CASE EnqueueCount(c)
    BY SMTT(30), <2>4 DEF EnqueueCount
  <2>5. CASE EnqueueDrop(c)
    BY SMTT(30), <2>5 DEF EnqueueDrop
  <2>6. CASE CloseLock(c)
    BY <2>6 DEF CloseLock
  <2>7. CASE CloseReturn(c)
    BY <2>7 DEF CloseReturn
  <2>8. CASE ReceiveError(c)
    BY SMTT(30), <2>8 DEF ReceiveError
  <2>9. CASE StatsReceived(c)
    <3>1. snap' \in [Clients -> [received : Nat, enqueued : Nat,
                                 persisted : Nat, dropped : Nat]]
      <4>1. [received |-> received, enqueued |-> 0, persisted |-> 0,
             dropped |-> 0] \in [received : Nat, enqueued : Nat,
                                 persisted : Nat, dropped : Nat]
        OBVIOUS
      <4> QED BY <2>9, <4>1 DEF StatsReceived
    <3> QED BY <2>9, <3>1 DEF StatsReceived
  <2>10. CASE StatsEnqueued(c)
    BY ZenonT(30), <2>10 DEF StatsEnqueued
  <2>11. CASE StatsPersisted(c)
    BY ZenonT(30), <2>11 DEF StatsPersisted
  <2>12. CASE StatsDropped(c)
    BY ZenonT(30), <2>12 DEF StatsDropped
  <2> QED BY <1>1, <2>1, <2>2, <2>3, <2>4, <2>5, <2>6, <2>7, <2>8, <2>9,
             <2>10, <2>11, <2>12
          DEF ClientNext, EnqueueStep, StatsStep
<1>2. CASE WorkerNext
  <2>1. CASE WorkerReceive
    BY SMTT(30), <2>1, HeadTailProperties DEF WorkerReceive
  <2>2. CASE WorkerCollect
    <3>1. buf' \in Seq(Calls) /\ Len(buf') <= Capacity /\ Head(buf) \in Calls
      BY SMTT(30), <2>2, HeadTailProperties DEF WorkerCollect
    <3>2. batch' \in Seq(Calls) /\ Len(batch') <= BatchSize
      BY <2>2, <3>1, AppendProperties DEF WorkerCollect
    <3> QED BY <2>2, <3>1, <3>2 DEF WorkerCollect
  <2>3. CASE WorkerFinish \/ WorkerCollected \/ WorkerSaveFailed
    BY <2>3 DEF WorkerFinish, WorkerCollected, WorkerSaveFailed
  <2>4. CASE WorkerSaved
    BY <2>4, ConcatProperties DEF WorkerSaved
  <2>5. CASE WorkerCount
    BY <2>5, EmptySeq DEF WorkerCount
  <2>6. CASE WorkerRecordError
    <3>1. dropped' \in Nat
      <4>1. Len(batch) \in Nat /\ Len(buf) \in Nat BY LenProperties
      <4> QED BY <2>6, <4>1 DEF WorkerRecordError
    <3> QED BY <2>6, <3>1 DEF WorkerRecordError
  <2> QED BY <1>2, <2>1, <2>2, <2>3, <2>4, <2>5, <2>6
          DEF WorkerNext, WorkerUnlocked
<1>3. CASE UNCHANGED vars
  BY <1>3 DEF vars
<1> QED BY <1>1, <1>2, <1>3 DEF Next

-----------------------------------------------------------------------------
(* Stats reads: it moves its caller between labels outside Enqueue and     *)
(* Close and leaves everything but the snapshot alone.                     *)
StatsPC == {"idle", "loadEnqueued", "loadPersisted", "loadDropped"}

(* Stats and Errors change nothing but the reading client's own state.     *)
LEMMA StatsFrame ==
  ASSUME NEW c \in Clients, StatsReceived(c) \/ StatsStep(c)
  PROVE  /\ UNCHANGED <<mu, closed, err, errCh, buf, chanClosed, panicked,
                        accepted, received, enqueued, persisted, dropped,
                        result, wpc, batch, saved>>
         /\ pc[c] \in StatsPC
         /\ \E l \in StatsPC : pc' = [pc EXCEPT ![c] = l]
  BY DEF StatsReceived, StatsStep, StatsEnqueued, StatsPersisted, StatsDropped,
         StatsPC, Goto, lockVars, chanVars, counters, workVars

-----------------------------------------------------------------------------
(* The mutex keeps Enqueue, Close and recordError apart.                   *)
LEMMA MutexStep == TypeOK /\ MutexInv /\ [Next]_vars => MutexInv'
<1> SUFFICES ASSUME TypeOK, MutexInv, [Next]_vars PROVE MutexInv'
  OBVIOUS
<1>0. pc \in [Clients -> ClientPC] /\ NoOwner \notin Clients \cup {Worker}
      /\ Worker \notin Clients
  BY QueueAssumption DEF QueueAssumption, TypeOK
<1> USE <1>0 DEF ClientPC, MutexInv, Goto, lockVars
<1>1. ASSUME NEW c \in Clients, ClientNext(c) PROVE MutexInv'
  <2>1. CASE EnqueueLock(c)
    BY <2>1 DEF EnqueueLock
  <2>2. CASE EnqueueStep(c)
    BY <2>2 DEF EnqueueStep, EnqueueSend, EnqueueFull, EnqueueCount, EnqueueDrop
  <2>3. CASE CloseLock(c) \/ CloseReturn(c) \/ ReceiveError(c)
    BY <2>3 DEF CloseLock, CloseReturn, ReceiveError
  <2>4. CASE StatsReceived(c) \/ StatsStep(c)
    BY <2>4, StatsFrame DEF StatsPC
  <2> QED BY <1>1, <2>1, <2>2, <2>3, <2>4 DEF ClientNext
<1>2. CASE WorkerNext
  BY <1>2 DEF WorkerNext, WorkerUnlocked, WorkerReceive, WorkerFinish,
     WorkerCollect, WorkerCollected, WorkerSaved, WorkerSaveFailed, WorkerCount,
     WorkerRecordError
<1>3. CASE UNCHANGED vars
  BY <1>3 DEF vars
<1> QED BY <1>1, <1>2, <1>3 DEF Next

(* Closing is seen by everybody who takes the mutex afterwards.            *)
LEMMA ClosedStep ==
  TypeOK /\ MutexInv /\ ClosedInv /\ [Next]_vars => ClosedInv'
<1> SUFFICES ASSUME TypeOK, MutexInv, ClosedInv, [Next]_vars PROVE ClosedInv'
  OBVIOUS
<1>0. /\ pc \in [Clients -> ClientPC] /\ NoOwner \notin Clients
      /\ closed \in BOOLEAN /\ chanClosed \in BOOLEAN /\ panicked \in BOOLEAN
  BY QueueAssumption DEF QueueAssumption, TypeOK
<1> USE <1>0 DEF ClientPC, MutexInv, ClosedInv, Goto, CloseChannel, lockVars,
                 chanVars
<1>1. ASSUME NEW c \in Clients, ClientNext(c) PROVE ClosedInv'
  <2>1. CASE EnqueueLock(c)
    BY <2>1 DEF EnqueueLock
  <2>2. CASE EnqueueSend(c) \/ EnqueueFull(c)
    <3>1. ~chanClosed
      BY <2>2 DEF EnqueueSend, EnqueueFull
    <3> QED BY <2>2, <3>1 DEF EnqueueSend, EnqueueFull
  <2>6. CASE EnqueueCount(c) \/ EnqueueDrop(c)
    BY <2>6 DEF EnqueueCount, EnqueueDrop
  <2>3. CASE CloseLock(c)
    BY <2>3 DEF CloseLock
  <2>4. CASE CloseReturn(c) \/ ReceiveError(c)
    BY <2>4 DEF CloseReturn, ReceiveError
  <2>5. CASE StatsReceived(c) \/ StatsStep(c)
    BY <2>5, StatsFrame DEF StatsPC
  <2> QED BY <1>1, <2>1, <2>2, <2>3, <2>4, <2>5, <2>6
          DEF ClientNext, EnqueueStep
<1>2. CASE WorkerUnlocked
  BY <1>2 DEF WorkerUnlocked, WorkerReceive, WorkerFinish, WorkerCollect,
     WorkerCollected, WorkerSaved, WorkerSaveFailed, WorkerCount
<1>3. CASE WorkerRecordError
  <2>1. /\ pc' = pc
        /\ \A c \in Clients : pc[c] \notin {"send", "count"}
    BY <1>3 DEF WorkerRecordError
  <2>2. CASE UNCHANGED <<closed, chanClosed, panicked>>
    BY <2>1, <2>2
  <2>3. CASE ~closed /\ CloseChannel
    BY <2>1, <2>3
  <2> QED BY <1>3, <2>2, <2>3 DEF WorkerRecordError
<1>4. CASE UNCHANGED vars
  BY <1>4 DEF vars
<1> QED BY <1>1, <1>2, <1>3, <1>4 DEF Next, WorkerNext

(* The worker's batch, its error and its end agree.                        *)
LEMMA WorkerStep ==
  TypeOK /\ MutexInv /\ ClosedInv /\ WorkerInv /\ [Next]_vars => WorkerInv'
<1> SUFFICES ASSUME TypeOK, MutexInv, ClosedInv, WorkerInv, [Next]_vars
             PROVE  WorkerInv'
  OBVIOUS
<1>0. /\ closed \in BOOLEAN /\ err \in BOOLEAN /\ wpc \in WorkerPC
      /\ batch \in Seq(Calls) /\ buf \in Seq(Calls)
      /\ result \in [Clients -> {"none", "nil", "error"}]
  BY DEF TypeOK
<1> USE <1>0 DEF WorkerPC, WorkerInv, Goto, CloseChannel, lockVars, chanVars,
                 workVars
<1>1. ASSUME NEW c \in Clients, ClientNext(c) PROVE WorkerInv'
  <2>1. CASE EnqueueLock(c)
    BY <2>1 DEF EnqueueLock
  <2>2. CASE EnqueueSend(c)
    BY <2>2 DEF EnqueueSend, ClosedInv
  <2>3. CASE EnqueueFull(c) \/ EnqueueCount(c) \/ EnqueueDrop(c)
    BY <2>3 DEF EnqueueFull, EnqueueCount, EnqueueDrop
  <2>4. CASE CloseLock(c)
    BY <2>4 DEF CloseLock
  <2>5. CASE CloseReturn(c)
    BY <2>5 DEF CloseReturn
  <2>6. CASE ReceiveError(c)
    BY <2>6 DEF ReceiveError
  <2>7. CASE StatsReceived(c) \/ StatsStep(c)
    BY <2>7, StatsFrame
  <2> QED BY <1>1, <2>1, <2>2, <2>3, <2>4, <2>5, <2>6, <2>7
          DEF ClientNext, EnqueueStep
<1>2. CASE WorkerReceive
  BY <1>2 DEF WorkerReceive
<1>3. CASE WorkerCollect
  <2>1. batch' # <<>>
    <3>1. Head(buf) \in Calls
      BY <1>3, HeadTailProperties DEF WorkerCollect
    <3> QED BY <1>3, <3>1, AppendProperties DEF WorkerCollect
  <2> QED BY <1>3, <2>1 DEF WorkerCollect
<1>4. CASE WorkerFinish
  BY <1>4 DEF WorkerFinish, ClosedInv
<1>5. CASE WorkerCollected \/ WorkerSaved \/ WorkerSaveFailed \/ WorkerCount
  BY <1>5 DEF WorkerCollected, WorkerSaved, WorkerSaveFailed, WorkerCount
<1>6. CASE WorkerRecordError
  BY <1>6 DEF WorkerRecordError
<1>7. CASE UNCHANGED vars
  BY <1>7 DEF vars
<1> QED BY <1>1, <1>2, <1>3, <1>4, <1>5, <1>6, <1>7
        DEF Next, WorkerNext, WorkerUnlocked

-----------------------------------------------------------------------------
(* A step that leaves the error, the batch and the channel alone settles   *)
(* no event.                                                               *)
LEMMA UnsettledFrame ==
  UNCHANGED <<err, batch, buf>> => Unsettled' = Unsettled
  BY DEF Unsettled

(* Every step accounts for the calls of Enqueue it decides.                *)
LEMMA ConservationStep ==
  TypeOK /\ MutexInv /\ ClosedInv /\ WorkerInv /\ Conservation /\ [Next]_vars
    => Conservation'
<1> SUFFICES ASSUME TypeOK, MutexInv, ClosedInv, WorkerInv, Conservation,
                    [Next]_vars
             PROVE  Conservation'
  OBVIOUS
<1>0. /\ pc \in [Clients -> ClientPC] /\ NoOwner \notin Clients
      /\ err \in BOOLEAN
      /\ received \in Nat /\ persisted \in Nat /\ dropped \in Nat
      /\ batch \in Seq(Calls) /\ buf \in Seq(Calls)
      /\ Len(batch) \in Nat /\ Len(buf) \in Nat
  BY QueueAssumption, LenProperties DEF QueueAssumption, TypeOK
<1>a. Unsettled \in Nat /\ Undecided \in Nat
  BY <1>0 DEF Unsettled, Undecided
<1> USE <1>0, <1>a DEF ClientPC, Conservation, Goto
<1>1. ASSUME NEW c \in Clients, ClientNext(c) PROVE Conservation'
  <2>1. CASE EnqueueLock(c)
    <3>1. Undecided = 0 /\ Undecided' = 1
      BY <2>1 DEF EnqueueLock, Undecided, MutexInv
    <3>2. Unsettled' = Unsettled
      BY <2>1 DEF EnqueueLock, Unsettled, chanVars, workVars
    <3>3. received' = received + 1 /\ UNCHANGED <<persisted, dropped>>
      BY <2>1 DEF EnqueueLock
    <3> QED BY <3>1, <3>2, <3>3
  <2>2. CASE EnqueueSend(c)
    <3>1. Undecided = 1 /\ Undecided' = 0
      BY <2>2 DEF EnqueueSend, Undecided, MutexInv
    <3>2. ~err /\ ~err'
      BY <2>2 DEF EnqueueSend, ClosedInv, WorkerInv, lockVars
    <3>3. Len(buf') = Len(buf) + 1 /\ batch' = batch
      <4>1. received \in Calls
        BY <2>2 DEF EnqueueSend, TypeOK, Calls
      <4> QED BY <2>2, <4>1, AppendProperties DEF EnqueueSend, workVars
    <3>4. Unsettled' = Unsettled + 1
      BY <3>2, <3>3 DEF Unsettled
    <3>5. UNCHANGED <<received, persisted, dropped>>
      BY <2>2 DEF EnqueueSend, counters
    <3> QED BY <3>1, <3>4, <3>5
  <2>3. CASE EnqueueFull(c)
    <3>1. Undecided = 1 /\ Undecided' = 1
      BY <2>3 DEF EnqueueFull, Undecided
    <3>2. Unsettled' = Unsettled
      BY <2>3 DEF EnqueueFull, Unsettled, lockVars, workVars
    <3>3. UNCHANGED <<received, persisted, dropped>>
      BY <2>3 DEF EnqueueFull, counters
    <3> QED BY <3>1, <3>2, <3>3
  <2>4. CASE EnqueueCount(c)
    <3>1. Undecided' = Undecided
      BY <2>4 DEF EnqueueCount, Undecided
    <3>2. Unsettled' = Unsettled
      BY <2>4 DEF EnqueueCount, Unsettled, chanVars, workVars
    <3>3. UNCHANGED <<received, persisted, dropped>>
      BY <2>4 DEF EnqueueCount
    <3> QED BY <3>1, <3>2, <3>3
  <2>5. CASE EnqueueDrop(c)
    <3>1. Undecided = 1 /\ Undecided' = 0
      BY <2>5 DEF EnqueueDrop, Undecided, MutexInv
    <3>2. Unsettled' = Unsettled
      BY <2>5 DEF EnqueueDrop, Unsettled, chanVars, workVars
    <3>3. dropped' = dropped + 1 /\ UNCHANGED <<received, persisted>>
      BY <2>5 DEF EnqueueDrop
    <3> QED BY <3>1, <3>2, <3>3
  <2>6. CASE CloseLock(c) \/ CloseReturn(c) \/ ReceiveError(c)
    <3>1. Undecided' = Undecided
      BY <2>6 DEF CloseLock, CloseReturn, ReceiveError, Undecided
    <3>2. Unsettled' = Unsettled
      <4>1. UNCHANGED <<err, batch, buf>>
        BY <2>6 DEF CloseLock, CloseReturn, ReceiveError, lockVars, chanVars,
           workVars
      <4> QED BY <4>1, UnsettledFrame
    <3>3. UNCHANGED <<received, persisted, dropped>>
      BY <2>6 DEF CloseLock, CloseReturn, ReceiveError, counters
    <3> QED BY <3>1, <3>2, <3>3
  <2>7. CASE StatsReceived(c) \/ StatsStep(c)
    <3>1. Undecided' = Undecided
      BY <2>7, StatsFrame DEF Undecided, StatsPC
    <3>0. UNCHANGED <<err, batch, buf>>
      BY <2>7, StatsFrame
    <3>2. Unsettled' = Unsettled
      BY <3>0 DEF Unsettled
    <3> QED BY <2>7, <3>1, <3>2, StatsFrame
  <2> QED BY <1>1, <2>1, <2>2, <2>3, <2>4, <2>5, <2>6, <2>7
          DEF ClientNext, EnqueueStep
<1>2. CASE WorkerNext
  <2>0. Undecided' = Undecided
    BY <1>2 DEF Undecided, WorkerNext, WorkerUnlocked, WorkerReceive,
       WorkerFinish, WorkerCollect, WorkerCollected, WorkerSaved,
       WorkerSaveFailed, WorkerCount, WorkerRecordError
  <2>1. CASE WorkerReceive
    <3>1. ~err /\ ~err' /\ Len(batch) = 0
      BY <2>1, EmptySeq DEF WorkerReceive, WorkerInv, lockVars
    <3>2. Len(buf') = Len(buf) - 1
      BY <2>1, HeadTailProperties DEF WorkerReceive
    <3>3. Len(batch') = 1
      BY <2>1 DEF WorkerReceive
    <3>4. Unsettled' = Unsettled
      BY <3>1, <3>2, <3>3 DEF Unsettled
    <3> QED BY <2>0, <2>1, <3>4 DEF WorkerReceive, counters
  <2>2. CASE WorkerCollect
    <3>1. Len(buf') = Len(buf) - 1 /\ Head(buf) \in Calls
      BY <2>2, HeadTailProperties DEF WorkerCollect
    <3>2. Len(batch') = Len(batch) + 1
      BY <2>2, <3>1, AppendProperties DEF WorkerCollect
    <3>3. err' = err
      BY <2>2 DEF WorkerCollect, lockVars
    <3>4. Unsettled' = Unsettled
      BY <3>1, <3>2, <3>3 DEF Unsettled
    <3> QED BY <2>0, <2>2, <3>4 DEF WorkerCollect, counters
  <2>3. CASE WorkerFinish \/ WorkerCollected \/ WorkerSaved \/ WorkerSaveFailed
    <3>0. UNCHANGED <<err, batch, buf>>
      BY <2>3 DEF WorkerFinish, WorkerCollected, WorkerSaved,
         WorkerSaveFailed, lockVars, chanVars
    <3>1. Unsettled' = Unsettled
      BY <3>0 DEF Unsettled
    <3> QED BY <2>0, <2>3, <3>1 DEF WorkerFinish, WorkerCollected, WorkerSaved,
               WorkerSaveFailed, counters
  <2>4. CASE WorkerCount
    <3>1. ~err /\ ~err' /\ buf' = buf /\ Len(batch') = 0
      BY <2>4, EmptySeq DEF WorkerCount, WorkerInv, lockVars, chanVars
    <3>2. Unsettled = Unsettled' + Len(batch) /\ Unsettled' \in Nat
      BY <3>1 DEF Unsettled
    <3>3. persisted' = persisted + Len(batch) /\ UNCHANGED <<received, dropped>>
      BY <2>4 DEF WorkerCount
    <3> QED BY <2>0, <3>2, <3>3
  <2>5. CASE WorkerRecordError
    <3>1. ~err /\ err'
      BY <2>5 DEF WorkerRecordError, WorkerInv
    <3>2. /\ dropped' = dropped + Len(batch) + Len(buf)
          /\ UNCHANGED <<received, persisted>>
      BY <2>5, <3>1 DEF WorkerRecordError
    <3>3. Unsettled = Len(batch) + Len(buf) /\ Unsettled' = 0
      BY <3>1 DEF Unsettled
    <3> QED BY <2>0, <3>2, <3>3
  <2> QED BY <1>2, <2>1, <2>2, <2>3, <2>4, <2>5 DEF WorkerNext, WorkerUnlocked
<1>3. CASE UNCHANGED vars
  <2>1. Undecided' = Undecided /\ Unsettled' = Unsettled
    BY <1>3 DEF vars, Undecided, Unsettled, lockVars, chanVars, workVars
  <2> QED BY <1>3, <2>1 DEF vars, counters
<1> QED BY <1>1, <1>2, <1>3 DEF Next

-----------------------------------------------------------------------------
(* The enqueued and persisted counters follow the channel and the store.   *)
LEMMA CountStep ==
  TypeOK /\ MutexInv /\ ClosedInv /\ WorkerInv /\ CountInv /\ [Next]_vars
    => CountInv'
<1> SUFFICES ASSUME TypeOK, MutexInv, ClosedInv, WorkerInv, CountInv, [Next]_vars
             PROVE  CountInv'
  OBVIOUS
<1> DEFINE Sent(p) == IF \E c \in Clients : p[c] = "count" THEN 1 ELSE 0
           Stored(w, b) == IF w = "count" THEN Len(b) ELSE 0
<1>0. /\ pc \in [Clients -> ClientPC] /\ NoOwner \notin Clients
      /\ enqueued \in Nat /\ persisted \in Nat
      /\ batch \in Seq(Calls) /\ accepted \in Seq(Calls) /\ saved \in Seq(Calls)
      /\ Len(batch) \in Nat /\ Len(accepted) \in Nat /\ Len(saved) \in Nat
  BY QueueAssumption, LenProperties DEF QueueAssumption, TypeOK
<1>a. Len(accepted) = enqueued + Sent(pc) /\ Len(saved) = persisted + Stored(wpc, batch)
  BY DEF CountInv
<1>b. SUFFICES /\ Len(accepted') = enqueued' + Sent(pc')
               /\ Len(saved') = persisted' + Stored(wpc', batch')
  BY DEF CountInv
<1> USE <1>0 DEF ClientPC, Goto
<1>1. ASSUME NEW c \in Clients, ClientNext(c)
      PROVE  /\ UNCHANGED <<saved, persisted, wpc, batch>>
             /\ Len(accepted') = enqueued' + Sent(pc')
  <2>1. CASE EnqueueSend(c)
    <3>1. Sent(pc) = 0 /\ Sent(pc') = 1
      BY <2>1 DEF EnqueueSend, MutexInv
    <3>2. received \in Calls
      BY <2>1 DEF EnqueueSend, TypeOK, Calls
    <3>3. Len(accepted') = Len(accepted) + 1
      BY <2>1, <3>2, AppendProperties DEF EnqueueSend
    <3> QED BY <2>1, <1>a, <3>1, <3>3 DEF EnqueueSend, counters, workVars
  <2>2. CASE EnqueueCount(c)
    <3>1. Sent(pc) = 1 /\ Sent(pc') = 0
      BY <2>2 DEF EnqueueCount, MutexInv
    <3> QED BY <2>2, <1>a, <3>1 DEF EnqueueCount, chanVars, workVars
  <2>3. CASE EnqueueLock(c) \/ EnqueueFull(c) \/ EnqueueDrop(c) \/ CloseLock(c)
             \/ CloseReturn(c) \/ ReceiveError(c)
    <3>1. Sent(pc') = Sent(pc)
      BY <2>3 DEF EnqueueLock, EnqueueFull, EnqueueDrop, CloseLock, CloseReturn,
                  ReceiveError
    <3>2. UNCHANGED <<saved, persisted, wpc, batch, accepted, enqueued>>
      BY <2>3 DEF EnqueueLock, EnqueueFull, EnqueueDrop, CloseLock, CloseReturn,
                  ReceiveError, counters, chanVars, workVars
    <3> QED BY <1>a, <3>1, <3>2
  <2>4. CASE StatsReceived(c) \/ StatsStep(c)
    <3>1. Sent(pc') = Sent(pc)
      BY <2>4, StatsFrame DEF StatsPC
    <3> QED BY <1>a, <2>4, <3>1, StatsFrame
  <2> QED BY <1>1, <2>1, <2>2, <2>3, <2>4 DEF ClientNext, EnqueueStep
<1>2. CASE WorkerNext
  <2>1. Sent(pc') = Sent(pc) /\ UNCHANGED <<accepted, enqueued>>
    BY <1>2 DEF WorkerNext, WorkerUnlocked, WorkerReceive, WorkerFinish,
       WorkerCollect, WorkerCollected, WorkerSaved, WorkerSaveFailed,
       WorkerCount, WorkerRecordError, counters, chanVars
  <2>2. CASE WorkerSaved
    <3>1. Len(saved') = Len(saved) + Len(batch)
      BY <2>2, ConcatProperties DEF WorkerSaved
    <3> QED BY <1>a, <2>1, <2>2, <3>1 DEF WorkerSaved, counters
  <2>3. CASE WorkerCount
    BY <1>a, <2>1, <2>3 DEF WorkerCount
  <2>4. CASE ~WorkerSaved /\ ~WorkerCount
    <3>1. wpc # "count" /\ wpc' # "count" /\ UNCHANGED <<saved, persisted>>
      BY <1>2, <2>4 DEF WorkerNext, WorkerUnlocked, WorkerReceive, WorkerFinish,
         WorkerCollect, WorkerCollected, WorkerSaveFailed, WorkerRecordError,
         counters
    <3> QED BY <1>a, <2>1, <3>1
  <2> QED BY <2>2, <2>3, <2>4
<1>3. CASE UNCHANGED vars
  BY <1>3, <1>a DEF vars, counters, chanVars, workVars
<1>4. ASSUME NEW c \in Clients, ClientNext(c)
      PROVE  /\ Len(accepted') = enqueued' + Sent(pc')
             /\ Len(saved') = persisted' + Stored(wpc', batch')
  BY <1>1, <1>4, <1>a
<1> QED BY <1>2, <1>3, <1>4 DEF Next

(* The store, the batch and the channel keep the accepted events in order. *)
LEMMA OrderStep ==
  TypeOK /\ WorkerInv /\ StoredInOrder /\ [Next]_vars => StoredInOrder'
<1> SUFFICES ASSUME TypeOK, WorkerInv, StoredInOrder, [Next]_vars
             PROVE  StoredInOrder'
  OBVIOUS
<1>0. /\ batch \in Seq(Calls) /\ buf \in Seq(Calls)
      /\ saved \in Seq(Calls) /\ accepted \in Seq(Calls)
  BY DEF TypeOK
<1>a. InHand \in Seq(Calls) /\ saved \o InHand \in Seq(Calls)
  BY <1>0, EmptySeq, ConcatProperties DEF InHand
<1> USE <1>0, <1>a DEF StoredInOrder
<1>1. ASSUME NEW c \in Clients, ClientNext(c) PROVE StoredInOrder'
  <2>1. CASE EnqueueSend(c)
    <3>1. received \in Calls
      BY <2>1 DEF EnqueueSend, TypeOK, Calls
    <3>2. InHand' = InHand /\ saved' = saved
      BY <2>1 DEF EnqueueSend, InHand, workVars
    <3>3. (saved \o InHand) \o Append(buf, received)
            = Append((saved \o InHand) \o buf, received)
      BY <3>1, AppendBelow, SMTT(60)
    <3> QED BY <2>1, <3>2, <3>3 DEF EnqueueSend
  <2>2. CASE ~EnqueueSend(c)
    <3>1. UNCHANGED <<accepted, saved, buf, wpc, batch>>
      BY <1>1, <2>2, StatsFrame DEF ClientNext, EnqueueStep, EnqueueLock,
         EnqueueFull, EnqueueCount, EnqueueDrop, CloseLock, CloseReturn,
         ReceiveError, chanVars, workVars
    <3> QED BY <3>1 DEF InHand
  <2> QED BY <2>1, <2>2
<1>2. CASE WorkerReceive
  <2>1. batch = <<>> /\ InHand = <<>>
    BY <1>2 DEF WorkerReceive, WorkerInv, InHand
  <2>2. InHand' = Append(batch, Head(buf))
    BY <1>2, <2>1 DEF WorkerReceive, InHand
  <2>3. (saved \o Append(batch, Head(buf))) \o Tail(buf) = (saved \o batch) \o buf
    <3>1. buf # <<>>
      BY <1>2 DEF WorkerReceive
    <3> QED BY <1>0, <3>1, MoveHeadBelow, ZenonT(60)
  <2>4. saved' = saved /\ accepted' = accepted /\ buf' = Tail(buf)
    BY <1>2 DEF WorkerReceive, chanVars, workVars
  <2> QED BY <2>1, <2>2, <2>3, <2>4
<1>3. CASE WorkerCollect
  <2>1. InHand = batch /\ InHand' = Append(batch, Head(buf))
    BY <1>3 DEF WorkerCollect, InHand
  <2>2. (saved \o Append(batch, Head(buf))) \o Tail(buf) = (saved \o batch) \o buf
    <3>1. buf # <<>>
      BY <1>3 DEF WorkerCollect
    <3> QED BY <1>0, <3>1, MoveHeadBelow, ZenonT(60)
  <2>3. saved' = saved /\ accepted' = accepted /\ buf' = Tail(buf)
    BY <1>3 DEF WorkerCollect
  <2> QED BY <2>1, <2>2, <2>3
<1>4. CASE WorkerSaved
  <2>1. InHand = batch /\ InHand' = <<>> /\ saved' = saved \o batch
    BY <1>4 DEF WorkerSaved, InHand
  <2>2. (saved \o batch) \o <<>> = saved \o batch
    BY <2>1, ConcatEmptySeq
  <2> QED BY <1>4, <2>1, <2>2 DEF WorkerSaved, chanVars
<1>5. CASE WorkerFinish \/ WorkerCollected \/ WorkerSaveFailed \/ WorkerCount
           \/ WorkerRecordError
  <2>1. InHand' = InHand
    BY <1>5 DEF WorkerFinish, WorkerCollected, WorkerSaveFailed, WorkerCount,
       WorkerRecordError, InHand
  <2> QED BY <1>5, <2>1 DEF WorkerFinish, WorkerCollected, WorkerSaveFailed,
       WorkerCount, WorkerRecordError, chanVars
<1>6. CASE UNCHANGED vars
  BY <1>6 DEF vars, chanVars, workVars, InHand
<1> QED BY <1>1, <1>2, <1>3, <1>4, <1>5, <1>6
        DEF Next, WorkerNext, WorkerUnlocked

-----------------------------------------------------------------------------
(* The parts together are inductive.                                       *)
LEMMA InductiveInit == Init => IInv
<1> SUFFICES ASSUME Init PROVE IInv
  OBVIOUS
<1>1. TypeOK
  BY TypeInit
<1>2. MutexInv
  BY QueueAssumption DEF QueueAssumption, Init, MutexInv
<1>3. ClosedInv /\ WorkerInv
  BY DEF Init, ClosedInv, WorkerInv
<1>4. CountInv /\ Conservation
  BY DEF Init, CountInv, Conservation, Undecided, Unsettled
<1>5. StoredInOrder
  BY DEF Init, StoredInOrder, InHand
<1> QED BY <1>1, <1>2, <1>3, <1>4, <1>5 DEF IInv

(* Every step of clients and worker preserves the inductive invariant.     *)
LEMMA InductiveStep == IInv /\ [Next]_vars => IInv'
  BY TypeStep, MutexStep, ClosedStep, WorkerStep, CountStep, ConservationStep,
     OrderStep DEF IInv

(* The inductive invariant of the queue holds in every reachable state.    *)
THEOREM Inductive == Spec => []IInv
  BY InductiveInit, InductiveStep, PTL DEF Spec

(* The state of the queue always has its types: the channel never holds    *)
(* more than its capacity, a batch never more than the batch size.         *)
THEOREM TypeCorrect == Spec => []TypeOK
<1>1. IInv => TypeOK
  BY DEF IInv
<1> QED BY <1>1, Inductive, PTL

(* No order of Enqueue, Close and recordError sends on a closed channel or *)
(* closes it twice.                                                        *)
THEOREM NoPanicCorrect == Spec => []NoPanic
<1>1. IInv => NoPanic
  BY DEF IInv, ClosedInv, NoPanic
<1> QED BY <1>1, Inductive, PTL

(* The counters account for every call of Enqueue at every step.           *)
THEOREM ConservationCorrect == Spec => []Conservation
<1>1. IInv => Conservation
  BY DEF IInv
<1> QED BY <1>1, Inductive, PTL

(* What is stored, in hand and waiting is what was accepted, in order.     *)
THEOREM StoredInOrderCorrect == Spec => []StoredInOrder
<1>1. IInv => StoredInOrder
  BY DEF IInv
<1> QED BY <1>1, Inductive, PTL

(* Close returns nil only when everything accepted is stored and counted.  *)
THEOREM CloseNilMeansStoredCorrect == Spec => []CloseNilMeansStored
<1>1. IInv => CloseNilMeansStored
  <2> SUFFICES ASSUME IInv, NEW c \in Clients, result[c] = "nil"
               PROVE  saved = accepted /\ persisted = enqueued
    BY DEF CloseNilMeansStored
  <2>1. wpc = "done" /\ ~err /\ batch = <<>> /\ buf = <<>> /\ closed
    BY DEF IInv, WorkerInv
  <2>2. saved \in Seq(Calls) /\ enqueued \in Nat /\ persisted \in Nat
    BY DEF IInv, TypeOK
  <2>3. accepted = (saved \o <<>>) \o <<>>
    BY <2>1 DEF IInv, StoredInOrder, InHand
  <2>4. accepted = saved
    BY <2>2, <2>3, ConcatEmptySeq
  <2>5. Len(accepted) = enqueued /\ Len(saved) = persisted
    BY <2>1, <2>2 DEF IInv, CountInv, ClosedInv
  <2> QED BY <2>4, <2>5
<1> QED BY <1>1, Inductive, PTL

(* After a failed save nothing is accepted or stored, and the queue stays  *)
(* closed with its error.                                                  *)
THEOREM FailureIsFinalCorrect == Spec => FailureIsFinal
<1>1. IInv /\ [Next]_vars => [err => UNCHANGED <<saved, accepted, err, closed>>]_vars
  <2> SUFFICES ASSUME IInv, Next, err
               PROVE  UNCHANGED <<saved, accepted, err, closed>>
    OBVIOUS
  <2>1. wpc = "done" /\ closed /\ \A c \in Clients : pc[c] # "send"
    BY DEF IInv, WorkerInv, ClosedInv
  <2>2. ASSUME NEW c \in Clients, ClientNext(c)
        PROVE  UNCHANGED <<saved, accepted, err, closed>>
    BY <2>1, <2>2, StatsFrame DEF ClientNext, EnqueueStep, EnqueueLock,
       EnqueueSend, EnqueueFull, EnqueueCount, EnqueueDrop, CloseLock,
       CloseReturn, ReceiveError, lockVars, chanVars, workVars
  <2>3. ~WorkerNext
    BY <2>1 DEF WorkerNext, WorkerUnlocked, WorkerReceive, WorkerFinish,
       WorkerCollect, WorkerCollected, WorkerSaved, WorkerSaveFailed,
       WorkerCount, WorkerRecordError
  <2> QED BY <2>2, <2>3 DEF Next
<1> QED BY <1>1, Inductive, PTL DEF Spec, FailureIsFinal

-----------------------------------------------------------------------------
(* The four loads of Stats.                                                *)

Calling == {"send", "count", "drop"}
Loading == {"loadEnqueued", "loadPersisted", "loadDropped"}

(* Only a producer is ever inside Enqueue or Stats.                        *)
CallerInv ==
  \A c \in Clients : pc[c] \in Calling \cup Loading => c \in Producers

(* A call is counted as received before it is counted as enqueued.         *)
CallsInv ==
  enqueued + (IF \E c \in Clients : pc[c] \in Calling THEN 1 ELSE 0) <= received

Coherent(s) ==
  /\ s.persisted <= s.enqueued
  /\ s.enqueued <= s.received
  /\ s.persisted + s.dropped <= s.received

(* While the only producer reads, what it alone can change stands still    *)
(* and what the worker changes only grows.                                 *)
SnapAt(c) ==
  /\ pc[c] \in Loading => snap[c].received = received
  /\ pc[c] \in {"loadPersisted", "loadDropped"} => snap[c].enqueued = enqueued
  /\ pc[c] = "loadDropped" => snap[c].persisted <= persisted
  /\ pc[c] \notin Loading => Coherent(snap[c])

SnapInv == \A c \in Clients : Producers = {c} => SnapAt(c)

(* The worker moves no client and counts only what it saved or gave up.    *)
LEMMA WorkerFrame ==
  ASSUME TypeOK, WorkerNext
  PROVE  /\ UNCHANGED <<mu, pc, snap, result, received, enqueued, accepted>>
         /\ persisted' >= persisted
<1>1. UNCHANGED <<mu, pc, snap, result, received, enqueued, accepted>>
  BY DEF WorkerNext, WorkerUnlocked, WorkerReceive, WorkerFinish,
     WorkerCollect, WorkerCollected, WorkerSaved, WorkerSaveFailed,
     WorkerCount, WorkerRecordError, lockVars, chanVars, counters
<1>2. Len(batch) \in Nat /\ persisted \in Nat
  BY LenProperties DEF TypeOK
<1>3. persisted' = persisted \/ persisted' = persisted + Len(batch)
  BY DEF WorkerNext, WorkerUnlocked, WorkerReceive, WorkerFinish,
     WorkerCollect, WorkerCollected, WorkerSaved, WorkerSaveFailed,
     WorkerCount, WorkerRecordError, counters
<1> QED BY <1>1, <1>2, <1>3

(* Close and Errors touch no counter and no snapshot.                      *)
LEMMA CloseFrame ==
  ASSUME TypeOK, NEW c \in Clients,
         CloseLock(c) \/ CloseReturn(c) \/ ReceiveError(c)
  PROVE  /\ UNCHANGED <<counters, snap, buf, accepted, err, workVars>>
         /\ pc[c] \in {"idle", "wait"}
         /\ \E l \in {"idle", "wait"} : pc' = [pc EXCEPT ![c] = l]
<1>1. pc \in [Clients -> ClientPC] BY DEF TypeOK
<1> QED BY <1>1 DEF CloseLock, CloseReturn, ReceiveError, Goto, chanVars, lockVars

(* Enqueue and Stats are entered by producers only.                        *)
LEMMA CallerStep == TypeOK /\ CallerInv /\ [Next]_vars => CallerInv'
<1> SUFFICES ASSUME TypeOK, CallerInv, [Next]_vars PROVE CallerInv'
  OBVIOUS
<1>0. pc \in [Clients -> ClientPC] BY DEF TypeOK
<1> USE <1>0 DEF CallerInv, Calling, Loading, Goto
<1>1. ASSUME NEW c \in Clients, ClientNext(c) PROVE CallerInv'
  <2>1. CASE EnqueueLock(c) BY <2>1 DEF EnqueueLock
  <2>2. CASE EnqueueStep(c)
    BY <2>2 DEF EnqueueStep, EnqueueSend, EnqueueFull, EnqueueCount, EnqueueDrop
  <2>3. CASE CloseLock(c) \/ CloseReturn(c)
    BY <2>3 DEF CloseLock, CloseReturn
  <2>4. CASE ReceiveError(c) BY <2>4 DEF ReceiveError
  <2>5. CASE StatsReceived(c) BY <2>5 DEF StatsReceived
  <2>6. CASE StatsStep(c)
    BY <2>6 DEF StatsStep, StatsEnqueued, StatsPersisted, StatsDropped
  <2> QED BY <1>1, <2>1, <2>2, <2>3, <2>4, <2>5, <2>6 DEF ClientNext
<1>2. CASE WorkerNext BY <1>2, WorkerFrame
<1>3. CASE UNCHANGED vars BY <1>3 DEF vars
<1> QED BY <1>1, <1>2, <1>3 DEF Next

(* Each call of Enqueue is received once and counted at most once.         *)
LEMMA CallsStep == TypeOK /\ MutexInv /\ CallsInv /\ [Next]_vars => CallsInv'
<1> SUFFICES ASSUME TypeOK, MutexInv, CallsInv, [Next]_vars PROVE CallsInv'
  OBVIOUS
<1> DEFINE Inside(p) ==
             IF \E c \in Clients : p[c] \in Calling THEN 1 ELSE 0
<1>0. /\ pc \in [Clients -> ClientPC] /\ NoOwner \notin Clients
      /\ received \in Nat /\ enqueued \in Nat
  BY QueueAssumption DEF QueueAssumption, TypeOK
<1>a. enqueued + Inside(pc) <= received BY DEF CallsInv
<1>b. SUFFICES enqueued' + Inside(pc') <= received' BY DEF CallsInv
<1> USE <1>0 DEF Calling, ClientPC, Goto
<1>1. ASSUME NEW c \in Clients, ClientNext(c)
      PROVE  enqueued' + Inside(pc') <= received'
  <2>1. CASE EnqueueLock(c)
    <3>1. Inside(pc) = 0 /\ Inside(pc') = 1
      BY <2>1 DEF EnqueueLock, MutexInv
    <3>2. received' = received + 1 /\ enqueued' = enqueued
      BY <2>1 DEF EnqueueLock
    <3> QED BY <1>a, <3>1, <3>2
  <2>2. CASE EnqueueSend(c) \/ EnqueueFull(c)
    <3>1. Inside(pc) = 1 /\ Inside(pc') = 1
      BY <2>2 DEF EnqueueSend, EnqueueFull
    <3>2. received' = received /\ enqueued' = enqueued
      BY <2>2 DEF EnqueueSend, EnqueueFull, counters
    <3> QED BY <1>a, <3>1, <3>2
  <2>3. CASE EnqueueCount(c) \/ EnqueueDrop(c)
    <3>1. Inside(pc) = 1 /\ Inside(pc') = 0
      BY <2>3 DEF EnqueueCount, EnqueueDrop, MutexInv
    <3>2. /\ received' = received
          /\ enqueued' = enqueued \/ enqueued' = enqueued + 1
      BY <2>3 DEF EnqueueCount, EnqueueDrop
    <3> HIDE DEF Inside
    <3> QED BY <1>a, <3>1, <3>2
  <2>4. CASE CloseLock(c) \/ CloseReturn(c) \/ ReceiveError(c)
    <3>1. Inside(pc') = Inside(pc) BY <2>4, CloseFrame
    <3>2. received' = received /\ enqueued' = enqueued
      BY <2>4, CloseFrame DEF counters
    <3> QED BY <1>a, <3>1, <3>2
  <2>5. CASE StatsReceived(c) \/ StatsStep(c)
    <3>1. Inside(pc') = Inside(pc) BY <2>5, StatsFrame DEF StatsPC
    <3> QED BY <1>a, <2>5, <3>1, StatsFrame
  <2> QED BY <1>1, <2>1, <2>2, <2>3, <2>4, <2>5 DEF ClientNext, EnqueueStep
<1>2. CASE WorkerNext BY <1>2, <1>a, WorkerFrame
<1>3. CASE UNCHANGED vars BY <1>3, <1>a DEF vars, counters
<1> QED BY <1>1, <1>2, <1>3 DEF Next

(* At every moment the counters themselves are coherent, but for the send  *)
(* that is being counted.                                                  *)
LEMMA CountersCoherent ==
  ASSUME IInv, CallsInv
  PROVE  /\ received \in Nat /\ enqueued \in Nat
         /\ persisted \in Nat /\ dropped \in Nat
         /\ enqueued <= received
         /\ persisted + dropped <= received
         /\ (\A c \in Clients : pc[c] # "count") => persisted <= enqueued
<1>0. /\ received \in Nat /\ enqueued \in Nat /\ persisted \in Nat
      /\ dropped \in Nat
      /\ batch \in Seq(Calls) /\ buf \in Seq(Calls)
      /\ saved \in Seq(Calls) /\ accepted \in Seq(Calls)
  BY DEF IInv, TypeOK
<1>1. /\ Len(batch) \in Nat /\ Len(buf) \in Nat /\ Len(saved) \in Nat
      /\ InHand \in Seq(Calls) /\ Len(InHand) \in Nat
  BY <1>0, LenProperties, EmptySeq DEF InHand
<1>2. enqueued <= received BY <1>0 DEF CallsInv
<1>3. persisted + dropped <= received
  <2>1. Unsettled \in Nat BY <1>1 DEF Unsettled
  <2>2. Undecided \in Nat BY DEF Undecided
  <2> QED BY <1>0, <2>1, <2>2 DEF IInv, Conservation
<1>4. ASSUME \A c \in Clients : pc[c] # "count" PROVE persisted <= enqueued
  <2>1. Len(accepted) = enqueued + 0 BY <1>4 DEF IInv, CountInv
  <2>2. saved \o InHand \in Seq(Calls)
        /\ Len(saved \o InHand) = Len(saved) + Len(InHand)
    BY <1>0, <1>1, ConcatProperties
  <2>3. Len((saved \o InHand) \o buf) = Len(saved \o InHand) + Len(buf)
    BY <1>0, <2>2, ConcatProperties
  <2>4. Len(accepted) = Len(saved) + Len(InHand) + Len(buf)
    BY <2>2, <2>3 DEF IInv, StoredInOrder
  <2>5. \E k \in Nat : Len(saved) = persisted + k
    BY <1>1 DEF IInv, CountInv
  <2> QED BY <1>0, <1>1, <2>1, <2>4, <2>5
<1> QED BY <1>0, <1>2, <1>3, <1>4

(* Each load of the only producer keeps its snapshot on the way to a       *)
(* coherent one, whatever the worker and closing clients do in between.    *)
LEMMA SnapStep ==
  IInv /\ CallerInv /\ CallsInv /\ SnapInv /\ [Next]_vars => SnapInv'
<1> SUFFICES ASSUME IInv, CallerInv, CallsInv, SnapInv, [Next]_vars,
                    NEW c \in Clients, Producers = {c}
             PROVE  SnapAt(c)'
  BY DEF SnapInv
<1>0. /\ pc \in [Clients -> ClientPC]
      /\ snap \in [Clients -> [received : Nat, enqueued : Nat,
                               persisted : Nat, dropped : Nat]]
      /\ received \in Nat /\ enqueued \in Nat
      /\ persisted \in Nat /\ dropped \in Nat
      /\ TypeOK
  BY SMTT(30) DEF IInv, TypeOK
<1>a. SnapAt(c) BY DEF SnapInv
<1>b. /\ snap[c].received \in Nat /\ snap[c].enqueued \in Nat
      /\ snap[c].persisted \in Nat /\ snap[c].dropped \in Nat
  BY <1>0
<1>1. ASSUME NEW d \in Clients, ClientNext(d), d # c PROVE SnapAt(c)'
  <2>1. d \notin Producers BY <1>1
  <2>2. CloseLock(d) \/ CloseReturn(d) \/ ReceiveError(d)
    BY <1>1, <2>1 DEF ClientNext, EnqueueLock, StatsReceived, EnqueueStep,
       StatsStep, EnqueueSend, EnqueueFull, EnqueueCount, EnqueueDrop,
       StatsEnqueued, StatsPersisted, StatsDropped, CallerInv, Calling, Loading
  <2>3. UNCHANGED <<snap, received, enqueued, persisted, dropped>>
    BY <1>0, <2>2, CloseFrame DEF counters
  <2>4. pc'[c] = pc[c] BY <1>0, <1>1, <2>2, CloseFrame
  <2> QED BY <1>a, <2>3, <2>4 DEF SnapAt
<1>2. ASSUME ClientNext(c) PROVE SnapAt(c)'
  <2> USE <1>0 DEF Loading, Goto
  <2>1. CASE EnqueueLock(c) \/ EnqueueStep(c)
    <3>1. snap' = snap /\ pc[c] \notin Loading /\ pc'[c] \notin Loading
      BY <2>1 DEF EnqueueLock, EnqueueStep, EnqueueSend, EnqueueFull,
         EnqueueCount, EnqueueDrop
    <3> QED BY <1>a, <3>1 DEF SnapAt
  <2>2. CASE CloseLock(c) \/ CloseReturn(c) \/ ReceiveError(c)
    <3>1. snap' = snap /\ pc[c] \notin Loading /\ pc'[c] \notin Loading
      BY <2>2, CloseFrame
    <3> QED BY <1>a, <3>1 DEF SnapAt
  <2>3. CASE StatsReceived(c)
    <3>1. pc'[c] = "loadEnqueued" /\ received' = received
          /\ snap'[c].received = received
      BY <2>3 DEF StatsReceived, counters
    <3> QED BY <3>1 DEF SnapAt
  <2>4. CASE StatsEnqueued(c)
    <3>1. /\ pc'[c] = "loadPersisted"
          /\ received' = received /\ enqueued' = enqueued
          /\ snap'[c].received = snap[c].received
          /\ snap'[c].enqueued = enqueued
      BY <2>4 DEF StatsEnqueued, counters
    <3>2. pc[c] = "loadEnqueued" BY <2>4 DEF StatsEnqueued
    <3> QED BY <1>a, <3>1, <3>2 DEF SnapAt
  <2>5. CASE StatsPersisted(c)
    <3>1. /\ pc'[c] = "loadDropped"
          /\ UNCHANGED <<received, enqueued, persisted>>
          /\ snap'[c].received = snap[c].received
          /\ snap'[c].enqueued = snap[c].enqueued
          /\ snap'[c].persisted = persisted
      BY <2>5 DEF StatsPersisted, counters
    <3>2. pc[c] = "loadPersisted" BY <2>5 DEF StatsPersisted
    <3> QED BY <1>a, <3>1, <3>2 DEF SnapAt
  <2>6. CASE StatsDropped(c)
    <3>1. /\ pc'[c] = "idle"
          /\ snap'[c].received = snap[c].received
          /\ snap'[c].enqueued = snap[c].enqueued
          /\ snap'[c].persisted = snap[c].persisted
          /\ snap'[c].dropped = dropped
      BY <2>6 DEF StatsDropped
    <3>2. pc[c] = "loadDropped" BY <2>6 DEF StatsDropped
    <3>3. /\ snap[c].received = received /\ snap[c].enqueued = enqueued
          /\ snap[c].persisted <= persisted
      BY <1>a, <3>2 DEF SnapAt
    <3>4. \A d \in Clients : pc[d] # "count"
      <4>1. \A d \in Clients : d # c => d \notin Producers OBVIOUS
      <4> QED BY <3>2, <4>1 DEF CallerInv, Calling
    <3>5. /\ enqueued <= received /\ persisted + dropped <= received
          /\ persisted <= enqueued
      BY <3>4, CountersCoherent
    <3>6. Coherent(snap'[c])
      BY <1>b, <3>1, <3>3, <3>5 DEF Coherent
    <3> QED BY <3>1, <3>6 DEF SnapAt
  <2> QED BY <1>2, <2>1, <2>2, <2>3, <2>4, <2>5, <2>6 DEF ClientNext, StatsStep
<1>3. CASE WorkerNext
  <2>1. /\ UNCHANGED <<pc, snap, received, enqueued>>
        /\ persisted' >= persisted
    BY <1>0, <1>3, WorkerFrame
  <2>2. persisted' \in Nat BY <1>0, TypeStep DEF TypeOK
  <2>3. pc[c] = "loadDropped" => snap[c].persisted <= persisted'
    BY <1>0, <1>a, <1>b, <2>1, <2>2 DEF SnapAt
  <2> QED BY <1>a, <2>1, <2>3 DEF SnapAt
<1>4. CASE UNCHANGED vars BY <1>4, <1>a DEF vars, counters, SnapAt
<1> QED BY <1>1, <1>2, <1>3, <1>4 DEF Next

(* A Stats value the only producer has read is coherent, although another  *)
(* goroutine runs between any two of its four loads.                       *)
THEOREM SnapshotCoherentCorrect == Spec => []SnapshotCoherent
<1> DEFINE Inv == IInv /\ CallerInv /\ CallsInv /\ SnapInv
<1>1. Init => Inv
  <2> SUFFICES ASSUME Init PROVE CallerInv /\ CallsInv /\ SnapInv
    BY InductiveInit
  <2>1. CallerInv /\ CallsInv
    BY DEF Init, CallerInv, CallsInv, Calling, Loading
  <2>2. SnapInv
    BY DEF Init, SnapInv, SnapAt, Loading, Coherent, NoStats
  <2> QED BY <2>1, <2>2
<1>2. Inv /\ [Next]_vars => Inv'
  <2>1. IInv => TypeOK /\ MutexInv BY DEF IInv
  <2> QED BY <2>1, InductiveStep, CallerStep, CallsStep, SnapStep
<1>3. Inv => SnapshotCoherent
  BY DEF SnapInv, SnapAt, Loading, Coherent, SnapshotCoherent
<1> QED BY <1>1, <1>2, <1>3, PTL DEF Spec

-----------------------------------------------------------------------------
(* The queue implements its ledger.                                        *)

(* The members of a concatenation are those of its parts.                  *)
LEMMA RangeConcat ==
  ASSUME NEW S, NEW s \in Seq(S), NEW t \in Seq(S)
  PROVE  Range(s \o t) = Range(s) \cup Range(t)
<1> DEFINE r == s \o t
<1>0. Len(s) \in Nat /\ Len(t) \in Nat BY LenProperties
<1>1. /\ Len(r) = Len(s) + Len(t) /\ r \in Seq(S)
      /\ \A i \in 1..Len(s) + Len(t) :
           r[i] = IF i <= Len(s) THEN s[i] ELSE t[i - Len(s)]
  BY ConcatProperties
<1>2. /\ DOMAIN r = 1..Len(r) /\ DOMAIN s = 1..Len(s) /\ DOMAIN t = 1..Len(t)
  BY <1>1
<1> HIDE DEF r
<1>3. ASSUME NEW i \in 1..Len(r) PROVE r[i] \in Range(s) \cup Range(t)
  <2>1. CASE i <= Len(s)
    <3>1. i \in 1..Len(s) /\ r[i] = s[i] BY <1>0, <1>1, <2>1
    <3> QED BY <1>2, <3>1 DEF Range
  <2>2. CASE ~(i <= Len(s))
    <3>1. i - Len(s) \in 1..Len(t) /\ r[i] = t[i - Len(s)]
      BY <1>0, <1>1, <2>2
    <3> QED BY <1>2, <3>1 DEF Range
  <2> QED BY <2>1, <2>2
<1>4. ASSUME NEW i \in 1..Len(s) PROVE s[i] \in Range(r)
  <2>1. i \in 1..Len(r) /\ r[i] = s[i] BY <1>0, <1>1
  <2> QED BY <1>2, <2>1 DEF Range
<1>5. ASSUME NEW i \in 1..Len(t) PROVE t[i] \in Range(r)
  <2>1. i + Len(s) \in 1..Len(r) /\ r[i + Len(s)] = t[i]
    <3>1. i + Len(s) \in 1..Len(s) + Len(t) /\ ~(i + Len(s) <= Len(s))
          /\ (i + Len(s)) - Len(s) = i
      BY <1>0
    <3> QED BY <1>1, <3>1
  <2> QED BY <1>2, <2>1 DEF Range
<1>6. Range(r) = Range(s) \cup Range(t)
  BY <1>2, <1>3, <1>4, <1>5 DEF Range
<1> QED BY <1>6 DEF r

(* Appending adds one member.                                              *)
LEMMA RangeAppend ==
  ASSUME NEW S, NEW s \in Seq(S), NEW e \in S
  PROVE  Range(Append(s, e)) = Range(s) \cup {e}
<1> DEFINE x == <<e>>
<1>1. x \in Seq(S) /\ Range(x) = {e} BY DEF Range
<1>2. Append(s, e) = s \o x BY AppendIsConcat
<1> HIDE DEF x
<1>3. Range(s \o x) = Range(s) \cup Range(x) BY <1>1, RangeConcat
<1> QED BY <1>1, <1>2, <1>3

(* The parts of a concatenation are found where they were put.             *)
LEMMA SplitConcat ==
  ASSUME NEW S, NEW s \in Seq(S), NEW t \in Seq(S)
  PROVE  /\ Len(s \o t) = Len(s) + Len(t)
         /\ SubSeq(s \o t, 1, Len(s)) = s
         /\ SubSeq(s \o t, Len(s) + 1, Len(s \o t)) = t
<1> DEFINE r == s \o t
           m == Len(s)
           n == Len(t)
           front == SubSeq(r, 1, m)
           back == SubSeq(r, m + 1, m + n)
<1>0. m \in Nat /\ n \in Nat BY LenProperties
<1>1. /\ Len(r) = m + n /\ r \in Seq(S)
      /\ \A i \in 1..m + n : r[i] = IF i <= m THEN s[i] ELSE t[i - m]
  BY ConcatProperties
<1> HIDE DEF r, m, n
<1>2. front = s
  <2>1. /\ front \in Seq(S) /\ Len(front) = m
        /\ \A i \in 1..m : front[i] = r[i]
    BY <1>0, <1>1
  <2>2. \A i \in 1..m : front[i] = s[i] BY <1>0, <1>1, <2>1
  <2> HIDE DEF front
  <2> QED BY <2>1, <2>2, SeqEqual DEF m
<1>3. back = t
  <2>0. (m + n) - (m + 1) + 1 = n /\ (m + 1 <= m + n <=> 1 <= n)
        /\ \A i \in 1..n : (m + 1) + i - 1 = m + i
    BY <1>0
  <2>1. /\ back \in Seq(S) /\ Len(back) = n
        /\ \A i \in 1..n : back[i] = r[m + i]
    <3> DEFINE lo == m + 1
               hi == m + n
    <3>1. lo \in Int /\ hi \in Int BY <1>0
    <3>2. \A i \in lo..hi : r[i] \in S
      <4>1. \A i \in lo..hi : i \in 1..Len(r) BY <1>0, <1>1
      <4> QED BY <1>1, <4>1
    <3> HIDE DEF lo, hi
    <3>3. /\ SubSeq(r, lo, hi) \in Seq(S)
          /\ Len(SubSeq(r, lo, hi)) = IF lo <= hi THEN hi - lo + 1 ELSE 0
          /\ \A i \in 1..hi - lo + 1 : SubSeq(r, lo, hi)[i] = r[lo + i - 1]
      BY <3>1, <3>2, SubSeqProperties
    <3>4. back = SubSeq(r, lo, hi) BY DEF lo, hi
    <3> HIDE DEF back
    <3>5. hi - lo + 1 = n /\ (lo <= hi <=> 1 <= n)
          /\ \A i \in 1..n : lo + i - 1 = m + i
      BY <1>0, <2>0 DEF lo, hi
    <3>6. Len(back) = n BY <1>0, <3>3, <3>4, <3>5
    <3>7. \A i \in 1..n : back[i] = r[m + i] BY <3>3, <3>4, <3>5
    <3> QED BY <3>3, <3>4, <3>6, <3>7
  <2>2. \A i \in 1..n : back[i] = t[i]
    <3> TAKE i \in 1..n
    <3>1. m + i \in 1..m + n /\ ~(m + i <= m) /\ (m + i) - m = i BY <1>0
    <3> QED BY <1>1, <2>1, <3>1
  <2> HIDE DEF back
  <2> QED BY <2>1, <2>2, SeqEqual DEF n
<1> QED BY <1>1, <1>2, <1>3 DEF r, m, n

(* An accepted event has been offered, and the event being decided has not *)
(* been accepted.                                                          *)
OfferInv ==
  /\ Range(accepted) \subseteq 1..received
  /\ \A c \in Clients : pc[c] = "send" => received \notin Range(accepted)

(* The variables of the ledger, as the queue computes them.                *)
Waiting == IF err THEN <<>> ELSE InHand \o buf
Lost == Refused \cup (IF err THEN Range(batch \o buf) ELSE {})
Phase == IF err THEN "failed"
         ELSE IF wpc = "done" THEN "drained"
         ELSE IF closed THEN "closing" ELSE "open"

(* Only new calls are offered and only the offered event is accepted.      *)
LEMMA OfferStep == TypeOK /\ MutexInv /\ OfferInv /\ [Next]_vars => OfferInv'
<1> SUFFICES ASSUME TypeOK, MutexInv, OfferInv, [Next]_vars PROVE OfferInv'
  OBVIOUS
<1>0. /\ pc \in [Clients -> ClientPC] /\ NoOwner \notin Clients
      /\ received \in Nat /\ accepted \in Seq(Calls)
  BY QueueAssumption DEF QueueAssumption, TypeOK
<1> USE <1>0 DEF OfferInv, ClientPC, Goto
<1>1. ASSUME NEW c \in Clients, ClientNext(c) PROVE OfferInv'
  <2>1. CASE EnqueueLock(c)
    <3>1. accepted' = accepted /\ received' = received + 1
      BY <2>1 DEF EnqueueLock, chanVars
    <3>2. 1..received \subseteq 1..received + 1 /\ received + 1 \notin 1..received
      OBVIOUS
    <3> QED BY <3>1, <3>2
  <2>2. CASE EnqueueSend(c)
    <3>1. received \in Calls BY <2>2 DEF EnqueueSend, TypeOK, Calls
    <3>2. received' = received /\ accepted' = Append(accepted, received)
      BY <2>2 DEF EnqueueSend, counters
    <3>3. Range(accepted') = Range(accepted) \cup {received}
      BY <3>1, <3>2, RangeAppend
    <3>4. \A d \in Clients : pc'[d] # "send" BY <2>2 DEF EnqueueSend, MutexInv
    <3>5. received \in 1..received BY <3>1 DEF Calls
    <3> QED BY <3>2, <3>3, <3>4, <3>5
  <2>3. CASE EnqueueFull(c) \/ EnqueueCount(c) \/ EnqueueDrop(c)
    BY <2>3 DEF EnqueueFull, EnqueueCount, EnqueueDrop, counters, chanVars
  <2>4. CASE CloseLock(c) \/ CloseReturn(c) \/ ReceiveError(c)
    BY <2>4, CloseFrame DEF counters
  <2>5. CASE StatsReceived(c) \/ StatsStep(c)
    BY <2>5, StatsFrame DEF StatsPC
  <2> QED BY <1>1, <2>1, <2>2, <2>3, <2>4, <2>5 DEF ClientNext, EnqueueStep
<1>2. CASE WorkerNext BY <1>2, WorkerFrame
<1>3. CASE UNCHANGED vars BY <1>3 DEF vars, counters, chanVars
<1> QED BY <1>1, <1>2, <1>3 DEF Next

(* The ledger knows every call that has been decided.                      *)
LEMMA KnownAre ==
  ASSUME IInv, OfferInv
  PROVE  Range(Waiting) \cup Range(saved) \cup Lost = (1..received) \ Deciding
<1>0. /\ batch \in Seq(Calls) /\ buf \in Seq(Calls)
      /\ saved \in Seq(Calls) /\ InHand \in Seq(Calls)
  BY EmptySeq DEF IInv, TypeOK, InHand
<1>1. saved \o InHand \in Seq(Calls) /\ InHand \o buf \in Seq(Calls)
  BY <1>0, ConcatProperties
<1>2. Range(accepted) = Range(saved) \cup Range(InHand) \cup Range(buf)
  <2>1. Range(saved \o InHand) = Range(saved) \cup Range(InHand)
    BY <1>0, RangeConcat
  <2>2. Range((saved \o InHand) \o buf) = Range(saved \o InHand) \cup Range(buf)
    BY ZenonT(30), <1>0, <1>1, RangeConcat
  <2> QED BY <2>1, <2>2 DEF IInv, StoredInOrder
<1>3. Range(accepted) \cap Deciding = {} BY DEF OfferInv, Deciding
<1>4. Range(accepted) \subseteq 1..received BY DEF OfferInv
<1>5. CASE err
  <2>1. wpc = "done" BY <1>5 DEF IInv, WorkerInv
  <2>2. InHand = batch BY <2>1 DEF InHand
  <2>3. Range(batch \o buf) = Range(InHand) \cup Range(buf)
    BY <1>0, <2>2, RangeConcat
  <2>4. Waiting = <<>> /\ Range(<<>>) = {} BY <1>5 DEF Waiting, Range
  <2>5. Lost = Refused \cup Range(InHand) \cup Range(buf)
    BY <1>5, <2>3 DEF Lost
  <2> QED BY <1>2, <1>3, <1>4, <2>4, <2>5 DEF Refused
<1>6. CASE ~err
  <2>1. Range(Waiting) = Range(InHand) \cup Range(buf)
    BY <1>0, <1>6, RangeConcat DEF Waiting
  <2>2. Lost = Refused BY <1>6 DEF Lost
  <2> QED BY <1>2, <1>3, <1>4, <2>1, <2>2 DEF Refused
<1> QED BY <1>5, <1>6


(* The ledger means the same by the members of a sequence.                 *)
LEMMA SameRange == \A s : Ledger!Range(s) = Range(s)
  BY DEF Ledger!Range, Range

(* A decided refusal is one step of the ledger.                            *)
LEMMA RefuseLedger ==
  ASSUME IInv, OfferInv, NEW e \in Calls,
         e \notin (1..received) \ Deciding,
         Phase # "open" \/ Len(Waiting) >= Capacity,
         Refused' = Refused \cup {e},
         UNCHANGED <<err, closed, batch, buf, saved, wpc>>
  PROVE  Ledger!Next
<1>1. e \notin Range(Waiting) \cup Range(saved) \cup Lost BY KnownAre
<1>2. Waiting' = Waiting /\ Phase' = Phase /\ saved' = saved
  BY DEF Waiting, Phase, InHand
<1>3. Lost' = Lost \cup {e} BY DEF Lost
<1>4. Ledger!Refuse(e)
  BY <1>1, <1>2, <1>3, SameRange DEF Ledger!Refuse, Ledger!Known, Waiting, Lost, Phase
<1> QED BY <1>4 DEF Ledger!Next

(* What Enqueue does under the mutex, as the ledger sees it.               *)
LEMMA EnqueueLedger ==
  ASSUME IInv, OfferInv, NEW c \in Clients, EnqueueLock(c) \/ EnqueueStep(c)
  PROVE  Ledger!Next \/ UNCHANGED <<Waiting, saved, Lost, Phase>>
<1>0. /\ pc \in [Clients -> ClientPC] /\ NoOwner \notin Clients
      /\ received \in Nat /\ MaxCalls \in Nat
      /\ Capacity \in Nat \ {0} /\ BatchSize \in Nat \ {0}
      /\ batch \in Seq(Calls) /\ buf \in Seq(Calls)
      /\ Len(batch) \in Nat /\ Len(buf) \in Nat /\ Len(batch) <= BatchSize
      /\ MutexInv /\ ClosedInv /\ WorkerInv
  BY QueueAssumption, LenProperties DEF QueueAssumption, IInv, TypeOK
<1>a. Deciding = {} \/ Deciding = {received} BY DEF Deciding
<1>b. /\ InHand \in Seq(Calls) /\ Len(InHand) \in Nat
      /\ Len(InHand) <= BatchSize
  BY <1>0, EmptySeq DEF InHand
<1>c. ASSUME UNCHANGED <<err, closed, batch, buf, saved, wpc>>,
             Refused' = Refused
      PROVE  UNCHANGED <<Waiting, saved, Lost, Phase>>
  BY <1>c DEF Waiting, InHand, Lost, Phase
<1>d. closed => Phase # "open"
  BY DEF Phase
<1>e. InHand \o buf \in Seq(Calls) /\ Len(InHand \o buf) = Len(InHand) + Len(buf)
  BY <1>0, <1>b, ConcatProperties
<1> USE <1>0 DEF Goto, ClientPC
<1>1. CASE EnqueueLock(c)
  <2>0. /\ UNCHANGED <<err, closed, batch, buf, saved, wpc, accepted>>
        /\ received' = received + 1 /\ received + 1 \in Calls
    BY <1>1 DEF EnqueueLock, chanVars, workVars, Calls
  <2>1. \A d \in Clients : pc[d] # "send" BY <1>1 DEF EnqueueLock, MutexInv
  <2>2. Deciding = {} BY <2>1 DEF Deciding
  <2>3. 1..received' = (1..received) \cup {received + 1} BY <2>0
  <2>4. received + 1 \notin 1..received OBVIOUS
  <2>5. received + 1 \notin Range(accepted) BY <2>4 DEF OfferInv
  <2>6. Range(accepted)' = Range(accepted) BY <2>0
  <2>7. CASE closed
    <3>1. \A d \in Clients : pc'[d] # "send"
      BY <1>1, <2>1, <2>7 DEF EnqueueLock
    <3>2. Deciding' = {} BY <3>1 DEF Deciding
    <3>3. Refused' = Refused \cup {received + 1}
      BY <2>2, <2>3, <2>5, <2>6, <3>2 DEF Refused
    <3> QED BY <1>d, <2>0, <2>2, <2>4, <2>7, <3>3, RefuseLedger
  <2>8. CASE ~closed
    <3>1. pc'[c] = "send" BY <1>1, <2>8 DEF EnqueueLock
    <3>2. Deciding' = {received + 1} BY <2>0, <3>1 DEF Deciding
    <3>3. Refused' = Refused
      BY <2>2, <2>3, <2>4, <2>6, <3>2 DEF Refused
    <3> QED BY <1>c, <2>0, <3>3
  <2> QED BY <2>7, <2>8
<1>2. CASE EnqueueSend(c)
  <2>1. /\ received' = received /\ accepted' = Append(accepted, received)
        /\ buf' = Append(buf, received) /\ Len(buf) < Capacity
        /\ UNCHANGED <<err, closed, batch, saved, wpc>>
    BY <1>2 DEF EnqueueSend, lockVars, counters, workVars
  <2>2. pc[c] = "send" /\ ~closed /\ ~err /\ wpc # "done"
    BY <1>2 DEF EnqueueSend, ClosedInv, WorkerInv
  <2>3. received \in Calls /\ received \in 1..received
    BY <2>2 DEF IInv, TypeOK, Calls
  <2>4. Deciding = {received} BY <2>2 DEF Deciding
  <2>5. \A d \in Clients : pc'[d] # "send" BY <1>2 DEF EnqueueSend, MutexInv
  <2>6. Deciding' = {} BY <2>5 DEF Deciding
  <2>7. accepted \in Seq(Calls) BY DEF IInv, TypeOK
  <2>8. Range(accepted)' = Range(accepted) \cup {received}
    BY <2>1, <2>3, <2>7, RangeAppend
  <2>9. Refused' = Refused BY <2>1, <2>4, <2>6, <2>8 DEF Refused
  <2>10. Lost' = Lost BY <2>1, <2>2, <2>9 DEF Lost
  <2>11. Phase = "open" /\ Phase' = "open" BY <2>1, <2>2 DEF Phase
  <2>12. Waiting = InHand \o buf /\ InHand' = InHand
    BY <2>1, <2>2 DEF Waiting, InHand
  <2>13. Waiting' = Append(Waiting, received)
    <3>1. Waiting' = InHand \o Append(buf, received)
      BY <2>1, <2>2, <2>12 DEF Waiting
    <3>2. InHand \o Append(buf, received) = Append(InHand \o buf, received)
      BY <1>b, <2>3, AppendBelow
    <3> QED BY <2>12, <3>1, <3>2
  <2>14. Len(Waiting) < Capacity + BatchSize BY <1>b, <1>e, <2>1, <2>12
  <2>15. received \notin Range(Waiting) \cup Range(saved) \cup Lost
    BY <2>4, KnownAre
  <2>16. Ledger!Accept(received)
    BY <2>1, <2>10, <2>11, <2>13, <2>14, <2>15, SameRange
    DEF Ledger!Accept, Ledger!Known, Waiting, Lost, Phase
  <2> QED BY <2>3, <2>16 DEF Ledger!Next
<1>3. CASE EnqueueFull(c)
  <2>1. /\ UNCHANGED <<err, closed, batch, buf, saved, wpc, accepted, received>>
        /\ Len(buf) >= Capacity /\ pc[c] = "send"
    BY <1>3 DEF EnqueueFull, lockVars, counters, workVars
  <2>2. ~closed /\ ~err
    BY <2>1 DEF ClosedInv, WorkerInv
  <2>3. received \in Calls /\ received \in 1..received
    BY <2>1 DEF IInv, TypeOK, Calls
  <2>4. Deciding = {received} BY <2>1 DEF Deciding
  <2>5. \A d \in Clients : pc'[d] # "send" BY <1>3 DEF EnqueueFull, MutexInv
  <2>6. Deciding' = {} BY <2>5 DEF Deciding
  <2>7. received \notin Range(accepted) BY <2>1 DEF OfferInv
  <2>8. Refused' = Refused \cup {received}
    BY <2>1, <2>3, <2>4, <2>6, <2>7 DEF Refused
  <2>9. Len(Waiting) >= Capacity BY <1>b, <1>e, <2>1, <2>2 DEF Waiting
  <2> QED BY <2>1, <2>3, <2>4, <2>8, <2>9, RefuseLedger
<1>4. CASE EnqueueCount(c) \/ EnqueueDrop(c)
  <2>1. UNCHANGED <<err, closed, batch, buf, saved, wpc, accepted, received>>
    BY <1>4 DEF EnqueueCount, EnqueueDrop, chanVars, workVars
  <2>2. (\E d \in Clients : pc'[d] = "send") <=> (\E d \in Clients : pc[d] = "send")
    BY <1>4 DEF EnqueueCount, EnqueueDrop, MutexInv
  <2>3. Refused' = Refused BY <2>1, <2>2 DEF Refused, Deciding
  <2> QED BY <1>c, <2>1, <2>3
<1> QED BY <1>1, <1>2, <1>3, <1>4 DEF EnqueueStep

(* The worker moves, stores or gives up what waits.                        *)
LEMMA WorkerLedger ==
  ASSUME IInv, OfferInv, WorkerNext
  PROVE  Ledger!Next \/ UNCHANGED <<Waiting, saved, Lost, Phase>>
<1>0. /\ batch \in Seq(Calls) /\ buf \in Seq(Calls) /\ saved \in Seq(Calls)
      /\ closed \in BOOLEAN /\ err \in BOOLEAN
      /\ Len(batch) \in Nat /\ Len(buf) \in Nat
      /\ WorkerInv /\ TypeOK
  BY LenProperties DEF IInv, TypeOK
<1>1. Refused' = Refused
  BY <1>0, WorkerFrame DEF Refused, Deciding
<1>2. ~err /\ wpc # "done"
  BY <1>0 DEF WorkerInv, WorkerNext, WorkerUnlocked, WorkerReceive,
     WorkerFinish, WorkerCollect, WorkerCollected, WorkerSaved,
     WorkerSaveFailed, WorkerCount, WorkerRecordError
<1>3. /\ Waiting = InHand \o buf /\ Lost = Refused
      /\ Phase = IF closed THEN "closing" ELSE "open"
  BY <1>2 DEF Waiting, Lost, Phase
<1>4. ASSUME WorkerUnlocked, wpc' # "done" PROVE Lost' = Lost /\ Phase' = Phase
  <2>1. err' = err /\ closed' = closed
    BY <1>4 DEF WorkerUnlocked, WorkerReceive, WorkerFinish, WorkerCollect,
       WorkerCollected, WorkerSaved, WorkerSaveFailed, WorkerCount, lockVars
  <2> QED BY <1>1, <1>2, <1>4, <2>1 DEF Lost, Phase
<1>5. CASE WorkerReceive
  <2>1. /\ UNCHANGED <<err, saved>> /\ batch' = <<Head(buf)>>
        /\ buf' = Tail(buf) /\ wpc = "receive" /\ wpc' = "collect" /\ buf # <<>>
    BY <1>5 DEF WorkerReceive, lockVars
  <2>2. batch = <<>> /\ InHand = batch /\ InHand' = Append(batch, Head(buf))
    BY <1>0, <2>1 DEF WorkerInv, InHand
  <2>3. Append(batch, Head(buf)) \o Tail(buf) = batch \o buf
    BY <1>0, <2>1, MoveHead
  <2>4. Waiting' = Waiting
    BY <1>2, <1>3, <2>1, <2>2, <2>3 DEF Waiting
  <2> QED BY <1>4, <1>5, <2>1, <2>4 DEF WorkerUnlocked
<1>6. CASE WorkerCollect
  <2>1. /\ UNCHANGED <<err, saved, wpc>> /\ batch' = Append(batch, Head(buf))
        /\ buf' = Tail(buf) /\ wpc = "collect" /\ buf # <<>>
    BY <1>6 DEF WorkerCollect, lockVars
  <2>2. InHand = batch /\ InHand' = Append(batch, Head(buf))
    BY <2>1 DEF InHand
  <2>3. Append(batch, Head(buf)) \o Tail(buf) = batch \o buf
    BY <1>0, <2>1, MoveHead
  <2>4. Waiting' = Waiting
    BY <1>2, <1>3, <2>1, <2>2, <2>3 DEF Waiting
  <2> QED BY <1>4, <1>6, <2>1, <2>4 DEF WorkerUnlocked
<1>7. CASE WorkerCollected \/ WorkerSaveFailed \/ WorkerCount
  <2>1. UNCHANGED <<err, saved, buf>> /\ wpc' # "done"
    BY <1>7 DEF WorkerCollected, WorkerSaveFailed, WorkerCount, lockVars,
       chanVars
  <2>2. InHand' = InHand
    BY <1>7 DEF WorkerCollected, WorkerSaveFailed, WorkerCount, InHand
  <2>3. Waiting' = Waiting BY <2>1, <2>2 DEF Waiting
  <2> QED BY <1>4, <1>7, <2>1, <2>3 DEF WorkerUnlocked
<1>8. CASE WorkerFinish
  <2>1. /\ UNCHANGED <<err, saved, buf, batch>> /\ wpc = "receive"
        /\ wpc' = "done" /\ buf = <<>> /\ chanClosed
    BY <1>8 DEF WorkerFinish, lockVars, chanVars
  <2>2. batch = <<>> /\ closed
    BY <2>1 DEF IInv, WorkerInv, ClosedInv
  <2>3. InHand = <<>> /\ InHand' = <<>> BY <2>1, <2>2 DEF InHand
  <2>4. Waiting = <<>> /\ Waiting' = <<>>
    BY <1>0, <1>3, <2>1, <2>3, ConcatEmptySeq DEF Waiting
  <2>5. Phase = "closing" /\ Phase' = "drained" BY <1>2, <2>1, <2>2 DEF Phase
  <2>6. Lost' = Lost BY <1>1, <1>2, <2>1 DEF Lost
  <2>7. Ledger!Drain
    BY <2>1, <2>4, <2>5, <2>6 DEF Ledger!Drain, Waiting, Lost, Phase
  <2> QED BY <2>7 DEF Ledger!Next
<1>9. CASE WorkerSaved
  <2>1. /\ UNCHANGED <<err, buf, batch>> /\ wpc = "save" /\ wpc' = "count"
        /\ saved' = saved \o batch
    BY <1>9 DEF WorkerSaved, lockVars, chanVars
  <2>2. InHand = batch /\ InHand' = <<>> /\ batch # <<>>
    BY <1>0, <2>1 DEF InHand, WorkerInv
  <2>3. Waiting = batch \o buf /\ Waiting' = buf
    <3>1. <<>> \o buf = buf BY <1>0, ConcatEmptySeq
    <3> QED BY <1>2, <1>3, <2>1, <2>2, <3>1 DEF Waiting
  <2>4. /\ Len(Waiting) = Len(batch) + Len(buf)
        /\ SubSeq(Waiting, 1, Len(batch)) = batch
        /\ SubSeq(Waiting, Len(batch) + 1, Len(Waiting)) = buf
    BY <1>0, <2>3, SplitConcat
  <2>5. Len(batch) \in 1..Len(Waiting)
    <3>1. Len(batch) # 0 BY <1>0, <2>2, EmptySeq
    <3> QED BY <1>0, <2>4, <3>1
  <2>6. Lost' = Lost /\ Phase' = Phase BY <1>4, <1>9, <2>1 DEF WorkerUnlocked
  <2>7. Phase \in {"open", "closing"} BY <1>3
  <2>8. Ledger!Store(Len(batch))
    BY <2>1, <2>3, <2>4, <2>6, <2>7 DEF Ledger!Store, Waiting, Lost, Phase
  <2>9. Ledger!StoreSome BY <2>5, <2>8 DEF Ledger!StoreSome, Waiting
  <2> QED BY <2>9 DEF Ledger!Next
<1>10. CASE WorkerRecordError
  <2>1. /\ err' = TRUE /\ UNCHANGED <<saved, buf, batch>> /\ wpc = "fail"
    BY <1>2, <1>10 DEF WorkerRecordError
  <2>2. InHand = batch /\ batch # <<>> BY <1>0, <2>1 DEF InHand, WorkerInv
  <2>3. Waiting = batch \o buf /\ Waiting' = <<>>
    BY <1>3, <2>1, <2>2 DEF Waiting
  <2>4. Waiting # <<>>
    <3>1. Len(batch) # 0 BY <1>0, <2>2, EmptySeq
    <3>2. Len(Waiting) = Len(batch) + Len(buf) BY <1>0, <2>3, SplitConcat
    <3>3. Len(Waiting) # 0 BY <1>0, <3>1, <3>2
    <3> QED BY <3>3, EmptySeq
  <2>5. Phase \in {"open", "closing"} /\ Phase' = "failed"
    BY <1>3, <2>1 DEF Phase
  <2>6. Lost' = Lost \cup Range(Waiting)
    BY <1>1, <1>3, <2>1, <2>3 DEF Lost
  <2>7. Ledger!Fail
    BY <2>1, <2>3, <2>4, <2>5, <2>6, SameRange
    DEF Ledger!Fail, Waiting, Lost, Phase
  <2> QED BY <2>7 DEF Ledger!Next
<1> QED BY <1>5, <1>6, <1>7, <1>8, <1>9, <1>10 DEF WorkerNext, WorkerUnlocked

(* Every step of clients and worker is a step of the ledger or leaves it   *)
(* alone.                                                                  *)
LEMMA LedgerStep ==
  ASSUME IInv, OfferInv, [Next]_vars
  PROVE  Ledger!Next \/ UNCHANGED <<Waiting, saved, Lost, Phase>>
<1>0. pc \in [Clients -> ClientPC] /\ TypeOK /\ ClosedInv /\ WorkerInv
  BY DEF IInv, TypeOK
<1>1. ASSUME NEW c \in Clients, ClientNext(c)
      PROVE  Ledger!Next \/ UNCHANGED <<Waiting, saved, Lost, Phase>>
  <2>1. CASE EnqueueLock(c) \/ EnqueueStep(c) BY <2>1, EnqueueLedger
  <2>2. CASE CloseLock(c) \/ CloseReturn(c) \/ ReceiveError(c)
    <3>1. UNCHANGED <<received, accepted, err, wpc, batch, saved, buf>>
      BY <1>0, <2>2, CloseFrame DEF counters, workVars
    <3>2. \A d \in Clients : pc'[d] = "send" <=> pc[d] = "send"
      BY <1>0, <2>2, CloseFrame
    <3>3. Refused' = Refused BY <3>1, <3>2 DEF Refused, Deciding
    <3>4. Waiting' = Waiting /\ Lost' = Lost
      BY <3>1, <3>3 DEF Waiting, Lost, InHand
    <3>5. CASE closed' = closed
      BY <3>1, <3>4, <3>5 DEF Phase
    <3>6. CASE closed' # closed
      <4>1. ~closed /\ closed'
        BY <2>2, <3>6 DEF CloseLock, CloseReturn, ReceiveError, CloseChannel,
           lockVars
      <4>2. ~err /\ wpc # "done" BY <1>0, <4>1 DEF WorkerInv
      <4>3. Phase = "open" /\ Phase' = "closing"
        BY <3>1, <4>1, <4>2 DEF Phase
      <4>4. Ledger!Shut
        BY <3>1, <3>4, <4>3 DEF Ledger!Shut, Waiting, Lost, Phase
      <4> QED BY <4>4 DEF Ledger!Next
    <3> QED BY <3>5, <3>6
  <2>3. CASE StatsReceived(c) \/ StatsStep(c)
    <3>1. /\ UNCHANGED <<received, accepted, err, closed, wpc, batch, saved,
                         buf>>
          /\ \A d \in Clients : pc'[d] = "send" <=> pc[d] = "send"
      BY <1>0, <2>3, StatsFrame DEF StatsPC
    <3>2. Refused' = Refused BY <3>1 DEF Refused, Deciding
    <3> QED BY <3>1, <3>2 DEF Waiting, Lost, InHand, Phase
  <2> QED BY <1>1, <2>1, <2>2, <2>3 DEF ClientNext
<1>2. CASE WorkerNext BY <1>2, WorkerLedger
<1>3. CASE UNCHANGED vars
  BY <1>3 DEF vars, lockVars, chanVars, counters, workVars, Waiting, Lost,
     Phase, InHand, Refused, Deciding
<1> QED BY <1>1, <1>2, <1>3 DEF Next

(* Every call of Enqueue waits and is stored in order, or is lost for one  *)
(* of the reasons the ledger allows, whatever goroutines interleave.       *)
THEOREM ImplementsLedgerSafety == Spec => Ledger!Spec
<1> DEFINE Inv == IInv /\ OfferInv
<1>1. Init => Inv /\ Ledger!Init
  <2> SUFFICES ASSUME Init PROVE OfferInv /\ Ledger!Init
    BY InductiveInit
  <2>1. Range(<<>>) = {} BY DEF Range
  <2>2. Deciding = {} /\ Refused = {} BY DEF Init, Deciding, Refused
  <2>3. OfferInv BY <2>1 DEF Init, OfferInv
  <2>4. <<>> \o <<>> = <<>> OBVIOUS
  <2>5. Ledger!Init BY <2>2, <2>4 DEF Init, Ledger!Init, InHand
  <2> QED BY <2>3, <2>5
<1>2. Inv /\ [Next]_vars => Inv'
  <2>1. IInv => TypeOK /\ MutexInv BY DEF IInv
  <2> QED BY <2>1, InductiveStep, OfferStep
<1>3. Inv /\ [Next]_vars => [Ledger!Next]_(Ledger!ledger)
  BY LedgerStep DEF Ledger!ledger, Waiting, Lost, Phase
<1> QED BY <1>1, <1>2, <1>3, PTL DEF Spec, Ledger!Spec
=============================================================================
