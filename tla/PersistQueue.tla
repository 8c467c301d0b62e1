---------------------------- MODULE PersistQueue ----------------------------
(***************************************************************************)
(* The asynchronous persistence queue of internal/persistqueue/queue.go:   *)
(* a bounded channel, one worker goroutine that saves batches, and client  *)
(* goroutines that call Enqueue, Close, Stats and read the error channel.  *)
(*                                                                         *)
(* Steps are as fine as another goroutine can tell apart.  The mutex `mu'  *)
(* is held over the steps of Enqueue because the worker receives from the  *)
(* channel, and Stats loads the atomic counters, without it.               *)
(*                                                                         *)
(* The n-th call of Enqueue offers event n; only the identity of events    *)
(* matters here.  The saver (SQLite behind EventSaver) is external: a save *)
(* stores the whole batch or fails, and the save timeout makes it return.  *)
(***************************************************************************)
EXTENDS Naturals, Sequences, Functions

CONSTANTS
  Clients,    (* goroutines that share the queue                           *)
  Producers,  (* those that call Enqueue and Stats; the others may Close   *)
  Worker,     (* the goroutine started by NewWithConfig                    *)
  NoOwner,    (* value of mu when the mutex is free                        *)
  Capacity,   (* Config.Capacity after defaulting                          *)
  BatchSize,  (* Config.BatchSize after defaulting; 1 without batch saver  *)
  MaxCalls    (* bound on the calls of Enqueue                             *)

ASSUME QueueAssumption ==
  /\ Capacity \in Nat \ {0}
  /\ BatchSize \in Nat \ {0}
  /\ MaxCalls \in Nat
  /\ Worker \notin Clients
  /\ NoOwner \notin Clients \cup {Worker}

ASSUME ProducersAssumption == Producers \subseteq Clients

VARIABLES
  mu,          (* owner of queue.mu                                        *)
  closed,      (* queue.closed                                             *)
  err,         (* queue.err # nil                                          *)
  errCh,       (* errors buffered in queue.errCh, a channel of capacity 1  *)
  buf,         (* contents of the channel queue.events                     *)
  chanClosed,  (* close(queue.events) has happened                         *)
  received, enqueued, persisted, dropped,   (* the atomic counters         *)
  pc,          (* where each client is                                     *)
  snap,        (* the Stats value each client is filling in                *)
  result,      (* what the last Close of each client returned              *)
  wpc,         (* where the worker is                                      *)
  batch,       (* the worker's current batch                               *)
  panicked,    (* a send on, or a close of, a closed channel happened      *)
  accepted,    (* history: events sent to the channel, in order            *)
  saved        (* the store: events saved, in order                        *)

counters == <<received, enqueued, persisted, dropped>>
lockVars == <<mu, closed, err, errCh>>
chanVars == <<buf, chanClosed, panicked, accepted>>
workVars == <<wpc, batch, saved>>
vars == <<lockVars, chanVars, counters, pc, snap, result, workVars>>

Calls == 1..MaxCalls
ClientPC == {"idle", "send", "count", "drop", "wait",
             "loadEnqueued", "loadPersisted", "loadDropped"}
WorkerPC == {"receive", "collect", "save", "count", "fail", "done"}
NoStats == [received |-> 0, enqueued |-> 0, persisted |-> 0, dropped |-> 0]

TypeOK ==
  /\ mu \in Clients \cup {Worker, NoOwner}
  /\ closed \in BOOLEAN
  /\ err \in BOOLEAN
  /\ errCh \in 0..1
  /\ buf \in Seq(Calls) /\ Len(buf) <= Capacity
  /\ chanClosed \in BOOLEAN
  /\ received \in 0..MaxCalls
  /\ (\E c \in Clients : pc[c] = "send") => received > 0
  /\ enqueued \in Nat /\ persisted \in Nat /\ dropped \in Nat
  /\ pc \in [Clients -> ClientPC]
  /\ snap \in [Clients -> [received : Nat, enqueued : Nat,
                           persisted : Nat, dropped : Nat]]
  /\ result \in [Clients -> {"none", "nil", "error"}]
  /\ wpc \in WorkerPC
  /\ batch \in Seq(Calls) /\ Len(batch) <= BatchSize
  /\ panicked \in BOOLEAN
  /\ accepted \in Seq(Calls)
  /\ saved \in Seq(Calls)

-----------------------------------------------------------------------------
(* NewWithConfig: empty channel, zero counters, worker at its receive.     *)
Init ==
  /\ mu = NoOwner /\ closed = FALSE /\ err = FALSE /\ errCh = 0
  /\ buf = <<>> /\ chanClosed = FALSE /\ panicked = FALSE /\ accepted = <<>>
  /\ received = 0 /\ enqueued = 0 /\ persisted = 0 /\ dropped = 0
  /\ pc = [c \in Clients |-> "idle"]
  /\ snap = [c \in Clients |-> NoStats]
  /\ result = [c \in Clients |-> "none"]
  /\ wpc = "receive" /\ batch = <<>> /\ saved = <<>>

Goto(c, label) == pc' = [pc EXCEPT ![c] = label]

(* `closed = true; close(queue.events)': closing a closed channel panics.  *)
CloseChannel ==
  /\ closed' = TRUE
  /\ chanClosed' = TRUE
  /\ panicked' = (panicked \/ chanClosed)

-----------------------------------------------------------------------------
(* Enqueue takes the lock, counts the call and looks at queue.closed.      *)
EnqueueLock(c) ==
  /\ c \in Producers
  /\ pc[c] = "idle" /\ mu = NoOwner /\ received < MaxCalls
  /\ mu' = c
  /\ received' = received + 1
  /\ Goto(c, IF closed THEN "drop" ELSE "send")
  /\ UNCHANGED <<closed, err, errCh, chanVars, enqueued, persisted, dropped,
                 snap, result, workVars>>

(* The non-blocking send finds room (or the receiver waiting).             *)
EnqueueSend(c) ==
  /\ pc[c] = "send" /\ Len(buf) < Capacity
  /\ panicked' = (panicked \/ chanClosed)
  /\ buf' = Append(buf, received)
  /\ accepted' = Append(accepted, received)
  /\ Goto(c, "count")
  /\ UNCHANGED <<lockVars, chanClosed, counters, snap, result, workVars>>

(* Mutant of EnqueueFull: the event is refused while there is still room.  *)
EnqueueFullEarly(c) ==
  /\ pc[c] = "send" /\ Len(buf) + 1 >= Capacity
  /\ Goto(c, "drop")
  /\ UNCHANGED <<lockVars, chanVars, counters, snap, result, workVars>>

(* The select takes its default branch: the channel is full.               *)
EnqueueFull(c) ==
  /\ pc[c] = "send" /\ Len(buf) >= Capacity
  /\ panicked' = (panicked \/ chanClosed)
  /\ Goto(c, "drop")
  /\ UNCHANGED <<lockVars, buf, chanClosed, accepted, counters, snap, result,
                 workVars>>

(* After the send: count it, unlock, return true.                          *)
EnqueueCount(c) ==
  /\ pc[c] = "count"
  /\ enqueued' = enqueued + 1
  /\ mu' = NoOwner
  /\ Goto(c, "idle")
  /\ UNCHANGED <<closed, err, errCh, chanVars, received, persisted, dropped,
                 snap, result, workVars>>

(* Closed or full: count the drop, unlock, return false.                   *)
EnqueueDrop(c) ==
  /\ pc[c] = "drop"
  /\ dropped' = dropped + 1
  /\ mu' = NoOwner
  /\ Goto(c, "idle")
  /\ UNCHANGED <<closed, err, errCh, chanVars, received, enqueued, persisted,
                 snap, result, workVars>>

(* Mutant of CloseLock: the channel is closed without looking at `closed'. *)
CloseLockUnchecked(c) ==
  /\ pc[c] = "idle" /\ mu = NoOwner
  /\ CloseChannel
  /\ Goto(c, "wait")
  /\ UNCHANGED <<mu, err, errCh, buf, accepted, counters, snap, result,
                 workVars>>

(* Mutant of CloseLock: the flag is set, the channel is left open.         *)
CloseLockFlagOnly(c) ==
  /\ pc[c] = "idle" /\ mu = NoOwner
  /\ closed' = TRUE
  /\ Goto(c, "wait")
  /\ UNCHANGED <<mu, err, errCh, chanVars, counters, snap, result, workVars>>

(* Close under the lock: close the channel unless somebody has.            *)
CloseLock(c) ==
  /\ pc[c] = "idle" /\ mu = NoOwner
  /\ IF closed THEN UNCHANGED <<closed, chanClosed, panicked>> ELSE CloseChannel
  /\ Goto(c, "wait")
  /\ UNCHANGED <<mu, err, errCh, buf, accepted, counters, snap, result,
                 workVars>>

(* Mutant of CloseReturn: it does not wait for the worker.                 *)
CloseReturnEarly(c) ==
  /\ pc[c] = "wait" /\ mu = NoOwner
  /\ result' = [result EXCEPT ![c] = IF err THEN "error" ELSE "nil"]
  /\ Goto(c, "idle")
  /\ UNCHANGED <<lockVars, chanVars, counters, snap, workVars>>

(* Close after <-queue.done: take the lock again and return queue.err.     *)
CloseReturn(c) ==
  /\ pc[c] = "wait" /\ wpc = "done" /\ mu = NoOwner
  /\ result' = [result EXCEPT ![c] = IF err THEN "error" ELSE "nil"]
  /\ Goto(c, "idle")
  /\ UNCHANGED <<lockVars, chanVars, counters, snap, workVars>>

(* Stats loads the four counters one after the other, without the lock.    *)
StatsReceived(c) ==
  /\ c \in Producers
  /\ pc[c] = "idle"
  /\ snap' = [snap EXCEPT ![c] = [received |-> received, enqueued |-> 0,
                                  persisted |-> 0, dropped |-> 0]]
  /\ Goto(c, "loadEnqueued")
  /\ UNCHANGED <<lockVars, chanVars, counters, result, workVars>>

StatsEnqueued(c) ==
  /\ pc[c] = "loadEnqueued"
  /\ snap' = [snap EXCEPT ![c].enqueued = enqueued]
  /\ Goto(c, "loadPersisted")
  /\ UNCHANGED <<lockVars, chanVars, counters, result, workVars>>

StatsPersisted(c) ==
  /\ pc[c] = "loadPersisted"
  /\ snap' = [snap EXCEPT ![c].persisted = persisted]
  /\ Goto(c, "loadDropped")
  /\ UNCHANGED <<lockVars, chanVars, counters, result, workVars>>

StatsDropped(c) ==
  /\ pc[c] = "loadDropped"
  /\ snap' = [snap EXCEPT ![c].dropped = dropped]
  /\ Goto(c, "idle")
  /\ UNCHANGED <<lockVars, chanVars, counters, result, workVars>>

(* A client in its select loop receives from Errors().                     *)
ReceiveError(c) ==
  /\ pc[c] = "idle" /\ errCh = 1
  /\ errCh' = 0
  /\ UNCHANGED <<mu, closed, err, chanVars, counters, pc, snap, result,
                 workVars>>

-----------------------------------------------------------------------------
(* `for event := range queue.events' receives the first event of a batch.  *)
WorkerReceive ==
  /\ wpc = "receive" /\ buf # <<>>
  /\ batch' = <<Head(buf)>>
  /\ buf' = Tail(buf)
  /\ wpc' = "collect"
  /\ UNCHANGED <<lockVars, chanClosed, panicked, accepted, counters, pc, snap,
                 result, saved>>

(* The range loop ends: channel closed and empty; close(queue.done).       *)
WorkerFinish ==
  /\ wpc = "receive" /\ buf = <<>> /\ chanClosed
  /\ wpc' = "done"
  /\ UNCHANGED <<lockVars, chanVars, counters, pc, snap, result, batch, saved>>

(* Mutant of WorkerCollect: the batch is built newest first.               *)
WorkerCollectReversed ==
  /\ wpc = "collect" /\ Len(batch) < BatchSize /\ buf # <<>>
  /\ batch' = <<Head(buf)>> \o batch
  /\ buf' = Tail(buf)
  /\ UNCHANGED <<lockVars, chanClosed, panicked, accepted, counters, pc, snap,
                 result, wpc, saved>>

(* collectBatch receives one more event without blocking.                  *)
WorkerCollect ==
  /\ wpc = "collect" /\ Len(batch) < BatchSize /\ buf # <<>>
  /\ batch' = Append(batch, Head(buf))
  /\ buf' = Tail(buf)
  /\ UNCHANGED <<lockVars, chanClosed, panicked, accepted, counters, pc, snap,
                 result, wpc, saved>>

(* collectBatch returns: batch full, or the channel empty (or closed).     *)
WorkerCollected ==
  /\ wpc = "collect" /\ (Len(batch) >= BatchSize \/ buf = <<>>)
  /\ wpc' = "save"
  /\ UNCHANGED <<lockVars, chanVars, counters, pc, snap, result, batch, saved>>

(* saveBatch succeeds: the store holds the batch.                          *)
WorkerSaved ==
  /\ wpc = "save"
  /\ saved' = saved \o batch
  /\ wpc' = "count"
  /\ UNCHANGED <<lockVars, chanVars, counters, pc, snap, result, batch>>

(* saveBatch fails or times out: its transaction stored nothing.           *)
WorkerSaveFailed ==
  /\ wpc = "save"
  /\ wpc' = "fail"
  /\ UNCHANGED <<lockVars, chanVars, counters, pc, snap, result, batch, saved>>

(* atomic.AddUint64(&queue.persisted, len(batch)) and the next iteration.  *)
WorkerCount ==
  /\ wpc = "count"
  /\ persisted' = persisted + Len(batch)
  /\ batch' = <<>>
  /\ wpc' = "receive"
  /\ UNCHANGED <<lockVars, chanVars, received, enqueued, dropped, pc, snap,
                 result, saved>>

(* Mutant of WorkerRecordError: what is left in the channel is not counted.*)
WorkerRecordErrorBatchOnly ==
  /\ wpc = "fail" /\ mu = NoOwner
  /\ err' = TRUE /\ errCh' = 1
  /\ dropped' = dropped + Len(batch)
  /\ IF closed THEN UNCHANGED <<closed, chanClosed, panicked>> ELSE CloseChannel
  /\ wpc' = "done"
  /\ UNCHANGED <<mu, buf, accepted, received, enqueued, persisted, pc, snap,
                 result, batch, saved>>

(* Mutant of WorkerRecordError: a whole batch is counted, not its length.  *)
WorkerRecordErrorFullBatch ==
  /\ wpc = "fail" /\ mu = NoOwner
  /\ err' = TRUE /\ errCh' = 1
  /\ dropped' = dropped + BatchSize + Len(buf)
  /\ IF closed THEN UNCHANGED <<closed, chanClosed, panicked>> ELSE CloseChannel
  /\ wpc' = "done"
  /\ UNCHANGED <<mu, buf, accepted, received, enqueued, persisted, pc, snap,
                 result, batch, saved>>

(* Mutant of WorkerRecordError: the queue is left open for new events.     *)
WorkerRecordErrorLeftOpen ==
  /\ wpc = "fail" /\ mu = NoOwner
  /\ err' = TRUE /\ errCh' = 1
  /\ dropped' = dropped + Len(batch) + Len(buf)
  /\ wpc' = "done"
  /\ UNCHANGED <<mu, closed, chanVars, received, enqueued, persisted, pc, snap,
                 result, batch, saved>>

(* recordError under the lock, then run returns and closes queue.done.     *)
WorkerRecordError ==
  /\ wpc = "fail" /\ mu = NoOwner
  /\ IF err
       THEN UNCHANGED <<closed, chanClosed, panicked, err, errCh, dropped>>
       ELSE /\ err' = TRUE
            /\ dropped' = dropped + Len(batch) + Len(buf)
            /\ IF closed THEN UNCHANGED <<closed, chanClosed, panicked>>
                         ELSE CloseChannel
            /\ errCh' = 1
  /\ wpc' = "done"
  /\ UNCHANGED <<mu, buf, accepted, received, enqueued, persisted, pc, snap,
                 result, batch, saved>>

-----------------------------------------------------------------------------
EnqueueStep(c) ==
  EnqueueSend(c) \/ EnqueueFull(c) \/ EnqueueCount(c) \/ EnqueueDrop(c)
StatsStep(c) == StatsEnqueued(c) \/ StatsPersisted(c) \/ StatsDropped(c)

ClientNext(c) ==
  \/ EnqueueLock(c) \/ EnqueueStep(c)
  \/ CloseLock(c) \/ CloseReturn(c)
  \/ StatsReceived(c) \/ StatsStep(c)
  \/ ReceiveError(c)

WorkerUnlocked ==
  WorkerReceive \/ WorkerFinish \/ WorkerCollect \/ WorkerCollected
  \/ WorkerSaved \/ WorkerSaveFailed \/ WorkerCount

WorkerNext == WorkerUnlocked \/ WorkerRecordError

Next == WorkerNext \/ \E c \in Clients : ClientNext(c)

Spec == Init /\ [][Next]_vars

(* A goroutine that can run does: the scheduler is fair, a save returns    *)
(* within the save timeout, and a waiter for a sync.Mutex is not starved.  *)
(* Nothing obliges a client to start a call.                               *)
Fairness ==
  /\ WF_vars(WorkerUnlocked)
  /\ SF_vars(WorkerRecordError)
  /\ \A c \in Clients :
       WF_vars(EnqueueStep(c)) /\ WF_vars(StatsStep(c)) /\ SF_vars(CloseReturn(c))

FairSpec == Spec /\ Fairness

-----------------------------------------------------------------------------
(* Properties                                                              *)

(* Events the worker has taken from the channel and not yet stored.        *)
InHand == IF wpc = "count" THEN <<>> ELSE batch

(* Events accepted whose fate the counters do not show yet.                *)
Unsettled == IF err THEN 0 ELSE Len(batch) + Len(buf)

(* 1 while an Enqueue has counted its call and neither sent nor dropped.   *)
Undecided == IF \E c \in Clients : pc[c] \in {"send", "drop"} THEN 1 ELSE 0

(* No goroutine ever sends on, or closes, a channel already closed, in     *)
(* whatever order Enqueue, Close and recordError get the mutex.            *)
NoPanic == ~panicked

(* The counters of Stats account for every call of Enqueue: persisted,     *)
(* dropped, in the channel, in the worker's batch, or being decided.  A    *)
(* failed save accounts for its batch and for everything left behind it.   *)
Conservation == received = persisted + dropped + Unsettled + Undecided

(* The channel, the batch and the store hold exactly the accepted events,  *)
(* in order: batching, failure and shutdown lose, repeat or reorder none.  *)
StoredInOrder == accepted = saved \o InHand \o buf

(* Close returning nil means that every event Enqueue ever accepted is in  *)
(* the store and counted as persisted, whoever called Close first.         *)
CloseNilMeansStored ==
  \A c \in Clients :
    result[c] = "nil" => saved = accepted /\ persisted = enqueued

(* A Stats value read by the queue's only producer is coherent although    *)
(* its four loads interleave with the worker and with others' Close.       *)
SnapshotCoherent ==
  \A c \in Clients : Producers = {c} /\ pc[c] = "idle" =>
    /\ snap[c].persisted <= snap[c].enqueued
    /\ snap[c].enqueued <= snap[c].received
    /\ snap[c].persisted + snap[c].dropped <= snap[c].received

(* Once a save has failed nothing is stored or accepted any more, and the  *)
(* queue stays closed with its error.                                      *)
FailureIsFinal == [][err => UNCHANGED <<saved, accepted, err, closed>>]_vars

(* Close returns: the worker drains the channel or fails, then signals.    *)
CloseReturns == \A c \in Clients : pc[c] = "wait" ~> pc[c] = "idle"

-----------------------------------------------------------------------------
(* The inductive invariant behind the properties above.                    *)

(* A client holds the mutex exactly while it is inside Enqueue; the worker *)
(* releases it within the one step of recordError.                         *)
MutexInv ==
  /\ mu # Worker
  /\ \A c \in Clients : pc[c] \in {"send", "count", "drop"} <=> mu = c

(* The flag and the channel agree, and nobody is past the check of the     *)
(* flag once it is set.                                                    *)
ClosedInv ==
  /\ chanClosed = closed
  /\ ~panicked
  /\ closed => \A c \in Clients : pc[c] \notin {"send", "count"}

(* The batch is empty exactly between batches; the worker stops only when  *)
(* the queue is closed, and leaves something behind only with an error.    *)
WorkerInv ==
  /\ wpc = "receive" => batch = <<>>
  /\ wpc \in {"collect", "save", "count", "fail"} => batch # <<>>
  /\ wpc = "done" => closed
  /\ wpc = "done" /\ ~err => batch = <<>> /\ buf = <<>>
  /\ err => wpc = "done"
  /\ \A c \in Clients : result[c] = "nil" => wpc = "done" /\ ~err

(* The counters lag behind the channel and the store by at most the send   *)
(* or the batch being counted.                                             *)
CountInv ==
  /\ Len(accepted) =
       enqueued + (IF \E c \in Clients : pc[c] = "count" THEN 1 ELSE 0)
  /\ Len(saved) = persisted + (IF wpc = "count" THEN Len(batch) ELSE 0)

IInv ==
  /\ TypeOK /\ MutexInv /\ ClosedInv /\ WorkerInv /\ CountInv
  /\ Conservation /\ StoredInOrder

-----------------------------------------------------------------------------
(* The queue implements its ledger.  A refused event is lost from the step *)
(* that finds the queue closed or the channel full.                        *)
Deciding == IF \E c \in Clients : pc[c] = "send" THEN {received} ELSE {}
Refused == ((1..received) \ Range(accepted)) \ Deciding

Ledger == INSTANCE QueueLedger WITH
  Items   <- Calls,
  waiting <- IF err THEN <<>> ELSE InHand \o buf,
  stored  <- saved,
  lost    <- Refused \cup (IF err THEN Range(batch \o buf) ELSE {}),
  phase   <- IF err THEN "failed"
             ELSE IF wpc = "done" THEN "drained"
             ELSE IF closed THEN "closing" ELSE "open"

(* Every step of the queue is a step of the ledger or changes nothing in   *)
(* it, and the fairness of its goroutines gives the ledger's progress.     *)
ImplementsLedger == Ledger!FairSpec
=============================================================================
