------------------------------- MODULE LiveRun -------------------------------
(***************************************************************************)
(* `tracejutsu run --db': runLive of cmd/tracejutsu/main.go with the       *)
(* goroutines around it.  Collectors read kernel records and send events   *)
(* to the sink; the composite collector starts them, stops them all when   *)
(* one returns and then closes the sink; the main goroutine selects over   *)
(* the sink, the flush ticker and the two queues' error channels, and on   *)
(* its way out cancels the context and closes both queues.                 *)
(*                                                                         *)
(* The queues are those of QueueLedger, which PersistQueue implements, and *)
(* the correlator in the processor is that of CandidateLedger, which       *)
(* StreamGrouper implements; any group it returns may be suspicious.       *)
(***************************************************************************)
EXTENDS Integers, Sequences, FiniteSets, SequencesExt

CONSTANTS
  Collectors,     (* the enabled collectors                                *)
  EventBuffer,    (* --event-buffer: capacity of the sink                  *)
  PersistBuffer,  (* --persist-buffer: capacity of both queues             *)
  BatchSize,      (* --persist-batch-size                                  *)
  MaxRecords      (* bound on the records the kernel delivers              *)

ASSUME LiveAssumption ==
  /\ IsFiniteSet(Collectors) /\ Collectors # {}
  /\ EventBuffer \in Nat \ {0} /\ PersistBuffer \in Nat \ {0}
  /\ BatchSize \in Nat \ {0} /\ MaxRecords \in Nat

VARIABLES
  cancelled,      (* ctx: SIGINT, SIGTERM or the deferred stop()           *)
  runCancelled,   (* runContext of the composite collector                 *)
  cpc, hand,      (* each collector: where it is, the event it sends       *)
  readerOpen,     (* each collector: its ring buffer reader is not closed  *)
  records,        (* how many records the kernel has delivered             *)
  results,        (* chan error between collectors and composite           *)
  got,            (* results the composite has received                    *)
  firstError,     (* its first non-nil result                              *)
  composite,      (* "wait", "close" or "done"                             *)
  collectorErrors,(* chan error, capacity 1                                *)
  sink, sinkClosed,
  mpc,            (* where the main goroutine is                           *)
  draining,       (* the sink was closed: return after this report         *)
  candidates,     (* the processor's candidates, sets of events            *)
  analyses,       (* what writeAnalyses still has to write                 *)
  ret,            (* runLive's err                                         *)
  flagged,        (* history: suspicious groups                            *)
  eWaiting, eStored, eLost, ePhase, eErrors,   (* event queue and errCh    *)
  iWaiting, iStored, iLost, iPhase, iErrors    (* incident queue and errCh *)

collectorVars == <<runCancelled, cpc, hand, readerOpen, records, results>>
compositeVars == <<got, firstError, composite, collectorErrors, sinkClosed>>
mainVars == <<mpc, draining, candidates, analyses, ret, flagged>>
eventQueue == <<eWaiting, eStored, eLost, ePhase, eErrors>>
incidentQueue == <<iWaiting, iStored, iLost, iPhase, iErrors>>
queues == <<eventQueue, incidentQueue>>

vars == <<cancelled, collectorVars, compositeVars, sink, mainVars, queues>>

EventQueue == INSTANCE QueueLedger WITH
  Items <- 1..MaxRecords, Capacity <- PersistBuffer, BatchSize <- BatchSize,
  waiting <- eWaiting, stored <- eStored, lost <- eLost, phase <- ePhase

IncidentQueue == INSTANCE QueueLedger WITH
  Items <- SUBSET (1..MaxRecords), Capacity <- PersistBuffer, BatchSize <- 1,
  waiting <- iWaiting, stored <- iStored, lost <- iLost, phase <- iPhase

(* Of the correlator only the operations are used: the run keeps a history *)
(* of the suspicious groups, not of all that were returned.                *)
Correlator == INSTANCE CandidateLedger WITH
  Items <- 1..MaxRecords, held <- candidates, returned <- flagged

-----------------------------------------------------------------------------
Init ==
  /\ cancelled = FALSE /\ runCancelled = FALSE
  /\ cpc = [c \in Collectors |-> "setup"] /\ hand = [c \in Collectors |-> 0]
  /\ readerOpen = [c \in Collectors |-> TRUE] /\ records = 0
  /\ results = <<>> /\ got = 0 /\ firstError = "nil" /\ composite = "wait"
  /\ collectorErrors = "empty" /\ sink = <<>> /\ sinkClosed = FALSE
  /\ mpc = "select" /\ draining = FALSE /\ candidates = {} /\ analyses = <<>>
  /\ ret = "nil" /\ flagged = {}
  /\ EventQueue!Init /\ IncidentQueue!Init /\ eErrors = 0 /\ iErrors = 0

(* runContext is derived from ctx.                                         *)
Done == cancelled \/ runCancelled

(* A child's Run returns; `results' has room for every child.              *)
Return(c, err) ==
  /\ cpc' = [cpc EXCEPT ![c] = "done"]
  /\ results' = Append(results, err) /\ hand' = [hand EXCEPT ![c] = 0]
  /\ UNCHANGED <<cancelled, runCancelled, readerOpen, records, sink,
                 compositeVars, mainVars, queues>>

(* Maps, programs, hooks and reader are created, or Run fails.             *)
Setup(c) ==
  /\ cpc[c] = "setup"
  /\ cpc' = [cpc EXCEPT ![c] = "read"]
  /\ UNCHANGED <<cancelled, runCancelled, hand, readerOpen, records, results,
                 sink, compositeVars, mainVars, queues>>

SetupFails(c) == cpc[c] = "setup" /\ Return(c, "err")

(* reader.Read returns a record, which is decoded and normalized.          *)
Read(c) ==
  /\ cpc[c] = "read" /\ readerOpen[c] /\ records < MaxRecords
  /\ records' = records + 1
  /\ hand' = [hand EXCEPT ![c] = records + 1]
  /\ cpc' = [cpc EXCEPT ![c] = "send"]
  /\ UNCHANGED <<cancelled, runCancelled, readerOpen, results, sink,
                 compositeVars, mainVars, queues>>

(* normalize rejects the record: the loop reads on.                        *)
ReadIgnored(c) ==
  /\ cpc[c] = "read" /\ readerOpen[c] /\ records < MaxRecords
  /\ records' = records + 1
  /\ UNCHANGED <<cancelled, runCancelled, cpc, hand, readerOpen, results, sink,
                 compositeVars, mainVars, queues>>

(* reader.Read fails, or its record cannot be decoded.                     *)
ReadFails(c) == cpc[c] = "read" /\ readerOpen[c] /\ Return(c, "err")

(* ErrClosed while ctx.Err() # nil.                                        *)
ReadClosed(c) ==
  /\ cpc[c] = "read" /\ ~ readerOpen[c]
  /\ Return(c, IF Done THEN "nil" ELSE "err")

(* The select at the end of the loop: `sink <- event', or ctx.Done().      *)
Send(c) ==
  /\ cpc[c] = "send" /\ Len(sink) < EventBuffer
  /\ sink' = Append(sink, hand[c]) /\ cpc' = [cpc EXCEPT ![c] = "read"]
  /\ hand' = [hand EXCEPT ![c] = 0]
  /\ UNCHANGED <<cancelled, runCancelled, readerOpen, records, results,
                 compositeVars, mainVars, queues>>

SendCancelled(c) == cpc[c] = "send" /\ Done /\ Return(c, "nil")

(* Mutant: the reader is closed by the signal only.                        *)
CloseReaderOnSignal(c) ==
  /\ cancelled /\ readerOpen[c] /\ cpc[c] \in {"read", "send"}
  /\ readerOpen' = [readerOpen EXCEPT ![c] = FALSE]
  /\ UNCHANGED <<cancelled, runCancelled, cpc, hand, records, results, sink,
                 compositeVars, mainVars, queues>>

(* closeOnContextCancel: the goroutine beside a running collector.         *)
CloseReader(c) ==
  /\ Done /\ readerOpen[c] /\ cpc[c] \in {"read", "send"}
  /\ readerOpen' = [readerOpen EXCEPT ![c] = FALSE]
  /\ UNCHANGED <<cancelled, runCancelled, cpc, hand, records, results, sink,
                 compositeVars, mainVars, queues>>

(* CompositeCollector.Run receives a result, and cancels after the first.  *)
CompositeReceive ==
  /\ composite = "wait" /\ results # <<>>
  /\ got' = got + 1 /\ results' = Tail(results)
  /\ firstError' = IF firstError = "nil" THEN Head(results) ELSE firstError
  /\ runCancelled' = TRUE
  /\ UNCHANGED <<cancelled, cpc, hand, readerOpen, records, composite,
                 collectorErrors, sink, sinkClosed, mainVars, queues>>

(* Mutant: the composite returns with its first result.                    *)
CompositeReturnEarly ==
  /\ composite = "wait" /\ got > 0
  /\ collectorErrors' = firstError /\ composite' = "close"
  /\ UNCHANGED <<cancelled, collectorVars, got, firstError, sink, sinkClosed,
                 mainVars, queues>>

(* It returns when every child has: collectorErrors <- firstError.         *)
CompositeReturn ==
  /\ composite = "wait" /\ got = Cardinality(Collectors)
  /\ collectorErrors' = firstError /\ composite' = "close"
  /\ UNCHANGED <<cancelled, collectorVars, got, firstError, sink, sinkClosed,
                 mainVars, queues>>

(* close(sink)                                                             *)
CloseSink ==
  /\ composite = "close"
  /\ sinkClosed' = TRUE /\ composite' = "done"
  /\ UNCHANGED <<cancelled, collectorVars, got, firstError, collectorErrors,
                 sink, mainVars, queues>>

Signal ==
  /\ ~ cancelled
  /\ cancelled' = TRUE
  /\ UNCHANGED <<collectorVars, compositeVars, sink, mainVars, queues>>

-----------------------------------------------------------------------------
(* The queues' workers.                                                    *)
EventWorker ==
  /\ \/ (EventQueue!StoreSome \/ EventQueue!Drain) /\ UNCHANGED eErrors
     \/ EventQueue!Fail /\ eErrors' = 1
  /\ UNCHANGED <<cancelled, collectorVars, compositeVars, sink, mainVars,
                 incidentQueue>>

IncidentWorker ==
  /\ \/ (\E n \in {1} \cap (1..Len(iWaiting)) : IncidentQueue!Store(n))
           /\ UNCHANGED iErrors
     \/ IncidentQueue!Drain /\ UNCHANGED iErrors
     \/ IncidentQueue!Fail /\ iErrors' = 1
  /\ UNCHANGED <<cancelled, collectorVars, compositeVars, sink, mainVars,
                 eventQueue>>

-----------------------------------------------------------------------------
(* The main goroutine.                                                     *)
Fails(err) == mpc' = "return" /\ ret' = err

(* Where a handler of the loop goes with these analyses still to write.    *)
After(unwritten) ==
  IF unwritten # <<>> THEN "report" ELSE IF draining' THEN "drained" ELSE "select"

(* processor.analyze on the groups the correlator returned.                *)
Analyze(groups) ==
  \E suspicious \in SUBSET groups :
    /\ analyses' = SetToSeq(suspicious)
    /\ flagged' = flagged \union suspicious
    /\ mpc' = After(analyses') /\ UNCHANGED ret

(* An event is enqueued, written to out and given to the processor.        *)
MainEvent ==
  /\ mpc = "select" /\ sink # <<>>
  /\ sink' = Tail(sink)
  /\ EventQueue!Accept(Head(sink)) \/ EventQueue!Refuse(Head(sink))
  /\ UNCHANGED draining
  /\ \/ \E before \in Correlator!Placed(Head(sink)) : \E groups \in SUBSET before :
          Correlator!Add(Head(sink), before, groups) /\ Analyze(groups)
     \/ Fails("err") /\ UNCHANGED <<candidates, analyses, flagged>>
  /\ UNCHANGED <<cancelled, collectorVars, compositeVars, eErrors,
                 incidentQueue>>

(* Mutant: the candidates are left behind.                                 *)
MainSinkClosedUndrained ==
  /\ mpc = "select" /\ sink = <<>> /\ sinkClosed
  /\ draining' = TRUE /\ Correlator!Flush({}) /\ Analyze({})
  /\ UNCHANGED <<cancelled, collectorVars, compositeVars, sink, queues>>

(* The sink is closed and empty: the processor is drained.                 *)
MainSinkClosed ==
  /\ mpc = "select" /\ sink = <<>> /\ sinkClosed
  /\ draining' = TRUE /\ Correlator!Drain(candidates) /\ Analyze(candidates)
  /\ UNCHANGED <<cancelled, collectorVars, compositeVars, sink, queues>>

MainFlushTick ==
  /\ mpc = "select" /\ UNCHANGED draining
  /\ \E groups \in SUBSET candidates : Correlator!Flush(groups) /\ Analyze(groups)
  /\ UNCHANGED <<cancelled, collectorVars, compositeVars, sink, queues>>

MainEventQueueError ==
  /\ mpc = "select" /\ eErrors = 1
  /\ eErrors' = 0 /\ Fails("err")
  /\ UNCHANGED <<cancelled, collectorVars, compositeVars, sink, draining,
                 candidates, analyses, flagged, eWaiting, eStored, eLost,
                 ePhase, incidentQueue>>

MainIncidentQueueError ==
  /\ mpc = "select" /\ iErrors = 1
  /\ iErrors' = 0 /\ Fails("err")
  /\ UNCHANGED <<cancelled, collectorVars, compositeVars, sink, draining,
                 candidates, analyses, flagged, iWaiting, iStored, iLost,
                 iPhase, eventQueue>>

(* writeAnalyses: an incident is enqueued, then written to out.            *)
MainReport ==
  /\ mpc = "report"
  /\ IncidentQueue!Accept(Head(analyses)) \/ IncidentQueue!Refuse(Head(analyses))
  /\ UNCHANGED draining
  /\ \/ /\ analyses' = Tail(analyses) /\ mpc' = After(analyses')
        /\ UNCHANGED ret
     \/ Fails("err") /\ UNCHANGED analyses
  /\ UNCHANGED <<cancelled, collectorVars, compositeVars, sink, candidates,
                 flagged, iErrors, eventQueue>>

(* return <-collectorErrors                                                *)
MainReturn ==
  /\ mpc = "drained" /\ collectorErrors # "empty"
  /\ collectorErrors' = "empty" /\ Fails(collectorErrors)
  /\ UNCHANGED <<cancelled, collectorVars, got, firstError, composite, sink,
                 sinkClosed, draining, candidates, analyses, flagged, queues>>

(* Deferred: stop() cancels the context.                                   *)
MainStop ==
  /\ mpc = "return"
  /\ cancelled' = TRUE /\ mpc' = "closeIncidents"
  /\ UNCHANGED <<collectorVars, compositeVars, sink, draining, candidates,
                 analyses, ret, flagged, queues>>

Shut(phase) == IF phase = "open" THEN "closing" ELSE phase

Settled(phase) == phase \in {"drained", "failed"}

CloseError(phase) == IF phase = "failed" THEN "err" ELSE "nil"

(* incidentQueue.Close(), in two steps: shut it and wait for its worker.   *)
MainCloseIncidents ==
  /\ mpc = "closeIncidents"
  /\ iPhase' = Shut(iPhase) /\ mpc' = "waitIncidents"
  /\ UNCHANGED <<cancelled, collectorVars, compositeVars, sink, draining,
                 candidates, analyses, ret, flagged, eventQueue,
                 iWaiting, iStored, iLost, iErrors>>

(* Mutant: the queue's error is not looked at.                             *)
MainIncidentsClosedUnchecked ==
  /\ mpc = "waitIncidents" /\ Settled(iPhase)
  /\ mpc' = "closeEvents" /\ UNCHANGED ret
  /\ UNCHANGED <<cancelled, collectorVars, compositeVars, sink, draining,
                 candidates, analyses, flagged, queues>>

MainIncidentsClosed ==
  /\ mpc = "waitIncidents" /\ Settled(iPhase)
  /\ ret' = IF ret = "nil" THEN CloseError(iPhase) ELSE ret
  /\ mpc' = "closeEvents"
  /\ UNCHANGED <<cancelled, collectorVars, compositeVars, sink, draining,
                 candidates, analyses, flagged, queues>>

MainCloseEvents ==
  /\ mpc = "closeEvents"
  /\ ePhase' = Shut(ePhase) /\ mpc' = "waitEvents"
  /\ UNCHANGED <<cancelled, collectorVars, compositeVars, sink, draining,
                 candidates, analyses, ret, flagged, incidentQueue,
                 eWaiting, eStored, eLost, eErrors>>

MainEventsClosed ==
  /\ mpc = "waitEvents" /\ Settled(ePhase)
  /\ ret' = IF ret = "nil" THEN CloseError(ePhase) ELSE ret
  /\ mpc' = "exit"
  /\ UNCHANGED <<cancelled, collectorVars, compositeVars, sink, draining,
                 candidates, analyses, flagged, queues>>

-----------------------------------------------------------------------------
(* A collector's goroutine, and the steps of it that do not wait for the   *)
(* kernel.                                                                 *)
CollectorProceeds(c) ==
  Setup(c) \/ SetupFails(c) \/ ReadClosed(c) \/ Send(c) \/ SendCancelled(c)

CollectorNext(c) ==
  CollectorProceeds(c) \/ Read(c) \/ ReadIgnored(c) \/ ReadFails(c)

MainProceeds ==
  \/ MainReport \/ MainReturn \/ MainStop
  \/ MainCloseIncidents \/ MainIncidentsClosed
  \/ MainCloseEvents \/ MainEventsClosed

(* A case of the select other than a tick.                                 *)
MainSelect ==
  MainEvent \/ MainSinkClosed \/ MainEventQueueError \/ MainIncidentQueueError

MainNext == MainSelect \/ MainFlushTick \/ MainProceeds

(* The process ends when runLive returns.                                  *)
Running ==
  /\ mpc # "exit"
  /\ \/ Signal \/ MainNext \/ EventWorker \/ IncidentWorker
     \/ CompositeReceive \/ CompositeReturn \/ CloseSink
     \/ \E c \in Collectors : CollectorNext(c) \/ CloseReader(c)

Exited == mpc = "exit" /\ UNCHANGED vars

Next == Running \/ Exited

Spec == Init /\ [][Next]_vars

(* Goroutines that can run do run; saves have a timeout; and select picks  *)
(* among its ready cases at random, so ticks do not keep it from the other *)
(* ones.  Nothing is assumed of signals, ticks and the kernel's records.   *)
FairSpec ==
  /\ Spec
  /\ \A c \in Collectors :
       /\ WF_vars(mpc # "exit" /\ CollectorProceeds(c))
       /\ WF_vars(mpc # "exit" /\ CloseReader(c))
  /\ WF_vars(mpc # "exit" /\ (CompositeReceive \/ CompositeReturn \/ CloseSink))
  /\ WF_vars(mpc # "exit" /\ EventWorker)
  /\ WF_vars(mpc # "exit" /\ IncidentWorker)
  /\ WF_vars(MainProceeds) /\ WF_vars(MainSelect)

-----------------------------------------------------------------------------
(* No collector can be about to send on the sink once it is closed, which  *)
(* would panic: CompositeCollector.Run returns only after all of them.     *)
NoSendOnClosedSink ==
  sinkClosed => \A c \in Collectors : cpc[c] = "done"

(* Why: every result stands for a child that returned, and the composite   *)
(* leaves its loop when it has one from each.                              *)
Returned == {c \in Collectors : cpc[c] = "done"}

SinkInv ==
  /\ cpc \in [Collectors -> {"setup", "read", "send", "done"}]
  /\ results \in Seq({"nil", "err"}) /\ got \in Nat
  /\ got + Len(results) = Cardinality(Returned)
  /\ composite \in {"wait", "close", "done"}
  /\ composite # "wait" => got = Cardinality(Collectors)
  /\ sinkClosed => composite = "done"

(* A run that exits without an error has taken every event out of the      *)
(* sink, analysed every candidate, offered every suspicious group to the   *)
(* incident queue, and both queues have stored all they accepted.          *)
CleanExitIsComplete ==
  (mpc = "exit" /\ ret = "nil") =>
    /\ sinkClosed /\ sink = <<>> /\ candidates = {}
    /\ flagged = ToSet(iStored) \union iLost
    /\ eWaiting = <<>> /\ iWaiting = <<>>

(* No failure of a collector or of a queue is swallowed on the way out.    *)
FailureIsReported ==
  (mpc = "exit" /\ ret = "nil") =>
    firstError = "nil" /\ ePhase = "drained" /\ iPhase = "drained"

(* Why: on the way out ret is nil only if the composite's first error is   *)
(* nil and every queue closed so far was drained.                          *)
Leaving == {"return", "closeIncidents", "waitIncidents", "closeEvents",
            "waitEvents", "exit"}

ExitInv ==
  /\ composite = "wait" => collectorErrors = "empty"
  /\ collectorErrors # "empty" => collectorErrors = firstError
  /\ (mpc \in Leaving /\ ret = "nil") => composite # "wait" /\ firstError = "nil"
  /\ (mpc \in {"closeEvents", "waitEvents", "exit"} /\ ret = "nil")
       => iPhase = "drained"
  /\ (mpc = "exit" /\ ret = "nil") => ePhase = "drained"

(* A collector that returned, with or without an error, and a queue that   *)
(* failed end the run as a signal does, though other collectors may be     *)
(* blocked in Read or on a full sink.                                      *)
Stops ==
  (\/ cancelled \/ ePhase = "failed" \/ iPhase = "failed"
   \/ \E c \in Collectors : cpc[c] = "done") ~> (mpc = "exit")
=============================================================================
