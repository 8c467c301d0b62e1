---------------------------- MODULE LiveRunProofs ----------------------------
(***************************************************************************)
(* For any number of collectors and any sizes of sink and queues: no       *)
(* collector sends on a closed sink, no failure is swallowed at exit, and  *)
(* a run without one has reported all it was given.                        *)
(***************************************************************************)
EXTENDS LiveRun, SequenceTheorems, FunctionTheorems, FiniteSetTheorems, TLAPS

(* SinkInv depends on these variables only.                                *)
LEMMA SinkFrame ==
  SinkInv /\ UNCHANGED <<cpc, results, got, composite, sinkClosed>> => SinkInv'
  BY DEF SinkInv, Returned

(* A child that returns adds one result and one returned child.            *)
LEMMA SinkReturn ==
  ASSUME SinkInv, NEW c \in Collectors, NEW err \in {"nil", "err"},
         cpc[c] # "done", Return(c, err)
  PROVE  SinkInv'
<1>1. IsFiniteSet(Returned)
  BY FS_Subset, LiveAssumption DEF LiveAssumption, Returned
<1>2. Returned' = Returned \cup {c} /\ c \notin Returned
  BY DEF Returned, Return, SinkInv
<1>3. Cardinality(Returned') = Cardinality(Returned) + 1
  BY <1>1, <1>2, FS_AddElement
<1>4. /\ results' \in Seq({"nil", "err"}) /\ Len(results') = Len(results) + 1
      /\ UNCHANGED <<got, composite, sinkClosed>>
      /\ cpc' \in [Collectors -> {"setup", "read", "send", "done"}]
  BY DEF Return, SinkInv, compositeVars
<1>5. Len(results) \in Nat /\ Cardinality(Returned) \in Nat /\ got \in Nat
  BY <1>1, FS_CardinalityType DEF SinkInv
<1> QED
  BY <1>3, <1>4, <1>5 DEF SinkInv

(* A collector that goes on leaves the set of returned ones as it is.      *)
LEMMA SinkCollector ==
  ASSUME SinkInv, NEW c \in Collectors, cpc[c] # "done",
         NEW label \in {"read", "send"}, cpc' = [cpc EXCEPT ![c] = label],
         UNCHANGED <<results, got, composite, sinkClosed>>
  PROVE  SinkInv'
<1>1. Returned' = Returned
  BY DEF Returned, SinkInv
<1>2. cpc' \in [Collectors -> {"setup", "read", "send", "done"}]
  BY DEF SinkInv
<1> QED
  BY <1>1, <1>2 DEF SinkInv

(* The sink's invariant holds at every step.                               *)
LEMMA SinkStep == SinkInv /\ [Next]_vars => SinkInv'
<1> SUFFICES ASSUME SinkInv, [Next]_vars PROVE SinkInv'
  OBVIOUS
<1>1. ASSUME NEW c \in Collectors, CollectorNext(c) PROVE SinkInv'
  <2>1. CASE SetupFails(c)
    BY <2>1, SinkReturn DEF SetupFails
  <2>2. CASE ReadFails(c)
    BY <2>2, SinkReturn DEF ReadFails
  <2>3. CASE ReadClosed(c)
    <3>1. PICK err \in {"nil", "err"} : Return(c, err)
      BY <2>3 DEF ReadClosed
    <3> QED
      BY <2>3, <3>1, SinkReturn DEF ReadClosed
  <2>4. CASE SendCancelled(c)
    BY <2>4, SinkReturn DEF SendCancelled
  <2>5. CASE Setup(c)
    BY <2>5, SinkCollector DEF Setup, compositeVars
  <2>6. CASE Read(c)
    BY <2>6, SinkCollector DEF Read, compositeVars
  <2>7. CASE Send(c)
    BY <2>7, SinkCollector DEF Send, compositeVars
  <2>8. CASE ReadIgnored(c)
    BY <2>8, SinkFrame DEF ReadIgnored, compositeVars
  <2> QED
    BY <1>1, <2>1, <2>2, <2>3, <2>4, <2>5, <2>6, <2>7, <2>8
    DEF CollectorNext, CollectorProceeds
<1>2. ASSUME NEW c \in Collectors, CloseReader(c) PROVE SinkInv'
  BY <1>2, SinkFrame DEF CloseReader, compositeVars
<1>3. CASE CompositeReceive
  <2>1. /\ got' = got + 1 /\ Len(results') + 1 = Len(results)
        /\ results' \in Seq({"nil", "err"}) /\ composite = "wait"
        /\ UNCHANGED <<cpc, composite, sinkClosed>>
    BY <1>3 DEF CompositeReceive, SinkInv
  <2>2. Returned' = Returned
    BY <2>1 DEF Returned
  <2>3. Len(results) \in Nat /\ Len(results') \in Nat /\ got \in Nat
    BY <2>1 DEF SinkInv
  <2> QED
    BY <2>1, <2>2, <2>3 DEF SinkInv
<1>4. CASE CompositeReturn
  <2>1. /\ got = Cardinality(Collectors) /\ composite = "wait"
        /\ composite' = "close"
        /\ UNCHANGED <<cpc, results, got, sinkClosed>>
    BY <1>4 DEF CompositeReturn, collectorVars
  <2> QED
    BY <2>1 DEF SinkInv, Returned
<1>5. CASE CloseSink
  <2>1. /\ composite = "close" /\ composite' = "done"
        /\ UNCHANGED <<cpc, results, got>>
    BY <1>5 DEF CloseSink, collectorVars
  <2> QED
    BY <2>1 DEF SinkInv, Returned
<1>6. CASE MainNext \/ EventWorker \/ IncidentWorker \/ Signal
  <2>1. UNCHANGED <<cpc, results, got, composite, sinkClosed>>
    BY <1>6 DEF MainNext, MainSelect, MainProceeds, MainEvent, MainSinkClosed,
       MainFlushTick, MainEventQueueError, MainIncidentQueueError, MainReport,
       MainReturn, MainStop, MainCloseIncidents, MainIncidentsClosed,
       MainCloseEvents, MainEventsClosed, EventWorker, IncidentWorker, Signal,
       collectorVars, compositeVars
  <2> QED
    BY <2>1, SinkFrame
<1>7. CASE UNCHANGED vars
  BY <1>7, SinkFrame DEF vars, collectorVars, compositeVars
<1> QED
  BY <1>1, <1>2, <1>3, <1>4, <1>5, <1>6, <1>7 DEF Next, Running, Exited

(* The composite has a result from every collector when it closes the sink.*)
LEMMA SinkSafe == SinkInv => NoSendOnClosedSink
<1> SUFFICES ASSUME SinkInv, sinkClosed PROVE Returned = Collectors
  BY DEF NoSendOnClosedSink, Returned
<1>1. Returned \in SUBSET Collectors /\ IsFiniteSet(Collectors)
  BY LiveAssumption DEF Returned, LiveAssumption
<1>2. /\ Cardinality(Returned) <= Cardinality(Collectors)
      /\ Cardinality(Collectors) = Cardinality(Returned) => Collectors = Returned
  BY <1>1, FS_Subset
<1>3. /\ Cardinality(Returned) \in Nat /\ Cardinality(Collectors) \in Nat
      /\ Len(results) \in Nat
  BY <1>1, FS_Subset, FS_CardinalityType DEF SinkInv
<1>4. got = Cardinality(Collectors) /\ got + Len(results) = Cardinality(Returned)
  BY DEF SinkInv
<1> QED
  BY <1>2, <1>3, <1>4

(* A collector sends on the sink only while it is open, whatever the       *)
(* number of collectors and the order in which they return.                *)
THEOREM NoSendOnClosedSinkCorrect == Spec => []NoSendOnClosedSink
<1>1. Init => SinkInv
  <2> SUFFICES ASSUME Init PROVE SinkInv
    OBVIOUS
  <2>1. Returned = {}
    BY DEF Init, Returned
  <2> QED
    BY <2>1, FS_EmptySet DEF Init, SinkInv
<1>2. SinkInv => NoSendOnClosedSink
  BY SinkSafe
<1> QED
  BY <1>1, <1>2, SinkStep, PTL DEF Spec

-----------------------------------------------------------------------------
(* ExitInv depends on these variables only.                                *)
LEMMA ExitFrame ==
  ExitInv /\ UNCHANGED <<composite, collectorErrors, firstError, mpc, ret,
                         iPhase, ePhase>> => ExitInv'
  BY DEF ExitInv

(* What runLive will return agrees with what failed, at every step.        *)
LEMMA ExitStep == ExitInv /\ [Next]_vars => ExitInv'
<1> SUFFICES ASSUME ExitInv, [Next]_vars PROVE ExitInv'
  OBVIOUS
<1> USE DEF ExitInv, Leaving
<1>1. ASSUME NEW c \in Collectors, CollectorNext(c) \/ CloseReader(c)
      PROVE  ExitInv'
  <2>1. UNCHANGED <<composite, collectorErrors, firstError, mpc, ret,
                    iPhase, ePhase>>
    BY <1>1 DEF CollectorNext, CollectorProceeds, CloseReader, Setup, SetupFails,
       Read, ReadIgnored, ReadFails, ReadClosed, Send, SendCancelled, Return, compositeVars,
       mainVars, queues, eventQueue, incidentQueue
  <2> QED
    BY <2>1, ExitFrame
<1>2. CASE CompositeReceive \/ CompositeReturn \/ CloseSink
  BY <1>2 DEF CompositeReceive, CompositeReturn, CloseSink, mainVars, queues,
     eventQueue, incidentQueue
<1>3. CASE EventWorker
  <2>1. /\ ePhase' # ePhase => ePhase \in {"open", "closing"}
        /\ UNCHANGED <<composite, collectorErrors, firstError, mpc, ret, iPhase>>
    BY <1>3 DEF EventWorker, EventQueue!StoreSome, EventQueue!Store,
       EventQueue!Drain, EventQueue!Fail, compositeVars, mainVars, incidentQueue
  <2> QED
    BY <2>1
<1>4. CASE IncidentWorker
  <2>1. /\ iPhase' # iPhase => iPhase \in {"open", "closing"}
        /\ UNCHANGED <<composite, collectorErrors, firstError, mpc, ret, ePhase>>
    BY <1>4 DEF IncidentWorker, IncidentQueue!Store, IncidentQueue!Drain,
       IncidentQueue!Fail, compositeVars, mainVars, eventQueue
  <2> QED
    BY <2>1
<1>5. CASE MainEvent
  BY <1>5 DEF MainEvent, Fails, Analyze, After, compositeVars
<1>6. CASE MainSinkClosed \/ MainFlushTick
  BY <1>6 DEF MainSinkClosed, MainFlushTick, Analyze, After, compositeVars
<1>7. CASE MainEventQueueError \/ MainIncidentQueueError
  BY <1>7 DEF MainEventQueueError, MainIncidentQueueError, Fails, compositeVars
<1>8. CASE MainReport
  BY <1>8 DEF MainReport, Fails, After, compositeVars
<1>9. CASE MainReturn
  BY <1>9 DEF MainReturn, Fails, queues, eventQueue, incidentQueue
<1>10. CASE MainStop
  BY <1>10 DEF MainStop, compositeVars, queues, eventQueue, incidentQueue
<1>11. CASE MainCloseIncidents
  BY <1>11 DEF MainCloseIncidents, compositeVars, eventQueue
<1>12. CASE MainIncidentsClosed
  BY <1>12 DEF MainIncidentsClosed, CloseError, Settled, compositeVars, queues,
     eventQueue, incidentQueue
<1>13. CASE MainCloseEvents
  BY <1>13 DEF MainCloseEvents, compositeVars, incidentQueue
<1>14. CASE MainEventsClosed
  BY <1>14 DEF MainEventsClosed, CloseError, Settled, compositeVars, queues,
     eventQueue, incidentQueue
<1>15. CASE Signal
  BY <1>15 DEF Signal, compositeVars, mainVars, queues, eventQueue, incidentQueue
<1>16. CASE UNCHANGED vars
  BY <1>16 DEF vars, compositeVars, mainVars, queues, eventQueue, incidentQueue
<1> QED
  BY <1>1, <1>2, <1>3, <1>4, <1>5, <1>6, <1>7, <1>8, <1>9, <1>10, <1>11, <1>12,
     <1>13, <1>14, <1>15, <1>16
  DEF Next, Running, Exited, MainNext, MainSelect, MainProceeds

(* runLive returns nil only if no collector returned an error and neither  *)
(* queue failed, in whatever order failures, signals and returns come.     *)
THEOREM FailureIsReportedCorrect == Spec => []FailureIsReported
<1>1. Init => ExitInv
  BY DEF Init, ExitInv, Leaving
<1>2. ExitInv => FailureIsReported
  BY DEF ExitInv, FailureIsReported, Leaving
<1> QED
  BY <1>1, <1>2, ExitStep, PTL DEF Spec

-----------------------------------------------------------------------------
(* What the main goroutine has left to do, where it is.  Once it has seen  *)
(* the sink closed, nothing comes after what it then drained.              *)
PlaceInv ==
  /\ mpc \in {"select", "report", "drained"} \cup Leaving
  /\ IsFiniteSet(candidates) /\ draining \in BOOLEAN
  /\ mpc = "select" => ~ draining
  /\ mpc = "drained" => draining
  /\ mpc \in {"select", "drained"} => analyses = <<>>
  /\ mpc = "report" => analyses # <<>>
  /\ draining => sinkClosed /\ sink = <<>> /\ candidates = {}
  /\ (mpc \in Leaving /\ ret = "nil") => draining /\ analyses = <<>>

(* A suspicious group is still to be written, or the queue was offered it. *)
ReportInv ==
  /\ analyses \in Seq(flagged)
  /\ iWaiting \in Seq(flagged) /\ iStored \in Seq(flagged)
  /\ flagged = ToSet(analyses) \cup ToSet(iWaiting) \cup ToSet(iStored)
                 \cup iLost

QueueInv ==
  /\ ePhase = "drained" => eWaiting = <<>>
  /\ iPhase = "drained" => iWaiting = <<>>

RunInv == SinkInv /\ ExitInv /\ PlaceInv /\ ReportInv /\ QueueInv

-----------------------------------------------------------------------------
(* The elements of a sequence                                              *)

LEMMA ToSetEmpty == ToSet(<<>>) = {}
BY DEF ToSet

LEMMA ToSetElements ==
  ASSUME NEW S, NEW s \in Seq(S)
  PROVE  /\ ToSet(s) = {s[i] : i \in 1..Len(s)} /\ ToSet(s) \subseteq S
         /\ Len(s) \in Nat
<1>1. Len(s) \in Nat /\ s \in [1..Len(s) -> S] BY LenProperties
<1> QED BY <1>1 DEF ToSet

LEMMA ToSetAppend ==
  ASSUME NEW S, NEW s \in Seq(S), NEW x \in S
  PROVE  ToSet(Append(s, x)) = ToSet(s) \cup {x}
<1>1. /\ Append(s, x) \in Seq(S) /\ Len(Append(s, x)) = Len(s) + 1
      /\ \A i \in 1..Len(s) : Append(s, x)[i] = s[i]
      /\ Append(s, x)[Len(s) + 1] = x
  BY AppendProperties
<1>2. /\ ToSet(s) = {s[i] : i \in 1..Len(s)} /\ Len(s) \in Nat
      /\ ToSet(Append(s, x)) = {Append(s, x)[i] : i \in 1..(Len(s) + 1)}
  BY <1>1, ToSetElements
<1>3. \A i : i \in 1..(Len(s) + 1) <=> i \in 1..Len(s) \/ i = Len(s) + 1
  BY <1>2
<1> QED BY <1>1, <1>2, <1>3

(* Taking the first element of a sequence, in either form the model has.   *)
LEMMA ToSetTail ==
  ASSUME NEW S, NEW s \in Seq(S), s # <<>>
  PROVE  /\ Head(s) \in S /\ Tail(s) \in Seq(S)
         /\ ToSet(s) = {Head(s)} \cup ToSet(Tail(s))
         /\ SubSeq(s, 2, Len(s)) = Tail(s)
         /\ SubSeq(s, 1, 1) = <<Head(s)>>
<1>1. /\ Head(s) \in S /\ Tail(s) \in Seq(S) /\ Len(Tail(s)) = Len(s) - 1
      /\ \A i \in 1..Len(Tail(s)) : Tail(s)[i] = s[i + 1]
  BY HeadTailProperties
<1>2. Len(s) \in Nat \ {0} /\ Head(s) = s[1] BY EmptySeq
<1>3. /\ ToSet(s) = {s[i] : i \in 1..Len(s)}
      /\ ToSet(Tail(s)) = {Tail(s)[i] : i \in 1..(Len(s) - 1)}
  BY <1>1, ToSetElements
<1>4. /\ \A i \in 1..Len(s) :
           i = 1 \/ (i - 1 \in 1..(Len(s) - 1) /\ i - 1 + 1 = i)
      /\ \A i \in 1..(Len(s) - 1) : i + 1 \in 1..Len(s)
      /\ 1 \in 1..Len(s)
  BY <1>2
<1>5. ToSet(s) = {Head(s)} \cup ToSet(Tail(s))
  <2>1. ToSet(s) \subseteq {Head(s)} \cup ToSet(Tail(s))
    <3> SUFFICES ASSUME NEW i \in 1..Len(s)
                 PROVE  s[i] \in {Head(s)} \cup ToSet(Tail(s))
      BY <1>3
    <3>1. CASE i = 1 BY <1>2, <3>1
    <3>2. CASE i - 1 \in 1..(Len(s) - 1) /\ i - 1 + 1 = i
      <4>1. Tail(s)[i - 1] = s[i] BY <1>1, <3>2
      <4> QED BY <1>3, <3>2, <4>1
    <3> QED BY <1>4, <3>1, <3>2
  <2>2. ToSet(Tail(s)) \subseteq ToSet(s) BY <1>1, <1>3, <1>4
  <2>3. Head(s) \in ToSet(s) BY <1>2, <1>3, <1>4
  <2> QED BY <2>1, <2>2, <2>3
<1>6. SubSeq(s, 2, Len(s)) = Tail(s) BY TailIsSubSeq
<1>7. SubSeq(s, 1, 1) = <<Head(s)>>
  <2>1. \A i \in 1..1 : s[i] \in S BY <1>1, <1>2
  <2>2. /\ SubSeq(s, 1, 1) \in Seq(S)
        /\ Len(SubSeq(s, 1, 1)) = IF 1 <= 1 THEN 1 - 1 + 1 ELSE 0
        /\ \A i \in 1..(1 - 1 + 1) : SubSeq(s, 1, 1)[i] = s[1 + i - 1]
    BY <2>1, SubSeqProperties
  <2>3. Len(SubSeq(s, 1, 1)) = 1 /\ SubSeq(s, 1, 1)[1] = s[1] BY <2>2
  <2>4. /\ <<Head(s)>> \in Seq(S) /\ Len(<<Head(s)>>) = 1
        /\ <<Head(s)>>[1] = Head(s)
    BY <1>1
  <2>5. \A i \in 1..1 : SubSeq(s, 1, 1)[i] = <<Head(s)>>[i]
    BY <1>2, <2>3, <2>4
  <2> QED BY <2>2, <2>3, <2>4, <2>5, SeqEqual
<1> QED BY <1>1, <1>5, <1>6, <1>7

(* SetToSeq lists a finite set.                                            *)
LEMMA SetToSeqElements ==
  ASSUME NEW S, IsFiniteSet(S)
  PROVE  SetToSeq(S) \in Seq(S) /\ ToSet(SetToSeq(S)) = S
<1> DEFINE n == Cardinality(S)
           s == SetToSeq(S)
<1>1. n \in Nat /\ ExistsBijection(1..n, S) BY FS_CardinalityType
<1>2. PICK f : f \in Bijection(1..n, S) BY <1>1, Fun_ExistsBij
<1>3. f \in [1..n -> S] /\ IsInjective(f)
  <2>1. f \in [1..n -> S] /\ \A a, b \in 1..n : f[a] = f[b] => a = b
    BY <1>2, Fun_BijectionProperties
  <2>2. DOMAIN f = 1..n BY <2>1
  <2> QED BY <2>1, <2>2 DEF IsInjective
<1>4. s \in [1..n -> S] /\ IsInjective(s) BY <1>3 DEF SetToSeq
<1> HIDE DEF s
<1>5. s \in Injection(1..n, S) BY <1>4, Fun_IsInj DEF IsInjective
<1>6. Cardinality(1..n) = Cardinality(S) BY <1>1, FS_Interval
<1>7. s \in Surjection(1..n, S) BY <1>5, <1>6, FS_Injection
<1>8. \A x \in S : \E i \in 1..n : s[i] = x
  BY <1>7 DEF Surjection
<1>9. s \in Seq(S) BY <1>1, <1>4
<1>10. ToSet(s) = S BY <1>4, <1>8 DEF ToSet
<1> QED BY <1>9, <1>10 DEF s

-----------------------------------------------------------------------------
(* The parts of the invariant that one kind of steps leaves alone          *)

LEMMA PlaceFrame ==
  ASSUME PlaceInv, ~ sinkClosed \/ sink' = sink, sinkClosed => sinkClosed',
         UNCHANGED <<mpc, candidates, draining, analyses, ret>>
  PROVE  PlaceInv'
BY DEF PlaceInv

LEMMA ReportFrame ==
  ASSUME ReportInv, UNCHANGED <<analyses, flagged, iWaiting, iStored, iLost>>
  PROVE  ReportInv'
BY DEF ReportInv

LEMMA QueueFrame ==
  ASSUME QueueInv, UNCHANGED <<ePhase, eWaiting, iPhase, iWaiting>>
  PROVE  QueueInv'
BY DEF QueueInv

(* Everything but the main goroutine and the queues' workers.              *)
LEMMA OutsideStep ==
  ASSUME SinkInv, PlaceInv, ReportInv, QueueInv,
         \/ Signal \/ CompositeReceive \/ CompositeReturn \/ CloseSink
         \/ \E c \in Collectors : CollectorNext(c) \/ CloseReader(c)
         \/ UNCHANGED vars
  PROVE  PlaceInv' /\ ReportInv' /\ QueueInv'
<1>1. UNCHANGED <<mainVars, queues>>
  BY DEF Signal, CompositeReceive, CompositeReturn, CloseSink, CollectorNext,
     CollectorProceeds, CloseReader, Setup, SetupFails, Read, ReadIgnored,
     ReadFails, ReadClosed, Send, SendCancelled, Return, vars
<1>2. UNCHANGED <<mpc, candidates, draining, analyses, ret, flagged, iWaiting,
                  iStored, iLost, iPhase, ePhase, eWaiting>>
  BY <1>1 DEF mainVars, queues, eventQueue, incidentQueue
<1>3. sinkClosed => sinkClosed'
  BY DEF Signal, CompositeReceive, CompositeReturn, CloseSink, CollectorNext,
     CollectorProceeds, CloseReader, Setup, SetupFails, Read, ReadIgnored,
     ReadFails, ReadClosed, Send, SendCancelled, Return, vars, compositeVars
<1>4. ~ sinkClosed \/ sink' = sink
  <2>1. ASSUME NEW c \in Collectors, Send(c) PROVE ~ sinkClosed
    BY <2>1, SinkSafe DEF Send, NoSendOnClosedSink
  <2>2. (\E c \in Collectors : Send(c)) \/ sink' = sink
    BY DEF Signal, CompositeReceive, CompositeReturn, CloseSink, CollectorNext,
       CollectorProceeds, CloseReader, Setup, SetupFails, Read, ReadIgnored,
       ReadFails, ReadClosed, SendCancelled, Return, vars
  <2> QED BY <2>1, <2>2
<1> QED BY <1>2, <1>3, <1>4, PlaceFrame, ReportFrame, QueueFrame

LEMMA EventWorkerStep ==
  ASSUME PlaceInv, ReportInv, QueueInv, EventWorker
  PROVE  PlaceInv' /\ ReportInv' /\ QueueInv'
<1>1. UNCHANGED <<compositeVars, sink, mainVars, incidentQueue>>
  BY DEF EventWorker
<1>2. UNCHANGED <<mpc, candidates, draining, analyses, ret, flagged, iWaiting,
                  iStored, iLost, iPhase, sink, sinkClosed>>
  BY <1>1 DEF mainVars, incidentQueue, compositeVars
<1>3. \/ ePhase \in {"open", "closing"} /\ ePhase' = ePhase
      \/ ePhase' = "drained" /\ eWaiting' = <<>>
      \/ ePhase' = "failed"
  BY DEF EventWorker, EventQueue!StoreSome, EventQueue!Store, EventQueue!Drain,
     EventQueue!Fail
<1>4. QueueInv' BY <1>2, <1>3 DEF QueueInv
<1> QED BY <1>2, <1>4, PlaceFrame, ReportFrame

(* Storing, losing or draining incidents forgets none.                     *)
LEMMA IncidentWorkerStep ==
  ASSUME PlaceInv, ReportInv, QueueInv, IncidentWorker
  PROVE  PlaceInv' /\ ReportInv' /\ QueueInv'
<1>1. UNCHANGED <<compositeVars, sink, mainVars, eventQueue>>
  BY DEF IncidentWorker
<1>2. UNCHANGED <<mpc, candidates, draining, analyses, ret, flagged, ePhase,
                  eWaiting, sink, sinkClosed>>
  BY <1>1 DEF mainVars, eventQueue, compositeVars
<1>3. PlaceInv' BY <1>2, PlaceFrame
<1>4. /\ analyses \in Seq(flagged)
      /\ iWaiting \in Seq(flagged) /\ iStored \in Seq(flagged)
      /\ flagged = ToSet(analyses) \cup ToSet(iWaiting) \cup ToSet(iStored)
                     \cup iLost
  BY DEF ReportInv
<1>5. ASSUME NEW n \in {1} \cap (1..Len(iWaiting)), IncidentQueue!Store(n)
      PROVE  ReportInv' /\ QueueInv'
  <2>1. iWaiting # <<>> /\ n = 1 BY <1>4, <1>5, EmptySeq
  <2>2. /\ iPhase \in {"open", "closing"} /\ iPhase' = iPhase /\ iLost' = iLost
        /\ iStored' = iStored \o SubSeq(iWaiting, 1, 1)
        /\ iWaiting' = SubSeq(iWaiting, 2, Len(iWaiting))
    <3>1. 1 + 1 = 2 OBVIOUS
    <3> QED BY <1>5, <2>1, <3>1 DEF IncidentQueue!Store
  <2>3. /\ Head(iWaiting) \in flagged /\ Tail(iWaiting) \in Seq(flagged)
        /\ ToSet(iWaiting) = {Head(iWaiting)} \cup ToSet(Tail(iWaiting))
        /\ SubSeq(iWaiting, 2, Len(iWaiting)) = Tail(iWaiting)
        /\ SubSeq(iWaiting, 1, 1) = <<Head(iWaiting)>>
    BY <1>4, <2>1, ToSetTail
  <2>4. iStored \o <<Head(iWaiting)>> = Append(iStored, Head(iWaiting))
    BY <1>4, <2>3, AppendIsConcat
  <2>5. /\ iStored' = Append(iStored, Head(iWaiting))
        /\ iWaiting' = Tail(iWaiting)
    BY <2>2, <2>3, <2>4
  <2>6. /\ iStored' \in Seq(flagged) /\ iWaiting' \in Seq(flagged)
        /\ ToSet(iStored') = ToSet(iStored) \cup {Head(iWaiting)}
    BY <1>4, <2>3, <2>5, AppendProperties, ToSetAppend
  <2>7. flagged = ToSet(analyses) \cup ToSet(iWaiting') \cup ToSet(iStored')
                    \cup iLost
    BY <1>4, <2>3, <2>5, <2>6
  <2>8. ReportInv' BY <1>2, <1>4, <2>2, <2>6, <2>7 DEF ReportInv
  <2> QED BY <1>2, <2>2, <2>8 DEF QueueInv
<1>6. CASE IncidentQueue!Drain
  <2>1. /\ UNCHANGED <<iWaiting, iStored, iLost>> /\ iWaiting = <<>>
        /\ iPhase' = "drained"
    BY <1>6 DEF IncidentQueue!Drain
  <2>2. ReportInv' BY <1>2, <2>1, ReportFrame
  <2>3. iWaiting' = <<>> BY <2>1
  <2>4. QueueInv' BY <1>2, <2>3 DEF QueueInv
  <2> QED BY <1>3, <2>2, <2>4
<1>7. CASE IncidentQueue!Fail
  <2>1. /\ iLost' = iLost \cup IncidentQueue!Range(iWaiting)
        /\ iWaiting' = <<>>
        /\ iStored' = iStored /\ iPhase' = "failed"
    BY <1>7 DEF IncidentQueue!Fail
  <2>2. IncidentQueue!Range(iWaiting) = ToSet(iWaiting) BY DEF IncidentQueue!Range, ToSet
  <2>3. iWaiting' \in Seq(flagged) /\ ToSet(iWaiting') = {}
    BY <2>1, ToSetEmpty, EmptySeq
  <2>4. flagged = ToSet(analyses) \cup ToSet(iWaiting') \cup ToSet(iStored')
                    \cup iLost'
    BY <1>4, <2>1, <2>2, <2>3
  <2>5. ReportInv' BY <1>2, <1>4, <2>1, <2>3, <2>4 DEF ReportInv
  <2>6. iWaiting' = <<>> BY <2>1
  <2>7. QueueInv' BY <1>2, <2>6 DEF QueueInv
  <2> QED BY <1>3, <2>5, <2>7
<1> QED BY <1>3, <1>5, <1>6, <1>7 DEF IncidentWorker

-----------------------------------------------------------------------------
(* The main goroutine                                                      *)

(* processor.analyze lists exactly the suspicious groups.                  *)
LEMMA AnalyzeStep ==
  ASSUME PlaceInv, ReportInv, mpc = "select", NEW groups, IsFiniteSet(groups),
         Analyze(groups), UNCHANGED <<iWaiting, iStored, iLost>>
  PROVE  /\ ReportInv' /\ ret' = ret
         /\ mpc' = IF analyses' # <<>> THEN "report"
                   ELSE IF draining' THEN "drained" ELSE "select"
<1>1. PICK suspicious \in SUBSET groups :
        /\ analyses' = SetToSeq(suspicious)
        /\ flagged' = flagged \union suspicious
        /\ mpc' = After(analyses') /\ ret' = ret
  BY DEF Analyze
<1>2. IsFiniteSet(suspicious) BY <1>1, FS_Subset
<1>3. analyses' \in Seq(suspicious) /\ ToSet(analyses') = suspicious
  BY <1>1, <1>2, SetToSeqElements
<1>4. /\ iWaiting \in Seq(flagged) /\ iStored \in Seq(flagged)
      /\ flagged = ToSet(analyses) \cup ToSet(iWaiting) \cup ToSet(iStored)
                     \cup iLost
      /\ ToSet(analyses) = {}
  BY ToSetEmpty DEF ReportInv, PlaceInv
<1>5. suspicious \subseteq flagged' /\ flagged \subseteq flagged' BY <1>1
<1>6. /\ analyses' \in Seq(flagged')
      /\ iWaiting' \in Seq(flagged') /\ iStored' \in Seq(flagged')
  BY <1>3, <1>4, <1>5, SeqMonotonic
<1>7. flagged' = ToSet(analyses') \cup ToSet(iWaiting') \cup ToSet(iStored')
                   \cup iLost'
  BY <1>1, <1>3, <1>4
<1>8. ReportInv' BY <1>6, <1>7 DEF ReportInv
<1> QED BY <1>1, <1>8 DEF After

(* Where a handler that analyzed groups and did not drain goes.            *)
LEMMA AnalyzePlace ==
  ASSUME PlaceInv, mpc = "select", IsFiniteSet(candidates'), draining' = draining,
         ret' = ret,
         mpc' = IF analyses' # <<>> THEN "report"
                ELSE IF draining' THEN "drained" ELSE "select"
  PROVE  PlaceInv'
BY DEF PlaceInv, Leaving

(* A handler of the select that fails.                                     *)
LEMMA FailsPlace ==
  ASSUME PlaceInv, Fails("err"), UNCHANGED <<candidates, draining, analyses>>,
         ~ draining
  PROVE  PlaceInv'
BY DEF PlaceInv, Leaving, Fails

(* The correlator's candidates after an event are finitely many.           *)
LEMMA PlacedFinite ==
  ASSUME IsFiniteSet(candidates), NEW e, NEW before \in Correlator!Placed(e)
  PROVE  IsFiniteSet(before)
<1>1. CASE before = candidates \cup {{e}} BY <1>1, FS_AddElement
<1>2. ASSUME NEW c \in candidates, before = (candidates \ {c}) \cup {c \cup {e}}
      PROVE  IsFiniteSet(before)
  <2>1. IsFiniteSet(candidates \ {c}) BY FS_RemoveElement
  <2> QED BY <1>2, <2>1, FS_AddElement
<1> QED BY <1>1, <1>2 DEF Correlator!Placed

LEMMA MainEventStep ==
  ASSUME PlaceInv, ReportInv, QueueInv, MainEvent
  PROVE  PlaceInv' /\ ReportInv' /\ QueueInv'
<1>1. /\ mpc = "select" /\ draining' = draining
      /\ EventQueue!Accept(Head(sink)) \/ EventQueue!Refuse(Head(sink))
      /\ UNCHANGED <<iWaiting, iStored, iLost, iPhase, sinkClosed>>
  BY DEF MainEvent, incidentQueue, compositeVars
<1>2. QueueInv'
  <2>1. ePhase' = ePhase /\ (ePhase = "open" \/ eWaiting' = eWaiting)
    BY <1>1 DEF EventQueue!Accept, EventQueue!Refuse
  <2> QED BY <1>1, <2>1 DEF QueueInv
<1>3. IsFiniteSet(candidates) /\ ~ draining BY <1>1 DEF PlaceInv
<1>4. ASSUME NEW before \in Correlator!Placed(Head(sink)),
             NEW groups \in SUBSET before,
             Correlator!Add(Head(sink), before, groups), Analyze(groups)
      PROVE  PlaceInv' /\ ReportInv'
  <2>1. IsFiniteSet(before) BY <1>3, PlacedFinite
  <2>2. IsFiniteSet(groups) BY <2>1, FS_Subset
  <2>3. candidates' = before \ groups
    BY <1>4 DEF Correlator!Add, Correlator!Return
  <2>4. IsFiniteSet(candidates') BY <2>1, <2>3, FS_Difference
  <2>5. /\ ReportInv' /\ ret' = ret
        /\ mpc' = IF analyses' # <<>> THEN "report"
                  ELSE IF draining' THEN "drained" ELSE "select"
    BY <1>1, <1>4, <2>2, AnalyzeStep
  <2> QED BY <1>1, <2>4, <2>5, AnalyzePlace
<1>5. ASSUME Fails("err"), UNCHANGED <<candidates, analyses, flagged>>
      PROVE  PlaceInv' /\ ReportInv'
  BY <1>1, <1>3, <1>5, FailsPlace, ReportFrame
<1> QED BY <1>2, <1>4, <1>5 DEF MainEvent

(* Draining leaves no candidate; flushing leaves some.                     *)
LEMMA MainFlushStep ==
  ASSUME PlaceInv, ReportInv, QueueInv, MainFlushTick \/ MainSinkClosed
  PROVE  PlaceInv' /\ ReportInv' /\ QueueInv'
<1>1. /\ mpc = "select"
      /\ UNCHANGED <<iWaiting, iStored, iLost, iPhase, eWaiting, ePhase, sink,
                     sinkClosed>>
  BY DEF MainFlushTick, MainSinkClosed, queues, eventQueue, incidentQueue,
         compositeVars
<1>2. QueueInv' BY <1>1, QueueFrame
<1>3. IsFiniteSet(candidates) /\ ~ draining BY <1>1 DEF PlaceInv
<1>4. ASSUME MainFlushTick PROVE PlaceInv' /\ ReportInv'
  <2>1. PICK groups \in SUBSET candidates :
          Correlator!Flush(groups) /\ Analyze(groups)
    BY <1>4 DEF MainFlushTick
  <2>2. IsFiniteSet(groups) BY <1>3, FS_Subset
  <2>3. candidates' = candidates \ groups /\ draining' = draining
    BY <1>4, <2>1 DEF MainFlushTick, Correlator!Flush, Correlator!Return
  <2>4. IsFiniteSet(candidates') BY <1>3, <2>3, FS_Difference
  <2>5. /\ ReportInv' /\ ret' = ret
        /\ mpc' = IF analyses' # <<>> THEN "report"
                  ELSE IF draining' THEN "drained" ELSE "select"
    BY <1>1, <2>1, <2>2, AnalyzeStep
  <2> QED BY <1>1, <2>3, <2>4, <2>5, AnalyzePlace
<1>5. ASSUME MainSinkClosed PROVE PlaceInv' /\ ReportInv'
  <2>1. /\ sink = <<>> /\ sinkClosed /\ draining' = TRUE
        /\ Correlator!Drain(candidates) /\ Analyze(candidates)
    BY <1>5 DEF MainSinkClosed
  <2>2. candidates' = {} BY <2>1 DEF Correlator!Drain, Correlator!Return
  <2>3. /\ ReportInv' /\ ret' = ret
        /\ mpc' = IF analyses' # <<>> THEN "report"
                  ELSE IF draining' THEN "drained" ELSE "select"
    BY <1>1, <1>3, <2>1, AnalyzeStep
  <2>4. IsFiniteSet(candidates') BY <2>2, FS_EmptySet
  <2>5. mpc' \in {"report", "drained"} BY <2>1, <2>3
  <2>6. PlaceInv' BY <1>1, <2>1, <2>2, <2>3, <2>4, <2>5 DEF PlaceInv, Leaving
  <2> QED BY <2>3, <2>6
<1> QED BY <1>2, <1>4, <1>5

(* writeAnalyses offers the first incident; if it then fails, the run ends *)
(* with an error.                                                          *)
LEMMA MainReportStep ==
  ASSUME PlaceInv, ReportInv, QueueInv, MainReport
  PROVE  PlaceInv' /\ ReportInv' /\ QueueInv'
<1>1. /\ mpc = "report" /\ draining' = draining
      /\ \/ IncidentQueue!Accept(Head(analyses))
         \/ IncidentQueue!Refuse(Head(analyses))
      /\ \/ /\ analyses' = Tail(analyses) /\ mpc' = After(analyses')
            /\ ret' = ret
         \/ Fails("err") /\ analyses' = analyses
      /\ UNCHANGED <<ePhase, eWaiting, sink, sinkClosed, candidates, flagged>>
  BY DEF MainReport, eventQueue, compositeVars
<1>2. analyses # <<>> BY <1>1 DEF PlaceInv
<1>3. /\ analyses \in Seq(flagged)
      /\ iWaiting \in Seq(flagged) /\ iStored \in Seq(flagged)
      /\ flagged = ToSet(analyses) \cup ToSet(iWaiting) \cup ToSet(iStored)
                     \cup iLost
  BY DEF ReportInv
<1>4. /\ Head(analyses) \in flagged /\ Tail(analyses) \in Seq(flagged)
      /\ ToSet(analyses) = {Head(analyses)} \cup ToSet(Tail(analyses))
  BY <1>2, <1>3, ToSetTail
<1>5. /\ iStored' = iStored /\ iPhase' = iPhase
      /\ iPhase = "open" \/ iWaiting' = iWaiting
      /\ \/ iWaiting' = Append(iWaiting, Head(analyses)) /\ iLost' = iLost
         \/ iWaiting' = iWaiting /\ iLost' = iLost \cup {Head(analyses)}
  BY <1>1 DEF IncidentQueue!Accept, IncidentQueue!Refuse
<1>6. /\ iWaiting' \in Seq(flagged)
      /\ ToSet(iWaiting') \cup iLost'
           = ToSet(iWaiting) \cup iLost \cup {Head(analyses)}
  <2>1. CASE iWaiting' = Append(iWaiting, Head(analyses)) /\ iLost' = iLost
    BY <1>3, <1>4, <2>1, AppendProperties, ToSetAppend
  <2>2. CASE iWaiting' = iWaiting /\ iLost' = iLost \cup {Head(analyses)}
    BY <1>3, <2>2
  <2> QED BY <1>5, <2>1, <2>2
<1>7. QueueInv' BY <1>1, <1>5 DEF QueueInv
<1>8. analyses' \in {analyses, Tail(analyses)} BY <1>1
<1>9. ReportInv'
  <2>1. analyses' \in Seq(flagged) BY <1>3, <1>4, <1>8
  <2>2. flagged = ToSet(analyses') \cup ToSet(iWaiting') \cup ToSet(iStored')
                    \cup iLost'
    BY <1>3, <1>4, <1>5, <1>6, <1>8
  <2> QED BY <1>1, <1>3, <1>5, <1>6, <2>1, <2>2 DEF ReportInv
<1>10. PlaceInv'
  <2>1. CASE analyses' = Tail(analyses) /\ mpc' = After(analyses') /\ ret' = ret
    <3>1. mpc' = IF analyses' # <<>> THEN "report"
                 ELSE IF draining' THEN "drained" ELSE "select"
      BY <2>1 DEF After
    <3> QED BY <1>1, <3>1 DEF PlaceInv, Leaving
  <2>2. CASE Fails("err") /\ analyses' = analyses
    BY <1>1, <2>2 DEF PlaceInv, Leaving, Fails
  <2> QED BY <1>1, <2>1, <2>2
<1> QED BY <1>7, <1>9, <1>10

(* The way out.                                                            *)
LEMMA MainLeaveStep ==
  ASSUME PlaceInv, ReportInv, QueueInv,
         \/ MainEventQueueError \/ MainIncidentQueueError \/ MainReturn
         \/ MainStop \/ MainCloseIncidents \/ MainIncidentsClosed
         \/ MainCloseEvents \/ MainEventsClosed
  PROVE  PlaceInv' /\ ReportInv' /\ QueueInv'
<1> USE DEF queues, eventQueue, incidentQueue, compositeVars, Fails, Leaving
<1>1. /\ UNCHANGED <<candidates, draining, analyses, flagged, sink, sinkClosed,
                     iWaiting, iStored, iLost, eWaiting>>
      /\ ePhase' = "drained" => ePhase = "drained"
      /\ iPhase' = "drained" => iPhase = "drained"
  BY DEF MainEventQueueError, MainIncidentQueueError, MainReturn, MainStop,
     MainCloseIncidents, MainIncidentsClosed, MainCloseEvents,
     MainEventsClosed, Shut
<1>2. QueueInv' /\ ReportInv' BY <1>1, ReportFrame DEF QueueInv
<1>3. CASE MainEventQueueError \/ MainIncidentQueueError
  <2>1. mpc = "select" /\ mpc' = "return" /\ ret' = "err"
    BY <1>3 DEF MainEventQueueError, MainIncidentQueueError
  <2> QED BY <1>1, <1>2, <2>1 DEF PlaceInv
<1>4. CASE MainReturn
  <2>1. mpc = "drained" /\ mpc' = "return" BY <1>4 DEF MainReturn
  <2> QED BY <1>1, <1>2, <2>1 DEF PlaceInv
<1>5. CASE MainStop \/ MainCloseIncidents \/ MainIncidentsClosed
           \/ MainCloseEvents \/ MainEventsClosed
  <2>1. /\ mpc \in Leaving /\ mpc' \in Leaving
        /\ ret' = "nil" => ret = "nil"
    BY <1>5 DEF MainStop, MainCloseIncidents, MainIncidentsClosed,
       MainCloseEvents, MainEventsClosed, CloseError
  <2> QED BY <1>1, <1>2, <2>1 DEF PlaceInv
<1> QED BY <1>3, <1>4, <1>5

(* A run that exits without an error has taken every event out of the      *)
(* sink, analysed every candidate, offered every suspicious group to the   *)
(* incident queue, and both queues have stored all they accepted.          *)
THEOREM CleanExitIsCompleteCorrect == Spec => []CleanExitIsComplete
<1>1. Init => RunInv
  <2> SUFFICES ASSUME Init PROVE RunInv OBVIOUS
  <2>1. SinkInv
    <3>1. Returned = {} BY DEF Init, Returned
    <3> QED BY <3>1, FS_EmptySet DEF Init, SinkInv
  <2>2. ExitInv BY DEF Init, ExitInv, Leaving
  <2>3. PlaceInv BY FS_EmptySet DEF Init, PlaceInv, Leaving
  <2>4. ReportInv
    <3>1. /\ analyses = <<>> /\ iWaiting = <<>> /\ iStored = <<>>
          /\ iLost = {} /\ flagged = {}
      BY DEF Init, IncidentQueue!Init
    <3>2. <<>> \in Seq(flagged) BY EmptySeq
    <3> QED BY <3>1, <3>2, ToSetEmpty DEF ReportInv
  <2>5. QueueInv BY DEF Init, QueueInv, IncidentQueue!Init, EventQueue!Init
  <2> QED BY <2>1, <2>2, <2>3, <2>4, <2>5 DEF RunInv
<1>2. RunInv /\ [Next]_vars => RunInv'
  <2> SUFFICES ASSUME RunInv, [Next]_vars PROVE RunInv' OBVIOUS
  <2>1. SinkInv /\ ExitInv /\ PlaceInv /\ ReportInv /\ QueueInv BY DEF RunInv
  <2>2. SinkInv' /\ ExitInv' BY <2>1, SinkStep, ExitStep
  <2>3. PlaceInv' /\ ReportInv' /\ QueueInv'
    <3>1. CASE \/ Signal \/ CompositeReceive \/ CompositeReturn \/ CloseSink
               \/ \E c \in Collectors : CollectorNext(c) \/ CloseReader(c)
               \/ UNCHANGED vars
      BY <2>1, <3>1, OutsideStep
    <3>2. CASE EventWorker BY <2>1, <3>2, EventWorkerStep
    <3>3. CASE IncidentWorker BY <2>1, <3>3, IncidentWorkerStep
    <3>4. CASE MainEvent BY <2>1, <3>4, MainEventStep
    <3>5. CASE MainFlushTick \/ MainSinkClosed BY <2>1, <3>5, MainFlushStep
    <3>6. CASE MainReport BY <2>1, <3>6, MainReportStep
    <3>7. CASE \/ MainEventQueueError \/ MainIncidentQueueError \/ MainReturn
               \/ MainStop \/ MainCloseIncidents \/ MainIncidentsClosed
               \/ MainCloseEvents \/ MainEventsClosed
      BY <2>1, <3>7, MainLeaveStep
    <3> QED BY <3>1, <3>2, <3>3, <3>4, <3>5, <3>6, <3>7
            DEF Next, Running, Exited, MainNext, MainSelect, MainProceeds
  <2> QED BY <2>2, <2>3 DEF RunInv
<1>3. RunInv => CleanExitIsComplete
  <2> SUFFICES ASSUME RunInv, mpc = "exit", ret = "nil"
               PROVE  /\ sinkClosed /\ sink = <<>> /\ candidates = {}
                      /\ flagged = ToSet(iStored) \union iLost
                      /\ eWaiting = <<>> /\ iWaiting = <<>>
    BY DEF CleanExitIsComplete
  <2>1. ePhase = "drained" /\ iPhase = "drained" BY DEF RunInv, ExitInv
  <2>2. eWaiting = <<>> /\ iWaiting = <<>> BY <2>1 DEF RunInv, QueueInv
  <2>3. draining /\ analyses = <<>> BY DEF RunInv, PlaceInv, Leaving
  <2>4. sinkClosed /\ sink = <<>> /\ candidates = {}
    BY <2>3 DEF RunInv, PlaceInv
  <2>5. flagged = ToSet(iStored) \union iLost
    BY <2>2, <2>3, ToSetEmpty DEF RunInv, ReportInv
  <2> QED BY <2>2, <2>4, <2>5
<1> QED BY <1>1, <1>2, <1>3, PTL DEF Spec
=============================================================================
