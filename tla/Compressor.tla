------------------------------ MODULE Compressor ------------------------------
(***************************************************************************)
(* Processor.analyze for one candidate: the detector's loop (Detector),    *)
(* then compress/compressor.go, which turns events and signals into an     *)
(* incident, and the count of incidents.                                   *)
(*                                                                         *)
(* A timeline entry is the event it narrates, whether as a failure, and    *)
(* how many events it stands for; its wording is left out.  The summary is *)
(* the sentence about a downloaded program, or the counts.                 *)
(***************************************************************************)
EXTENDS Detector

CONSTANT NoIncident

VARIABLES analyzed, incident

vars == <<detectorVars, analyzed, incident>>

CompressorInit == Init /\ analyzed = FALSE /\ incident = NoIncident

(* fileWriteChanged events with the same fileWriteKey.                     *)
SameWrite(i, j) ==
  /\ ordered[i].type = "file_write" /\ ordered[j].type = "file_write"
  /\ fileWriteChanged(ordered[i]) /\ fileWriteChanged(ordered[j])
  /\ ordered[i].pid = ordered[j].pid /\ ordered[i].path = ordered[j].path

(* Mutant: repetitions are found by path alone.                            *)
NarratedByPath(i) ==
  ~\E j \in 1..(i - 1) :
     /\ SameWrite(j, j) /\ SameWrite(i, i) /\ ordered[i].path = ordered[j].path

(* emittedWrites: only the first of repeated writes gets an entry.         *)
Narrated(i) == ~\E j \in 1..(i - 1) : SameWrite(j, i)

NarratesFailure(e) ==
  /\ e.type \in {"chmod", "file_write", "connect", "sensitive_read",
                 "file_lifecycle"}
  /\ e.outcome = "failed"

(* writeCounts: how many events the entry of the i-th tells of.            *)
Times(i) ==
  IF SameWrite(i, i) THEN Cardinality({j \in Places : SameWrite(i, j)}) ELSE 1

Entry(i) == [event |-> i, failed |-> NarratesFailure(ordered[i]), times |-> Times(i)]

timeline ==
  LET told[n \in 0..Len(ordered)] ==
        IF n = 0 THEN <<>>
        ELSE IF Narrated(n) THEN Append(told[n - 1], Entry(n)) ELSE told[n - 1]
  IN told[Len(ordered)]

summarize ==
  LET required == {"web_process_spawned_shell", "shell_downloaded_file",
                   "tmp_file_made_executable",
                   "recently_downloaded_binary_executed",
                   "downloaded_binary_connected_outbound"}
  IN IF required \subseteq {signals[n].rule : n \in DOMAIN signals}
       THEN "chain" ELSE "counts"

Compress == [incidentID |-> 1, riskScore |-> score, timeline |-> timeline,
             summary |-> summarize]

(* Processor.analyze after the loop: a candidate without signals is        *)
(* dropped.  (Compress fails for no events only, and those have none.)     *)
Finish ==
  /\ ~analyzed /\ analyzed' = TRUE
  /\ incident' = IF signals = <<>> THEN NoIncident ELSE Compress
  /\ UNCHANGED detectorVars

Event(e) == ~analyzed /\ Analyze(e) /\ UNCHANGED <<analyzed, incident>>

Next == Finish \/ \E e \in Kinds : Event(e)

Spec == CompressorInit /\ [][Next]_vars

-----------------------------------------------------------------------------
(* Folding repeated writes loses nothing: each event is narrated once, by  *)
(* its own entry or counted in that of the first write.                    *)
TimelineComplete ==
  incident # NoIncident =>
    Len(ordered) = Total([n \in DOMAIN incident.timeline |->
                            incident.timeline[n].times])
=============================================================================
