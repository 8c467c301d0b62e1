---------------------------- MODULE EvidenceStore ----------------------------
(***************************************************************************)
(* What the store of internal/store promises its callers: every call takes *)
(* effect at once and whole, or not at all.  The tables are a set of event *)
(* rows, the incident rows, the evidence links of each incident and the    *)
(* LLM reports.  Store.tla shows the statement-by-statement transactions   *)
(* to implement this.                                                      *)
(***************************************************************************)
EXTENDS Integers, Sequences, Functions

CONSTANTS
  Events,      (* event ids                                                *)
  Ids,         (* incident ids                                             *)
  Redacted,    (* what redact.RedactString makes of an incident id         *)
  Calls,       (* the calls callers may make                               *)
  Answers,     (* the replies of the model that are complete               *)
  RedactedReport(_)  (* the report stored for a reply                      *)

NoRow == [status |-> "none"]
NoReport == [at |-> 0]

VARIABLES
  db,          (* the committed tables                                     *)
  commits      (* history: how many calls have taken effect                *)

vars == <<db, commits>>

EmptyTables ==
  [events |-> {}, incidents |-> [i \in Ids |-> NoRow],
   links |-> [i \in Ids |-> {}], reports |-> [i \in Ids |-> NoReport]]

(* The incident row of a record, and the incident's place in the table.    *)
PendingRow(rec) == [status |-> "pending", record |-> rec, at |-> commits + 1]

Stored(id) == db.incidents[id] # NoRow

Distinct(s) == \A m, n \in DOMAIN s : s[m] = s[n] => m = n

Init == db = EmptyTables /\ commits = 0

SaveEvents(evs) == db' = [db EXCEPT !.events = @ \union Range(evs)]

SaveIncident(rec) ==
  db' = [db EXCEPT !.incidents[Redacted[rec.id]] = PendingRow(rec)]

LinkIncidentEvents(id, evs) ==
  /\ evs # <<>> => Stored(id)
  /\ Range(evs) \subseteq db.events
  /\ Distinct(evs)
  /\ db' = [db EXCEPT !.links[id] = Range(evs)]

(* An incident is stored with all of its evidence and nothing else.        *)
SaveIncidentWithEvents(rec) ==
  /\ Redacted[rec.id] = rec.id \/ Stored(rec.id) \/ rec.events = <<>>
  /\ Distinct(rec.events)
  /\ db' = [db EXCEPT !.incidents[Redacted[rec.id]] = PendingRow(rec),
                      !.events = @ \union Range(rec.events),
                      !.links[rec.id] = Range(rec.events)]

SaveLLMReport(id, a) ==
  /\ Stored(id)
  /\ db' = [db EXCEPT !.reports[id] = [at |-> commits + 1, answer |-> a,
                                       report |-> RedactedReport(a)],
                      !.incidents[id].status = "complete"]

Next ==
  /\ commits' = commits + 1
  /\ \/ \E call \in Calls :
          \/ call.op = "SaveEvents" /\ SaveEvents(call.events)
          \/ call.op = "SaveIncident" /\ SaveIncident(call.record)
          \/ call.op = "LinkIncidentEvents"
               /\ LinkIncidentEvents(call.id, call.events)
          \/ call.op = "SaveIncidentWithEvents"
               /\ SaveIncidentWithEvents(call.record)
     \/ \E id \in Ids, a \in Answers : SaveLLMReport(id, a)

Spec == Init /\ [][Next]_vars
=============================================================================
