-------------------------------- MODULE Store --------------------------------
(***************************************************************************)
(* The SQLite store of internal/store with the commands that write to one  *)
(* database file (the workers of a live run, demo runs, `tracejutsu llm')  *)
(* and `tracejutsu show', which reads it; all are processes of their own.  *)
(*                                                                         *)
(* A call is a list of SQL statements executed one by one in a transaction *)
(* that holds SQLite's write lock; readers see the committed tables (WAL). *)
(* Any statement may fail: a constraint, an invalid event, the save        *)
(* timeout, a busy database; the deferred Rollback then discards the work. *)
(* A process that dies in a transaction leaves the same tables behind.     *)
(***************************************************************************)
EXTENDS Integers, Sequences, FiniteSets, SequencesExt, LLMClient

CONSTANTS
  Events, Ids,
  Redacted,      (* what redact.RedactString makes of an incident id       *)
  Rank,          (* order of incidents of equal score: start_time, id      *)
  Writers,       (* sessions that save events and incidents                *)
  Batches,       (* runs of `tracejutsu llm'                               *)
  Asked,         (* ids given to `tracejutsu llm <incident_id>'            *)
  Readers,       (* runs of `tracejutsu show'                              *)
  Nobody,        (* the write lock is free                                 *)
  Calls,         (* the calls writers make                                 *)
  Replies,       (* what the LLM endpoint may reply                        *)
  Limit,         (* --limit                                                *)
  MinScore,      (* --min-score                                            *)
  MaxCalls       (* bound on the calls writers make                        *)

ASSUME StoreAssumption ==
  /\ "" \notin Ids /\ Redacted \in [Ids -> Ids]
  /\ \A i \in Ids : Redacted[Redacted[i]] = Redacted[i]
  /\ Nobody \notin Writers \union Batches /\ Writers \intersect Batches = {}
  /\ Asked \subseteq Ids
  /\ Limit \in Nat \ {0} /\ MinScore \in Nat /\ MaxCalls \in Nat

Records == [id : Ids, events : Seq(Events), score : Nat]

(* The calls that Statements knows.                                        *)
ASSUME CallsAssumption ==
  \A call \in Calls :
    \/ call.op = "SaveEvents" /\ call.events \in Seq(Events)
    \/ call.op \in {"SaveIncident", "SaveIncidentWithEvents"}
         /\ call.record \in Records
    \/ call.op = "LinkIncidentEvents"
         /\ call.id \in Ids /\ call.events \in Seq(Events)

(* A candidate has events, so no incident is saved without evidence; or    *)
(* else its id is one that redaction leaves alone.                         *)
ASSUME EvidenceAssumption ==
  \A call \in Calls : call.op = "SaveIncidentWithEvents" =>
    Redacted[call.record.id] = call.record.id \/ call.record.events # <<>>

VARIABLES
  db,        (* the committed tables                                       *)
  commits,   (* history: number of committed transactions                  *)
  lock,      (* the session that holds SQLite's write lock                 *)
  work,      (* the tables as the open transaction sees them               *)
  todo,      (* the statements it still has to execute                     *)
  calls,     (* calls made by writers                                      *)
  batch,     (* the runs of llm                                            *)
  shown      (* the runs of show: what each has read                       *)

vars == <<db, commits, lock, work, todo, calls, batch, shown>>

(* The replies the client accepts, and the report that is stored for one.  *)
Answers == {a \in Replies : Analyzed(a)}

RedactedReport(a) == RedactReport(Decoded(a.doc))

Promise == INSTANCE EvidenceStore

NoRow == Promise!NoRow
NoReport == Promise!NoReport

-----------------------------------------------------------------------------
(* The statements.                                                         *)
InsertEvent(e) == [sql |-> "event", event |-> e]
InsertIncident(rec) == [sql |-> "incident", record |-> rec]
DeleteLinks(id) == [sql |-> "unlink", id |-> id]
InsertLink(id, e) == [sql |-> "link", id |-> id, event |-> e]
UpsertReport(id, a) == [sql |-> "report", id |-> id, answer |-> a]
MarkComplete(id) == [sql |-> "complete", id |-> id]

InsertEvents(evs) == [n \in DOMAIN evs |-> InsertEvent(evs[n])]

(* Mutant: the old links are cleared last, with the new ones.              *)
ReplaceLinksSwapped(id, evs) ==
  Append([n \in DOMAIN evs |-> InsertLink(id, evs[n])], DeleteLinks(id))

(* replaceIncidentEventLinks                                               *)
ReplaceLinks(id, evs) ==
  <<DeleteLinks(id)>> \o [n \in DOMAIN evs |-> InsertLink(id, evs[n])]

SaveIncidentWithEvents(rec) ==
  <<InsertIncident(rec)>> \o InsertEvents(rec.events)
                          \o ReplaceLinks(rec.id, rec.events)

SaveLLMReport(id, a) == <<UpsertReport(id, a), MarkComplete(id)>>

(* The statements of a writer's call.                                      *)
Statements(call) ==
  CASE call.op = "SaveEvents" -> InsertEvents(call.events)
    [] call.op = "SaveIncident" -> <<InsertIncident(call.record)>>
    [] call.op = "LinkIncidentEvents" -> ReplaceLinks(call.id, call.events)
    [] call.op = "SaveIncidentWithEvents" -> SaveIncidentWithEvents(call.record)

(* Foreign keys, primary keys and the count of updated rows: what lets a   *)
(* statement succeed on the tables t.                                      *)
Allowed(t, stmt) ==
  CASE stmt.sql = "link" -> /\ t.incidents[stmt.id] # NoRow
                            /\ stmt.event \in t.events
                            /\ stmt.event \notin t.links[stmt.id]
    [] stmt.sql \in {"report", "complete"} -> t.incidents[stmt.id] # NoRow
    [] OTHER -> TRUE

(* The row of a report: redacted, and when and for which answer (history). *)
ReportRow(a) == [at |-> commits + 1, report |-> RedactedReport(a), answer |-> a]

(* Mutant: the upsert of an incident leaves its llm_status alone.          *)
EffectKeepStatus(t, stmt) ==
  CASE stmt.sql = "event" -> [t EXCEPT !.events = @ \union {stmt.event}]
    [] stmt.sql = "incident" ->
         [t EXCEPT !.incidents[Redacted[stmt.record.id]] =
            [status |-> IF @ = NoRow THEN "pending" ELSE @.status,
             record |-> stmt.record, at |-> commits + 1]]
    [] stmt.sql = "unlink" -> [t EXCEPT !.links[stmt.id] = {}]
    [] stmt.sql = "link" -> [t EXCEPT !.links[stmt.id] = @ \union {stmt.event}]
    [] stmt.sql = "report" -> [t EXCEPT !.reports[stmt.id] = ReportRow(stmt.answer)]
    [] stmt.sql = "complete" -> [t EXCEPT !.incidents[stmt.id].status = "complete"]

(* Mutant: a second report for an incident is not stored (DO NOTHING).     *)
EffectKeepReport(t, stmt) ==
  CASE stmt.sql = "event" -> [t EXCEPT !.events = @ \union {stmt.event}]
    [] stmt.sql = "incident" ->
         [t EXCEPT !.incidents[Redacted[stmt.record.id]] =
            [status |-> "pending", record |-> stmt.record, at |-> commits + 1]]
    [] stmt.sql = "unlink" -> [t EXCEPT !.links[stmt.id] = {}]
    [] stmt.sql = "link" -> [t EXCEPT !.links[stmt.id] = @ \union {stmt.event}]
    [] stmt.sql = "report" -> [t EXCEPT !.reports[stmt.id] =
                                 IF @ = NoReport THEN ReportRow(stmt.answer) ELSE @]
    [] stmt.sql = "complete" -> [t EXCEPT !.incidents[stmt.id].status = "complete"]

(* What a statement makes of the tables t.                                 *)
Effect(t, stmt) ==
  CASE stmt.sql = "event" -> [t EXCEPT !.events = @ \union {stmt.event}]
    [] stmt.sql = "incident" ->
         [t EXCEPT !.incidents[Redacted[stmt.record.id]] =
            [status |-> "pending", record |-> stmt.record, at |-> commits + 1]]
    [] stmt.sql = "unlink" -> [t EXCEPT !.links[stmt.id] = {}]
    [] stmt.sql = "link" -> [t EXCEPT !.links[stmt.id] = @ \union {stmt.event}]
    [] stmt.sql = "report" -> [t EXCEPT !.reports[stmt.id] = ReportRow(stmt.answer)]
    [] stmt.sql = "complete" -> [t EXCEPT !.incidents[stmt.id].status = "complete"]

-----------------------------------------------------------------------------
(* Transactions.                                                           *)
NoAnswer == [outcome |-> "none"]

NewBatch == [pc |-> "list", entries |-> <<>>, index |-> 0, answer |-> NoAnswer,
             complete |-> 0, failed |-> 0, saved |-> {}]

NewShow == [pc |-> "incident", id |-> "", row |-> NoRow, evidence |-> {},
            report |-> NoReport]

Init ==
  /\ db = Promise!EmptyTables /\ work = db /\ commits = 0
  /\ lock = Nobody /\ todo = <<>> /\ calls = 0
  /\ batch = [b \in Batches |-> NewBatch]
  /\ shown = [r \in Readers |-> NewShow]

(* The first write of a deferred BEGIN takes the write lock.               *)
Begin(s, statements) ==
  /\ lock = Nobody
  /\ lock' = s /\ work' = db /\ todo' = statements
  /\ UNCHANGED <<db, commits>>

Exec ==
  /\ lock # Nobody /\ todo # <<>> /\ Allowed(work, Head(todo))
  /\ work' = Effect(work, Head(todo)) /\ todo' = Tail(todo)
  /\ UNCHANGED <<db, commits, lock, calls, batch, shown>>

Commit(s) ==
  /\ lock = s /\ todo = <<>>
  /\ db' = work /\ commits' = commits + 1 /\ lock' = Nobody
  /\ UNCHANGED <<work, todo>>

(* An error return, with the deferred Rollback.                            *)
Rollback(s) ==
  /\ lock = s
  /\ lock' = Nobody /\ work' = db /\ todo' = <<>>
  /\ UNCHANGED <<db, commits>>

WriterBegin(w) ==
  /\ calls < MaxCalls
  /\ \E call \in Calls : Begin(w, Statements(call))
  /\ calls' = calls + 1 /\ UNCHANGED <<batch, shown>>

WriterCommit(w) == Commit(w) /\ UNCHANGED <<calls, batch, shown>>

WriterRollback(w) == Rollback(w) /\ UNCHANGED <<calls, batch, shown>>

-----------------------------------------------------------------------------
(* runLLM, runLLMBatch and analyzeAndWriteLLM                              *)
Before(i, j) ==
  LET scoreOf(k) == db.incidents[k].record.score
  IN scoreOf(i) > scoreOf(j) \/ (scoreOf(i) = scoreOf(j) /\ Rank[i] < Rank[j])

Pending == {i \in Ids : /\ db.incidents[i] # NoRow
                        /\ db.incidents[i].status = "pending"
                        /\ db.incidents[i].record.score >= MinScore}

(* ListTriageIncidentsFiltered for llm_status = pending: ORDER BY, LIMIT.   *)
ListTriageIncidents ==
  {s \in UNION {[1..n -> Pending] : n \in 0..Limit} :
     /\ \A m, n \in DOMAIN s : m < n => s[m] # s[n] /\ ~Before(s[n], s[m])
     /\ \A i \in Pending \ ToSet(s) :
          Len(s) = Limit /\ \A j \in ToSet(s) : ~Before(i, j)}

BatchList(b) ==
  /\ batch[b].pc = "list"
  /\ \E listed \in ListTriageIncidents :
       batch' = [batch EXCEPT ![b].pc = "next", ![b].entries = listed]
  /\ UNCHANGED <<db, commits, lock, work, todo, calls, shown>>

(* llm <incident_id> asks for one incident, whatever its status.           *)
BatchGet(b) ==
  /\ batch[b].pc = "list"
  /\ \E i \in Asked :
       batch' = [batch EXCEPT ![b].pc = IF db.incidents[i] = NoRow THEN "err" ELSE "next",
                              ![b].entries = IF db.incidents[i] = NoRow THEN <<>> ELSE <<i>>]
  /\ UNCHANGED <<db, commits, lock, work, todo, calls, shown>>

Entry(b) == batch[b].entries[batch[b].index]

(* The loop takes its next entry and asks the model about it.              *)
BatchAnalyze(b) ==
  /\ batch[b].pc = "next" /\ batch[b].index < Len(batch[b].entries)
  /\ \E a \in Replies :
       batch' = IF Analyzed(a)
                THEN [batch EXCEPT ![b].pc = "answered", ![b].index = @ + 1,
                                   ![b].answer = a]
                ELSE [batch EXCEPT ![b].failed = @ + 1, ![b].index = @ + 1]
  /\ UNCHANGED <<db, commits, lock, work, todo, calls, shown>>

(* SaveLLMReport validates the report and begins.                          *)
BatchBegin(b) ==
  /\ batch[b].pc = "answered"
  /\ ValidateReport(Decoded(batch[b].answer.doc))
  /\ Begin(b, SaveLLMReport(Entry(b), batch[b].answer))
  /\ batch' = [batch EXCEPT ![b].pc = "save", ![b].answer = NoAnswer]
  /\ UNCHANGED <<calls, shown>>

(* Mutant: a failed incident is tried again at once, for ever.             *)
BatchFailedRetry(b) ==
  /\ batch[b].pc = "answered"
  /\ batch' = [batch EXCEPT ![b].pc = "next", ![b].answer = NoAnswer, ![b].index = @ - 1]
  /\ UNCHANGED <<db, commits, lock, work, todo, calls, shown>>

(* The transaction could not begin; the batch goes on.                     *)
BatchFailed(b) ==
  /\ batch[b].pc = "answered"
  /\ batch' = [batch EXCEPT ![b].pc = "next", ![b].answer = NoAnswer, ![b].failed = @ + 1]
  /\ UNCHANGED <<db, commits, lock, work, todo, calls, shown>>

BatchCommit(b) ==
  /\ Commit(b)
  /\ batch' = [batch EXCEPT ![b].pc = "print", ![b].saved = @ \union {Entry(b)}]
  /\ UNCHANGED <<calls, shown>>

BatchRollback(b) ==
  /\ Rollback(b)
  /\ batch' = [batch EXCEPT ![b].pc = "next", ![b].failed = @ + 1]
  /\ UNCHANGED <<calls, shown>>

(* report.WriteLLM, after the commit: an incident whose report cannot be   *)
(* printed counts as failed, stored as it is.                              *)
BatchPrint(b) ==
  /\ batch[b].pc = "print"
  /\ \/ batch' = [batch EXCEPT ![b].pc = "next", ![b].complete = @ + 1]
     \/ batch' = [batch EXCEPT ![b].pc = "next", ![b].failed = @ + 1]
  /\ UNCHANGED <<db, commits, lock, work, todo, calls, shown>>

(* Mutant: the first failure ends the batch.                               *)
BatchReturnAtFailure(b) ==
  /\ batch[b].pc = "next"
  /\ batch[b].failed > 0 \/ batch[b].index = Len(batch[b].entries)
  /\ batch' = [batch EXCEPT ![b].pc = IF batch[b].failed > 0 THEN "err" ELSE "nil"]
  /\ UNCHANGED <<db, commits, lock, work, todo, calls, shown>>

BatchReturn(b) ==
  /\ batch[b].pc = "next" /\ batch[b].index = Len(batch[b].entries)
  /\ batch' = [batch EXCEPT ![b].pc = IF batch[b].failed > 0 THEN "err" ELSE "nil"]
  /\ UNCHANGED <<db, commits, lock, work, todo, calls, shown>>

-----------------------------------------------------------------------------
(* runShow: three reads, each of the tables committed by then.             *)
Show(r, read) ==
  /\ shown' = [shown EXCEPT ![r] = read]
  /\ UNCHANGED <<db, commits, lock, work, todo, calls, batch>>

(* GetIncident reads the row, or show ends with an error ...               *)
ShowIncident(r) ==
  /\ shown[r].pc = "incident"
  /\ \E i \in Ids :
       Show(r, IF db.incidents[i] = NoRow THEN [NewShow EXCEPT !.pc = "err"]
               ELSE [NewShow EXCEPT !.pc = "evidence", !.id = i,
                                    !.row = db.incidents[i]])

(* ... and then the events linked to it;                                   *)
ShowEvidence(r) ==
  /\ shown[r].pc = "evidence"
  /\ Show(r, [shown[r] EXCEPT !.pc = "report",
                              !.evidence = db.links[shown[r].id] \intersect db.events])

(* GetLLMReport: no row is fine, a row that does not validate is an error. *)
ShowReport(r) ==
  /\ shown[r].pc = "report"
  /\ LET row == db.reports[shown[r].id]
     IN Show(r, [shown[r] EXCEPT
                   !.pc = IF row = NoReport \/ ValidateReport(row.report)
                          THEN "done" ELSE "err",
                   !.report = row])

WriterNext(w) == WriterBegin(w) \/ WriterCommit(w) \/ WriterRollback(w)

BatchNext(b) ==
  \/ BatchList(b) \/ BatchGet(b) \/ BatchAnalyze(b) \/ BatchBegin(b)
  \/ BatchFailed(b) \/ BatchCommit(b) \/ BatchRollback(b) \/ BatchPrint(b)
  \/ BatchReturn(b)

ShowNext(r) == ShowIncident(r) \/ ShowEvidence(r) \/ ShowReport(r)

Next ==
  \/ Exec
  \/ \E w \in Writers : WriterNext(w)
  \/ \E b \in Batches : BatchNext(b)
  \/ \E r \in Readers : ShowNext(r)

Spec == Init /\ [][Next]_vars

(* Saves have a timeout and LLM requests one, so neither a transaction nor *)
(* an analysis stays open for ever, and an open transaction is closed by   *)
(* its own session.                                                        *)
FairSpec ==
  /\ Spec
  /\ WF_vars(Exec)
  /\ \A w \in Writers : WF_vars(WriterCommit(w) \/ WriterRollback(w))
  /\ \A b \in Batches : WF_vars(BatchNext(b))

-----------------------------------------------------------------------------
(* What docs/HANDOFF.md:359 promises of SaveIncidentWithEvents: whatever   *)
(* the event queue stored, lost or stores later, an incident row is linked *)
(* to exactly the evidence of the record it holds, and that evidence is in *)
(* the events table, also when another version was stored before.  (Of the *)
(* commands' calls; the bare SaveIncident makes no such promise.)          *)
EvidenceComplete ==
  \A i \in Ids : db.incidents[i] # NoRow =>
    /\ db.links[i] = ToSet(db.incidents[i].record.events)
    /\ db.links[i] \subseteq db.events

(* An incident is marked complete exactly when a report was stored since   *)
(* the incident was last saved: SaveLLMReport stores report and status     *)
(* together, and a later save of the incident makes it pending again.      *)
StatusMatchesReport ==
  \A i \in Ids :
    /\ db.reports[i].at > 0 => db.incidents[i] # NoRow
    /\ db.incidents[i] # NoRow =>
         ((db.incidents[i].status = "complete")
            <=> (db.reports[i].at > db.incidents[i].at))

(* The counts a batch prints and returns an error by: every incident it    *)
(* listed, --limit at most, was tried once; no more count as complete than *)
(* it stored a report for, and without an error it stored one for each.    *)
BatchAccounts ==
  \A b \in Batches :
    /\ Len(batch[b].entries) <= Limit
    /\ batch[b].complete <= Cardinality(batch[b].saved)
    /\ \A i \in batch[b].saved : db.reports[i].at > 0
    /\ batch[b].pc \in {"nil", "err"} =>
         /\ batch[b].complete + batch[b].failed = Len(batch[b].entries)
         /\ batch[b].pc = "nil" => ToSet(batch[b].entries) = batch[b].saved

(* A batch ends whatever other processes do with the database and however  *)
(* many of its analyses and saves fail.                                    *)
BatchEnds == \A b \in Batches : <>(batch[b].pc \in {"nil", "err"})

(* A stored report says what the model answered and nothing else: every    *)
(* text and every item of every list, secrets redacted, and no field the   *)
(* model left out shows up as an empty one.  An item the model wrote as    *)
(* null is the one thing stored otherwise: it keeps its place, empty       *)
(* (decodeReport, ValidateReport, RedactReport).                           *)
AnswerStored ==
  \A i \in Ids : db.reports[i] # NoReport =>
    LET stored == db.reports[i].report
        said == db.reports[i].answer.doc.fields
    IN /\ \A f \in Texts : /\ said[f].json = "string"
                          /\ stored.texts[f] = RedactString(said[f].value)
       /\ \A f \in Lists :
            /\ said[f].json = "list"
            /\ ~stored.lists[f].nil
            /\ DOMAIN stored.lists[f].items = DOMAIN said[f].value
            /\ \A n \in DOMAIN said[f].value :
                 LET item == said[f].value[n]
                 IN \/ /\ item.json = "string"
                       /\ stored.lists[f].items[n] = RedactString(item.value)
                    \/ item.json = "null" /\ stored.lists[f].items[n] = ""

(* Incidents the callers save or link without going through                *)
(* SaveIncidentWithEvents, which no command does.                          *)
Bare == {Redacted[call.record.id] : call \in {c \in Calls : c.op = "SaveIncident"}}
          \union {call.id : call \in {c \in Calls : c.op = "LinkIncidentEvents"}}

(* What show prints, though it reads three times while others write: an    *)
(* incident shown as complete comes with a report made after it was stored *)
(* (one made for an earlier version only with a pending incident), other   *)
(* evidence than the incident's own only when a newer version was stored   *)
(* since, and what is stored can always be read.                           *)
ShowCoherent ==
  \A r \in Readers : shown[r].id # "" =>
    /\ shown[r].pc # "err"
    /\ (shown[r].pc = "done" /\ shown[r].row.status = "complete") =>
         shown[r].report.at > shown[r].row.at
    /\ (shown[r].pc \in {"report", "done"} /\ shown[r].id \notin Bare) =>
         \/ shown[r].evidence = ToSet(shown[r].row.record.events)
         \/ db.incidents[shown[r].id].at > shown[r].row.at

(* Every call is all or nothing: the transactions, statement by statement, *)
(* implement the atomic operations of EvidenceStore.                       *)
ImplementsEvidenceStore == Promise!Spec
=============================================================================
