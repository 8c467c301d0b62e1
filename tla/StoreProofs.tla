----------------------------- MODULE StoreProofs -----------------------------
(***************************************************************************)
(* TLAPS proofs about Store, for any set of incidents, events, calls,      *)
(* sessions and readers: the statement-by-statement transactions implement *)
(* the atomic operations of EvidenceStore, and what the tables hold and    *)
(* `tracejutsu show' prints follows from those operations.                 *)
(*                                                                         *)
(* At the end, of StoreOpen: for any number of processes that open one     *)
(* path, and whatever part of the schema they find, an opened database is  *)
(* ready, and an open that fails has a reason that doctor shows or lost to *)
(* one that did not fail.                                                  *)
(***************************************************************************)
EXTENDS Store, StoreOpen, SequenceTheorems, FunctionTheorems, FiniteSetTheorems, TLAPS

-----------------------------------------------------------------------------
(* The tables.                                                             *)

IncidentRows == [status : {"pending", "complete"}, record : Records,
                 at : Nat \ {0}]

ReportRows == [at : Nat \ {0}, report : {RedactedReport(a) : a \in Answers},
               answer : Answers]

Tables == [events : SUBSET Events,
           incidents : [Ids -> {NoRow} \cup IncidentRows],
           links : [Ids -> SUBSET Events],
           reports : [Ids -> {NoReport} \cup ReportRows]]

PendingRow(rec) == [status |-> "pending", record |-> rec, at |-> commits + 1]

(* Tables with the same rows are the same.                                 *)
LEMMA SameTables ==
  ASSUME NEW t \in Tables, NEW u \in Tables,
         t.events = u.events, t.incidents = u.incidents, t.links = u.links,
         t.reports = u.reports
  PROVE  t = u
  BY DEF Tables

(* A missing row is no row of a table.                                     *)
LEMMA NoRows == NoRow \notin IncidentRows /\ NoReport \notin ReportRows
<1>1. NoRow \notin IncidentRows
  BY DEF NoRow, Promise!NoRow, IncidentRows
<1>2. NoReport \notin ReportRows
  BY DEF NoReport, Promise!NoReport, ReportRows
<1> QED BY <1>1, <1>2

(* The row a saved incident gets.                                          *)
LEMMA PendingRowType ==
  ASSUME commits \in Nat, NEW rec \in Records
  PROVE  PendingRow(rec) \in IncidentRows
<1>1. commits + 1 \in Nat \ {0} OBVIOUS
<1> QED BY <1>1 DEF PendingRow, IncidentRows

(* The row a stored report gets.                                           *)
LEMMA ReportRowType ==
  ASSUME commits \in Nat, NEW a \in Answers
  PROVE  ReportRow(a) \in ReportRows
<1>1. commits + 1 \in Nat \ {0} OBVIOUS
<1> QED BY <1>1 DEF ReportRow, ReportRows

-----------------------------------------------------------------------------
(* What each statement does to the tables.                                 *)

(* Storing an event adds its row.                                          *)
LEMMA EventEffect ==
  ASSUME NEW t \in Tables, NEW e \in Events
  PROVE  LET u == Effect(t, InsertEvent(e))
         IN /\ u \in Tables /\ u.events = t.events \cup {e}
            /\ u.incidents = t.incidents /\ u.links = t.links
            /\ u.reports = t.reports
  BY DEF Effect, InsertEvent, Tables

(* Storing an incident replaces the row of its redacted id.                *)
LEMMA IncidentEffect ==
  ASSUME NEW t \in Tables, NEW rec \in Records, commits \in Nat
  PROVE  LET u == Effect(t, InsertIncident(rec))
         IN /\ u \in Tables /\ u.events = t.events
            /\ u.incidents = [t.incidents EXCEPT
                                ![Redacted[rec.id]] = PendingRow(rec)]
            /\ u.links = t.links /\ u.reports = t.reports
<1>1. PendingRow(rec) \in IncidentRows BY PendingRowType
<1>2. Effect(t, InsertIncident(rec))
        = [t EXCEPT !.incidents[Redacted[rec.id]] = PendingRow(rec)]
  BY DEF Effect, InsertIncident, PendingRow
<1> QED BY <1>1, <1>2 DEF Tables

(* Clearing the links of an incident leaves it none.                       *)
LEMMA UnlinkEffect ==
  ASSUME NEW t \in Tables, NEW id \in Ids
  PROVE  LET u == Effect(t, DeleteLinks(id))
         IN /\ u \in Tables /\ u.events = t.events
            /\ u.incidents = t.incidents /\ u.reports = t.reports
            /\ u.links = [t.links EXCEPT ![id] = {}]
  BY DEF Effect, DeleteLinks, Tables

(* Linking adds one event.                                                 *)
LEMMA LinkEffect ==
  ASSUME NEW t \in Tables, NEW id \in Ids, NEW e \in Events
  PROVE  LET u == Effect(t, InsertLink(id, e))
         IN /\ u \in Tables /\ u.events = t.events
            /\ u.incidents = t.incidents /\ u.reports = t.reports
            /\ u.links = [t.links EXCEPT ![id] = t.links[id] \cup {e}]
  BY DEF Effect, InsertLink, Tables

(* Storing a report replaces the one of the incident.                      *)
LEMMA ReportEffect ==
  ASSUME NEW t \in Tables, NEW id \in Ids, NEW a \in Answers, commits \in Nat
  PROVE  LET u == Effect(t, UpsertReport(id, a))
         IN /\ u \in Tables /\ u.events = t.events
            /\ u.incidents = t.incidents /\ u.links = t.links
            /\ u.reports = [t.reports EXCEPT ![id] = ReportRow(a)]
<1>1. ReportRow(a) \in ReportRows BY ReportRowType
<1>2. Effect(t, UpsertReport(id, a))
        = [t EXCEPT !.reports[id] = ReportRow(a)]
  BY DEF Effect, UpsertReport
<1> QED BY <1>1, <1>2 DEF Tables

(* Marking an incident complete changes its status alone.                  *)
LEMMA CompleteEffect ==
  ASSUME NEW t \in Tables, NEW id \in Ids, t.incidents[id] # NoRow
  PROVE  LET u == Effect(t, MarkComplete(id))
         IN /\ u \in Tables /\ u.events = t.events
            /\ u.links = t.links /\ u.reports = t.reports
            /\ u.incidents = [t.incidents EXCEPT ![id] =
                                [t.incidents[id] EXCEPT !.status = "complete"]]
<1>1. t.incidents[id] \in IncidentRows BY DEF Tables
<1>2. [t.incidents[id] EXCEPT !.status = "complete"] \in IncidentRows
  BY <1>1 DEF IncidentRows
<1>3. Effect(t, MarkComplete(id))
        = [t EXCEPT !.incidents[id].status = "complete"]
  BY DEF Effect, MarkComplete
<1> QED BY <1>2, <1>3 DEF Tables

-----------------------------------------------------------------------------
(* How far a transaction has come.                                         *)

Stmts ==
  [sql : {"event"}, event : Events] \cup [sql : {"incident"}, record : Records]
    \cup [sql : {"unlink"}, id : Ids]
    \cup [sql : {"link"}, id : Ids, event : Events]
    \cup [sql : {"report"}, id : Ids, answer : Answers]
    \cup [sql : {"complete"}, id : Ids]

(* td is what is left of the statements stmts after k of them.             *)
Rest(td, stmts, k) ==
  /\ td \in Seq(Stmts) /\ stmts \in Seq(Stmts) /\ k \in 0..Len(stmts)
  /\ Len(td) = Len(stmts) - k
  /\ \A j \in 1..Len(td) : td[j] = stmts[j + k]

(* The first m members of a sequence, and whether they differ.             *)
UpTo(s, m) == {s[j] : j \in 1..m}
DistinctUpTo(s, m) == \A i, j \in 1..m : s[i] = s[j] => i = j

(* A statement that is executed is the next one.                           *)
LEMMA RestStep ==
  ASSUME NEW stmts, NEW k, Rest(todo, stmts, k), todo # <<>>
  PROVE  /\ k + 1 \in 1..Len(stmts) /\ k \in Nat
         /\ Head(todo) = stmts[k + 1]
         /\ Rest(Tail(todo), stmts, k + 1)
<1>1. /\ todo \in Seq(Stmts) /\ Len(todo) \in Nat \ {0}
      /\ stmts \in Seq(Stmts) /\ Len(stmts) \in Nat
      /\ k \in 0..Len(stmts) /\ Len(todo) = Len(stmts) - k
      /\ \A j \in 1..Len(todo) : todo[j] = stmts[j + k]
  BY EmptySeq, LenProperties DEF Rest
<1>2. Head(todo) = todo[1] /\ 1 \in 1..Len(todo) /\ 1 + k = k + 1
  BY <1>1
<1>3. Head(todo) = stmts[k + 1] BY <1>1, <1>2
<1>4. /\ Tail(todo) \in Seq(Stmts) /\ Len(Tail(todo)) = Len(todo) - 1
      /\ \A j \in 1..Len(Tail(todo)) : Tail(todo)[j] = todo[j + 1]
  BY <1>1, HeadTailProperties
<1>5. ASSUME NEW j \in 1..Len(Tail(todo)) PROVE Tail(todo)[j] = stmts[j + (k + 1)]
  <2>1. j + 1 \in 1..Len(todo) /\ (j + 1) + k = j + (k + 1) BY <1>1, <1>4
  <2> QED BY <1>1, <1>4, <2>1
<1>6. k + 1 \in 1..Len(stmts) /\ k + 1 \in 0..Len(stmts)
      /\ Len(todo) - 1 = Len(stmts) - (k + 1)
  BY <1>1
<1> QED BY <1>1, <1>3, <1>4, <1>5, <1>6 DEF Rest

(* When nothing is left all statements were executed.                      *)
LEMMA RestEnd ==
  ASSUME NEW stmts, NEW k, Rest(todo, stmts, k), todo = <<>>
  PROVE  k = Len(stmts)
<1>1. Len(todo) = 0 /\ Len(stmts) \in Nat /\ k \in 0..Len(stmts)
  BY LenProperties DEF Rest
<1> QED BY <1>1 DEF Rest

(* A transaction starts with all of its statements.                        *)
LEMMA RestBegin ==
  ASSUME NEW stmts \in Seq(Stmts)
  PROVE  Rest(stmts, stmts, 0)
<1>1. Len(stmts) \in Nat BY LenProperties
<1>2. \A j \in 1..Len(stmts) : j + 0 = j BY <1>1
<1> QED BY <1>1, <1>2 DEF Rest

(* One member more; none; and all of them.                                 *)
LEMMA UpToFacts ==
  ASSUME NEW s \in Seq(Events)
  PROVE  /\ UpTo(s, 0) = {} /\ DistinctUpTo(s, 0)
         /\ UpTo(s, Len(s)) = Range(s)
         /\ \A m \in Nat : UpTo(s, m + 1) = UpTo(s, m) \cup {s[m + 1]}
         /\ \A m \in Nat : DistinctUpTo(s, m) /\ s[m + 1] \notin UpTo(s, m)
                             => DistinctUpTo(s, m + 1)
<1>1. 1..0 = {} OBVIOUS
<1>2. ASSUME NEW m \in Nat PROVE 1..m + 1 = (1..m) \cup {m + 1}
  OBVIOUS
<1>3. UpTo(s, 0) = {} /\ DistinctUpTo(s, 0)
  BY <1>1 DEF UpTo, DistinctUpTo
<1>4. UpTo(s, Len(s)) = Range(s) BY DEF UpTo, Range
<1>5. ASSUME NEW m \in Nat
      PROVE  /\ UpTo(s, m + 1) = UpTo(s, m) \cup {s[m + 1]}
             /\ DistinctUpTo(s, m) /\ s[m + 1] \notin UpTo(s, m)
                  => DistinctUpTo(s, m + 1)
  BY <1>2 DEF UpTo, DistinctUpTo
<1> QED BY <1>3, <1>4, <1>5

(* What w holds after k statements of a call, begun with the tables db.    *)
EventsProgress(w, evs, k) ==
  /\ w.events = db.events \cup UpTo(evs, k) /\ w.incidents = db.incidents
  /\ w.links = db.links /\ w.reports = db.reports

WithRow(rec) == [db.incidents EXCEPT ![Redacted[rec.id]] = PendingRow(rec)]

WithLinks(id, evs, m) == [db.links EXCEPT ![id] = UpTo(evs, m)]

IncidentProgress(w, rec, k) ==
  /\ w.incidents = IF k = 0 THEN db.incidents ELSE WithRow(rec)
  /\ w.events = db.events /\ w.links = db.links /\ w.reports = db.reports

LinksProgress(w, id, evs, k) ==
  /\ w.links = IF k = 0 THEN db.links ELSE WithLinks(id, evs, k - 1)
  /\ k > 1 => /\ UpTo(evs, k - 1) \subseteq db.events
              /\ DistinctUpTo(evs, k - 1)
              /\ db.incidents[id] # NoRow
  /\ w.events = db.events /\ w.incidents = db.incidents
  /\ w.reports = db.reports

WholeProgress(w, rec, k) ==
  LET n == Len(rec.events)
  IN /\ w.incidents = IF k = 0 THEN db.incidents ELSE WithRow(rec)
     /\ w.events = IF k = 0 THEN db.events
                   ELSE IF k <= n + 1 THEN db.events \cup UpTo(rec.events, k - 1)
                   ELSE db.events \cup Range(rec.events)
     /\ w.links = IF k <= n + 1 THEN db.links
                  ELSE WithLinks(rec.id, rec.events, k - (n + 2))
     /\ k > n + 1 => DistinctUpTo(rec.events, k - (n + 2))
     /\ k > n + 2 => WithRow(rec)[rec.id] # NoRow
     /\ w.reports = db.reports

ReportProgress(w, id, a, k) ==
  /\ k > 0 => db.incidents[id] # NoRow
  /\ w.reports = IF k = 0 THEN db.reports
                 ELSE [db.reports EXCEPT ![id] = ReportRow(a)]
  /\ w.incidents = IF k <= 1 THEN db.incidents
                   ELSE [db.incidents EXCEPT ![id] =
                           [db.incidents[id] EXCEPT !.status = "complete"]]
  /\ w.events = db.events /\ w.links = db.links

CallProgress(w, call, k) ==
  CASE call.op = "SaveEvents" -> EventsProgress(w, call.events, k)
    [] call.op = "SaveIncident" -> IncidentProgress(w, call.record, k)
    [] call.op = "LinkIncidentEvents" ->
         LinksProgress(w, call.id, call.events, k)
    [] call.op = "SaveIncidentWithEvents" -> WholeProgress(w, call.record, k)

(* The open transaction of the session s.                                  *)
WriterTx ==
  \E call \in Calls : \E k \in Nat :
    Rest(todo, Statements(call), k) /\ CallProgress(work, call, k)

BatchTx(b) ==
  \E a \in Answers : \E k \in Nat :
    /\ Rest(todo, SaveLLMReport(Entry(b), a), k)
    /\ ReportProgress(work, Entry(b), a, k)

-----------------------------------------------------------------------------
(* The statements of each call.                                            *)

(* The statements are statements.                                          *)
LEMMA StmtTypes ==
  /\ \A e \in Events : InsertEvent(e) \in Stmts
  /\ \A rec \in Records : InsertIncident(rec) \in Stmts
  /\ \A id \in Ids : DeleteLinks(id) \in Stmts /\ MarkComplete(id) \in Stmts
  /\ \A id \in Ids, e \in Events : InsertLink(id, e) \in Stmts
  /\ \A id \in Ids, a \in Answers : UpsertReport(id, a) \in Stmts
  BY DEF Stmts, InsertEvent, InsertIncident, DeleteLinks, MarkComplete,
         InsertLink, UpsertReport

(* SaveEvents inserts one event after the other.                           *)
LEMMA EventsStmts ==
  ASSUME NEW evs \in Seq(Events)
  PROVE  /\ InsertEvents(evs) \in Seq(Stmts)
         /\ Len(InsertEvents(evs)) = Len(evs)
         /\ \A j \in 1..Len(evs) : InsertEvents(evs)[j] = InsertEvent(evs[j])
<1>1. Len(evs) \in Nat /\ DOMAIN evs = 1..Len(evs) BY LenProperties
<1>2. \A j \in 1..Len(evs) : evs[j] \in Events BY ElementOfSeq
<1>3. \A j \in 1..Len(evs) : InsertEvent(evs[j]) \in Stmts BY <1>2, StmtTypes
<1> QED BY <1>1, <1>3, IsASeq DEF InsertEvents

(* LinkIncidentEvents clears the links, then adds them one by one.         *)
LEMMA LinksStmts ==
  ASSUME NEW id \in Ids, NEW evs \in Seq(Events)
  PROVE  /\ ReplaceLinks(id, evs) \in Seq(Stmts)
         /\ Len(ReplaceLinks(id, evs)) = Len(evs) + 1
         /\ ReplaceLinks(id, evs)[1] = DeleteLinks(id)
         /\ \A j \in 1..Len(evs) :
              ReplaceLinks(id, evs)[j + 1] = InsertLink(id, evs[j])
<1> DEFINE d == <<DeleteLinks(id)>>
           l == [n \in DOMAIN evs |-> InsertLink(id, evs[n])]
<1>1. Len(evs) \in Nat /\ DOMAIN evs = 1..Len(evs) BY LenProperties
<1>2. \A j \in 1..Len(evs) : evs[j] \in Events BY ElementOfSeq
<1>3. \A j \in 1..Len(evs) : InsertLink(id, evs[j]) \in Stmts
  BY <1>2, StmtTypes
<1>4. /\ l \in Seq(Stmts) /\ Len(l) = Len(evs)
      /\ \A j \in 1..Len(evs) : l[j] = InsertLink(id, evs[j])
  BY <1>1, <1>3, IsASeq
<1>5. d \in Seq(Stmts) /\ Len(d) = 1 /\ d[1] = DeleteLinks(id)
  BY StmtTypes
<1>6. ReplaceLinks(id, evs) = d \o l BY DEF ReplaceLinks
<1> HIDE DEF d, l
<1>7. /\ d \o l \in Seq(Stmts) /\ Len(d \o l) = Len(d) + Len(l)
      /\ \A i \in 1..Len(d) + Len(l) :
           (d \o l)[i] = IF i <= Len(d) THEN d[i] ELSE l[i - Len(d)]
  <2>1. d \in Seq(Stmts) /\ l \in Seq(Stmts) BY <1>4, <1>5
  <2> QED BY <2>1, ConcatProperties
<1>8. (d \o l)[1] = DeleteLinks(id) BY <1>1, <1>4, <1>5, <1>7
<1>9. ASSUME NEW j \in 1..Len(evs) PROVE (d \o l)[j + 1] = l[j]
  <2>1. j + 1 \in 1..1 + Len(evs) /\ ~(j + 1 <= 1) /\ (j + 1) - 1 = j
    BY <1>1
  <2> QED BY <1>4, <1>5, <1>7, <2>1
<1> QED BY <1>1, <1>4, <1>5, <1>6, <1>7, <1>8, <1>9

(* SaveIncidentWithEvents: the row, the events, then their links.          *)
LEMMA WholeStmts ==
  ASSUME NEW rec \in Records
  PROVE  LET s == SaveIncidentWithEvents(rec)
             n == Len(rec.events)
         IN /\ s \in Seq(Stmts) /\ n \in Nat /\ Len(s) = n + n + 2
            /\ rec.events \in Seq(Events) /\ rec.id \in Ids
            /\ s[1] = InsertIncident(rec)
            /\ \A j \in 1..n : s[j + 1] = InsertEvent(rec.events[j])
            /\ s[n + 2] = DeleteLinks(rec.id)
            /\ \A j \in 1..n :
                 s[n + 2 + j] = InsertLink(rec.id, rec.events[j])
<1> DEFINE evs == rec.events
           n == Len(evs)
           a == <<InsertIncident(rec)>>
           e == InsertEvents(evs)
           r == ReplaceLinks(rec.id, evs)
           s == (a \o e) \o r
<1>1. evs \in Seq(Events) /\ rec.id \in Ids BY DEF Records
<1>2. n \in Nat BY <1>1, LenProperties
<1>3. a \in Seq(Stmts) /\ Len(a) = 1 /\ a[1] = InsertIncident(rec)
  BY StmtTypes
<1>4. /\ e \in Seq(Stmts) /\ Len(e) = n
      /\ \A j \in 1..n : e[j] = InsertEvent(evs[j])
  BY <1>1, EventsStmts
<1>5. /\ r \in Seq(Stmts) /\ Len(r) = n + 1 /\ r[1] = DeleteLinks(rec.id)
      /\ \A j \in 1..n : r[j + 1] = InsertLink(rec.id, evs[j])
  BY <1>1, LinksStmts
<1>6. SaveIncidentWithEvents(rec) = s BY DEF SaveIncidentWithEvents
<1> HIDE DEF a, e, r, n
<1>7. /\ a \o e \in Seq(Stmts) /\ Len(a \o e) = 1 + n
      /\ \A i \in 1..1 + n :
           (a \o e)[i] = IF i <= 1 THEN a[i] ELSE e[i - 1]
  <2>1. a \in Seq(Stmts) /\ e \in Seq(Stmts) BY <1>3, <1>4
  <2>2. /\ a \o e \in Seq(Stmts) /\ Len(a \o e) = Len(a) + Len(e)
        /\ \A i \in 1..Len(a) + Len(e) :
             (a \o e)[i] = IF i <= Len(a) THEN a[i] ELSE e[i - Len(a)]
    BY <2>1, ConcatProperties
  <2>3. Len(a) = 1 /\ Len(e) = n BY <1>3, <1>4
  <2> QED BY <2>2, <2>3
<1> DEFINE f == a \o e
<1> HIDE DEF f
<1>8. /\ f \o r \in Seq(Stmts) /\ Len(f \o r) = Len(f) + Len(r)
      /\ \A i \in 1..Len(f) + Len(r) :
           (f \o r)[i] = IF i <= Len(f) THEN f[i] ELSE r[i - Len(f)]
  <2>1. f \in Seq(Stmts) /\ r \in Seq(Stmts) BY <1>5, <1>7 DEF f
  <2> QED BY <2>1, ConcatProperties
<1>9. Len(f) = 1 + n /\ Len(r) = n + 1 BY <1>5, <1>7 DEF f
<1>10. (f \o r)[1] = InsertIncident(rec)
  <2>1. 1 \in 1..(1 + n) + (n + 1) /\ 1 <= 1 + n /\ 1 \in 1..1 + n /\ 1 <= 1
    BY <1>2
  <2>2. (f \o r)[1] = f[1] BY <1>8, <1>9, <2>1
  <2>3. f[1] = a[1] BY <1>7, <2>1 DEF f
  <2> QED BY <1>3, <2>2, <2>3
<1>11. ASSUME NEW j \in 1..n PROVE (f \o r)[j + 1] = InsertEvent(evs[j])
  <2>1. /\ j + 1 \in 1..(1 + n) + (n + 1) /\ j + 1 <= 1 + n
        /\ j + 1 \in 1..1 + n /\ ~(j + 1 <= 1) /\ (j + 1) - 1 = j
    BY <1>2
  <2>2. (f \o r)[j + 1] = f[j + 1] BY <1>8, <1>9, <2>1
  <2>3. f[j + 1] = e[j] BY <1>7, <2>1 DEF f
  <2> QED BY <1>4, <2>2, <2>3
<1>12. (f \o r)[n + 2] = DeleteLinks(rec.id)
  <2>1. /\ n + 2 \in 1..(1 + n) + (n + 1) /\ ~(n + 2 <= 1 + n)
        /\ (n + 2) - (1 + n) = 1
    BY <1>2
  <2> QED BY <1>5, <1>8, <1>9, <2>1
<1>13. ASSUME NEW j \in 1..n
       PROVE  (f \o r)[n + 2 + j] = InsertLink(rec.id, evs[j])
  <2>1. /\ n + 2 + j \in 1..(1 + n) + (n + 1) /\ ~(n + 2 + j <= 1 + n)
        /\ (n + 2 + j) - (1 + n) = j + 1
    BY <1>2
  <2> QED BY <1>5, <1>8, <1>9, <2>1
<1>14. Len(f \o r) = n + n + 2 BY <1>2, <1>8, <1>9
<1>15. s = f \o r BY DEF f
<1> HIDE DEF s
<1> QED BY <1>1, <1>2, <1>6, <1>8, <1>10, <1>11, <1>12, <1>13, <1>14, <1>15
        DEF n

(* SaveLLMReport stores the report, then the status.                       *)
LEMMA ReportStmts ==
  ASSUME NEW id \in Ids, NEW a \in Answers
  PROVE  LET s == SaveLLMReport(id, a)
         IN /\ s \in Seq(Stmts) /\ Len(s) = 2
            /\ s[1] = UpsertReport(id, a) /\ s[2] = MarkComplete(id)
<1>1. UpsertReport(id, a) \in Stmts /\ MarkComplete(id) \in Stmts
  BY StmtTypes
<1> QED BY <1>1 DEF SaveLLMReport

(* SaveIncident stores the row.                                            *)
LEMMA IncidentStmts ==
  ASSUME NEW rec \in Records
  PROVE  LET s == <<InsertIncident(rec)>>
         IN s \in Seq(Stmts) /\ Len(s) = 1 /\ s[1] = InsertIncident(rec)
<1>1. InsertIncident(rec) \in Stmts BY StmtTypes
<1> QED BY <1>1

-----------------------------------------------------------------------------
(* A statement takes its transaction one step on.                          *)

(* The next event of SaveEvents.                                           *)
LEMMA EventsExec ==
  ASSUME db \in Tables, work \in Tables,
         NEW evs \in Seq(Events), NEW k \in Nat, k + 1 \in 1..Len(evs),
         EventsProgress(work, evs, k),
         NEW stmt, stmt = InsertEvents(evs)[k + 1], Allowed(work, stmt)
  PROVE  /\ Effect(work, stmt) \in Tables
         /\ EventsProgress(Effect(work, stmt), evs, k + 1)
<1>1. stmt = InsertEvent(evs[k + 1]) BY EventsStmts
<1>2. evs[k + 1] \in Events BY ElementOfSeq
<1>3. UpTo(evs, k + 1) = UpTo(evs, k) \cup {evs[k + 1]} BY UpToFacts
<1> QED BY <1>1, <1>2, <1>3, EventEffect DEF EventsProgress

(* The row of SaveIncident.                                                *)
LEMMA IncidentExec ==
  ASSUME db \in Tables, work \in Tables, commits \in Nat,
         NEW rec \in Records, NEW k \in Nat, k + 1 \in 1..1,
         IncidentProgress(work, rec, k),
         NEW stmt, stmt = <<InsertIncident(rec)>>[k + 1], Allowed(work, stmt)
  PROVE  /\ Effect(work, stmt) \in Tables
         /\ IncidentProgress(Effect(work, stmt), rec, k + 1)
<1>1. k = 0 /\ stmt = InsertIncident(rec) OBVIOUS
<1> QED BY <1>1, IncidentEffect DEF IncidentProgress, WithRow

(* Clearing and setting the links of LinkIncidentEvents.                   *)
LEMMA LinksExec ==
  ASSUME db \in Tables, work \in Tables,
         NEW id \in Ids, NEW evs \in Seq(Events),
         NEW k \in Nat, k + 1 \in 1..Len(evs) + 1,
         LinksProgress(work, id, evs, k),
         NEW stmt, stmt = ReplaceLinks(id, evs)[k + 1], Allowed(work, stmt)
  PROVE  /\ Effect(work, stmt) \in Tables
         /\ LinksProgress(Effect(work, stmt), id, evs, k + 1)
<1> DEFINE u == Effect(work, stmt)
<1>0. Len(evs) \in Nat BY LenProperties
<1>1. CASE k = 0
  <2>1. stmt = DeleteLinks(id) BY <1>1, LinksStmts
  <2>2. UpTo(evs, 0) = {} BY UpToFacts
  <2>3. /\ u \in Tables /\ u.links = [work.links EXCEPT ![id] = {}]
        /\ u.events = work.events /\ u.incidents = work.incidents
        /\ u.reports = work.reports
    BY <2>1, UnlinkEffect
  <2>4. (k + 1) - 1 = 0 /\ ~(k + 1 > 1) /\ k + 1 # 0 BY <1>1
  <2> HIDE DEF u
  <2>5. LinksProgress(u, id, evs, k + 1)
    BY <1>1, <2>2, <2>3, <2>4 DEF LinksProgress, WithLinks
  <2> QED BY <2>3, <2>5 DEF u
<1>2. CASE k # 0
  <2> DEFINE m == k - 1
  <2>1. m \in Nat /\ m + 1 = k /\ (k + 1) - 1 = m + 1 /\ k + 1 > 1
        /\ k \in 1..Len(evs) /\ k + 1 # 0
    BY <1>0, <1>2
  <2>2. stmt = InsertLink(id, evs[k]) /\ evs[k] \in Events
    BY <2>1, LinksStmts, ElementOfSeq
  <2>3. /\ work.incidents[id] # NoRow /\ evs[k] \in work.events
        /\ evs[k] \notin work.links[id]
    BY <2>2 DEF Allowed, InsertLink
  <2>4. /\ work.links = [db.links EXCEPT ![id] = UpTo(evs, m)]
        /\ work.events = db.events /\ work.incidents = db.incidents
        /\ work.reports = db.reports
        /\ k > 1 => UpTo(evs, m) \subseteq db.events /\ DistinctUpTo(evs, m)
    BY <1>2 DEF LinksProgress, WithLinks
  <2>5. work.links[id] = UpTo(evs, m) BY <2>4 DEF Tables
  <2>6. UpTo(evs, m) \subseteq db.events /\ DistinctUpTo(evs, m)
    <3>1. CASE k = 1 BY <3>1, UpToFacts
    <3>2. CASE k # 1 BY <2>1, <2>4, <3>2
    <3> QED BY <3>1, <3>2
  <2>7. /\ UpTo(evs, m + 1) = UpTo(evs, m) \cup {evs[k]}
        /\ DistinctUpTo(evs, m + 1)
    BY <2>1, <2>3, <2>5, <2>6, UpToFacts
  <2>8. /\ u \in Tables
        /\ u.links = [work.links EXCEPT ![id] = work.links[id] \cup {evs[k]}]
        /\ u.events = work.events /\ u.incidents = work.incidents
        /\ u.reports = work.reports
    BY <2>2, LinkEffect
  <2> HIDE DEF u, m
  <2>9. u.links = [db.links EXCEPT ![id] = UpTo(evs, m + 1)]
    BY <2>4, <2>5, <2>7, <2>8
  <2>10. LinksProgress(u, id, evs, k + 1)
    BY <2>1, <2>3, <2>4, <2>6, <2>7, <2>8, <2>9 DEF LinksProgress, WithLinks
  <2> QED BY <2>8, <2>10 DEF u
<1> QED BY <1>1, <1>2

(* The report, then the status.                                            *)
LEMMA ReportExec ==
  ASSUME db \in Tables, work \in Tables, commits \in Nat,
         NEW id \in Ids, NEW a \in Answers, NEW k \in Nat, k + 1 \in 1..2,
         ReportProgress(work, id, a, k),
         NEW stmt, stmt = SaveLLMReport(id, a)[k + 1], Allowed(work, stmt)
  PROVE  /\ Effect(work, stmt) \in Tables
         /\ ReportProgress(Effect(work, stmt), id, a, k + 1)
<1>1. CASE k = 0
  <2>1. stmt = UpsertReport(id, a) BY <1>1, ReportStmts
  <2>2. work.incidents[id] # NoRow BY <2>1 DEF Allowed, UpsertReport
  <2> QED BY <1>1, <2>1, <2>2, ReportEffect DEF ReportProgress
<1>2. CASE k = 1
  <2>1. stmt = MarkComplete(id) BY <1>2, ReportStmts
  <2>2. work.incidents[id] # NoRow BY <2>1 DEF Allowed, MarkComplete
  <2> QED BY SMTT(30), <1>2, <2>1, <2>2, CompleteEffect DEF ReportProgress
<1> QED BY <1>1, <1>2

(* The row, the events, the clearing and the links of                      *)
(* SaveIncidentWithEvents.                                                 *)
LEMMA WholeExec ==
  ASSUME db \in Tables, work \in Tables, commits \in Nat,
         NEW rec \in Records, NEW k \in Nat,
         k + 1 \in 1..Len(SaveIncidentWithEvents(rec)),
         WholeProgress(work, rec, k),
         NEW stmt, stmt = SaveIncidentWithEvents(rec)[k + 1],
         Allowed(work, stmt)
  PROVE  /\ Effect(work, stmt) \in Tables
         /\ WholeProgress(Effect(work, stmt), rec, k + 1)
<1> DEFINE evs == rec.events
           id == rec.id
           n == Len(evs)
           u == Effect(work, stmt)
<1>0. /\ evs \in Seq(Events) /\ id \in Ids /\ n \in Nat
      /\ k + 1 \in 1..n + n + 2
  BY WholeStmts
<1>a. WithRow(rec) \in [Ids -> {NoRow} \cup IncidentRows]
  <2>1. PendingRow(rec) \in IncidentRows BY PendingRowType
  <2> QED BY <2>1 DEF WithRow, Tables
<1>1. CASE k = 0
  <2>1. stmt = InsertIncident(rec) BY <1>1, WholeStmts
  <2>2. /\ u \in Tables /\ u.events = work.events
        /\ u.incidents = [work.incidents EXCEPT
                            ![Redacted[rec.id]] = PendingRow(rec)]
        /\ u.links = work.links /\ u.reports = work.reports
    BY <2>1, IncidentEffect
  <2>3. UpTo(evs, 0) = {} BY <1>0, UpToFacts
  <2>4. k + 1 # 0 /\ k <= n + 1 /\ k + 1 <= n + 1 /\ (k + 1) - 1 = 0
        /\ ~(k + 1 > n + 1) /\ ~(k + 1 > n + 2)
    BY <1>0, <1>1
  <2> HIDE DEF u
  <2>5. WholeProgress(u, rec, k + 1)
    BY <1>1, <2>2, <2>3, <2>4 DEF WholeProgress, WithRow
  <2> QED BY <2>2, <2>5 DEF u
<1>2. CASE k \in 1..n
  <2>1. stmt = InsertEvent(evs[k]) /\ evs[k] \in Events
    BY <1>0, <1>2, WholeStmts, ElementOfSeq
  <2>2. /\ u \in Tables /\ u.events = work.events \cup {evs[k]}
        /\ u.incidents = work.incidents /\ u.links = work.links
        /\ u.reports = work.reports
    BY <2>1, EventEffect
  <2>3. k - 1 \in Nat /\ (k - 1) + 1 = k /\ (k + 1) - 1 = k BY <1>2
  <2>4. UpTo(evs, k) = UpTo(evs, k - 1) \cup {evs[k]}
    BY <1>0, <2>3, UpToFacts
  <2>5. k # 0 /\ k + 1 # 0 /\ k <= n + 1 /\ k + 1 <= n + 1
        /\ ~(k + 1 > n + 1) /\ ~(k + 1 > n + 2)
    BY <1>0, <1>2
  <2> HIDE DEF u
  <2>6. WholeProgress(u, rec, k + 1)
    BY <2>2, <2>3, <2>4, <2>5 DEF WholeProgress
  <2> QED BY <2>2, <2>6 DEF u
<1>3. CASE k = n + 1
  <2>1. stmt = DeleteLinks(id) BY <1>0, <1>3, WholeStmts
  <2>2. /\ u \in Tables /\ u.links = [work.links EXCEPT ![id] = {}]
        /\ u.events = work.events /\ u.incidents = work.incidents
        /\ u.reports = work.reports
    <3> HIDE DEF id
    <3> QED BY SMTT(30), <1>0, <2>1, UnlinkEffect
  <2>3. /\ UpTo(evs, 0) = {} /\ DistinctUpTo(evs, 0)
        /\ UpTo(evs, n) = Range(evs)
    BY <1>0, UpToFacts
  <2>4. k # 0 /\ k + 1 # 0 /\ k <= n + 1 /\ ~(k + 1 <= n + 1) /\ k - 1 = n
        /\ (k + 1) - (n + 2) = 0 /\ ~(k + 1 > n + 2)
    BY <1>0, <1>3
  <2> HIDE DEF u
  <2>5. WholeProgress(u, rec, k + 1)
    BY <2>2, <2>3, <2>4 DEF WholeProgress, WithLinks
  <2> QED BY <2>2, <2>5 DEF u
<1>4. CASE k \in n + 2 .. n + n + 1
  <2> DEFINE m == k - (n + 2)
  <2>1. m \in Nat /\ m + 1 \in 1..n /\ n + 2 + (m + 1) = k + 1
        /\ (k + 1) - (n + 2) = m + 1
    <3> HIDE DEF n
    <3> QED BY <1>0, <1>4
  <2>2. stmt = InsertLink(id, evs[m + 1]) /\ evs[m + 1] \in Events
    BY <1>0, <2>1, WholeStmts, ElementOfSeq
  <2>3. work.incidents[id] # NoRow /\ evs[m + 1] \notin work.links[id]
    BY <2>2 DEF Allowed, InsertLink
  <2>4. k # 0 /\ k + 1 # 0 /\ ~(k <= n + 1) /\ ~(k + 1 <= n + 1) /\ k > n + 1
    BY <1>0, <1>4
  <2>5. /\ work.links = [db.links EXCEPT ![id] = UpTo(evs, m)]
        /\ work.incidents = WithRow(rec)
        /\ work.events = db.events \cup Range(evs)
        /\ work.reports = db.reports /\ DistinctUpTo(evs, m)
    BY <2>4 DEF WholeProgress, WithLinks
  <2>6. work.links[id] = UpTo(evs, m) BY <1>0, <2>5 DEF Tables
  <2>7. /\ UpTo(evs, m + 1) = UpTo(evs, m) \cup {evs[m + 1]}
        /\ DistinctUpTo(evs, m + 1)
    BY <1>0, <2>1, <2>3, <2>5, <2>6, UpToFacts
  <2>8. /\ u \in Tables
        /\ u.links = [work.links EXCEPT ![id] = work.links[id] \cup {evs[m + 1]}]
        /\ u.events = work.events /\ u.incidents = work.incidents
        /\ u.reports = work.reports
    BY <1>0, <2>2, LinkEffect
  <2> HIDE DEF u, m
  <2>9. u.links = [db.links EXCEPT ![id] = UpTo(evs, m + 1)]
    BY <2>5, <2>6, <2>7, <2>8
  <2>10. WholeProgress(u, rec, k + 1)
    BY <2>1, <2>3, <2>4, <2>5, <2>7, <2>8, <2>9 DEF WholeProgress, WithLinks
  <2> QED BY <2>8, <2>10 DEF u
<1> HIDE DEF n, u
<1>5. k = 0 \/ k \in 1..n \/ k = n + 1 \/ k \in n + 2 .. n + n + 1 BY <1>0
<1> QED BY <1>1, <1>2, <1>3, <1>4, <1>5 DEF u

-----------------------------------------------------------------------------
(* Transactions of writers and batches.                                    *)

(* What each kind of call consists of.                                     *)
LEMMA CallCases ==
  ASSUME NEW call \in Calls
  PROVE  \/ /\ call.op = "SaveEvents" /\ call.events \in Seq(Events)
            /\ Statements(call) = InsertEvents(call.events)
            /\ \A w, k : CallProgress(w, call, k)
                           = EventsProgress(w, call.events, k)
         \/ /\ call.op = "SaveIncident" /\ call.record \in Records
            /\ Statements(call) = <<InsertIncident(call.record)>>
            /\ \A w, k : CallProgress(w, call, k)
                           = IncidentProgress(w, call.record, k)
         \/ /\ call.op = "LinkIncidentEvents"
            /\ call.id \in Ids /\ call.events \in Seq(Events)
            /\ Statements(call) = ReplaceLinks(call.id, call.events)
            /\ \A w, k : CallProgress(w, call, k)
                           = LinksProgress(w, call.id, call.events, k)
         \/ /\ call.op = "SaveIncidentWithEvents" /\ call.record \in Records
            /\ Statements(call) = SaveIncidentWithEvents(call.record)
            /\ \A w, k : CallProgress(w, call, k)
                           = WholeProgress(w, call.record, k)
<1>1. CASE call.op = "SaveEvents"
  BY <1>1, CallsAssumption DEF Statements, CallProgress
<1>2. CASE call.op = "SaveIncident"
  BY <1>2, CallsAssumption DEF Statements, CallProgress
<1>3. CASE call.op = "LinkIncidentEvents"
  BY <1>3, CallsAssumption DEF Statements, CallProgress
<1>4. CASE call.op = "SaveIncidentWithEvents"
  BY <1>4, CallsAssumption DEF Statements, CallProgress
<1> QED BY <1>1, <1>2, <1>3, <1>4, CallsAssumption

(* A call begins with the committed tables and all of its statements.      *)
LEMMA CallBegin ==
  ASSUME db \in Tables, NEW call \in Calls
  PROVE  /\ Rest(Statements(call), Statements(call), 0)
         /\ CallProgress(db, call, 0)
<1>1. CASE call.op = "SaveEvents"
  <2>1. UpTo(call.events, 0) = {} BY <1>1, CallCases, UpToFacts
  <2>2. CallProgress(db, call, 0) = EventsProgress(db, call.events, 0)
        /\ Statements(call) \in Seq(Stmts)
    BY <1>1, CallCases, EventsStmts
  <2> QED BY <2>1, <2>2, RestBegin DEF EventsProgress
<1>2. CASE call.op = "SaveIncident"
  <2>1. CallProgress(db, call, 0) = IncidentProgress(db, call.record, 0)
        /\ Statements(call) \in Seq(Stmts)
    BY <1>2, CallCases, IncidentStmts
  <2> QED BY <2>1, RestBegin DEF IncidentProgress
<1>3. CASE call.op = "LinkIncidentEvents"
  <2> DEFINE id == call.id
             evs == call.events
  <2>1. /\ id \in Ids /\ evs \in Seq(Events)
        /\ Statements(call) = ReplaceLinks(id, evs)
        /\ CallProgress(db, call, 0) = LinksProgress(db, id, evs, 0)
    BY <1>3, CallCases
  <2> HIDE DEF id, evs
  <2>2. ReplaceLinks(id, evs) \in Seq(Stmts) BY <2>1, LinksStmts, Zenon
  <2>3. LinksProgress(db, id, evs, 0) BY DEF LinksProgress
  <2> QED BY <2>1, <2>2, <2>3, RestBegin
<1>4. CASE call.op = "SaveIncidentWithEvents"
  <2>1. /\ CallProgress(db, call, 0) = WholeProgress(db, call.record, 0)
        /\ Statements(call) \in Seq(Stmts) /\ Len(call.record.events) \in Nat
    BY <1>4, CallCases, WholeStmts
  <2>2. /\ 0 <= Len(call.record.events) + 1
        /\ ~(0 > Len(call.record.events) + 1)
        /\ ~(0 > Len(call.record.events) + 2)
    BY <2>1
  <2>3. WholeProgress(db, call.record, 0) BY <2>2 DEF WholeProgress
  <2> QED BY <2>1, <2>3, RestBegin
<1> QED BY <1>1, <1>2, <1>3, <1>4, CallCases

(* Each statement of a call takes it one step on.                          *)
LEMMA CallExec ==
  ASSUME db \in Tables, work \in Tables, commits \in Nat,
         NEW call \in Calls, NEW k \in Nat,
         Rest(todo, Statements(call), k), CallProgress(work, call, k),
         todo # <<>>, Allowed(work, Head(todo))
  PROVE  /\ Effect(work, Head(todo)) \in Tables
         /\ Rest(Tail(todo), Statements(call), k + 1)
         /\ CallProgress(Effect(work, Head(todo)), call, k + 1)
<1>1. /\ k + 1 \in 1..Len(Statements(call))
      /\ Head(todo) = Statements(call)[k + 1]
      /\ Rest(Tail(todo), Statements(call), k + 1)
  BY RestStep
<1> DEFINE stmt == Head(todo)
<1> HIDE DEF stmt
<1>2. stmt = Statements(call)[k + 1] /\ Allowed(work, stmt) BY <1>1 DEF stmt
<1>3. CASE call.op = "SaveEvents"
  <2>1. k + 1 \in 1..Len(call.events)
    BY <1>1, <1>3, CallCases, EventsStmts
  <2> QED BY <1>1, <1>2, <1>3, <2>1, CallCases, EventsExec DEF stmt
<1>4. CASE call.op = "SaveIncident"
  <2>1. k + 1 \in 1..1 BY <1>1, <1>4, CallCases, IncidentStmts
  <2> QED BY <1>1, <1>2, <1>4, <2>1, CallCases, IncidentExec DEF stmt
<1>5. CASE call.op = "LinkIncidentEvents"
  <2> DEFINE id == call.id
             evs == call.events
  <2>0. /\ id \in Ids /\ evs \in Seq(Events)
        /\ Statements(call) = ReplaceLinks(id, evs)
        /\ \A w, j : CallProgress(w, call, j) = LinksProgress(w, id, evs, j)
    BY <1>5, CallCases
  <2> HIDE DEF id, evs
  <2>1. Len(ReplaceLinks(id, evs)) = Len(evs) + 1 BY <2>0, LinksStmts
  <2>2. k + 1 \in 1..Len(evs) + 1 BY <1>1, <2>0, <2>1
  <2>3. stmt = ReplaceLinks(id, evs)[k + 1] BY <1>2, <2>0
  <2>4. LinksProgress(work, id, evs, k) BY <2>0
  <2>5. /\ Effect(work, stmt) \in Tables
        /\ LinksProgress(Effect(work, stmt), id, evs, k + 1)
    BY <1>2, <2>0, <2>2, <2>3, <2>4, LinksExec
  <2> QED BY <1>1, <2>0, <2>5 DEF stmt
<1>6. CASE call.op = "SaveIncidentWithEvents"
  <2>1. k + 1 \in 1..Len(SaveIncidentWithEvents(call.record))
    BY <1>1, <1>6, CallCases
  <2> QED BY <1>1, <1>2, <1>6, <2>1, CallCases, WholeExec DEF stmt
<1> QED BY <1>3, <1>4, <1>5, <1>6, CallCases

-----------------------------------------------------------------------------
(* The invariant of sessions and transactions.                             *)

BatchPC == {"list", "next", "answered", "save", "print", "nil", "err"}

Runs == [pc : BatchPC, entries : Seq(Ids), index : Nat,
         answer : {NoAnswer} \cup Answers, complete : Nat, failed : Nat,
         saved : SUBSET Ids]

(* A run has tried `index' of its entries, the last one perhaps not yet.   *)
RunAt(r) ==
  /\ r.index <= Len(r.entries)
  /\ r.pc = "list" => r.entries = <<>>
  /\ r.pc \in {"answered", "save", "print"} => r.index > 0
  /\ r.pc = "answered" => r.answer \in Answers

RunsInv ==
  /\ batch \in [Batches -> Runs]
  /\ \A b \in Batches : RunAt(batch[b])

LockInv ==
  /\ lock \in Writers \cup Batches \cup {Nobody}
  /\ \A b \in Batches : batch[b].pc = "save" <=> lock = b

TxInv ==
  /\ lock \in Writers => WriterTx
  /\ \A b \in Batches : lock = b => BatchTx(b)

TablesInv == db \in Tables /\ work \in Tables /\ commits \in Nat

StoreInv == TablesInv /\ RunsInv /\ LockInv /\ TxInv

(* The run a batch works on has an entry in hand.                          *)
LEMMA EntryType ==
  ASSUME RunsInv, NEW b \in Batches,
         batch[b].pc \in {"answered", "save", "print"}
  PROVE  Entry(b) \in Ids /\ batch[b].index \in 1..Len(batch[b].entries)
<1>1. /\ batch[b].entries \in Seq(Ids) /\ batch[b].index \in Nat
      /\ batch[b].index <= Len(batch[b].entries) /\ batch[b].index > 0
  BY DEF RunsInv, RunAt, Runs
<1>2. batch[b].index \in 1..Len(batch[b].entries) BY <1>1, LenProperties
<1> QED BY <1>1, <1>2, ElementOfSeq DEF Entry

(* The listing of pending incidents is a sequence of stored ids.           *)
LEMMA ListingType ==
  ASSUME NEW s \in ListTriageIncidents
  PROVE  /\ s \in Seq(Ids) /\ Len(s) \in Nat /\ Len(s) <= Limit
         /\ \A m, n \in 1..Len(s) : m # n => s[m] # s[n]
<1>1. PICK n \in 0..Limit : s \in [1..n -> Pending]
  BY DEF ListTriageIncidents
<1>0. Limit \in Nat BY StoreAssumption DEF StoreAssumption
<1>2. n \in Nat /\ n <= Limit BY <1>0
<1>3. s \in Seq(Ids) /\ Len(s) = n
  BY <1>1, <1>2 DEF Pending
<1>4. DOMAIN s = 1..n BY <1>1
<1>5. \A i, j \in 1..n : i < j => s[i] # s[j]
  BY <1>4 DEF ListTriageIncidents
<1>6. \A i, j \in 1..n : i # j => s[i] # s[j]
  <2> SUFFICES ASSUME NEW i \in 1..n, NEW j \in 1..n, i # j PROVE s[i] # s[j]
    OBVIOUS
  <2>1. i < j \/ j < i BY <1>2
  <2> QED BY <1>5, <2>1
<1> QED BY <1>2, <1>3, <1>6


(* A step of one run leaves the others alone.                              *)
LEMMA RunsFrame ==
  ASSUME RunsInv, NEW b \in Batches, NEW r \in Runs, RunAt(r),
         batch' = [batch EXCEPT ![b] = r]
  PROVE  RunsInv'
<1>1. batch' \in [Batches -> Runs] BY DEF RunsInv
<1>2. \A d \in Batches : batch'[d] = IF d = b THEN r ELSE batch[d]
  BY DEF RunsInv
<1>3. \A d \in Batches : RunAt(batch'[d]) BY <1>2 DEF RunsInv
<1> QED BY <1>1, <1>3 DEF RunsInv, RunAt

(* What a step of a run makes of it.                                       *)
LEMMA RunSteps ==
  ASSUME StoreInv, NEW b \in Batches, BatchNext(b)
  PROVE  \E r \in Runs :
           /\ batch' = [batch EXCEPT ![b] = r] /\ RunAt(r)
           /\ r.pc = "save" <=> BatchBegin(b)
           /\ batch[b].pc = "save" <=> BatchCommit(b) \/ BatchRollback(b)
<1> DEFINE old == batch[b]
           new == batch'[b]
<1>1. /\ batch \in [Batches -> Runs] /\ old \in Runs
      /\ RunAt(old) /\ commits \in Nat
      /\ lock = b <=> old.pc = "save"
  BY DEF StoreInv, RunsInv, TablesInv, LockInv
<1>2. /\ old.pc \in BatchPC /\ old.entries \in Seq(Ids) /\ old.index \in Nat
      /\ old.answer \in {NoAnswer} \cup Answers
      /\ old.complete \in Nat /\ old.failed \in Nat /\ old.saved \in SUBSET Ids
      /\ old.index <= Len(old.entries) /\ Len(old.entries) \in Nat
  BY <1>1, LenProperties DEF Runs, RunAt
<1>3. old.failed + 1 \in Nat /\ old.complete + 1 \in Nat
  BY <1>2, SMT
<1>4. SUFFICES /\ batch' = [batch EXCEPT ![b] = new]
               /\ new \in Runs /\ RunAt(new)
               /\ new.pc = "save" <=> BatchBegin(b)
               /\ old.pc = "save" <=> BatchCommit(b) \/ BatchRollback(b)
  OBVIOUS
<1>5. (BatchCommit(b) \/ BatchRollback(b)) => old.pc = "save"
  BY <1>1 DEF BatchCommit, BatchRollback, Commit, Rollback
<1>6. BatchBegin(b) => new.pc = "save"
  BY <1>1 DEF BatchBegin, Runs
<1> USE DEF BatchPC
<1>7. CASE BatchList(b)
  <2>1. PICK s \in ListTriageIncidents :
          batch' = [batch EXCEPT ![b].pc = "next", ![b].entries = s]
    BY <1>7 DEF BatchList
  <2>2. /\ new = [old EXCEPT !.pc = "next", !.entries = s]
        /\ batch' = [batch EXCEPT ![b] = new]
    BY <1>1, <2>1
  <2>3. s \in Seq(Ids) /\ Len(s) \in Nat BY ListingType
  <2>4. old.pc = "list" /\ old.entries = <<>> BY <1>1, <1>7 DEF BatchList, RunAt
  <2>5. old.index = 0 BY <1>2, <2>4, EmptySeq
  <2>6. /\ new \in Runs /\ new.pc = "next" /\ new.index = 0 /\ new.entries = s
    BY <1>1, <2>2, <2>3, <2>5 DEF Runs
  <2> HIDE DEF old, new
  <2> QED BY <1>5, <1>6, <2>2, <2>3, <2>4, <2>6 DEF RunAt
<1>8. CASE BatchGet(b)
  <2>1. PICK i \in Asked :
          batch' = [batch EXCEPT
                      ![b].pc = IF db.incidents[i] = NoRow THEN "err" ELSE "next",
                      ![b].entries = IF db.incidents[i] = NoRow THEN <<>>
                                     ELSE <<i>>]
    BY <1>8 DEF BatchGet
  <2> DEFINE p == IF db.incidents[i] = NoRow THEN "err" ELSE "next"
             s == IF db.incidents[i] = NoRow THEN <<>> ELSE <<i>>
  <2>2. /\ new = [old EXCEPT !.pc = p, !.entries = s]
        /\ batch' = [batch EXCEPT ![b] = new]
    BY <1>1, <2>1
  <2>3. i \in Ids BY StoreAssumption DEF StoreAssumption
  <2>4. s \in Seq(Ids) /\ Len(s) \in Nat /\ p \in {"err", "next"} BY <2>3
  <2>5. old.pc = "list" /\ old.entries = <<>> BY <1>1, <1>8 DEF BatchGet, RunAt
  <2>6. old.index = 0 BY <1>2, <2>5, EmptySeq
  <2> HIDE DEF p, s
  <2>7. /\ new \in Runs /\ new.pc = p /\ new.index = 0 /\ new.entries = s
    BY <1>1, <2>2, <2>4, <2>6 DEF Runs
  <2> HIDE DEF old, new
  <2> QED BY <1>5, <1>6, <2>2, <2>4, <2>5, <2>7 DEF RunAt
<1>9. CASE BatchAnalyze(b)
  <2>1. old.pc = "next" /\ old.index < Len(old.entries)
    BY <1>9 DEF BatchAnalyze
  <2>2. PICK a \in Replies :
          batch' = IF Analyzed(a)
                   THEN [batch EXCEPT ![b].pc = "answered", ![b].index = @ + 1,
                                      ![b].answer = a]
                   ELSE [batch EXCEPT ![b].failed = @ + 1, ![b].index = @ + 1]
    BY <1>9 DEF BatchAnalyze
  <2>3. old.index + 1 \in Nat /\ old.failed + 1 \in Nat
        /\ old.index + 1 <= Len(old.entries) /\ old.index + 1 > 0
    BY <1>2, <2>1
  <2>4. CASE Analyzed(a)
    <3>1. /\ new = [old EXCEPT !.pc = "answered", !.index = old.index + 1,
                               !.answer = a]
          /\ batch' = [batch EXCEPT ![b] = new]
      BY <1>1, <2>2, <2>4
    <3>2. a \in Answers BY <2>4 DEF Answers
    <3>3. /\ new \in Runs /\ new.pc = "answered" /\ new.answer = a
          /\ new.index = old.index + 1 /\ new.entries = old.entries
      BY <1>1, <2>3, <3>1, <3>2 DEF Runs
    <3> HIDE DEF old, new
    <3> QED BY <1>5, <1>6, <2>1, <2>3, <3>1, <3>2, <3>3 DEF RunAt
  <2>5. CASE ~Analyzed(a)
    <3>1. /\ new = [old EXCEPT !.failed = old.failed + 1,
                               !.index = old.index + 1]
          /\ batch' = [batch EXCEPT ![b] = new]
      BY <1>1, <2>2, <2>5
    <3>2. /\ new \in Runs /\ new.pc = "next"
          /\ new.index = old.index + 1 /\ new.entries = old.entries
      BY <1>1, <2>1, <2>3, <3>1 DEF Runs
    <3> HIDE DEF old, new
    <3> QED BY <1>5, <1>6, <2>1, <2>3, <3>1, <3>2 DEF RunAt
  <2> QED BY <2>4, <2>5
<1>10. CASE BatchBegin(b)
  <2>1. /\ new = [old EXCEPT !.pc = "save", !.answer = NoAnswer]
        /\ batch' = [batch EXCEPT ![b] = new] /\ old.pc = "answered"
    BY <1>1, <1>10 DEF BatchBegin
  <2>2. /\ new \in Runs /\ new.pc = "save"
        /\ new.index = old.index /\ new.entries = old.entries
    BY <1>1, <2>1 DEF Runs
  <2>3. old.index > 0 BY <1>1, <2>1 DEF RunAt
  <2> HIDE DEF old, new
  <2> QED BY <1>2, <1>5, <1>10, <2>1, <2>2, <2>3 DEF RunAt
<1>11. CASE BatchFailed(b)
  <2>1. /\ new = [old EXCEPT !.pc = "next", !.answer = NoAnswer,
                             !.failed = old.failed + 1]
        /\ batch' = [batch EXCEPT ![b] = new] /\ old.pc = "answered"
    BY <1>1, <1>11 DEF BatchFailed
  <2>2. /\ new \in Runs /\ new.pc = "next"
        /\ new.index = old.index /\ new.entries = old.entries
    BY <1>1, <1>3, <2>1 DEF Runs
  <2> HIDE DEF old, new
  <2> QED BY <1>2, <1>5, <1>6, <2>1, <2>2 DEF RunAt
<1>12. CASE BatchCommit(b)
  <2>1. /\ new = [old EXCEPT !.pc = "print",
                             !.saved = old.saved \cup {Entry(b)}]
        /\ batch' = [batch EXCEPT ![b] = new]
    BY <1>1, <1>12 DEF BatchCommit
  <2>2. old.pc = "save" BY <1>5, <1>12
  <2>3. Entry(b) \in Ids /\ old.index > 0
    BY <1>1, <2>2, EntryType DEF StoreInv, RunAt
  <2>4. old.saved \cup {Entry(b)} \in SUBSET Ids BY <1>2, <2>3
  <2>5. /\ new \in Runs /\ new.pc = "print"
        /\ new.index = old.index /\ new.entries = old.entries
    BY <1>1, <2>1, <2>3, <2>4 DEF Runs
  <2> HIDE DEF old, new
  <2> QED BY <1>2, <1>6, <1>12, <2>1, <2>2, <2>3, <2>5 DEF RunAt
<1>13. CASE BatchRollback(b)
  <2>1. /\ new = [old EXCEPT !.pc = "next", !.failed = old.failed + 1]
        /\ batch' = [batch EXCEPT ![b] = new]
    BY <1>1, <1>13 DEF BatchRollback
  <2>2. old.pc = "save" BY <1>5, <1>13
  <2>3. /\ new \in Runs /\ new.pc = "next"
        /\ new.index = old.index /\ new.entries = old.entries
    BY <1>1, <1>3, <2>1 DEF Runs
  <2> HIDE DEF old, new
  <2> QED BY <1>2, <1>6, <1>13, <2>1, <2>2, <2>3 DEF RunAt
<1>14. CASE BatchPrint(b)
  <2>1. /\ \/ new = [old EXCEPT !.pc = "next", !.complete = old.complete + 1]
           \/ new = [old EXCEPT !.pc = "next", !.failed = old.failed + 1]
        /\ batch' = [batch EXCEPT ![b] = new] /\ old.pc = "print"
    BY <1>1, <1>14 DEF BatchPrint
  <2>2. /\ new \in Runs /\ new.pc = "next"
        /\ new.index = old.index /\ new.entries = old.entries
    BY <1>1, <1>3, <2>1 DEF Runs
  <2> HIDE DEF old, new
  <2> QED BY <1>2, <1>5, <1>6, <2>1, <2>2 DEF RunAt
<1>15. CASE BatchReturn(b)
  <2>1. /\ \/ new = [old EXCEPT !.pc = "err"]
           \/ new = [old EXCEPT !.pc = "nil"]
        /\ batch' = [batch EXCEPT ![b] = new] /\ old.pc = "next"
    BY <1>1, <1>15 DEF BatchReturn
  <2>2. /\ new \in Runs /\ new.pc \in {"nil", "err"}
        /\ new.index = old.index /\ new.entries = old.entries
    BY <1>1, <2>1 DEF Runs
  <2> HIDE DEF old, new
  <2> QED BY <1>2, <1>5, <1>6, <2>1, <2>2 DEF RunAt
<1> QED BY <1>7, <1>8, <1>9, <1>10, <1>11, <1>12, <1>13, <1>14, <1>15
        DEF BatchNext

-----------------------------------------------------------------------------
(* Every step keeps the invariant.                                         *)

(* A call's progress is judged by the committed tables alone.              *)
LEMMA CallFrame ==
  ASSUME UNCHANGED <<db, commits>>, NEW CONSTANT call, NEW CONSTANT k,
         CallProgress(work', call, k)
  PROVE  CallProgress(work, call, k)'
  BY DEF CallProgress, EventsProgress, IncidentProgress, LinksProgress,
         WholeProgress, WithRow, WithLinks, PendingRow

(* So is that of a report.                                                 *)
LEMMA ReportFrame ==
  ASSUME UNCHANGED <<db, commits>>, NEW CONSTANT id, NEW CONSTANT a,
         NEW CONSTANT k, ReportProgress(work', id, a, k)
  PROVE  ReportProgress(work, id, a, k)'
  BY DEF ReportProgress, ReportRow

(* A transaction nobody works on stays as it is.                           *)
LEMMA WriterFrame ==
  ASSUME WriterTx, UNCHANGED <<db, commits, work, todo>>
  PROVE  WriterTx'
<1>1. PICK call \in Calls, k \in Nat :
        Rest(todo, Statements(call), k) /\ CallProgress(work, call, k)
  BY DEF WriterTx
<1>2. CallProgress(work', call, k) BY <1>1
<1>3. CallProgress(work, call, k)' BY <1>2, CallFrame
<1>4. Rest(todo, Statements(call), k)' BY <1>1
<1> QED BY <1>3, <1>4 DEF WriterTx

(* Also when another run of llm goes on.                                   *)
LEMMA BatchFrame ==
  ASSUME NEW b \in Batches, BatchTx(b), UNCHANGED <<db, commits, work, todo>>,
         batch'[b] = batch[b]
  PROVE  BatchTx(b)'
<1>1. PICK a \in Answers, k \in Nat :
        /\ Rest(todo, SaveLLMReport(Entry(b), a), k)
        /\ ReportProgress(work, Entry(b), a, k)
  BY DEF BatchTx
<1>2. Entry(b)' = Entry(b) BY DEF Entry
<1>3. PICK i : i = Entry(b) OBVIOUS
<1>4. ReportProgress(work', i, a, k) BY <1>1, <1>3
<1>5. ReportProgress(work, i, a, k)' BY <1>4, ReportFrame
<1>6. Rest(todo, SaveLLMReport(i, a), k)' BY <1>1, <1>3
<1>7. Entry(b)' = i BY <1>2, <1>3
<1> QED BY <1>5, <1>6, <1>7 DEF BatchTx

(* Executing a statement takes the open transaction one step on.           *)
LEMMA ExecStep ==
  ASSUME StoreInv, Exec
  PROVE  StoreInv'
<1>1. /\ lock # Nobody /\ todo # <<>> /\ Allowed(work, Head(todo))
      /\ work' = Effect(work, Head(todo)) /\ todo' = Tail(todo)
      /\ UNCHANGED <<db, commits, lock, batch>>
  BY DEF Exec
<1>2. /\ db \in Tables /\ work \in Tables /\ commits \in Nat
      /\ lock \in Writers \cup Batches
  BY <1>1 DEF StoreInv, TablesInv, LockInv
<1>3. Writers \cap Batches = {} BY StoreAssumption DEF StoreAssumption
<1>4. RunsInv' /\ LockInv'
  BY <1>1 DEF StoreInv, RunsInv, LockInv, RunAt
<1>5. CASE lock \in Writers
  <2>1. PICK call \in Calls, k \in Nat :
          Rest(todo, Statements(call), k) /\ CallProgress(work, call, k)
    BY <1>5 DEF StoreInv, TxInv, WriterTx
  <2>2. /\ work' \in Tables /\ Rest(todo', Statements(call), k + 1)
        /\ CallProgress(work', call, k + 1)
    BY <1>1, <1>2, <2>1, CallExec
  <2>3. PICK j : j = k + 1 OBVIOUS
  <2>4. CallProgress(work, call, j)' BY <1>1, <2>2, <2>3, CallFrame
  <2>5. Rest(todo, Statements(call), j)' /\ j \in Nat BY <2>2, <2>3
  <2>6. WriterTx' BY <2>4, <2>5 DEF WriterTx
  <2>7. TxInv' BY <1>1, <1>3, <1>5, <2>6 DEF TxInv
  <2> QED BY <1>1, <1>2, <1>4, <2>2, <2>7 DEF StoreInv, TablesInv
<1>6. CASE lock \in Batches
  <2>1. PICK b \in Batches : b = lock BY <1>6
  <2>2. PICK a \in Answers, k \in Nat :
          /\ Rest(todo, SaveLLMReport(Entry(b), a), k)
          /\ ReportProgress(work, Entry(b), a, k)
    BY <2>1 DEF StoreInv, TxInv, BatchTx
  <2>3. Entry(b) \in Ids
    BY <2>1, EntryType DEF StoreInv, LockInv
  <2>4. PICK id \in Ids : id = Entry(b) BY <2>3
  <2>5. Entry(b)' = id BY <1>1, <2>4 DEF Entry
  <2>6. /\ k + 1 \in 1..2 /\ Head(todo) = SaveLLMReport(id, a)[k + 1]
        /\ Rest(Tail(todo), SaveLLMReport(id, a), k + 1)
    BY <1>1, <2>2, <2>4, RestStep, ReportStmts
  <2>7. /\ work' \in Tables /\ ReportProgress(work', id, a, k + 1)
    BY <1>1, <1>2, <2>2, <2>4, <2>6, ReportExec
  <2>8. PICK j : j = k + 1 OBVIOUS
  <2>9. ReportProgress(work, id, a, j)' BY <1>1, <2>7, <2>8, ReportFrame
  <2>10. Rest(todo, SaveLLMReport(id, a), j)' /\ j \in Nat
    BY <1>1, <2>6, <2>8
  <2>11. BatchTx(b)' BY <2>5, <2>9, <2>10 DEF BatchTx
  <2>12. TxInv' BY <1>1, <1>3, <2>1, <2>11 DEF TxInv
  <2> QED BY <1>1, <1>2, <1>4, <2>7, <2>12 DEF StoreInv, TablesInv
<1> QED BY <1>2, <1>5, <1>6

(* A writer's transaction begins, commits or is rolled back.               *)
LEMMA WriterStep ==
  ASSUME StoreInv, NEW w \in Writers, WriterNext(w)
  PROVE  StoreInv'
<1>1. w \notin Batches /\ Nobody \notin Writers \cup Batches
  BY StoreAssumption DEF StoreAssumption
<1>2. db \in Tables /\ work \in Tables /\ commits \in Nat
  BY DEF StoreInv, TablesInv
<1>3. batch' = batch
  BY DEF WriterNext, WriterBegin, WriterCommit, WriterRollback
<1>4. RunsInv' BY <1>3 DEF StoreInv, RunsInv, RunAt
<1>5. CASE WriterBegin(w)
  <2>1. PICK call \in Calls : Begin(w, Statements(call))
    BY <1>5 DEF WriterBegin
  <2>2. /\ lock = Nobody /\ lock' = w /\ work' = db /\ todo' = Statements(call)
        /\ UNCHANGED <<db, commits>>
    BY <2>1 DEF Begin
  <2>3. /\ Rest(todo', Statements(call), 0) /\ CallProgress(work', call, 0)
    BY <1>2, <2>2, CallBegin
  <2>4. CallProgress(work, call, 0)' BY <2>2, <2>3, CallFrame
  <2>5. WriterTx' BY <2>3, <2>4 DEF WriterTx
  <2>6. LockInv' BY <1>1, <1>3, <2>2 DEF StoreInv, LockInv
  <2>7. TxInv' BY <1>1, <2>2, <2>5 DEF TxInv
  <2> QED BY <1>2, <1>4, <2>2, <2>6, <2>7 DEF StoreInv, TablesInv
<1>6. CASE WriterCommit(w) \/ WriterRollback(w)
  <2>1. /\ lock = w /\ lock' = Nobody
        /\ db' \in {db, work} /\ work' \in {db, work}
        /\ commits' \in {commits, commits + 1}
    BY <1>6 DEF WriterCommit, WriterRollback, Commit, Rollback
  <2>2. commits' \in Nat BY <1>2, <2>1
  <2>3. LockInv' BY <1>1, <1>3, <2>1 DEF StoreInv, LockInv
  <2>4. TxInv' BY <1>1, <2>1 DEF TxInv
  <2> QED BY <1>2, <1>4, <2>1, <2>2, <2>3, <2>4 DEF StoreInv, TablesInv
<1> QED BY <1>5, <1>6 DEF WriterNext

(* A run that does not save leaves the tables and the transaction alone.   *)
LEMMA BatchQuiet ==
  ASSUME NEW b \in Batches, BatchNext(b),
         ~(BatchBegin(b) \/ BatchCommit(b) \/ BatchRollback(b))
  PROVE  UNCHANGED <<db, commits, lock, work, todo>>
  BY DEF BatchNext, BatchList, BatchGet, BatchAnalyze, BatchFailed,
         BatchPrint, BatchReturn

(* An open transaction stays what it is while the others go on.            *)
LEMMA TxFrame ==
  ASSUME StoreInv, UNCHANGED <<db, commits, lock, work, todo>>,
         \A d \in Batches : lock = d => batch'[d] = batch[d]
  PROVE  TxInv'
<1>1. lock' \in Writers => WriterTx' BY WriterFrame DEF StoreInv, TxInv
<1>2. ASSUME NEW d \in Batches, lock' = d PROVE BatchTx(d)'
  BY <1>2, BatchFrame DEF StoreInv, TxInv
<1> QED BY <1>1, <1>2 DEF TxInv

(* A run of llm takes a step.                                              *)
LEMMA BatchStep ==
  ASSUME StoreInv, NEW b \in Batches, BatchNext(b)
  PROVE  StoreInv'
<1>1. b \notin Writers /\ Nobody \notin Writers \cup Batches
  BY StoreAssumption DEF StoreAssumption
<1>2. db \in Tables /\ work \in Tables /\ commits \in Nat
  BY DEF StoreInv, TablesInv
<1>3. PICK r \in Runs :
        /\ batch' = [batch EXCEPT ![b] = r] /\ RunAt(r)
        /\ r.pc = "save" <=> BatchBegin(b)
        /\ batch[b].pc = "save" <=> BatchCommit(b) \/ BatchRollback(b)
  BY RunSteps
<1>4. RunsInv' BY <1>3, RunsFrame DEF StoreInv
<1>5. /\ batch'[b] = r
      /\ \A d \in Batches : d # b => batch'[d] = batch[d]
  BY <1>3 DEF StoreInv, RunsInv
<1>6. \A d \in Batches : batch[d].pc = "save" <=> lock = d
  BY DEF StoreInv, LockInv
<1>7. CASE BatchBegin(b)
  <2>1. /\ batch[b].pc = "answered"
        /\ Begin(b, SaveLLMReport(Entry(b), batch[b].answer))
        /\ batch' = [batch EXCEPT ![b].pc = "save", ![b].answer = NoAnswer]
    BY <1>7 DEF BatchBegin
  <2>2. batch[b].answer \in Answers /\ Entry(b) \in Ids
    BY <2>1, EntryType DEF StoreInv, RunsInv, RunAt
  <2>3. PICK id \in Ids, a \in Answers :
          id = Entry(b) /\ a = batch[b].answer
    BY <2>2
  <2>4. Entry(b)' = id
    BY <2>1, <2>3 DEF Entry, StoreInv, RunsInv, Runs
  <2>5. /\ lock = Nobody /\ lock' = b /\ work' = db
        /\ todo' = SaveLLMReport(id, a) /\ UNCHANGED <<db, commits>>
    BY <2>1, <2>3 DEF Begin
  <2>6. Rest(todo', SaveLLMReport(id, a), 0) BY <2>5, ReportStmts, RestBegin
  <2>7. ReportProgress(work', id, a, 0) BY <2>5 DEF ReportProgress
  <2>8. ReportProgress(work, id, a, 0)' BY <2>5, <2>7, ReportFrame
  <2>9. BatchTx(b)' BY <2>4, <2>6, <2>8 DEF BatchTx
  <2>10. TxInv' BY <1>1, <2>5, <2>9 DEF TxInv
  <2>11. LockInv' BY <1>1, <1>3, <1>5, <1>6, <1>7, <2>5 DEF LockInv
  <2> QED BY <1>2, <1>4, <2>5, <2>10, <2>11 DEF StoreInv, TablesInv
<1>8. CASE BatchCommit(b) \/ BatchRollback(b)
  <2>1. /\ lock = b /\ lock' = Nobody
        /\ db' \in {db, work} /\ work' \in {db, work}
        /\ commits' \in {commits, commits + 1}
    BY <1>8 DEF BatchCommit, BatchRollback, Commit, Rollback
  <2>2. commits' \in Nat BY <1>2, <2>1
  <2>3. ~BatchBegin(b) BY <1>1, <2>1 DEF BatchBegin, Begin
  <2>4. LockInv' BY <1>1, <1>3, <1>5, <1>6, <2>1, <2>3 DEF LockInv
  <2>5. TxInv' BY <1>1, <2>1 DEF TxInv
  <2> QED BY <1>2, <1>4, <2>1, <2>2, <2>4, <2>5 DEF StoreInv, TablesInv
<1>9. CASE ~(BatchBegin(b) \/ BatchCommit(b) \/ BatchRollback(b))
  <2>1. UNCHANGED <<db, commits, lock, work, todo>> BY <1>9, BatchQuiet
  <2>2. lock # b BY <1>3, <1>6, <1>9
  <2>3. TxInv' BY <1>5, <2>1, <2>2, TxFrame
  <2>4. LockInv' BY <1>3, <1>5, <1>6, <1>9, <2>1, <2>2 DEF StoreInv, LockInv
  <2> QED BY <1>2, <1>4, <2>1, <2>3, <2>4 DEF StoreInv, TablesInv
<1> QED BY <1>7, <1>8, <1>9

(* A run of show changes nothing but itself.                               *)
LEMMA ShowQuiet ==
  ASSUME NEW r \in Readers, ShowNext(r)
  PROVE  UNCHANGED <<db, commits, lock, work, todo, calls, batch>>
  BY DEF ShowNext, ShowIncident, ShowEvidence, ShowReport, Show

(* So every step keeps the invariant of sessions and transactions.         *)
LEMMA StoreStep ==
  ASSUME StoreInv, [Next]_vars
  PROVE  StoreInv'
<1>1. CASE UNCHANGED <<db, commits, lock, work, todo, batch>>
  <2>1. TxInv' BY <1>1, TxFrame
  <2> QED BY <1>1, <2>1
          DEF StoreInv, TablesInv, RunsInv, RunAt, LockInv
<1>2. CASE UNCHANGED vars BY <1>1, <1>2 DEF vars
<1>3. ASSUME NEW r \in Readers, ShowNext(r)
      PROVE  UNCHANGED <<db, commits, lock, work, todo, batch>>
  BY <1>3, ShowQuiet
<1> QED BY <1>1, <1>2, <1>3, ExecStep, WriterStep, BatchStep DEF Next

(* The store is made ready.                                                *)
LEMMA StoreInit ==
  ASSUME Init
  PROVE  StoreInv
<1>1. /\ db = Promise!EmptyTables /\ work = db /\ commits = 0
      /\ lock = Nobody /\ batch = [b \in Batches |-> NewBatch]
  BY DEF Init
<1>2. Nobody \notin Writers \cup Batches
  BY StoreAssumption DEF StoreAssumption
<1>3. Promise!EmptyTables \in Tables
  BY DEF Promise!EmptyTables, Tables, NoRow, NoReport
<1>4. TablesInv BY <1>1, <1>3 DEF TablesInv
<1>5. NewBatch \in Runs /\ RunAt(NewBatch) /\ NewBatch.pc # "save"
  BY DEF NewBatch, Runs, RunAt, BatchPC
<1>6. RunsInv BY <1>1, <1>5 DEF RunsInv
<1>7. LockInv BY <1>1, <1>2, <1>5 DEF LockInv
<1>8. TxInv BY <1>1, <1>2 DEF TxInv
<1> QED BY <1>4, <1>6, <1>7, <1>8 DEF StoreInv

-----------------------------------------------------------------------------
(* A transaction that commits has the effect of its call, whole.           *)

(* The promise speaks of the same ranges.                                  *)
LEMMA PromiseRange == \A s : Promise!Range(s) = Range(s)
  BY DEF Promise!Range, Range

(* The first n members of a sequence of length n are distinct when it is.  *)
LEMMA PromiseDistinct ==
  ASSUME NEW s \in Seq(Events), DistinctUpTo(s, Len(s))
  PROVE  Promise!Distinct(s)
<1>1. DOMAIN s = 1..Len(s) OBVIOUS
<1> QED BY <1>1 DEF Promise!Distinct, DistinctUpTo

(* SaveEvents, when it commits.                                            *)
LEMMA CommitEvents ==
  ASSUME db \in Tables, work \in Tables, NEW evs \in Seq(Events),
         EventsProgress(work, evs, Len(evs)), db' = work
  PROVE  Promise!SaveEvents(evs)
<1>1. UpTo(evs, Len(evs)) = Promise!Range(evs) BY UpToFacts, PromiseRange
<1>2. work = [db EXCEPT !.events = @ \cup Promise!Range(evs)]
  BY <1>1 DEF Tables, EventsProgress
<1> QED BY <1>2 DEF Promise!SaveEvents

(* SaveIncident, when it commits.                                          *)
LEMMA CommitIncident ==
  ASSUME db \in Tables, work \in Tables, NEW rec \in Records,
         IncidentProgress(work, rec, 1), db' = work
  PROVE  Promise!SaveIncident(rec)
<1>1. Promise!PendingRow(rec) = PendingRow(rec)
  BY DEF Promise!PendingRow, PendingRow
<1>2. work = [db EXCEPT !.incidents[Redacted[rec.id]] = PendingRow(rec)]
  BY DEF Tables, IncidentProgress, WithRow
<1> QED BY <1>1, <1>2 DEF Promise!SaveIncident

(* LinkIncidentEvents, when it commits.                                    *)
LEMMA CommitLinks ==
  ASSUME db \in Tables, work \in Tables,
         NEW id \in Ids, NEW evs \in Seq(Events),
         LinksProgress(work, id, evs, Len(evs) + 1), db' = work
  PROVE  Promise!LinkIncidentEvents(id, evs)
<1> DEFINE n == Len(evs)
<1>1. n \in Nat /\ n + 1 # 0 /\ (n + 1) - 1 = n /\ (n # 0 => n + 1 > 1)
  BY LenProperties
<1>2. n = 0 => evs = <<>> BY EmptySeq
<1>3. /\ UpTo(evs, 0) = {} /\ DistinctUpTo(evs, 0)
      /\ UpTo(evs, n) = Promise!Range(evs)
  BY UpToFacts, PromiseRange
<1> HIDE DEF n
<1>4. LinksProgress(work, id, evs, n + 1) BY DEF n
<1>5. /\ work.links = [db.links EXCEPT ![id] = Promise!Range(evs)]
      /\ work.events = db.events /\ work.incidents = db.incidents
      /\ work.reports = db.reports
  BY <1>1, <1>3, <1>4 DEF LinksProgress, WithLinks
<1>6. /\ UpTo(evs, n) \subseteq db.events /\ DistinctUpTo(evs, n)
      /\ n # 0 => db.incidents[id] # NoRow
  <2>1. CASE n = 0 BY <2>1, <1>3
  <2>2. CASE n # 0 BY <2>2, <1>1, <1>4 DEF LinksProgress
  <2> QED BY <2>1, <2>2
<1>7. Promise!Distinct(evs) BY <1>6, PromiseDistinct DEF n
<1>8. evs # <<>> => Promise!Stored(id)
  BY <1>2, <1>6 DEF Promise!Stored, NoRow
<1>9. work = [db EXCEPT !.links[id] = Promise!Range(evs)]
  BY <1>5 DEF Tables
<1> QED BY <1>3, <1>6, <1>7, <1>8, <1>9 DEF Promise!LinkIncidentEvents

(* SaveIncidentWithEvents, when it commits.                                *)
LEMMA CommitWhole ==
  ASSUME db \in Tables, work \in Tables, NEW rec \in Records,
         WholeProgress(work, rec, Len(rec.events) + Len(rec.events) + 2),
         db' = work
  PROVE  Promise!SaveIncidentWithEvents(rec)
<1> DEFINE evs == rec.events
           id == rec.id
           n == Len(evs)
           k == n + n + 2
<1>0. evs \in Seq(Events) /\ id \in Ids /\ Redacted[id] \in Ids
  BY StoreAssumption DEF Records, StoreAssumption
<1>1. /\ n \in Nat /\ k # 0 /\ ~(k <= n + 1) /\ k > n + 1
      /\ k - (n + 2) = n /\ (n # 0 => k > n + 2)
  BY <1>0, LenProperties
<1>2. n = 0 => evs = <<>> BY <1>0, EmptySeq
<1>3. UpTo(evs, n) = Promise!Range(evs) /\ Promise!Range(evs) = Range(evs)
  BY <1>0, UpToFacts, PromiseRange
<1>4. WholeProgress(work, rec, k) OBVIOUS
<1> HIDE DEF k
<1>5. /\ work.incidents = WithRow(rec)
      /\ work.events = db.events \cup Range(evs)
      /\ work.links = WithLinks(id, evs, n) /\ work.reports = db.reports
      /\ DistinctUpTo(evs, n)
      /\ n # 0 => WithRow(rec)[id] # NoRow
  BY <1>1, <1>4 DEF WholeProgress
<1> HIDE DEF n
<1>6. Promise!Distinct(evs) BY <1>0, <1>5, PromiseDistinct DEF n
<1>7. \/ Redacted[id] = id \/ Promise!Stored(id) \/ evs = <<>>
  BY <1>0, <1>2, <1>5 DEF WithRow, Promise!Stored, NoRow, Tables
<1>8. Promise!PendingRow(rec) = PendingRow(rec)
  BY DEF Promise!PendingRow, PendingRow
<1>9. work = [db EXCEPT !.incidents[Redacted[id]] = PendingRow(rec),
                        !.events = @ \cup Promise!Range(evs),
                        !.links[id] = Promise!Range(evs)]
  BY <1>3, <1>5 DEF Tables, WithRow, WithLinks
<1> QED BY <1>6, <1>7, <1>8, <1>9 DEF Promise!SaveIncidentWithEvents

(* SaveLLMReport, when it commits.                                         *)
LEMMA CommitReport ==
  ASSUME db \in Tables, work \in Tables, NEW id \in Ids, NEW a \in Answers,
         ReportProgress(work, id, a, 2), db' = work
  PROVE  Promise!SaveLLMReport(id, a)
<1>1. db.incidents[id] # NoRow
      /\ work.reports = [db.reports EXCEPT ![id] = ReportRow(a)]
      /\ work.incidents = [db.incidents EXCEPT ![id] =
                             [db.incidents[id] EXCEPT !.status = "complete"]]
      /\ work.events = db.events /\ work.links = db.links
  BY DEF ReportProgress
<1>2. Promise!Stored(id) BY <1>1 DEF Promise!Stored, NoRow
<1>3. ReportRow(a) = [at |-> commits + 1, answer |-> a,
                      report |-> RedactedReport(a)]
  BY DEF ReportRow
<1>4. work = [db EXCEPT !.reports[id] = ReportRow(a),
                        !.incidents[id].status = "complete"]
  BY <1>1 DEF Tables
<1> QED BY <1>2, <1>3, <1>4 DEF Promise!SaveLLMReport

(* Whatever a writer commits is one call of the promise.                   *)
LEMMA WriterPromise ==
  ASSUME StoreInv, NEW w \in Writers, WriterCommit(w)
  PROVE  Promise!Next
<1>1. /\ lock = w /\ todo = <<>> /\ db' = work /\ commits' = commits + 1
      /\ db \in Tables /\ work \in Tables
  BY DEF WriterCommit, Commit, StoreInv, TablesInv
<1>2. PICK call \in Calls, k \in Nat :
        Rest(todo, Statements(call), k) /\ CallProgress(work, call, k)
  BY <1>1 DEF StoreInv, TxInv, WriterTx
<1>3. k = Len(Statements(call)) BY <1>1, <1>2, RestEnd
<1>4. \/ call.op = "SaveEvents" /\ Promise!SaveEvents(call.events)
      \/ call.op = "SaveIncident" /\ Promise!SaveIncident(call.record)
      \/ call.op = "LinkIncidentEvents"
           /\ Promise!LinkIncidentEvents(call.id, call.events)
      \/ call.op = "SaveIncidentWithEvents"
           /\ Promise!SaveIncidentWithEvents(call.record)
  <2>1. CASE call.op = "SaveEvents"
    <3> DEFINE evs == call.events
    <3>1. evs \in Seq(Events) /\ k = Len(evs) /\ EventsProgress(work, evs, k)
      BY <1>2, <1>3, <2>1, CallCases, EventsStmts
    <3> HIDE DEF evs
    <3>2. Promise!SaveEvents(evs) BY <1>1, <3>1, CommitEvents
    <3> QED BY <2>1, <3>2 DEF evs
  <2>2. CASE call.op = "SaveIncident"
    <3> DEFINE rec == call.record
    <3>1. rec \in Records /\ k = 1 /\ IncidentProgress(work, rec, k)
      BY <1>2, <1>3, <2>2, CallCases, IncidentStmts
    <3> HIDE DEF rec
    <3>2. Promise!SaveIncident(rec) BY <1>1, <3>1, CommitIncident
    <3> QED BY <2>2, <3>2 DEF rec
  <2>3. CASE call.op = "LinkIncidentEvents"
    <3> DEFINE evs == call.events
               id == call.id
    <3>1. /\ evs \in Seq(Events) /\ id \in Ids
          /\ Statements(call) = ReplaceLinks(id, evs)
          /\ LinksProgress(work, id, evs, k)
      BY <1>2, <2>3, CallCases
    <3> HIDE DEF evs, id
    <3>2. k = Len(evs) + 1 BY <1>3, <3>1, LinksStmts
    <3>3. Promise!LinkIncidentEvents(id, evs)
      BY <1>1, <3>1, <3>2, CommitLinks
    <3> QED BY <2>3, <3>3 DEF evs, id
  <2>4. CASE call.op = "SaveIncidentWithEvents"
    <3> DEFINE rec == call.record
    <3>1. rec \in Records /\ Statements(call) = SaveIncidentWithEvents(rec)
          /\ WholeProgress(work, rec, k)
      BY <1>2, <2>4, CallCases
    <3> HIDE DEF rec
    <3>2. k = Len(rec.events) + Len(rec.events) + 2
      BY <1>3, <3>1, WholeStmts
    <3>3. Promise!SaveIncidentWithEvents(rec)
      BY <1>1, <3>1, <3>2, CommitWhole
    <3> QED BY <2>4, <3>3 DEF rec
  <2> QED BY <2>1, <2>2, <2>3, <2>4, CallCases
<1> QED BY <1>1, <1>4 DEF Promise!Next

(* So is what a run of llm commits.                                        *)
LEMMA BatchPromise ==
  ASSUME StoreInv, NEW b \in Batches, BatchCommit(b)
  PROVE  /\ commits' = commits + 1
         /\ \E a \in Answers : Promise!SaveLLMReport(Entry(b), a)
         /\ Promise!Next
<1>1. /\ lock = b /\ todo = <<>> /\ db' = work /\ commits' = commits + 1
      /\ db \in Tables /\ work \in Tables
  BY DEF BatchCommit, Commit, StoreInv, TablesInv
<1>2. PICK a \in Answers, k \in Nat :
        /\ Rest(todo, SaveLLMReport(Entry(b), a), k)
        /\ ReportProgress(work, Entry(b), a, k)
  BY <1>1 DEF StoreInv, TxInv, BatchTx
<1>3. Entry(b) \in Ids BY <1>1, EntryType DEF StoreInv, LockInv
<1>4. k = 2 BY <1>1, <1>2, <1>3, RestEnd, ReportStmts
<1>5. Promise!SaveLLMReport(Entry(b), a)
  BY <1>1, <1>2, <1>3, <1>4, CommitReport
<1> QED BY <1>1, <1>3, <1>5 DEF Promise!Next

(* Every step of the store is a call taking effect, or leaves the          *)
(* committed tables as they are.                                           *)
LEMMA StepPromised ==
  ASSUME StoreInv, [Next]_vars
  PROVE  [Promise!Next]_<<db, commits>>
<1>1. CASE Exec BY <1>1 DEF Exec
<1>2. ASSUME NEW w \in Writers, WriterNext(w)
      PROVE  Promise!Next \/ UNCHANGED <<db, commits>>
  <2>1. CASE WriterCommit(w) BY <2>1, WriterPromise
  <2>2. CASE WriterBegin(w) \/ WriterRollback(w)
    BY <2>2 DEF WriterBegin, WriterRollback, Begin, Rollback
  <2> QED BY <1>2, <2>1, <2>2 DEF WriterNext
<1>3. ASSUME NEW b \in Batches, BatchNext(b)
      PROVE  Promise!Next \/ UNCHANGED <<db, commits>>
  <2>1. CASE BatchCommit(b) BY <2>1, BatchPromise
  <2>2. CASE BatchBegin(b) \/ BatchRollback(b)
    BY <2>2 DEF BatchBegin, BatchRollback, Begin, Rollback
  <2>3. CASE ~(BatchBegin(b) \/ BatchCommit(b) \/ BatchRollback(b))
    BY <1>3, <2>3, BatchQuiet
  <2> QED BY <2>1, <2>2, <2>3
<1>4. ASSUME NEW r \in Readers, ShowNext(r)
      PROVE  UNCHANGED <<db, commits>>
  BY <1>4, ShowQuiet
<1>5. CASE UNCHANGED vars BY <1>5 DEF vars
<1> QED BY <1>1, <1>2, <1>3, <1>4, <1>5 DEF Next

(* The sessions and transactions stay in order.                            *)
LEMMA StoreInvariant == Spec => []StoreInv
<1>1. Init => StoreInv BY StoreInit
<1>2. StoreInv /\ [Next]_vars => StoreInv' BY StoreStep
<1> QED BY <1>1, <1>2, PTL DEF Spec

(* Every call of internal/store is all or nothing: whatever the sessions   *)
(* of writers and of llm do between each other's statements, and whichever *)
(* statement fails, what is committed is whole calls in some order         *)
(* (SaveEvents, SaveIncidentWithEvents, SaveLLMReport and the others).     *)
THEOREM ImplementsEvidenceStoreCorrect == Spec => ImplementsEvidenceStore
<1>1. Init => Promise!Init BY DEF Init, Promise!Init
<1>2. StoreInv /\ [Next]_vars => [Promise!Next]_<<db, commits>>
  BY StepPromised
<1>3. Spec => []StoreInv BY StoreInvariant
<1> QED
  BY <1>1, <1>2, <1>3, PTL
  DEF Spec, ImplementsEvidenceStore, Promise!Spec, Promise!vars

-----------------------------------------------------------------------------
(* What the rows of the tables say.                                        *)

(* One call's effect on the rows of one incident.                          *)
Untouched(i) ==
  db'.incidents[i] = db.incidents[i] /\ db'.reports[i] = db.reports[i]

Resaved(i, rec) ==
  /\ Redacted[rec.id] = i /\ db'.incidents[i] = PendingRow(rec)
  /\ db'.reports[i] = db.reports[i]

Reported(i, a) ==
  /\ db.incidents[i] # NoRow
  /\ db'.incidents[i] = [db.incidents[i] EXCEPT !.status = "complete"]
  /\ db'.reports[i] = ReportRow(a)

(* SaveIncidentWithEvents as it touches one incident.                      *)
WholeSaved(i, rec) ==
  /\ Redacted[rec.id] = rec.id \/ db.incidents[rec.id] # NoRow
       \/ rec.events = <<>>
  /\ IF Redacted[rec.id] = i THEN Resaved(i, rec) ELSE Untouched(i)
  /\ db'.events = db.events \cup Range(rec.events)
  /\ db'.links[i] = IF rec.id = i THEN Range(rec.events) ELSE db.links[i]

(* What each call does to one incident.                                    *)
LEMMA PromiseCases ==
  ASSUME db \in Tables, Promise!Next, NEW i \in Ids
  PROVE  /\ commits' = commits + 1
         /\ \/ /\ Untouched(i) /\ db'.links[i] = db.links[i]
               /\ db.events \subseteq db'.events
            \/ \E call \in Calls :
                 /\ call.op = "SaveIncident" /\ call.record \in Records
                 /\ IF Redacted[call.record.id] = i
                    THEN Resaved(i, call.record) ELSE Untouched(i)
                 /\ db'.links[i] = db.links[i] /\ db'.events = db.events
            \/ \E call \in Calls :
                 /\ call.op = "LinkIncidentEvents" /\ call.id = i
                 /\ Untouched(i) /\ db'.links[i] \subseteq db.events
                 /\ db'.events = db.events
            \/ \E call \in Calls :
                 /\ call.op = "SaveIncidentWithEvents"
                 /\ call.record \in Records /\ WholeSaved(i, call.record)
            \/ \E a \in Answers :
                 /\ Reported(i, a) /\ db'.links[i] = db.links[i]
                 /\ db'.events = db.events
<1>1. commits' = commits + 1 BY DEF Promise!Next
<1>2. ASSUME NEW call \in Calls, call.op = "SaveEvents",
             Promise!SaveEvents(call.events)
      PROVE  /\ Untouched(i) /\ db'.links[i] = db.links[i]
             /\ db.events \subseteq db'.events
  BY <1>2 DEF Promise!SaveEvents, Untouched, Tables
<1>3. ASSUME NEW call \in Calls, call.op = "SaveIncident",
             Promise!SaveIncident(call.record)
      PROVE  /\ call.record \in Records
             /\ IF Redacted[call.record.id] = i
                THEN Resaved(i, call.record) ELSE Untouched(i)
             /\ db'.links[i] = db.links[i] /\ db'.events = db.events
  <2> DEFINE rec == call.record
  <2>1. rec \in Records BY <1>3, CallCases
  <2>2. db' = [db EXCEPT !.incidents[Redacted[rec.id]] = PendingRow(rec)]
    BY <1>3 DEF Promise!SaveIncident, Promise!PendingRow, PendingRow
  <2> HIDE DEF rec
  <2>3. /\ IF Redacted[rec.id] = i THEN Resaved(i, rec) ELSE Untouched(i)
        /\ db'.links[i] = db.links[i] /\ db'.events = db.events
    BY <2>1, <2>2, StoreAssumption
    DEF Resaved, Untouched, Tables, Records, StoreAssumption
  <2> QED BY <2>1, <2>3 DEF rec
<1>4. ASSUME NEW call \in Calls, call.op = "LinkIncidentEvents",
             Promise!LinkIncidentEvents(call.id, call.events)
      PROVE  /\ Untouched(i) /\ db'.events = db.events
             /\ IF call.id = i THEN db'.links[i] \subseteq db.events
                ELSE db'.links[i] = db.links[i]
  BY <1>4 DEF Promise!LinkIncidentEvents, Untouched, Tables
<1>5. ASSUME NEW call \in Calls, call.op = "SaveIncidentWithEvents",
             Promise!SaveIncidentWithEvents(call.record)
      PROVE  call.record \in Records /\ WholeSaved(i, call.record)
  <2> DEFINE rec == call.record
  <2>1. rec \in Records BY <1>5, CallCases
  <2>2. /\ db' = [db EXCEPT !.incidents[Redacted[rec.id]] = PendingRow(rec),
                            !.events = @ \cup Range(rec.events),
                            !.links[rec.id] = Range(rec.events)]
        /\ \/ Redacted[rec.id] = rec.id \/ db.incidents[rec.id] # NoRow
           \/ rec.events = <<>>
    BY <1>5, PromiseRange
    DEF Promise!SaveIncidentWithEvents, Promise!PendingRow, PendingRow,
        Promise!Stored, NoRow
  <2> HIDE DEF rec
  <2>3. WholeSaved(i, rec)
    BY <2>1, <2>2, StoreAssumption
    DEF WholeSaved, Resaved, Untouched, Tables, Records, StoreAssumption
  <2> QED BY <2>1, <2>3 DEF rec
<1>6. ASSUME NEW id \in Ids, NEW a \in Answers, Promise!SaveLLMReport(id, a)
      PROVE  /\ IF id = i THEN Reported(i, a) ELSE Untouched(i)
             /\ db'.links[i] = db.links[i] /\ db'.events = db.events
  <2>1. /\ db.incidents[id] # NoRow
        /\ db' = [db EXCEPT !.reports[id] = ReportRow(a),
                            !.incidents[id].status = "complete"]
    BY <1>6 DEF Promise!SaveLLMReport, Promise!Stored, NoRow, ReportRow
  <2> QED BY <2>1 DEF Reported, Untouched, Tables
<1>7. CASE \E call \in Calls : call.op = "SaveEvents"
                                 /\ Promise!SaveEvents(call.events)
  BY <1>1, <1>2, <1>7
<1>8. CASE \E call \in Calls : call.op = "SaveIncident"
                                 /\ Promise!SaveIncident(call.record)
  BY <1>1, <1>3, <1>8
<1>9. CASE \E call \in Calls :
             call.op = "LinkIncidentEvents"
               /\ Promise!LinkIncidentEvents(call.id, call.events)
  BY <1>1, <1>4, <1>9
<1>10. CASE \E call \in Calls :
              call.op = "SaveIncidentWithEvents"
                /\ Promise!SaveIncidentWithEvents(call.record)
  BY <1>1, <1>5, <1>10
<1>11. CASE \E id \in Ids, a \in Answers : Promise!SaveLLMReport(id, a)
  BY <1>1, <1>6, <1>11
<1> QED BY <1>7, <1>8, <1>9, <1>10, <1>11 DEF Promise!Next

(* So of each call one of three things comes to an incident's rows.        *)
LEMMA RowCases ==
  ASSUME db \in Tables, Promise!Next, NEW i \in Ids
  PROVE  /\ commits' = commits + 1
         /\ \/ Untouched(i)
            \/ \E rec \in Records : Resaved(i, rec)
            \/ \E a \in Answers : Reported(i, a)
  BY PromiseCases DEF WholeSaved

(* A row is stored under an id redaction leaves alone; it is complete      *)
(* exactly when the report is the younger one, and the report is the       *)
(* redacted answer.                                                        *)
RowAt(i) ==
  /\ db.incidents[i] # NoRow =>
       /\ Redacted[i] = i /\ db.incidents[i].at <= commits
       /\ db.incidents[i].status = "complete"
            <=> db.reports[i].at > db.incidents[i].at
  /\ db.reports[i] # NoReport =>
       /\ db.incidents[i] # NoRow /\ db.reports[i].at <= commits
       /\ db.reports[i].report = RedactedReport(db.reports[i].answer)

RowsInv == \A i \in Ids : RowAt(i)

(* A report's row, stored or not, has a time.                              *)
LEMMA RowTypes ==
  ASSUME db \in Tables, NEW i \in Ids
  PROVE  /\ db.reports[i].at \in Nat
         /\ db.reports[i].at > 0 <=> db.reports[i] # NoReport
         /\ db.reports[i] # NoReport => db.reports[i] \in ReportRows
         /\ db.incidents[i] # NoRow => /\ db.incidents[i] \in IncidentRows
                                       /\ db.incidents[i].at \in Nat \ {0}
<1>1. db.reports[i] \in {NoReport} \cup ReportRows
      /\ db.incidents[i] \in {NoRow} \cup IncidentRows
  BY DEF Tables
<1>2. NoReport.at = 0 BY DEF NoReport, Promise!NoReport
<1>3. db.reports[i] \in ReportRows => db.reports[i].at \in Nat \ {0}
  BY DEF ReportRows
<1>4. db.incidents[i] \in IncidentRows => db.incidents[i].at \in Nat \ {0}
  BY DEF IncidentRows
<1> QED BY <1>1, <1>2, <1>3, <1>4

(* A row that is saved or reported on.                                     *)
LEMMA RowStep ==
  ASSUME db \in Tables, db' \in Tables, commits \in Nat, Promise!Next,
         RowsInv, NEW i \in Ids
  PROVE  RowAt(i)'
<1> DEFINE row == db.incidents[i]
           rep == db.reports[i]
           now == commits
<1>1. /\ now' = now + 1 /\ now \in Nat /\ now' \in Nat
      /\ \/ Untouched(i)
         \/ \E rec \in Records : Resaved(i, rec)
         \/ \E a \in Answers : Reported(i, a)
  BY RowCases
<1>2. RowAt(i) BY DEF RowsInv
<1>3. /\ rep.at \in Nat /\ (rep.at > 0 <=> rep # NoReport)
      /\ row # NoRow => row \in IncidentRows /\ row.at \in Nat
  BY RowTypes
<1>4. now < now + 1 BY <1>1
<1>5. CASE Untouched(i)
  <2>1. \A n \in Nat : n <= now => n <= now' BY <1>1
  <2>2. row' = row /\ rep' = rep BY <1>5 DEF Untouched
  <2> QED BY <1>2, <1>3, <2>1, <2>2 DEF RowAt
<1>6. ASSUME NEW rec \in Records, Resaved(i, rec)
      PROVE  RowAt(i)'
  <2>1. /\ Redacted[rec.id] = i /\ row' = PendingRow(rec) /\ rep' = rep
    BY <1>6 DEF Resaved
  <2>2. Redacted[i] = i
    BY <2>1, StoreAssumption DEF Records, StoreAssumption
  <2>3. PendingRow(rec).at = now' /\ PendingRow(rec).status = "pending"
    BY <1>1 DEF PendingRow
  <2>4. rep.at <= now BY <1>1, <1>2, <1>3 DEF RowAt
  <2>5. ~(rep'.at > row'.at) /\ row'.at <= now' /\ rep'.at <= now'
    BY <1>1, <1>3, <2>1, <2>3, <2>4
  <2>6. row' # NoRow BY <1>1, <2>1, PendingRowType, NoRows
  <2>7. row'.status # "complete" BY <2>1, <2>3
  <2> QED BY <1>2, <2>1, <2>2, <2>5, <2>6, <2>7 DEF RowAt
<1>7. ASSUME NEW a \in Answers, Reported(i, a)
      PROVE  RowAt(i)'
  <2>1. /\ row # NoRow /\ row' = [row EXCEPT !.status = "complete"]
        /\ rep' = ReportRow(a)
    BY <1>7 DEF Reported
  <2>2. /\ row'.at = row.at /\ row'.status = "complete"
        /\ row' \in IncidentRows
    BY <1>3, <2>1 DEF IncidentRows
  <2>3. /\ rep'.at = now' /\ rep'.report = RedactedReport(rep'.answer)
    BY <1>1, <2>1 DEF ReportRow
  <2>4. Redacted[i] = i /\ row.at <= now BY <1>2, <2>1 DEF RowAt
  <2>5. rep'.at > row'.at /\ row'.at <= now' /\ rep'.at <= now'
    BY <1>1, <1>3, <2>1, <2>2, <2>3, <2>4
  <2>6. row' # NoRow BY <2>2, NoRows
  <2> QED BY <2>2, <2>3, <2>4, <2>5, <2>6 DEF RowAt
<1> QED BY <1>1, <1>5, <1>6, <1>7

(* The rows stay so.                                                       *)
LEMMA RowsInvariant == Spec => [](StoreInv /\ RowsInv)
<1>1. Init => StoreInv /\ RowsInv
  <2> SUFFICES ASSUME Init PROVE StoreInv /\ RowsInv OBVIOUS
  <2>1. db = Promise!EmptyTables BY DEF Init
  <2>2. \A i \in Ids : db.incidents[i] = NoRow /\ db.reports[i] = NoReport
    BY <2>1 DEF Promise!EmptyTables, NoRow, NoReport
  <2> QED BY <2>2, StoreInit DEF RowsInv, RowAt
<1>2. StoreInv /\ RowsInv /\ [Next]_vars => (StoreInv /\ RowsInv)'
  <2> SUFFICES ASSUME StoreInv, RowsInv, [Next]_vars PROVE StoreInv' /\ RowsInv'
    OBVIOUS
  <2>1. StoreInv' BY StoreStep
  <2>2. db \in Tables /\ db' \in Tables /\ commits \in Nat
    BY <2>1 DEF StoreInv, TablesInv
  <2>3. CASE Promise!Next
    <3>1. \A i \in Ids : RowAt(i)' BY <2>2, <2>3, RowStep
    <3> QED BY <2>1, <3>1 DEF RowsInv
  <2>4. CASE UNCHANGED <<db, commits>>
    BY <2>1, <2>4 DEF RowsInv, RowAt
  <2> QED BY <2>3, <2>4, StepPromised
<1> QED BY <1>1, <1>2, PTL DEF Spec

(* An incident is marked complete exactly when a report was stored since   *)
(* it was last saved (SaveLLMReport, upsertIncident).                      *)
THEOREM StatusMatchesReportCorrect == Spec => []StatusMatchesReport
<1>1. StoreInv /\ RowsInv => StatusMatchesReport
  <2> SUFFICES ASSUME StoreInv, RowsInv PROVE StatusMatchesReport OBVIOUS
  <2>1. \A i \in Ids : /\ db.reports[i].at > 0 <=> db.reports[i] # NoReport
                       /\ RowAt(i)
    BY RowTypes DEF StoreInv, TablesInv, RowsInv
  <2> QED BY <2>1 DEF StatusMatchesReport, RowAt
<1> QED BY <1>1, RowsInvariant, PTL

(* What is stored of an answer.                                            *)
LEMMA AnswerRedacted ==
  ASSUME NEW a \in Answers
  PROVE  /\ \A f \in Texts :
              /\ a.doc.fields[f].json = "string"
              /\ a.doc.fields[f].value # ""
              /\ RedactedReport(a).texts[f]
                   = RedactString(a.doc.fields[f].value)
         /\ \A f \in Lists :
              /\ a.doc.fields[f].json = "list"
              /\ RedactedReport(a).lists[f]
                   = Slice(RedactStrings(DecodedItems(a.doc.fields[f].value)))
              /\ \A n \in DOMAIN a.doc.fields[f].value :
                   a.doc.fields[f].value[n].json \in {"null", "string"}
         /\ a.doc.fields["risk_level"].value \in RiskLevels
<1> DEFINE said == a.doc.fields
           doc == Decoded(a.doc)
<1>1. Decodes(a.doc) /\ ValidateReport(doc) BY DEF Answers, Analyzed
<1>2. ASSUME NEW f \in Texts
      PROVE  /\ doc.texts[f] = IF said[f].json = "string" THEN said[f].value
                               ELSE ""
             /\ doc.texts[f] # ""
  BY <1>1 DEF Decoded, DecodedText, ValidateReport
<1>3. ASSUME NEW f \in Lists
      PROVE  /\ doc.lists[f] = IF said[f].json = "list"
                               THEN Slice(DecodedItems(said[f].value)) ELSE Nil
             /\ ~doc.lists[f].nil
  BY <1>1 DEF Decoded, ValidateReport
<1>4. doc.texts["risk_level"] \in RiskLevels BY <1>1 DEF ValidateReport
<1>5. \A t : t \in RiskLevels => RedactString(t) = t
  BY DEF RiskLevels, RedactString
<1>6. ASSUME NEW f \in Texts
      PROVE  RedactedReport(a).texts[f] = RedactString(doc.texts[f])
  <2>1. RedactedReport(a).texts[f]
          = IF f = "risk_level" THEN doc.texts[f] ELSE RedactString(doc.texts[f])
    BY DEF RedactedReport, RedactReport
  <2>2. RedactString(doc.texts["risk_level"]) = doc.texts["risk_level"]
    BY <1>4, <1>5
  <2> HIDE DEF doc
  <2> QED BY <2>1, <2>2
<1>7. ASSUME NEW f \in Lists
      PROVE  RedactedReport(a).lists[f]
               = Slice(RedactStrings(doc.lists[f].items))
  BY DEF RedactedReport, RedactReport
<1>8. ASSUME NEW f \in Lists
      PROVE  /\ said[f].json = "list"
             /\ doc.lists[f].items = DecodedItems(said[f].value)
             /\ \A n \in DOMAIN said[f].value :
                  said[f].value[n].json \in {"null", "string"}
  <2> DEFINE v == DecodedItems(said[f].value)
             is == said[f].json = "list"
             l == doc.lists[f]
  <2>1. l = (IF is THEN Slice(v) ELSE Nil) /\ ~l.nil BY <1>3
  <2>2. Slice(v).items = v BY DEF Slice
  <2>3. Nil.nil = TRUE BY DEF Nil
  <2> HIDE DEF l, is, v
  <2>4. is BY <2>1, <2>3
  <2>5. l = Slice(v) BY <2>1, <2>4
  <2>6. l.items = v BY <2>2, <2>5
  <2>7. is => \A n \in DOMAIN said[f].value :
                said[f].value[n].json \in {"null", "string"}
    BY <1>1 DEF Decodes, is
  <2> QED BY <2>4, <2>6, <2>7 DEF l, is, v
<1>9. ASSUME NEW f \in Texts
      PROVE  said[f].json = "string" /\ doc.texts[f] = said[f].value
  BY <1>2
<1>10. "risk_level" \in Texts BY DEF Texts
<1> HIDE DEF doc
<1>11. ASSUME NEW f \in Texts
       PROVE  /\ said[f].json = "string" /\ said[f].value # ""
              /\ RedactedReport(a).texts[f] = RedactString(said[f].value)
  <2>1. doc.texts[f] # "" BY <1>2
  <2> QED BY <1>6, <1>9, <2>1
<1>12. ASSUME NEW f \in Lists
       PROVE  /\ said[f].json = "list"
              /\ RedactedReport(a).lists[f]
                   = Slice(RedactStrings(DecodedItems(said[f].value)))
              /\ \A n \in DOMAIN said[f].value :
                   said[f].value[n].json \in {"null", "string"}
  <2>1. doc.lists[f].items = DecodedItems(said[f].value) BY <1>8
  <2>2. RedactedReport(a).lists[f] = Slice(RedactStrings(doc.lists[f].items)) BY <1>7
  <2> QED BY <1>8, <2>1, <2>2
<1>13. said["risk_level"].value \in RiskLevels
  <2>1. doc.texts["risk_level"] = said["risk_level"].value BY <1>9, <1>10
  <2> QED BY <1>4, <2>1
<1> QED BY <1>11, <1>12, <1>13

(* One item of a list and what is stored of it.                            *)
LEMMA ItemRedacted ==
  ASSUME NEW vs, NEW n \in DOMAIN vs, vs[n].json \in {"null", "string"}
  PROVE  LET stored == Slice(RedactStrings(DecodedItems(vs)))
         IN /\ ~stored.nil
            /\ DOMAIN stored.items = DOMAIN vs
            /\ \/ /\ vs[n].json = "string"
                  /\ stored.items[n] = RedactString(vs[n].value)
               \/ vs[n].json = "null" /\ stored.items[n] = ""
<1>1. /\ DOMAIN DecodedItems(vs) = DOMAIN vs
      /\ DecodedItems(vs)[n] = DecodedText(vs[n])
  BY DEF DecodedItems
<1>2. /\ DOMAIN RedactStrings(DecodedItems(vs)) = DOMAIN vs
      /\ RedactStrings(DecodedItems(vs))[n] = RedactString(DecodedText(vs[n]))
  BY <1>1 DEF RedactStrings
<1>3. RedactString("") = "" BY DEF RedactString
<1>4. vs[n].json = "null" => DecodedText(vs[n]) = "" BY DEF DecodedText
<1>5. vs[n].json = "string" => DecodedText(vs[n]) = vs[n].value BY DEF DecodedText
<1> QED BY <1>2, <1>3, <1>4, <1>5 DEF Slice

(* A stored report says what the model answered, secrets redacted, null    *)
(* items empty, and nothing else (decodeReport, llm.RedactReport,          *)
(* SaveLLMReport).                                                         *)
THEOREM AnswerStoredCorrect == Spec => []AnswerStored
<1>1. StoreInv /\ RowsInv => AnswerStored
  <2> SUFFICES ASSUME StoreInv, RowsInv,
                      NEW i \in Ids, db.reports[i] # NoReport
               PROVE  LET stored == db.reports[i].report
                          said == db.reports[i].answer.doc.fields
                      IN /\ \A f \in Texts :
                              /\ said[f].json = "string"
                              /\ stored.texts[f] = RedactString(said[f].value)
                         /\ \A f \in Lists :
                              /\ said[f].json = "list"
                              /\ ~stored.lists[f].nil
                              /\ DOMAIN stored.lists[f].items
                                   = DOMAIN said[f].value
                              /\ \A n \in DOMAIN said[f].value :
                                   LET item == said[f].value[n]
                                   IN \/ /\ item.json = "string"
                                         /\ stored.lists[f].items[n]
                                              = RedactString(item.value)
                                      \/ /\ item.json = "null"
                                         /\ stored.lists[f].items[n] = ""
    BY DEF AnswerStored
  <2> DEFINE stored == db.reports[i].report
             said == db.reports[i].answer.doc.fields
  <2>1. PICK a \in Answers : a = db.reports[i].answer
    BY RowTypes DEF StoreInv, TablesInv, ReportRows
  <2>2. db.reports[i].report = RedactedReport(a) BY <2>1 DEF RowsInv, RowAt
  <2>3. stored = RedactedReport(a) /\ said = a.doc.fields BY <2>1, <2>2
  <2> HIDE DEF stored, said
  <2>4. /\ \A f \in Texts : /\ said[f].json = "string"
                            /\ stored.texts[f] = RedactString(said[f].value)
        /\ \A f \in Lists :
             /\ said[f].json = "list"
             /\ stored.lists[f]
                  = Slice(RedactStrings(DecodedItems(said[f].value)))
             /\ \A n \in DOMAIN said[f].value :
                  said[f].value[n].json \in {"null", "string"}
    BY ZenonT(30), <2>3, AnswerRedacted
  <2>5. ASSUME NEW f \in Lists
        PROVE  ~stored.lists[f].nil
               /\ DOMAIN stored.lists[f].items = DOMAIN said[f].value
    <3>1. DOMAIN RedactStrings(DecodedItems(said[f].value))
            = DOMAIN said[f].value
      BY DEF RedactStrings, DecodedItems
    <3>2. PICK items : items = RedactStrings(DecodedItems(said[f].value)) OBVIOUS
    <3>3. stored.lists[f] = Slice(items) BY <2>4, <3>2
    <3>4. ~Slice(items).nil /\ Slice(items).items = items BY DEF Slice
    <3> QED BY <3>1, <3>2, <3>3, <3>4
  <2>6. ASSUME NEW f \in Lists, NEW n \in DOMAIN said[f].value
        PROVE  \/ /\ said[f].value[n].json = "string"
                  /\ stored.lists[f].items[n] = RedactString(said[f].value[n].value)
               \/ said[f].value[n].json = "null" /\ stored.lists[f].items[n] = ""
    <3>1. PICK vs : vs = said[f].value OBVIOUS
    <3>2. stored.lists[f] = Slice(RedactStrings(DecodedItems(vs))) BY <2>4, <3>1
    <3>3. n \in DOMAIN vs /\ vs[n].json \in {"null", "string"} BY <2>4, <2>6, <3>1
    <3>4. LET red == Slice(RedactStrings(DecodedItems(vs)))
          IN \/ vs[n].json = "string" /\ red.items[n] = RedactString(vs[n].value)
             \/ vs[n].json = "null" /\ red.items[n] = ""
      BY <3>3, ItemRedacted
    <3> QED BY <3>1, <3>2, <3>4
  <2> QED BY <2>4, <2>5, <2>6 DEF stored, said
<1> QED BY <1>1, RowsInvariant, PTL

-----------------------------------------------------------------------------
(* Evidence.                                                               *)

(* Links lead to stored events, and an incident that is only saved with    *)
(* its events is linked to those of the record it holds.                   *)
EvidenceAt(i) ==
  /\ db.links[i] \subseteq db.events
  /\ (db.incidents[i] # NoRow /\ i \notin Bare) =>
       db.links[i] = Range(db.incidents[i].record.events)

EvidenceInv == \A i \in Ids : EvidenceAt(i)

(* What the calls that may be bare concern is Bare.                        *)
LEMMA BareCalls ==
  ASSUME NEW call \in Calls
  PROVE  /\ call.op = "SaveIncident" => Redacted[call.record.id] \in Bare
         /\ call.op = "LinkIncidentEvents" => call.id \in Bare
  BY DEF Bare

(* Every call keeps it.                                                    *)
LEMMA EvidenceStep ==
  ASSUME db \in Tables, db' \in Tables, commits \in Nat, Promise!Next,
         RowsInv, EvidenceInv, NEW i \in Ids
  PROVE  EvidenceAt(i)'
<1> DEFINE row == db.incidents[i]
<1>1. EvidenceAt(i) /\ RowAt(i) BY DEF EvidenceInv, RowsInv
<1>2. CASE /\ Untouched(i) /\ db'.links[i] = db.links[i]
           /\ db.events \subseteq db'.events
  BY <1>1, <1>2 DEF EvidenceAt, Untouched
<1>3. ASSUME NEW call \in Calls, call.op = "SaveIncident",
             IF Redacted[call.record.id] = i
             THEN Resaved(i, call.record) ELSE Untouched(i),
             db'.links[i] = db.links[i], db'.events = db.events
      PROVE  EvidenceAt(i)'
  <2>1. CASE Redacted[call.record.id] = i
    <3>1. i \in Bare BY <1>3, <2>1, BareCalls
    <3> QED BY <1>1, <1>3, <3>1 DEF EvidenceAt
  <2>2. CASE Redacted[call.record.id] # i
    BY <1>1, <1>3, <2>2 DEF EvidenceAt, Untouched
  <2> QED BY <2>1, <2>2
<1>4. ASSUME NEW call \in Calls, call.op = "LinkIncidentEvents", call.id = i,
             db'.links[i] \subseteq db.events, db'.events = db.events
      PROVE  EvidenceAt(i)'
  <2>1. i \in Bare BY <1>4, BareCalls
  <2> QED BY <1>4, <2>1 DEF EvidenceAt
<1>5. ASSUME NEW call \in Calls, call.op = "SaveIncidentWithEvents",
             call.record \in Records, WholeSaved(i, call.record)
      PROVE  EvidenceAt(i)'
  <2> DEFINE rec == call.record
  <2>1. /\ rec \in Records
        /\ Redacted[rec.id] = rec.id \/ rec.events # <<>>
        /\ WholeSaved(i, rec)
    BY <1>5, EvidenceAssumption
  <2> HIDE DEF rec
  <2>2. rec.id \in Ids BY <2>1 DEF Records
  <2>3. Redacted[rec.id] = rec.id
    <3>1. RowAt(rec.id) BY <2>2 DEF RowsInv
    <3> QED BY <2>1, <3>1 DEF WholeSaved, RowAt
  <2>4. db'.events = db.events \cup Range(rec.events)
    BY <2>1 DEF WholeSaved
  <2>5. CASE rec.id = i
    <3>1. db'.links[i] = Range(rec.events) /\ Resaved(i, rec)
      BY <2>1, <2>3, <2>5 DEF WholeSaved
    <3>2. db'.incidents[i].record = rec
      BY <3>1 DEF Resaved, PendingRow
    <3> QED BY <2>4, <3>1, <3>2 DEF EvidenceAt
  <2>6. CASE rec.id # i
    <3>1. db'.links[i] = db.links[i] /\ Untouched(i)
      BY <2>1, <2>3, <2>6 DEF WholeSaved
    <3> QED BY <1>1, <2>4, <3>1 DEF EvidenceAt, Untouched
  <2> QED BY <2>5, <2>6
<1>6. ASSUME NEW a \in Answers, Reported(i, a),
             db'.links[i] = db.links[i], db'.events = db.events
      PROVE  EvidenceAt(i)'
  <2>1. row # NoRow /\ db'.incidents[i] = [row EXCEPT !.status = "complete"]
    BY <1>6 DEF Reported
  <2>2. db'.incidents[i].record = row.record
    BY <2>1, RowTypes DEF IncidentRows
  <2> QED BY <1>1, <1>6, <2>1, <2>2 DEF EvidenceAt
<1> QED BY <1>2, <1>3, <1>4, <1>5, <1>6, PromiseCases

(* And so does every step.                                                 *)
LEMMA EvidenceInvariant == Spec => [](StoreInv /\ RowsInv /\ EvidenceInv)
<1>1. Init => EvidenceInv
  <2> SUFFICES ASSUME Init PROVE EvidenceInv OBVIOUS
  <2>1. db = Promise!EmptyTables BY DEF Init
  <2>2. \A i \in Ids : db.incidents[i] = NoRow /\ db.links[i] = {}
    BY <2>1 DEF Promise!EmptyTables, NoRow
  <2> QED BY <2>2 DEF EvidenceInv, EvidenceAt
<1>2. /\ StoreInv /\ RowsInv /\ (StoreInv /\ RowsInv)' /\ EvidenceInv
      /\ [Next]_vars
      => EvidenceInv'
  <2> SUFFICES ASSUME StoreInv, RowsInv, StoreInv', EvidenceInv, [Next]_vars
               PROVE  EvidenceInv'
    OBVIOUS
  <2>1. db \in Tables /\ db' \in Tables /\ commits \in Nat
    BY DEF StoreInv, TablesInv
  <2>2. CASE Promise!Next
    <3>1. \A i \in Ids : EvidenceAt(i)' BY <2>1, <2>2, EvidenceStep
    <3> QED BY <3>1 DEF EvidenceInv
  <2>3. CASE UNCHANGED <<db, commits>>
    BY <2>3 DEF EvidenceInv, EvidenceAt
  <2> QED BY <2>2, <2>3, StepPromised
<1> QED BY <1>1, <1>2, RowsInvariant, PTL DEF Spec

(* As long as incidents are only saved with their events, as the commands  *)
(* do, an incident row is linked to exactly the evidence of the record it  *)
(* holds, all of it stored (SaveIncidentWithEvents, docs/HANDOFF.md:359).  *)
THEOREM EvidenceCompleteCorrect ==
  ASSUME Bare = {}
  PROVE  Spec => []EvidenceComplete
<1>1. EvidenceInv => EvidenceComplete
  BY DEF EvidenceInv, EvidenceAt, EvidenceComplete, ToSet, Range
<1> QED BY <1>1, EvidenceInvariant, PTL

-----------------------------------------------------------------------------
(* What show reads.                                                        *)

(* What a run of show has read agrees with what the tables hold now, or    *)
(* the incident has been saved anew since.                                 *)
Newer(s) == db.incidents[s.id].at > s.row.at

SameVersion(s) ==
  /\ db.incidents[s.id].at = s.row.at
  /\ db.incidents[s.id].record = s.row.record

ReadAt(s) ==
  /\ s.pc \in {"evidence", "report", "done"}
  /\ s.id \in Ids /\ s.row.at \in Nat
  /\ db.incidents[s.id] # NoRow
  /\ Newer(s) \/ SameVersion(s)
  /\ (s.pc # "done" /\ s.row.status = "complete") =>
       db.reports[s.id].at > s.row.at
  /\ (s.pc = "done" /\ s.row.status = "complete") =>
       s.report.at > s.row.at
  /\ (s.pc # "evidence" /\ s.id \notin Bare) =>
       s.evidence = Range(s.row.record.events) \/ Newer(s)

ShowAt(s) == (s.id = "" /\ s.pc \in {"incident", "err"}) \/ ReadAt(s)

Shows == [pc : {"incident", "evidence", "report", "done", "err"},
          id : Ids \cup {""}, row : {NoRow} \cup IncidentRows,
          evidence : SUBSET Events, report : {NoReport} \cup ReportRows]

ShowInv ==
  /\ shown \in [Readers -> Shows]
  /\ \A r \in Readers : ShowAt(shown[r])

(* Rows and reports only get younger, and a row of the same age holds the  *)
(* same record.                                                            *)
LEMMA RowsAge ==
  ASSUME db \in Tables, db' \in Tables, commits \in Nat, RowsInv,
         Promise!Next \/ UNCHANGED <<db, commits>>, NEW i \in Ids
  PROVE  /\ db'.reports[i].at >= db.reports[i].at
         /\ db.incidents[i] # NoRow =>
              /\ db'.incidents[i] # NoRow
              /\ \/ db'.incidents[i].at > db.incidents[i].at
                 \/ /\ db'.incidents[i].at = db.incidents[i].at
                    /\ db'.incidents[i].record = db.incidents[i].record
<1> DEFINE row == db.incidents[i]
           rep == db.reports[i]
<1>1. /\ rep.at \in Nat /\ rep.at <= commits
      /\ row # NoRow => row \in IncidentRows /\ row.at \in Nat
                          /\ row.at <= commits
  BY RowTypes DEF RowsInv, RowAt
<1>2. CASE db' = db BY <1>1, <1>2
<1>3. CASE Promise!Next
  <2>1. CASE Untouched(i) BY <1>1, <2>1 DEF Untouched
  <2>2. ASSUME NEW rec \in Records, Resaved(i, rec)
        PROVE  /\ rep'.at >= rep.at
               /\ row # NoRow => row' # NoRow /\ row'.at > row.at
    <3>1. row' = PendingRow(rec) /\ rep' = rep BY <2>2 DEF Resaved
    <3>2. row' # NoRow /\ row'.at = commits + 1
      BY <3>1, PendingRowType, NoRows DEF PendingRow
    <3> QED BY <1>1, <3>1, <3>2
  <2>3. ASSUME NEW a \in Answers, Reported(i, a)
        PROVE  /\ rep'.at >= rep.at
               /\ row' # NoRow /\ row'.at = row.at /\ row'.record = row.record
    <3>1. /\ row # NoRow /\ row' = [row EXCEPT !.status = "complete"]
          /\ rep' = ReportRow(a)
      BY <2>3 DEF Reported
    <3>2. rep'.at = commits + 1 BY <3>1 DEF ReportRow
    <3>3. /\ row' \in IncidentRows /\ row'.at = row.at
          /\ row'.record = row.record
      BY <1>1, <3>1 DEF IncidentRows
    <3> QED BY <1>1, <3>2, <3>3, NoRows
  <2> QED BY <1>3, <2>1, <2>2, <2>3, RowCases
<1> QED BY <1>2, <1>3

(* While other sessions go on, what was read stays right.                  *)
LEMMA ReadStays ==
  ASSUME db \in Tables, db' \in Tables, commits \in Nat, RowsInv,
         Promise!Next \/ UNCHANGED <<db, commits>>,
         NEW CONSTANT s, ReadAt(s)
  PROVE  ReadAt(s)'
<1> DEFINE i == s.id
           old == db.incidents[i]
           new == db'.incidents[i]
<1>1. /\ i \in Ids /\ old # NoRow /\ s.row.at \in Nat BY DEF ReadAt
<1>2. /\ db'.reports[i].at >= db.reports[i].at
      /\ new # NoRow
      /\ \/ new.at > old.at
         \/ new.at = old.at /\ new.record = old.record
  BY <1>1, RowsAge
<1>3. /\ old.at \in Nat /\ new.at \in Nat
      /\ db.reports[i].at \in Nat /\ db'.reports[i].at \in Nat
  <2>1. old.at \in Nat /\ db.reports[i].at \in Nat BY <1>1, RowTypes
  <2>2. db'.incidents[i] \in {NoRow} \cup IncidentRows
        /\ db'.reports[i] \in {NoReport} \cup ReportRows
    BY <1>1 DEF Tables
  <2>3. NoReport.at = 0 BY DEF NoReport, Promise!NoReport
  <2>4. new.at \in Nat BY <1>2, <2>2 DEF IncidentRows
  <2>5. db'.reports[i].at \in Nat BY <2>2, <2>3 DEF ReportRows
  <2> QED BY <2>1, <2>4, <2>5
<1>4. Newer(s) => Newer(s)'
  BY <1>1, <1>2, <1>3 DEF Newer
<1>5. SameVersion(s) => Newer(s)' \/ SameVersion(s)'
  BY <1>1, <1>2, <1>3 DEF Newer, SameVersion
<1>6. db.reports[i].at > s.row.at => db'.reports[i].at > s.row.at
  BY <1>1, <1>2, <1>3
<1> QED BY <1>1, <1>2, <1>4, <1>5, <1>6 DEF ReadAt

(* A report that is stored can be read.                                    *)
LEMMA StoredIsValid ==
  ASSUME NEW a \in Answers
  PROVE  ValidateReport(RedactedReport(a))
<1> DEFINE rep == RedactedReport(a)
           said == a.doc.fields
<1>1. /\ \A f \in Texts : /\ said[f].value # ""
                          /\ rep.texts[f] = RedactString(said[f].value)
      /\ \A f \in Lists :
           rep.lists[f] = Slice(RedactStrings(DecodedItems(said[f].value)))
      /\ said["risk_level"].value \in RiskLevels
  BY ZenonT(30), AnswerRedacted
<1> HIDE DEF rep, said
<1>2. \A t : t # "" => RedactString(t) # "" BY DEF RedactString
<1>3. \A t \in RiskLevels : RedactString(t) = t BY DEF RiskLevels, RedactString
<1>4. \A l : Slice(l).nil = FALSE BY DEF Slice
<1>5. "risk_level" \in Texts BY DEF Texts
<1>6. \A f \in Texts : rep.texts[f] # "" BY <1>1, <1>2
<1>7. \A f \in Lists : rep.lists[f].nil = FALSE BY <1>1, <1>4
<1>8. rep.texts["risk_level"] \in RiskLevels BY <1>1, <1>3, <1>5
<1> QED BY <1>6, <1>7, <1>8 DEF ValidateReport, rep

(* The reads of one run.                                                   *)
LEMMA ShowReads ==
  ASSUME db \in Tables, RowsInv, EvidenceInv, ShowInv,
         NEW r \in Readers, ShowNext(r)
  PROVE  \E s \in Shows : shown' = [shown EXCEPT ![r] = s] /\ ShowAt(s)
<1> DEFINE old == shown[r]
<1>1. old \in Shows /\ ShowAt(old) BY DEF ShowInv
<1>2. "" \notin Ids BY StoreAssumption DEF StoreAssumption
<1>3. CASE ShowIncident(r)
  <2>1. PICK i \in Ids :
          shown' = [shown EXCEPT ![r] =
                      IF db.incidents[i] = NoRow THEN [NewShow EXCEPT !.pc = "err"]
                      ELSE [NewShow EXCEPT !.pc = "evidence", !.id = i,
                                           !.row = db.incidents[i]]]
    BY <1>3 DEF ShowIncident, Show
  <2>2. CASE db.incidents[i] = NoRow
    <3> DEFINE s == [NewShow EXCEPT !.pc = "err"]
    <3>1. s \in Shows /\ s.id = "" /\ s.pc = "err" BY DEF Shows, NewShow
    <3>2. shown' = [shown EXCEPT ![r] = s] BY <2>1, <2>2
    <3> HIDE DEF s
    <3> QED BY <3>1, <3>2 DEF ShowAt
  <2>3. CASE db.incidents[i] # NoRow
    <3> DEFINE s == [NewShow EXCEPT !.pc = "evidence", !.id = i,
                                    !.row = db.incidents[i]]
    <3>1. /\ db.incidents[i] \in IncidentRows /\ db.incidents[i].at \in Nat
          /\ RowAt(i)
      BY <2>3, RowTypes DEF RowsInv
    <3>2. /\ s \in Shows /\ s.id = i /\ s.pc = "evidence"
          /\ s.row = db.incidents[i]
      BY <3>1 DEF Shows, NewShow
    <3>3. shown' = [shown EXCEPT ![r] = s] BY <2>1, <2>3
    <3> HIDE DEF s
    <3>4. s.row.status = "complete" => db.reports[i].at > s.row.at
      BY <2>3, <3>1, <3>2 DEF RowAt
    <3>5. ReadAt(s)
      BY <2>3, <3>1, <3>2, <3>4 DEF ReadAt, SameVersion
    <3> QED BY <3>2, <3>3, <3>5 DEF ShowAt
  <2> QED BY <2>2, <2>3
<1>4. CASE ShowEvidence(r)
  <2> DEFINE seen == db.links[old.id] \intersect db.events
             s == [old EXCEPT !.pc = "report", !.evidence = seen]
  <2>1. old.pc = "evidence" /\ shown' = [shown EXCEPT ![r] = s]
    BY <1>4 DEF ShowEvidence, Show
  <2>2. ReadAt(old) BY <1>1, <2>1 DEF ShowAt
  <2>3. old.id \in Ids /\ EvidenceAt(old.id) /\ db.incidents[old.id] # NoRow
        /\ (Newer(old) \/ SameVersion(old))
    BY <2>2 DEF ReadAt, EvidenceInv
  <2>4. seen = db.links[old.id] /\ seen \subseteq Events
    BY <2>3 DEF EvidenceAt, Tables
  <2> HIDE DEF seen
  <2>5. /\ s \in Shows /\ s.id = old.id /\ s.pc = "report" /\ s.row = old.row
        /\ s.evidence = seen
    BY <1>1, <2>4 DEF Shows
  <2>6. old.id \notin Bare => seen = Range(old.row.record.events) \/ Newer(old)
    BY <2>3, <2>4 DEF EvidenceAt, SameVersion
  <2> HIDE DEF s, old
  <2>7. ReadAt(s)
    BY <2>1, <2>2, <2>5, <2>6 DEF ReadAt, Newer, SameVersion
  <2> QED BY <2>1, <2>5, <2>7 DEF ShowAt
<1>5. CASE ShowReport(r)
  <2> DEFINE rep == db.reports[old.id]
             p == IF rep = NoReport \/ ValidateReport(rep.report)
                  THEN "done" ELSE "err"
             s == [old EXCEPT !.pc = p, !.report = rep]
  <2>1. old.pc = "report" /\ shown' = [shown EXCEPT ![r] = s]
    BY <1>5 DEF ShowReport, Show
  <2>2. ReadAt(old) BY <1>1, <2>1 DEF ShowAt
  <2>3. old.id \in Ids /\ RowAt(old.id) BY <2>2 DEF ReadAt, RowsInv
  <2>4. rep = NoReport \/ rep \in ReportRows BY <2>3, RowTypes
  <2>5. p = "done"
    <3>1. CASE rep = NoReport BY <3>1
    <3>2. CASE rep # NoReport
      <4>1. rep \in ReportRows BY <2>4, <3>2
      <4>2. PICK a \in Answers : rep.report = RedactedReport(a)
        BY <4>1 DEF ReportRows
      <4>3. ValidateReport(rep.report) BY <4>2, StoredIsValid
      <4> QED BY <4>3
    <3> QED BY <3>1, <3>2
  <2> HIDE DEF p, rep
  <2>6. /\ s \in Shows /\ s.id = old.id /\ s.pc = "done" /\ s.row = old.row
        /\ s.evidence = old.evidence /\ s.report = rep
    BY <1>1, <2>4, <2>5 DEF Shows
  <2> HIDE DEF s, old
  <2>7. ReadAt(s)
    BY <2>1, <2>2, <2>6 DEF ReadAt, Newer, SameVersion, rep
  <2> QED BY <2>1, <2>6, <2>7 DEF ShowAt
<1> QED BY <1>3, <1>4, <1>5 DEF ShowNext

(* Other sessions leave the runs of show to themselves.                    *)
LEMMA ShownFrame ==
  ASSUME [Next]_vars
  PROVE  shown' = shown \/ \E r \in Readers : ShowNext(r)
<1>1. CASE Exec BY <1>1 DEF Exec
<1>2. ASSUME NEW w \in Writers, WriterNext(w) PROVE shown' = shown
  BY <1>2 DEF WriterNext, WriterBegin, WriterCommit, WriterRollback
<1>3. ASSUME NEW b \in Batches, BatchNext(b) PROVE shown' = shown
  BY <1>3 DEF BatchNext, BatchList, BatchGet, BatchAnalyze, BatchBegin,
              BatchFailed, BatchCommit, BatchRollback, BatchPrint, BatchReturn
<1>4. CASE UNCHANGED vars BY <1>4 DEF vars
<1> QED BY <1>1, <1>2, <1>3, <1>4 DEF Next

(* Whatever step is taken, what show has read stays right.                 *)
LEMMA ShowStep ==
  ASSUME StoreInv, StoreInv', RowsInv, EvidenceInv, ShowInv, [Next]_vars
  PROVE  ShowInv'
<1>1. db \in Tables /\ db' \in Tables /\ commits \in Nat
  BY DEF StoreInv, TablesInv
<1>2. Promise!Next \/ UNCHANGED <<db, commits>> BY StepPromised
<1>3. ASSUME NEW r \in Readers, shown'[r] = shown[r]
      PROVE  ShowAt(shown[r])'
  <2>1. PICK s : s = shown[r] OBVIOUS
  <2>2. ShowAt(s) BY <2>1 DEF ShowInv
  <2>3. CASE ReadAt(s)
    <3>1. ReadAt(s)' BY <1>1, <1>2, <2>3, ReadStays
    <3>2. shown'[r] = s BY <1>3, <2>1
    <3>3. ShowAt(s)' BY <3>1 DEF ShowAt
    <3> QED BY <3>2, <3>3
  <2>4. CASE s.id = "" /\ s.pc \in {"incident", "err"}
    BY <1>3, <2>1, <2>4 DEF ShowAt
  <2> QED BY <2>2, <2>3, <2>4 DEF ShowAt
<1>4. CASE shown' = shown
  BY <1>3, <1>4 DEF ShowInv
<1>5. ASSUME NEW r \in Readers, ShowNext(r)
      PROVE  ShowInv'
  <2>1. PICK s \in Shows : shown' = [shown EXCEPT ![r] = s] /\ ShowAt(s)
    BY <1>1, <1>5, ShowReads
  <2>2. UNCHANGED <<db, commits>> BY <1>5, ShowQuiet
  <2>3. ShowAt(s)'
    BY <2>1, <2>2 DEF ShowAt, ReadAt, Newer, SameVersion
  <2>4. shown' \in [Readers -> Shows] /\ shown'[r] = s
        /\ \A q \in Readers : q # r => shown'[q] = shown[q]
    BY <2>1 DEF ShowInv
  <2>5. ShowAt(shown[r])' BY <2>3, <2>4
  <2> QED BY <1>3, <2>4, <2>5 DEF ShowInv
<1> QED BY <1>4, <1>5, ShownFrame

(* What show prints, though it reads three times while others write: an    *)
(* incident shown as complete comes with a younger report, other evidence  *)
(* than its own only when it was saved anew meanwhile (incidents that are  *)
(* saved or linked on their own aside), and what is stored can be read     *)
(* (runShow: GetIncident, ListIncidentEvents, GetLLMReport).               *)
THEOREM ShowCoherentCorrect == Spec => []ShowCoherent
<1>1. Init => ShowInv
  <2> SUFFICES ASSUME Init PROVE ShowInv OBVIOUS
  <2>1. shown = [r \in Readers |-> NewShow] BY DEF Init
  <2>2. NewShow \in Shows /\ NewShow.id = "" /\ NewShow.pc = "incident"
    BY DEF NewShow, Shows
  <2> QED BY <2>1, <2>2 DEF ShowInv, ShowAt
<1>2. /\ StoreInv /\ RowsInv /\ EvidenceInv
      /\ (StoreInv /\ RowsInv /\ EvidenceInv)' /\ ShowInv /\ [Next]_vars
      => ShowInv'
  BY ShowStep
<1>3. ShowInv => ShowCoherent
  <2> SUFFICES ASSUME ShowInv, NEW r \in Readers, shown[r].id # ""
               PROVE  /\ shown[r].pc # "err"
                      /\ (shown[r].pc = "done" /\ shown[r].row.status = "complete")
                           => shown[r].report.at > shown[r].row.at
                      /\ (shown[r].pc \in {"report", "done"}
                            /\ shown[r].id \notin Bare) =>
                           \/ shown[r].evidence = ToSet(shown[r].row.record.events)
                           \/ db.incidents[shown[r].id].at > shown[r].row.at
    BY DEF ShowCoherent
  <2>1. ReadAt(shown[r]) BY DEF ShowInv, ShowAt
  <2>2. \A f : ToSet(f) = Range(f) BY DEF ToSet, Range
  <2> QED BY <2>1, <2>2 DEF ReadAt, Newer
<1> QED BY <1>1, <1>2, <1>3, EvidenceInvariant, PTL DEF Spec

-----------------------------------------------------------------------------
(* The counts of a run of llm.                                             *)

(* How many entries a run is done with, and has in hand or to print.       *)
Tried(r) == IF r.pc \in {"answered", "save"} THEN r.index - 1 ELSE r.index
InHand(r) == IF r.pc \in {"answered", "save", "print"} THEN 1 ELSE 0
Printing(r) == IF r.pc = "print" THEN 1 ELSE 0

Listed(r) ==
  /\ Len(r.entries) <= Limit
  /\ \A m, n \in 1..Len(r.entries) : m # n => r.entries[m] # r.entries[n]

Counted(r) ==
  /\ r.complete + r.failed + InHand(r) = r.index
  /\ r.complete + Printing(r) <= Cardinality(r.saved)
  /\ r.pc \in {"nil", "err"} => r.index = Len(r.entries)
  /\ r.pc = "nil" => r.failed = 0

Kept(r) ==
  /\ IsFiniteSet(r.saved)
  /\ r.saved \subseteq UpTo(r.entries, Tried(r))
  /\ r.failed = 0 => r.saved = UpTo(r.entries, Tried(r))

AccountsAt(r) == Listed(r) /\ Counted(r) /\ Kept(r)

(* The first entries, one more of them, and all.                           *)
LEMMA UpToIds ==
  ASSUME NEW s \in Seq(Ids)
  PROVE  /\ UpTo(s, 0) = {} /\ UpTo(s, Len(s)) = ToSet(s)
         /\ \A m \in Nat : UpTo(s, m + 1) = UpTo(s, m) \cup {s[m + 1]}
<1>1. UpTo(s, 0) = {} BY DEF UpTo
<1>2. UpTo(s, Len(s)) = ToSet(s) BY DEF UpTo, ToSet
<1>3. ASSUME NEW m \in Nat
      PROVE  UpTo(s, m + 1) = UpTo(s, m) \cup {s[m + 1]}
  <2>1. 1..m + 1 = (1..m) \cup {m + 1} OBVIOUS
  <2> QED BY <2>1 DEF UpTo
<1> QED BY <1>1, <1>2, <1>3

(* A run that has its entries and has done nothing yet.                    *)
LEMMA FreshRun ==
  ASSUME NEW r \in Runs, Listed(r), r.index = 0, r.pc \in {"list", "next", "err"},
         r.complete = 0, r.failed = 0, r.saved = {},
         r.pc = "err" => Len(r.entries) = 0
  PROVE  AccountsAt(r)
<1>1. IsFiniteSet({}) /\ Cardinality({}) = 0 BY FS_EmptySet
<1>2. Tried(r) = 0 /\ InHand(r) = 0 /\ Printing(r) = 0
  BY DEF Tried, InHand, Printing
<1>3. UpTo(r.entries, 0) = {} BY UpToIds DEF Runs
<1>4. Counted(r) BY <1>1, <1>2 DEF Counted
<1>5. Kept(r) BY <1>1, <1>2, <1>3 DEF Kept
<1> QED BY <1>4, <1>5 DEF AccountsAt

(* An entry that is put aside as failed leaves what was saved as it is.    *)
LEMMA FailedRun ==
  ASSUME NEW old \in Runs, NEW new \in Runs, AccountsAt(old),
         new.entries = old.entries, new.saved = old.saved,
         new.complete = old.complete, new.failed = old.failed + 1,
         new.pc = "next",
         \/ old.pc = "next" /\ new.index = old.index + 1
         \/ /\ old.pc \in {"answered", "save"} /\ new.index = old.index
            /\ old.index > 0
         \/ old.pc = "print" /\ new.index = old.index
  PROVE  AccountsAt(new)
<1>1. /\ old.entries \in Seq(Ids) /\ old.index \in Nat /\ new.index \in Nat
      /\ old.complete \in Nat /\ old.failed \in Nat
  BY DEF Runs
<1>2. /\ old.complete + old.failed + InHand(old) = old.index
      /\ old.complete + Printing(old) <= Cardinality(old.saved)
      /\ IsFiniteSet(old.saved) /\ Cardinality(old.saved) \in Nat
      /\ old.saved \subseteq UpTo(old.entries, Tried(old))
  BY FS_CardinalityType DEF AccountsAt, Counted, Kept
<1>3. /\ new.index = old.index + 1 - InHand(old)
      /\ InHand(old) \in {0, 1} /\ Printing(old) \in {0, 1}
      /\ Tried(old) \in Nat
      /\ new.index = Tried(old) + 1 \/ new.index = Tried(old)
  BY <1>1 DEF InHand, Tried, Printing
<1>4. InHand(new) = 0 /\ Printing(new) = 0 /\ Tried(new) = new.index
  BY DEF InHand, Tried, Printing
<1>5. UpTo(old.entries, Tried(old)) \subseteq UpTo(old.entries, new.index)
  BY <1>1, <1>3, UpToIds
<1>6. new.failed # 0 BY <1>1
<1>7. Listed(new) BY DEF AccountsAt, Listed
<1>8. Kept(new) BY <1>2, <1>4, <1>5, <1>6 DEF Kept
<1>9. /\ new.complete + new.failed + 0 = new.index
      /\ new.complete + 0 <= Cardinality(new.saved)
  BY <1>1, <1>2, <1>3
<1>10. Counted(new) BY <1>4, <1>9 DEF Counted
<1> QED BY <1>7, <1>8, <1>10 DEF AccountsAt

(* A run that goes on with the same entries, counts and saves.             *)
LEMMA QuietRun ==
  ASSUME NEW old \in Runs, NEW new \in Runs, AccountsAt(old),
         new.entries = old.entries, new.saved = old.saved,
         new.complete = old.complete, new.failed = old.failed,
         \/ old.pc = "next" /\ new.pc = "answered" /\ new.index = old.index + 1
         \/ old.pc = "answered" /\ new.pc = "save" /\ new.index = old.index
         \/ /\ old.pc = "next" /\ new.pc \in {"nil", "err"}
            /\ new.index = old.index /\ old.index = Len(old.entries)
            /\ new.pc = "nil" => old.failed = 0
  PROVE  AccountsAt(new)
<1>1. /\ old.index \in Nat /\ old.complete \in Nat /\ old.failed \in Nat
  BY DEF Runs
<1>2. /\ Tried(new) = Tried(old) /\ Printing(new) = 0 /\ Printing(old) = 0
      /\ InHand(new) - new.index = InHand(old) - old.index
      /\ InHand(new) \in {0, 1} /\ InHand(old) \in {0, 1}
  BY <1>1 DEF Tried, Printing, InHand
<1>3. Listed(new) /\ Kept(new) BY <1>2 DEF AccountsAt, Listed, Kept
<1>4. old.complete + old.failed + InHand(old) = old.index
  BY DEF AccountsAt, Counted
<1>5. new.index \in Nat BY <1>1
<1>6. new.complete + new.failed + InHand(new) = new.index
  BY <1>1, <1>2, <1>4, <1>5
<1>7. Counted(new) BY <1>2, <1>6 DEF AccountsAt, Counted
<1> QED BY <1>3, <1>7 DEF AccountsAt

(* A report that is stored adds to what was saved.                         *)
LEMMA CommittedRun ==
  ASSUME NEW old \in Runs, NEW new \in Runs, AccountsAt(old),
         old.pc = "save", new.pc = "print", old.index > 0,
         old.index <= Len(old.entries),
         new.entries = old.entries, new.index = old.index,
         new.complete = old.complete, new.failed = old.failed,
         new.saved = old.saved \cup {old.entries[old.index]}
  PROVE  AccountsAt(new)
<1> DEFINE n == old.index
           e == old.entries[n]
<1>1. /\ old.entries \in Seq(Ids) /\ n \in Nat \ {0}
      /\ n - 1 \in Nat /\ (n - 1) + 1 = n /\ Len(old.entries) \in Nat
      /\ old.complete \in Nat /\ old.failed \in Nat
  BY LenProperties DEF Runs
<1>2. /\ Tried(old) = n - 1 /\ InHand(old) = 1 /\ Printing(old) = 0
      /\ Tried(new) = n /\ InHand(new) = 1 /\ Printing(new) = 1
  BY DEF Tried, InHand, Printing
<1>3. UpTo(old.entries, n) = UpTo(old.entries, n - 1) \cup {e}
  BY <1>1, UpToIds
<1>4. e \notin UpTo(old.entries, n - 1)
  <2>1. \A j \in 1..n - 1 : j \in 1..Len(old.entries) /\ j # n BY <1>1
  <2>2. n \in 1..Len(old.entries) BY <1>1
  <2>3. \A i, j \in 1..Len(old.entries) :
          i # j => old.entries[i] # old.entries[j]
    BY DEF AccountsAt, Listed
  <2> HIDE DEF n
  <2>4. \A j \in 1..n - 1 : old.entries[j] # e BY <2>1, <2>2, <2>3
  <2> QED BY <2>4 DEF UpTo
<1>5. /\ IsFiniteSet(old.saved) /\ old.saved \subseteq UpTo(old.entries, n - 1)
      /\ old.failed = 0 => old.saved = UpTo(old.entries, n - 1)
  BY <1>2 DEF AccountsAt, Kept
<1>6. /\ IsFiniteSet(new.saved)
      /\ Cardinality(new.saved) = Cardinality(old.saved) + 1
      /\ Cardinality(old.saved) \in Nat
  BY <1>4, <1>5, FS_AddElement, FS_CardinalityType
<1>7. Kept(new) BY <1>2, <1>3, <1>5, <1>6 DEF Kept
<1>8. /\ old.complete + old.failed + 1 = n
      /\ old.complete + 0 <= Cardinality(old.saved)
  BY <1>2 DEF AccountsAt, Counted
<1>9. old.complete + 1 <= Cardinality(new.saved) BY <1>1, <1>6, <1>8
<1>10. Counted(new) BY <1>2, <1>8, <1>9 DEF Counted
<1>11. Listed(new) BY DEF AccountsAt, Listed
<1> QED BY <1>7, <1>10, <1>11 DEF AccountsAt

(* An entry whose report is printed counts as complete.                    *)
LEMMA PrintedRun ==
  ASSUME NEW old \in Runs, NEW new \in Runs, AccountsAt(old),
         old.pc = "print", new.pc = "next",
         new.entries = old.entries, new.index = old.index,
         new.complete = old.complete + 1, new.failed = old.failed,
         new.saved = old.saved
  PROVE  AccountsAt(new)
<1>1. /\ old.index \in Nat /\ old.complete \in Nat /\ old.failed \in Nat
  BY DEF Runs
<1>2. /\ Tried(new) = Tried(old) /\ Printing(new) = 0 /\ Printing(old) = 1
      /\ InHand(new) = 0 /\ InHand(old) = 1
  BY DEF Tried, Printing, InHand
<1>3. Listed(new) /\ Kept(new) BY <1>2 DEF AccountsAt, Listed, Kept
<1>4. /\ old.complete + old.failed + 1 = old.index
      /\ old.complete + 1 <= Cardinality(old.saved)
  BY <1>2 DEF AccountsAt, Counted
<1>5. /\ (old.complete + 1) + old.failed + 0 = old.index
      /\ (old.complete + 1) + 0 <= Cardinality(old.saved)
  <2> DEFINE c == Cardinality(old.saved)
  <2>1. c \in Nat BY FS_CardinalityType DEF AccountsAt, Kept
  <2> HIDE DEF c
  <2>2. old.complete + 1 <= c BY <1>4 DEF c
  <2> QED BY <1>1, <1>4, <2>1, <2>2 DEF c
<1>6. Counted(new) BY <1>2, <1>5 DEF Counted
<1> QED BY <1>3, <1>6 DEF AccountsAt

(* A run that has not listed its incidents has done nothing.               *)
LEMMA UnlistedRun ==
  ASSUME NEW r \in Runs, RunAt(r), AccountsAt(r), r.pc = "list"
  PROVE  r.index = 0 /\ r.complete = 0 /\ r.failed = 0 /\ r.saved = {}
<1>1. /\ r.index \in Nat /\ r.complete \in Nat /\ r.failed \in Nat
      /\ r.entries = <<>> /\ r.index <= Len(r.entries)
  BY DEF Runs, RunAt
<1>2. r.index = 0 BY <1>1, EmptySeq
<1>3. InHand(r) = 0 /\ Tried(r) = 0 BY <1>2 DEF InHand, Tried
<1>4. r.complete + r.failed + 0 = 0
  BY <1>2, <1>3 DEF AccountsAt, Counted
<1>5. r.complete = 0 /\ r.failed = 0 BY <1>1, <1>4
<1>6. UpTo(r.entries, 0) = {} BY UpToIds DEF Runs
<1>7. r.saved = {} BY <1>3, <1>6 DEF AccountsAt, Kept
<1> QED BY <1>2, <1>5, <1>7

(* Every step of a run keeps its accounts.                                 *)
LEMMA AccountsStep ==
  ASSUME StoreInv, NEW b \in Batches, BatchNext(b), AccountsAt(batch[b])
  PROVE  AccountsAt(batch'[b])
<1> DEFINE old == batch[b]
           new == batch'[b]
<1>1. /\ batch \in [Batches -> Runs] /\ old \in Runs /\ RunAt(old)
      /\ AccountsAt(old)
  BY DEF StoreInv, RunsInv
<1>2. new \in Runs
  <2>1. PICK r \in Runs : batch' = [batch EXCEPT ![b] = r] BY RunSteps
  <2> QED BY <1>1, <2>1
<1>3. old.failed + 1 \in Nat /\ old.complete + 1 \in Nat /\ old.index \in Nat
  BY <1>1 DEF Runs
<1>4. CASE BatchList(b)
  <2>1. PICK s \in ListTriageIncidents :
          batch' = [batch EXCEPT ![b].pc = "next", ![b].entries = s]
    BY <1>4 DEF BatchList
  <2>2. new = [old EXCEPT !.pc = "next", !.entries = s] /\ old.pc = "list"
    BY <1>1, <1>4, <2>1 DEF BatchList
  <2>3. /\ new.pc = "next" /\ new.entries = s /\ new.index = old.index
        /\ new.complete = old.complete /\ new.failed = old.failed
        /\ new.saved = old.saved
    BY <1>1, <2>2 DEF Runs
  <2> HIDE DEF new, old
  <2>4. Listed(new) BY <2>3, ListingType DEF Listed
  <2> QED BY <1>1, <1>2, <2>2, <2>3, <2>4, FreshRun, UnlistedRun DEF new
<1>5. CASE BatchGet(b)
  <2>1. PICK i \in Asked :
          batch' = [batch EXCEPT
                      ![b].pc = IF db.incidents[i] = NoRow THEN "err" ELSE "next",
                      ![b].entries = IF db.incidents[i] = NoRow THEN <<>>
                                     ELSE <<i>>]
    BY <1>5 DEF BatchGet
  <2> DEFINE p == IF db.incidents[i] = NoRow THEN "err" ELSE "next"
             s == IF db.incidents[i] = NoRow THEN <<>> ELSE <<i>>
  <2>2. new = [old EXCEPT !.pc = p, !.entries = s] /\ old.pc = "list"
    BY <1>1, <1>5, <2>1 DEF BatchGet
  <2>3. /\ p \in {"next", "err"} /\ (p = "err" => Len(s) = 0)
        /\ Len(s) = 0 \/ Len(s) = 1
    OBVIOUS
  <2> HIDE DEF p, s
  <2>4. /\ new.pc = p /\ new.entries = s /\ new.index = old.index
        /\ new.complete = old.complete /\ new.failed = old.failed
        /\ new.saved = old.saved
    BY <1>1, <2>2 DEF Runs
  <2> DEFINE l == Len(s)
  <2> HIDE DEF l
  <2>5. l <= Limit
    <3>1. l = 0 \/ l = 1 BY <2>3 DEF l
    <3>2. Limit \in Nat \ {0} BY StoreAssumption DEF StoreAssumption
    <3> QED BY <3>1, <3>2, SMT
  <2>6. \A m, n \in 1..l : m = n
    <3>1. l = 0 \/ l = 1 BY <2>3 DEF l
    <3> QED BY <3>1
  <2> HIDE DEF new, old
  <2>7. Listed(new) BY <2>4, <2>5, <2>6 DEF Listed, l
  <2> QED BY <1>1, <1>2, <2>2, <2>3, <2>4, <2>7, FreshRun, UnlistedRun DEF new
<1>6. CASE BatchAnalyze(b)
  <2>1. PICK a \in Replies :
          batch' = IF Analyzed(a)
                   THEN [batch EXCEPT ![b].pc = "answered", ![b].index = @ + 1,
                                      ![b].answer = a]
                   ELSE [batch EXCEPT ![b].failed = @ + 1, ![b].index = @ + 1]
    BY <1>6 DEF BatchAnalyze
  <2>2. old.pc = "next" BY <1>6 DEF BatchAnalyze
  <2>3. CASE Analyzed(a)
    <3>1. new = [old EXCEPT !.pc = "answered", !.index = old.index + 1,
                            !.answer = a]
      BY <1>1, <2>1, <2>3
    <3>2. /\ new.pc = "answered" /\ new.entries = old.entries
          /\ new.index = old.index + 1 /\ new.saved = old.saved
          /\ new.complete = old.complete /\ new.failed = old.failed
      BY <1>1, <3>1 DEF Runs
    <3> HIDE DEF new, old
    <3> QED BY <1>1, <1>2, <2>2, <3>2, QuietRun DEF new
  <2>4. CASE ~Analyzed(a)
    <3>1. new = [old EXCEPT !.failed = old.failed + 1, !.index = old.index + 1]
      BY <1>1, <2>1, <2>4
    <3>2. /\ new.pc = "next" /\ new.entries = old.entries
          /\ new.index = old.index + 1 /\ new.saved = old.saved
          /\ new.complete = old.complete /\ new.failed = old.failed + 1
      BY <1>1, <2>2, <3>1 DEF Runs
    <3> HIDE DEF new, old
    <3> QED BY <1>1, <1>2, <2>2, <3>2, FailedRun DEF new
  <2> QED BY <2>3, <2>4
<1>7. CASE BatchBegin(b)
  <2>1. new = [old EXCEPT !.pc = "save", !.answer = NoAnswer]
        /\ old.pc = "answered"
    BY <1>1, <1>7 DEF BatchBegin
  <2>2. /\ new.pc = "save" /\ new.entries = old.entries
        /\ new.index = old.index /\ new.saved = old.saved
        /\ new.complete = old.complete /\ new.failed = old.failed
    BY <1>1, <2>1 DEF Runs
  <2> HIDE DEF new, old
  <2> QED BY <1>1, <1>2, <2>1, <2>2, QuietRun DEF new
<1>8. CASE BatchFailed(b)
  <2>1. new = [old EXCEPT !.pc = "next", !.answer = NoAnswer,
                          !.failed = old.failed + 1]
        /\ old.pc = "answered"
    BY <1>1, <1>8 DEF BatchFailed
  <2>2. /\ new.pc = "next" /\ new.entries = old.entries
        /\ new.index = old.index /\ new.saved = old.saved
        /\ new.complete = old.complete /\ new.failed = old.failed + 1
    BY <1>1, <2>1 DEF Runs
  <2> HIDE DEF new, old
  <2>3. old.index > 0 BY <1>1, <2>1 DEF RunAt
  <2> QED BY <1>1, <1>2, <2>1, <2>2, <2>3, FailedRun DEF new
<1>9. CASE BatchCommit(b)
  <2>1. /\ new = [old EXCEPT !.pc = "print", !.saved = old.saved \cup {Entry(b)}]
        /\ lock = b
    BY <1>1, <1>9 DEF BatchCommit, Commit
  <2>2. old.pc = "save" BY <2>1 DEF StoreInv, LockInv
  <2>3. /\ new.pc = "print" /\ new.entries = old.entries
        /\ new.index = old.index /\ new.saved = old.saved \cup {Entry(b)}
        /\ new.complete = old.complete /\ new.failed = old.failed
    BY <1>1, <2>1 DEF Runs
  <2>4. Entry(b) = old.entries[old.index] BY DEF Entry
  <2> HIDE DEF new, old
  <2>5. old.index > 0 /\ old.index <= Len(old.entries)
    BY <1>1, <2>2 DEF RunAt
  <2> QED BY <1>1, <1>2, <2>2, <2>3, <2>4, <2>5, CommittedRun DEF new
<1>10. CASE BatchRollback(b)
  <2>1. /\ new = [old EXCEPT !.pc = "next", !.failed = old.failed + 1]
        /\ lock = b
    BY <1>1, <1>10 DEF BatchRollback, Rollback
  <2>2. old.pc = "save" BY <2>1 DEF StoreInv, LockInv
  <2>3. /\ new.pc = "next" /\ new.entries = old.entries
        /\ new.index = old.index /\ new.saved = old.saved
        /\ new.complete = old.complete /\ new.failed = old.failed + 1
    BY <1>1, <2>1 DEF Runs
  <2> HIDE DEF new, old
  <2>4. old.index > 0 BY <1>1, <2>2 DEF RunAt
  <2> QED BY <1>1, <1>2, <2>2, <2>3, <2>4, FailedRun DEF new
<1>11. CASE BatchPrint(b)
  <2>1. /\ \/ new = [old EXCEPT !.pc = "next", !.complete = old.complete + 1]
           \/ new = [old EXCEPT !.pc = "next", !.failed = old.failed + 1]
        /\ old.pc = "print"
    BY <1>1, <1>11 DEF BatchPrint
  <2>2. /\ new.pc = "next" /\ new.entries = old.entries
        /\ new.index = old.index /\ new.saved = old.saved
        /\ \/ new.complete = old.complete + 1 /\ new.failed = old.failed
           \/ new.complete = old.complete /\ new.failed = old.failed + 1
    BY <1>1, <2>1 DEF Runs
  <2> HIDE DEF new, old
  <2> QED BY <1>1, <1>2, <2>1, <2>2, PrintedRun, FailedRun DEF new
<1>12. CASE BatchReturn(b)
  <2>1. /\ new = [old EXCEPT !.pc = IF old.failed > 0 THEN "err" ELSE "nil"]
        /\ old.pc = "next" /\ old.index = Len(old.entries)
    BY <1>1, <1>12 DEF BatchReturn
  <2>2. /\ new.pc = IF old.failed > 0 THEN "err" ELSE "nil"
        /\ new.entries = old.entries
        /\ new.index = old.index /\ new.saved = old.saved
        /\ new.complete = old.complete /\ new.failed = old.failed
    BY <1>1, <2>1 DEF Runs
  <2>3. new.pc \in {"nil", "err"} /\ (new.pc = "nil" => old.failed = 0)
    BY <1>1, <2>2 DEF Runs
  <2> HIDE DEF new, old
  <2> QED BY <1>1, <1>2, <2>1, <2>2, <2>3, QuietRun DEF new
<1> QED BY <1>4, <1>5, <1>6, <1>7, <1>8, <1>9, <1>10, <1>11, <1>12
        DEF BatchNext

(* Runs of llm account for themselves, and what they saved has a report.   *)
AccountsInv ==
  \A b \in Batches :
    /\ AccountsAt(batch[b])
    /\ \A i \in batch[b].saved : db.reports[i].at > 0

(* Other sessions leave a run of llm to itself.                            *)
LEMMA BatchesFrame ==
  ASSUME [Next]_vars
  PROVE  batch' = batch \/ \E b \in Batches : BatchNext(b)
<1>1. CASE Exec BY <1>1 DEF Exec
<1>2. ASSUME NEW w \in Writers, WriterNext(w) PROVE batch' = batch
  BY <1>2 DEF WriterNext, WriterBegin, WriterCommit, WriterRollback
<1>3. ASSUME NEW r \in Readers, ShowNext(r) PROVE batch' = batch
  BY <1>3, ShowQuiet
<1>4. CASE UNCHANGED vars BY <1>4 DEF vars
<1> QED BY <1>1, <1>2, <1>3, <1>4 DEF Next

(* What a run saves beyond what it had saved is the entry it commits.      *)
LEMMA SavedGrows ==
  ASSUME StoreInv, NEW b \in Batches, BatchNext(b)
  PROVE  /\ batch[b].saved \subseteq Ids
         /\ IF BatchCommit(b)
            THEN batch'[b].saved = batch[b].saved \cup {Entry(b)}
            ELSE batch'[b].saved = batch[b].saved
<1>1. batch \in [Batches -> Runs] /\ batch[b] \in Runs
  BY DEF StoreInv, RunsInv
<1>2. CASE BatchCommit(b) BY <1>1, <1>2 DEF BatchCommit, Runs
<1>3. CASE ~BatchCommit(b)
  <2>1. CASE BatchList(b) BY <1>1, <1>3, <2>1 DEF BatchList, Runs
  <2>2. CASE BatchGet(b) BY <1>1, <1>3, <2>2 DEF BatchGet, Runs
  <2>3. CASE BatchAnalyze(b) BY <1>1, <1>3, <2>3 DEF BatchAnalyze, Runs
  <2>4. CASE BatchBegin(b) BY <1>1, <1>3, <2>4 DEF BatchBegin, Runs
  <2>5. CASE BatchFailed(b) BY <1>1, <1>3, <2>5 DEF BatchFailed, Runs
  <2>6. CASE BatchRollback(b) BY <1>1, <1>3, <2>6 DEF BatchRollback, Runs
  <2>7. CASE BatchPrint(b) BY <1>1, <1>3, <2>7 DEF BatchPrint, Runs
  <2>8. CASE BatchReturn(b) BY <1>1, <1>3, <2>8 DEF BatchReturn, Runs
  <2> QED BY <1>3, <2>1, <2>2, <2>3, <2>4, <2>5, <2>6, <2>7, <2>8
          DEF BatchNext
<1> QED BY <1>2, <1>3

(* Every step keeps the accounts of every run.                             *)
LEMMA AllAccountsStep ==
  ASSUME StoreInv, StoreInv', RowsInv, AccountsInv, [Next]_vars
  PROVE  AccountsInv'
<1>1. /\ db \in Tables /\ db' \in Tables /\ commits \in Nat
      /\ batch \in [Batches -> Runs]
  BY DEF StoreInv, TablesInv, RunsInv
<1>2. Promise!Next \/ UNCHANGED <<db, commits>> BY StepPromised
<1>3. ASSUME NEW i \in Ids, db.reports[i].at > 0
      PROVE  db'.reports[i].at > 0
  <2>1. db'.reports[i].at >= db.reports[i].at BY <1>1, <1>2, RowsAge
  <2>2. db.reports[i].at \in Nat BY <1>1, RowTypes
  <2>3. db'.reports[i].at \in Nat
    <3>1. db'.reports[i] \in {NoReport} \cup ReportRows BY <1>1 DEF Tables
    <3>2. NoReport.at = 0 BY DEF NoReport, Promise!NoReport
    <3> QED BY <3>1, <3>2 DEF ReportRows
  <2> QED BY <1>3, <2>1, <2>2, <2>3
<1>4. ASSUME NEW b \in Batches, batch'[b] = batch[b]
      PROVE  /\ AccountsAt(batch'[b])
             /\ \A i \in batch'[b].saved : db'.reports[i].at > 0
  <2>1. batch[b].saved \subseteq Ids BY <1>1 DEF Runs
  <2> QED BY <1>3, <1>4, <2>1 DEF AccountsInv
<1>5. ASSUME NEW b \in Batches, BatchNext(b)
      PROVE  /\ AccountsAt(batch'[b])
             /\ \A i \in batch'[b].saved : db'.reports[i].at > 0
             /\ \A d \in Batches : d # b => batch'[d] = batch[d]
  <2>1. AccountsAt(batch'[b]) BY <1>5, AccountsStep DEF AccountsInv
  <2>2. \A d \in Batches : d # b => batch'[d] = batch[d]
    <3>1. PICK r \in Runs : batch' = [batch EXCEPT ![b] = r]
      BY <1>5, RunSteps
    <3> QED BY <1>1, <3>1
  <2>3. ASSUME NEW i \in batch[b].saved PROVE db'.reports[i].at > 0
    BY <1>3, <1>5, SavedGrows DEF AccountsInv
  <2>4. CASE BatchCommit(b)
    <3>1. PICK a \in Answers : Promise!SaveLLMReport(Entry(b), a)
      BY <2>4, BatchPromise
    <3>2. Entry(b) \in Ids
      BY <2>4, EntryType DEF StoreInv, LockInv, BatchCommit, Commit
    <3>3. db'.reports[Entry(b)].at = commits + 1
      BY <1>1, <3>1, <3>2 DEF Promise!SaveLLMReport, Tables
    <3>4. db'.reports[Entry(b)].at > 0 BY <1>1, <3>3
    <3> QED BY <1>5, <2>1, <2>2, <2>3, <2>4, <3>4, SavedGrows
  <2>5. CASE ~BatchCommit(b)
    BY <1>5, <2>1, <2>2, <2>3, <2>5, SavedGrows
  <2> QED BY <2>4, <2>5
<1>6. \A b \in Batches :
        /\ AccountsAt(batch'[b])
        /\ \A i \in batch'[b].saved : db'.reports[i].at > 0
  <2>1. CASE batch' = batch BY <1>4, <2>1
  <2>2. ASSUME NEW b \in Batches, BatchNext(b), NEW d \in Batches
        PROVE  /\ AccountsAt(batch'[d])
               /\ \A i \in batch'[d].saved : db'.reports[i].at > 0
    <3>1. CASE d = b BY <1>5, <2>2, <3>1
    <3>2. CASE d # b BY <1>4, <1>5, <2>2, <3>2
    <3> QED BY <3>1, <3>2
  <2> QED BY <2>1, <2>2, BatchesFrame
<1> QED BY <1>6 DEF AccountsInv, AccountsAt, Listed, Counted, Kept

(* The counts a run of llm prints and returns an error by are right: every *)
(* incident it listed was tried once, no more count as complete than have  *)
(* a report stored, and without an error each has one (runLLMBatch,        *)
(* analyzeAndWriteLLM).                                                    *)
THEOREM BatchAccountsCorrect == Spec => []BatchAccounts
<1>1. Init => AccountsInv
  <2> SUFFICES ASSUME Init PROVE AccountsInv OBVIOUS
  <2>1. \A b \in Batches : batch[b] = NewBatch BY DEF Init
  <2>2. /\ NewBatch \in Runs /\ NewBatch.pc = "list" /\ NewBatch.index = 0
        /\ NewBatch.complete = 0 /\ NewBatch.failed = 0
        /\ NewBatch.saved = {} /\ NewBatch.entries = <<>>
    BY DEF NewBatch, Runs, BatchPC
  <2>3. Listed(NewBatch)
    <3>1. Len(NewBatch.entries) = 0 BY <2>2
    <3>2. Limit \in Nat BY StoreAssumption DEF StoreAssumption
    <3>3. 0 <= Limit /\ 1..0 = {} BY <3>2, SMT
    <3> QED BY <3>1, <3>3 DEF Listed
  <2>4. AccountsAt(NewBatch) BY <2>2, <2>3, FreshRun
  <2> QED BY <2>1, <2>2, <2>4 DEF AccountsInv
<1>2. /\ StoreInv /\ RowsInv /\ (StoreInv /\ RowsInv)' /\ AccountsInv
      /\ [Next]_vars
      => AccountsInv'
  BY AllAccountsStep
<1>3. StoreInv /\ AccountsInv => BatchAccounts
  <2> SUFFICES ASSUME StoreInv, AccountsInv, NEW b \in Batches
               PROVE  /\ Len(batch[b].entries) <= Limit
                      /\ batch[b].complete <= Cardinality(batch[b].saved)
                      /\ \A i \in batch[b].saved : db.reports[i].at > 0
                      /\ batch[b].pc \in {"nil", "err"} =>
                           /\ batch[b].complete + batch[b].failed
                                = Len(batch[b].entries)
                           /\ batch[b].pc = "nil" =>
                                ToSet(batch[b].entries) = batch[b].saved
    BY DEF BatchAccounts
  <2> DEFINE r == batch[b]
  <2>1. r \in Runs /\ Listed(r) /\ Counted(r) /\ Kept(r)
    BY DEF StoreInv, RunsInv, AccountsInv, AccountsAt
  <2>2. \A i \in r.saved : db.reports[i].at > 0 BY DEF AccountsInv
  <2> HIDE DEF r
  <2>3. /\ r.complete \in Nat /\ r.failed \in Nat /\ r.index \in Nat
        /\ Cardinality(r.saved) \in Nat /\ Printing(r) \in {0, 1}
    BY <2>1, FS_CardinalityType DEF Runs, Kept, Printing
  <2>4. r.complete <= Cardinality(r.saved)
    <3>1. r.complete + Printing(r) <= Cardinality(r.saved)
      BY <2>1 DEF Counted
    <3> QED BY <2>3, <3>1
  <2>5. ASSUME r.pc \in {"nil", "err"}
        PROVE  /\ r.complete + r.failed = Len(r.entries)
               /\ r.pc = "nil" => ToSet(r.entries) = r.saved
    <3>1. InHand(r) = 0 /\ Tried(r) = r.index
      BY <2>5 DEF InHand, Tried
    <3>2. /\ r.complete + r.failed + 0 = r.index /\ r.index = Len(r.entries)
          /\ r.pc = "nil" => r.failed = 0
      BY <2>1, <2>5, <3>1 DEF Counted
    <3>3. r.complete + r.failed = Len(r.entries) BY <2>3, <3>2
    <3>4. UpTo(r.entries, Len(r.entries)) = ToSet(r.entries)
      BY <2>1, UpToIds DEF Runs
    <3>5. r.pc = "nil" => ToSet(r.entries) = r.saved
      BY <2>1, <3>1, <3>2, <3>4 DEF Kept
    <3> QED BY <3>3, <3>5
  <2>6. Len(r.entries) <= Limit BY <2>1 DEF Listed
  <2> QED BY <2>2, <2>4, <2>5, <2>6 DEF r
<1> QED BY <1>1, <1>2, <1>3, RowsInvariant, PTL DEF Spec

-----------------------------------------------------------------------------
(* Opening the database: the processes and files of StoreOpen.             *)

Parents == {"missing", "notdir", "loose", "foreign", "private"}

(* The labels from which only validateSQLiteFile may still refuse files.   *)
Past == {"pragma", "schema", "inspect", "rows", "alter", "validate", "open"}

Labels == Settled \union Past \union
  {"ensure", "exists", "parent", "lstat", "check", "reject", "create"}

Verdicts ==
  [fails : SUBSET {"db_parent", "db_owner", "database", "wal", "shm"},
   missing : BOOLEAN, orphans : BOOLEAN]

OpenTypeOK ==
  /\ parent \in Parents /\ file \in Files /\ side \in [{"wal", "shm"} -> Files]
  /\ objects \in SUBSET Schema /\ connected \in SUBSET Openers
  /\ pc \in [Openers -> Labels]
  /\ cmd \in [Openers -> {"none", "init", "run", "read"}]
  /\ next \in [Openers -> Nat] /\ saw \in [Openers -> BOOLEAN]
  /\ conn \in [Openers -> {"free", "rows"}]
  /\ rivals \in [Openers -> SUBSET Openers] /\ verdict \in [Openers -> Verdicts]

(* What a process has seen of directory and files stays true: nobody loosens *)
(* a mode or removes the database, and new sidecars have its mode.         *)
FilesAt(o) ==
  /\ pc[o] = "exists" => cmd[o] = "read"
  /\ pc[o] = "parent" /\ cmd[o] = "init" => parent # "missing"
  /\ pc[o] \in {"lstat", "check", "reject", "create"} \union Past
       => parent = "private"
  /\ pc[o] = "check" => file # "none"
  /\ pc[o] = "create" => \A s \in DOMAIN side : PrivateOrNone(side[s])
  /\ pc[o] \in Past => ValidFiles

FilesInv == (file = "none" => objects = {}) /\ \A o \in Openers : FilesAt(o)

(* How much of the schema there is at least, by how far a process is.      *)
SchemaAt(o) ==
  /\ pc[o] \in {"idle", "ensure", "exists", "parent", "lstat", "check",
                "reject", "create", "pragma"} => next[o] = 1
  /\ pc[o] = "schema" => /\ next[o] \in 1..Len(Script)
                         /\ \A i \in 1..(next[o] - 1) : Script[i] \in objects
  /\ pc[o] \in {"inspect", "rows", "alter", "validate", "open"}
       => ToSet(Script) \subseteq objects
  /\ pc[o] = "rows" /\ saw[o] => Column \in objects
  /\ pc[o] = "alter" => ~saw[o]
  /\ pc[o] \in {"validate", "open"} => Column \in objects

SchemaInv == \A o \in Openers : SchemaAt(o)

ConnInv ==
  \A o \in Openers :
    /\ pc[o] # "rows" => conn[o] = "free"
    /\ pc[o] \in Past \ {"pragma"} => o \in connected

VerdictInv ==
  \A o \in Openers : pc[o] = "open" => verdict[o].fails = {} /\ ~verdict[o].missing

RivalInv == \A o, p \in Opening : o # p => p \in rivals[o]

(* There is no incidents table without the column.                         *)
Fresh == "incidents" \in objects => Column \in objects

(* Process p does not fail any more: its ALTER is done, or it will find    *)
(* the column there, since no incidents table without it is left.          *)
Safe(p) ==
  \/ pc[p] \in {"validate", "open", "closed", "faulted", "crashed"}
  \/ pc[p] = "rows" /\ saw[p]
  \/ pc[p] \in {"pragma", "schema", "inspect"} /\ Fresh

(* Whoever meets the file or the column made by another one between two of *)
(* its looks has a rival that will not fail.                               *)
Raced(o) ==
  \/ pc[o] \in {"reject", "create"} /\ file # "none"
  \/ pc[o] = "rows" /\ ~saw[o] /\ Column \in objects
  \/ pc[o] = "alter" /\ Column \in objects

RaceInv == \A o \in Openers : Raced(o) => \E p \in rivals[o] : Safe(p)

FailInv ==
  \A o \in Openers : pc[o] = "failed" =>
    \/ verdict[o].fails # {} \/ verdict[o].orphans
    \/ verdict[o].missing /\ cmd[o] # "init"
    \/ \E p \in rivals[o] : Safe(p)

OpenInv ==
  /\ OpenTypeOK /\ FilesInv /\ SchemaInv /\ ConnInv /\ VerdictInv /\ RivalInv
  /\ RaceInv /\ FailInv

StepOf(o) == Start(o) \/ OpenStep(o) \/ Close(o) \/ Fault(o) \/ Crash(o)

-----------------------------------------------------------------------------
(* The script is a sequence of names, one of which is the incidents table. *)
LEMMA ScriptFacts ==
  /\ Len(Script) = 12 /\ Script[7] = "incidents"
  /\ \A i \in 1..12 : Script[i] \in ToSet(Script)
  /\ \A x \in ToSet(Script) : \E i \in 1..12 : x = Script[i]
<1>1. Len(Script) = 12 /\ Script[7] = "incidents" /\ DOMAIN Script = 1..12
  BY DEF Script
<1> QED BY <1>1 DEF ToSet

(* What doctor says is a verdict.                                          *)
LEMMA DoctorType == OpenTypeOK => Doctor \in Verdicts
<1> SUFFICES ASSUME OpenTypeOK PROVE Doctor \in Verdicts
  OBVIOUS
<1>1. DoctorFails \in SUBSET {"db_parent", "db_owner", "database", "wal", "shm"}
  <2>1. DOMAIN side = {"wal", "shm"}
    BY DEF OpenTypeOK
  <2>2. \A x \in DoctorFails : x \in {"db_parent", "db_owner", "database", "wal", "shm"}
    BY <2>1 DEF DoctorFails
  <2> QED BY <2>2
<1>2. DoctorMissing \in BOOLEAN /\ Orphans \in BOOLEAN
  BY DEF DoctorMissing, Orphans
<1> QED BY <1>1, <1>2 DEF Doctor, Verdicts

(* A failing or ending process keeps the types.                            *)
LEMMA DisconnectType ==
  ASSUME OpenTypeOK, NEW o \in Openers, Disconnect(o)
  PROVE  /\ side' \in [{"wal", "shm"} -> Files]
         /\ connected' \in SUBSET Openers
         /\ conn' \in [Openers -> {"free", "rows"}]
  BY DEF OpenTypeOK, Disconnect, Files

LEMMA FailType == ASSUME OpenTypeOK, NEW o \in Openers, Fail(o) PROVE OpenTypeOK'
<1>1. verdict' \in [Openers -> Verdicts]
  BY DoctorType DEF Fail, OpenTypeOK
<1>2. pc' \in [Openers -> Labels]
  BY DEF Fail, Goto, OpenTypeOK, Labels, Settled
<1>3. /\ side' \in [{"wal", "shm"} -> Files] /\ connected' \in SUBSET Openers
      /\ conn' \in [Openers -> {"free", "rows"}]
  BY DisconnectType DEF Fail
<1> QED BY <1>1, <1>2, <1>3 DEF Fail, OpenTypeOK

(* Every step keeps the types.                                             *)
LEMMA OpenTypeStep ==
  ASSUME OpenTypeOK, SchemaInv, NEW o \in Openers, StepOf(o)
  PROVE  OpenTypeOK'
<1> USE DEF Goto, Stay, path, local, Labels, Settled, Past
<1>1. CASE Start(o)
  <2>1. rivals' \in [Openers -> SUBSET Openers]
    BY <1>1 DEF Start, OpenTypeOK, Opening
  <2>2. cmd' \in [Openers -> {"none", "init", "run", "read"}]
    BY <1>1 DEF Start, OpenTypeOK
  <2>3. pc' \in [Openers -> Labels]
    BY <1>1 DEF Start, OpenTypeOK
  <2> QED BY <1>1, <2>1, <2>2, <2>3 DEF Start, OpenTypeOK
<1>2. CASE EnsureParent(o)
  BY <1>2, FailType DEF EnsureParent, OpenTypeOK, Parents
<1>3. CASE CheckExists(o)
  BY <1>3, FailType DEF CheckExists, OpenTypeOK
<1>4. CASE ValidateParent(o)
  BY <1>4, FailType DEF ValidateParent, OpenTypeOK
<1>5. CASE LstatPath(o)
  BY <1>5 DEF LstatPath, OpenTypeOK
<1>6. CASE CheckFiles(o)
  BY <1>6, FailType DEF CheckFiles, OpenTypeOK
<1>7. CASE RejectSidecars(o)
  BY <1>7, FailType DEF RejectSidecars, OpenTypeOK
<1>8. CASE CreateFile(o)
  BY <1>8, FailType DEF CreateFile, OpenTypeOK, Files
<1>9. CASE Pragmas(o)
  <2>1. side' \in [{"wal", "shm"} -> Files]
    BY <1>9 DEF Pragmas, OpenTypeOK
  <2> QED BY <1>9, <2>1 DEF Pragmas, OpenTypeOK
<1>10. CASE ApplySchema(o)
  <2>1. Script[next[o]] \in Schema
    BY <1>10, ScriptFacts DEF ApplySchema, SchemaInv, SchemaAt, Schema
  <2>2. objects' \in SUBSET Schema /\ next' \in [Openers -> Nat]
    BY <1>10, <2>1 DEF ApplySchema, OpenTypeOK, Schema
  <2> QED BY <1>10, <2>2 DEF ApplySchema, OpenTypeOK
<1>11. CASE InspectColumns(o)
  <2>1. (Column \in objects) \in BOOLEAN
    OBVIOUS
  <2> QED BY <1>11, <2>1 DEF InspectColumns, OpenTypeOK
<1>12. CASE CloseRows(o)
  BY <1>12 DEF CloseRows, OpenTypeOK
<1>13. CASE AddColumn(o)
  BY <1>13, FailType DEF AddColumn, OpenTypeOK, Schema
<1>14. CASE ValidateAfter(o)
  <2>1. CASE Fail(o)
    BY <2>1, FailType
  <2>2. CASE ~Fail(o)
    <3>1. verdict' \in [Openers -> Verdicts]
      BY <1>14, <2>2, DoctorType DEF ValidateAfter, OpenTypeOK
    <3> QED BY <1>14, <2>2, <3>1 DEF ValidateAfter, OpenTypeOK
  <2> QED BY <2>1, <2>2
<1>15. CASE Close(o)
  BY <1>15, DisconnectType DEF Close, OpenTypeOK
<1>16. CASE Fault(o)
  BY <1>16, DisconnectType DEF Fault, OpenTypeOK
<1>17. CASE Crash(o)
  BY <1>17 DEF Crash, OpenTypeOK
<1> QED
  BY <1>1, <1>2, <1>3, <1>4, <1>5, <1>6, <1>7, <1>8, <1>9, <1>10, <1>11, <1>12,
     <1>13, <1>14, <1>15, <1>16, <1>17 DEF StepOf, OpenStep

-----------------------------------------------------------------------------
(* A step of one process leaves the others where they are.                 *)
LEMMA Others ==
  ASSUME OpenTypeOK, NEW o \in Openers, StepOf(o), NEW p \in Openers, p # o
  PROVE  /\ pc'[p] = pc[p] /\ cmd'[p] = cmd[p] /\ next'[p] = next[p]
         /\ saw'[p] = saw[p] /\ conn'[p] = conn[p] /\ verdict'[p] = verdict[p]
         /\ p \in connected => p \in connected'
         /\ rivals[p] \subseteq rivals'[p]
<1> USE DEF OpenTypeOK, Goto, Stay, path, local
<1>1. CASE Start(o)
  BY <1>1 DEF Start
<1>2. CASE EnsureParent(o) \/ CheckExists(o) \/ ValidateParent(o) \/ LstatPath(o)
  BY <1>2 DEF EnsureParent, CheckExists, ValidateParent, LstatPath, Fail, Disconnect
<1>3. CASE CheckFiles(o) \/ RejectSidecars(o) \/ CreateFile(o) \/ Pragmas(o)
  BY <1>3 DEF CheckFiles, RejectSidecars, CreateFile, Pragmas, Fail, Disconnect
<1>4. CASE ApplySchema(o) \/ InspectColumns(o) \/ CloseRows(o)
  BY <1>4 DEF ApplySchema, InspectColumns, CloseRows
<1>5. CASE AddColumn(o) \/ ValidateAfter(o)
  BY <1>5 DEF AddColumn, ValidateAfter, Fail, Disconnect
<1>6. CASE Close(o) \/ Fault(o) \/ Crash(o)
  BY <1>6 DEF Close, Fault, Crash, Disconnect
<1> QED BY <1>1, <1>2, <1>3, <1>4, <1>5, <1>6 DEF StepOf, OpenStep

(* Failing leaves directory, database and schema, and at most takes the    *)
(* sidecars away.                                                          *)
LEMMA FailFrame ==
  ASSUME OpenTypeOK, NEW o \in Openers, Fail(o)
  PROVE  /\ UNCHANGED <<parent, file, objects, rivals, cmd, next, saw>>
         /\ pc' = [pc EXCEPT ![o] = "failed"]
         /\ verdict' = [verdict EXCEPT ![o] = Doctor]
         /\ conn' = [conn EXCEPT ![o] = "free"]
         /\ \A s \in {"wal", "shm"} : side'[s] \in {side[s], "none"}
  BY DEF OpenTypeOK, Fail, Disconnect, Goto

(* No process takes back what another one has seen: files are not removed, *)
(* schemas only grow, and an incidents table is made with its column.      *)
LEMMA Monotone ==
  ASSUME OpenTypeOK, FilesInv, SchemaInv, NEW o \in Openers, StepOf(o)
  PROVE  /\ objects \subseteq objects'
         /\ file # "none" => file' = file
         /\ parent # "missing" => parent' = parent
         /\ Fresh => Fresh'
         /\ \A s \in {"wal", "shm"} : PrivateOrNone(side[s]) => PrivateOrNone(side'[s])
<1> USE DEF OpenTypeOK, Goto, Stay, path, local, PrivateOrNone, Fresh
<1>1. CASE Fail(o)
  BY <1>1, FailFrame
<1>2. CASE Start(o)
  BY <1>2 DEF Start
<1>3. CASE EnsureParent(o) /\ ~Fail(o)
  BY <1>3 DEF EnsureParent
<1>4. CASE (CheckExists(o) \/ ValidateParent(o) \/ LstatPath(o)) /\ ~Fail(o)
  BY <1>4 DEF CheckExists, ValidateParent, LstatPath
<1>5. CASE (CheckFiles(o) \/ RejectSidecars(o) \/ ValidateAfter(o)) /\ ~Fail(o)
  BY <1>5 DEF CheckFiles, RejectSidecars, ValidateAfter
<1>6. CASE CreateFile(o) /\ ~Fail(o)
  BY <1>6 DEF CreateFile
<1>7. CASE Pragmas(o)
  <2>1. file = "private"
    BY <1>7 DEF Pragmas, FilesInv, FilesAt, Past, ValidFiles
  <2> QED BY <1>7, <2>1 DEF Pragmas
<1>8. CASE ApplySchema(o)
  BY <1>8 DEF ApplySchema, Column
<1>9. CASE InspectColumns(o) \/ CloseRows(o)
  BY <1>9 DEF InspectColumns, CloseRows
<1>10. CASE AddColumn(o) /\ ~Fail(o)
  BY <1>10 DEF AddColumn
<1>11. CASE Close(o) \/ Fault(o) \/ Crash(o)
  BY <1>11 DEF Close, Fault, Crash, Disconnect
<1> QED
  BY <1>1, <1>2, <1>3, <1>4, <1>5, <1>6, <1>7, <1>8, <1>9, <1>10, <1>11
  DEF StepOf, OpenStep

(* So files stay as a process found them.                                  *)
LEMMA FilesStay ==
  ASSUME OpenTypeOK, OpenTypeOK', FilesInv, SchemaInv, NEW o \in Openers, StepOf(o)
  PROVE  /\ ValidFiles => ValidFiles'
         /\ (\A s \in DOMAIN side : PrivateOrNone(side[s]))
              => \A s \in DOMAIN side' : PrivateOrNone(side'[s])
<1>1. DOMAIN side = {"wal", "shm"} /\ DOMAIN side' = {"wal", "shm"}
  BY DEF OpenTypeOK
<1> QED BY <1>1, Monotone DEF ValidFiles

(* A process that will not fail goes on not to.                            *)
LEMMA SafeStep ==
  ASSUME OpenTypeOK, FilesInv, SchemaInv, NEW o \in Openers, StepOf(o),
         NEW p \in Openers, Safe(p)
  PROVE  Safe(p)'
<1>1. CASE p # o
  BY <1>1, Others, Monotone DEF Safe, Fresh
<1>2. CASE p = o
  <2> USE DEF OpenTypeOK, Goto, Stay, path, local
  <2>1. pc[o] \in {"validate", "open", "closed", "faulted", "crashed", "rows",
                   "pragma", "schema", "inspect"}
    BY <1>2 DEF Safe
  <2>2. pc[o] \in Past => ValidFiles
    BY DEF FilesInv, FilesAt
  <2>3. CASE Close(o) \/ Fault(o) \/ Crash(o)
    BY <1>2, <2>3 DEF Close, Fault, Crash, Safe
  <2>4. CASE Pragmas(o)
    BY <1>2, <2>4 DEF Pragmas, Safe, Fresh
  <2>5. CASE ApplySchema(o)
    BY <1>2, <2>5, Monotone DEF ApplySchema, Safe, Fresh
  <2>6. CASE InspectColumns(o)
    <3>1. "incidents" \in objects
      BY <2>6, ScriptFacts DEF InspectColumns, SchemaInv, SchemaAt
    <3>2. Column \in objects
      BY <1>2, <2>6, <3>1 DEF InspectColumns, Safe, Fresh
    <3>3. pc'[o] = "rows" /\ saw'[o]
      BY <2>6, <3>2 DEF InspectColumns
    <3> QED BY <1>2, <3>3 DEF Safe
  <2>7. CASE CloseRows(o)
    <3>1. pc[o] = "rows" /\ saw[o]
      BY <1>2, <2>7 DEF CloseRows, Safe
    <3>2. pc'[o] = "validate"
      BY <2>7, <3>1 DEF CloseRows
    <3> QED BY <1>2, <3>2 DEF Safe
  <2>8. CASE ValidateAfter(o)
    BY <1>2, <2>2, <2>8 DEF ValidateAfter, Safe, Past
  <2>9. ~(\/ Start(o) \/ EnsureParent(o) \/ CheckExists(o) \/ ValidateParent(o)
          \/ LstatPath(o) \/ CheckFiles(o) \/ RejectSidecars(o) \/ CreateFile(o)
          \/ AddColumn(o))
    BY <2>1 DEF Start, EnsureParent, CheckExists, ValidateParent, LstatPath,
       CheckFiles, RejectSidecars, CreateFile, AddColumn
  <2> QED
    BY <2>3, <2>4, <2>5, <2>6, <2>7, <2>8, <2>9 DEF StepOf, OpenStep
<1> QED BY <1>1, <1>2

-----------------------------------------------------------------------------
(* What a process has seen of directory and files stays true.              *)
LEMMA FilesStep ==
  ASSUME OpenTypeOK, OpenTypeOK', FilesInv, SchemaInv, NEW o \in Openers, StepOf(o)
  PROVE  FilesInv'
<1> USE DEF Goto, Stay, path, local
<1>1. file' = "none" => objects' = {}
  <2> SUFFICES ASSUME file' = "none" PROVE objects' = {}
    OBVIOUS
  <2>1. file = "none" /\ objects = {}
    BY Monotone DEF FilesInv
  <2>2. pc[o] \notin Past
    BY <2>1 DEF FilesInv, FilesAt, ValidFiles
  <2>3. ~(ApplySchema(o) \/ AddColumn(o) \/ Pragmas(o) \/ ValidateAfter(o)
          \/ InspectColumns(o) \/ CloseRows(o))
    BY <2>2 DEF ApplySchema, AddColumn, Pragmas, ValidateAfter, InspectColumns,
       CloseRows, Past
  <2>4. CASE Fail(o)
    BY <2>1, <2>4, FailFrame
  <2>5. CASE ~Fail(o)
    BY <2>1, <2>3, <2>5
    DEF StepOf, OpenStep, Start, EnsureParent, CheckExists, ValidateParent,
        LstatPath, CheckFiles, RejectSidecars, CreateFile, Close, Fault, Crash
  <2> QED BY <2>4, <2>5
<1>2. ASSUME NEW p \in Openers, p # o PROVE FilesAt(p)'
  <2>1. FilesAt(p)
    BY DEF FilesInv
  <2> QED BY <1>2, <2>1, Others, Monotone, FilesStay DEF FilesAt
<1>3. FilesAt(o)'
  <2>0. FilesAt(o)
    BY DEF FilesInv
  <2> USE DEF OpenTypeOK
  <2>1. CASE Fail(o) \/ Fault(o) \/ Crash(o) \/ Close(o)
    BY <2>1 DEF Fail, Fault, Crash, Close, FilesAt, Past
  <2>2. CASE Start(o)
    BY <2>2 DEF Start, FilesAt, Past
  <2>3. CASE EnsureParent(o) /\ ~Fail(o)
    BY <2>3 DEF EnsureParent, FilesAt, Past
  <2>4. CASE (CheckExists(o) \/ ValidateParent(o) \/ LstatPath(o)) /\ ~Fail(o)
    BY <2>0, <2>4 DEF CheckExists, ValidateParent, LstatPath, FilesAt, Past
  <2>5. CASE (CheckFiles(o) \/ ValidateAfter(o)) /\ ~Fail(o)
    BY <2>0, <2>5, FilesStay DEF CheckFiles, ValidateAfter, FilesAt, Past
  <2>6. CASE RejectSidecars(o) /\ ~Fail(o)
    BY <2>0, <2>6 DEF RejectSidecars, FilesAt, Past, PrivateOrNone
  <2>7. CASE CreateFile(o) /\ ~Fail(o)
    BY <2>0, <2>7 DEF CreateFile, FilesAt, Past, ValidFiles
  <2>8. CASE Pragmas(o)
    BY <2>0, <2>8, FilesStay DEF Pragmas, FilesAt, Past
  <2>9. CASE ApplySchema(o) \/ InspectColumns(o) \/ CloseRows(o)
    BY <2>0, <2>9, FilesStay DEF ApplySchema, InspectColumns, CloseRows, FilesAt, Past
  <2>10. CASE AddColumn(o) /\ ~Fail(o)
    BY <2>0, <2>10, FilesStay DEF AddColumn, FilesAt, Past
  <2> QED
    BY <2>1, <2>2, <2>3, <2>4, <2>5, <2>6, <2>7, <2>8, <2>9, <2>10
    DEF StepOf, OpenStep
<1> QED BY <1>1, <1>2, <1>3 DEF FilesInv

(* What the schema has by a process's progress stays there.                *)
LEMMA SchemaStep ==
  ASSUME OpenTypeOK, FilesInv, SchemaInv, NEW o \in Openers, StepOf(o)
  PROVE  SchemaInv'
<1> USE DEF Goto, Stay, path, local
<1>1. ASSUME NEW p \in Openers, p # o PROVE SchemaAt(p)'
  <2>1. SchemaAt(p)
    BY DEF SchemaInv
  <2> QED BY <1>1, <2>1, Others, Monotone DEF SchemaAt
<1>2. SchemaAt(o)'
  <2>0. SchemaAt(o) /\ objects \subseteq objects'
    BY Monotone DEF SchemaInv
  <2> USE DEF OpenTypeOK
  <2>1. CASE Fail(o) \/ Fault(o) \/ Crash(o) \/ Close(o)
    BY <2>1 DEF Fail, Fault, Crash, Close, SchemaAt
  <2>2. CASE Start(o)
    BY <2>0, <2>2 DEF Start, SchemaAt
  <2>3. CASE (EnsureParent(o) \/ CheckExists(o) \/ ValidateParent(o)) /\ ~Fail(o)
    BY <2>0, <2>3 DEF EnsureParent, CheckExists, ValidateParent, SchemaAt
  <2>4. CASE (LstatPath(o) \/ CheckFiles(o) \/ RejectSidecars(o)) /\ ~Fail(o)
    BY <2>0, <2>4 DEF LstatPath, CheckFiles, RejectSidecars, SchemaAt
  <2>5. CASE CreateFile(o) /\ ~Fail(o)
    BY <2>0, <2>5 DEF CreateFile, SchemaAt
  <2>6. CASE Pragmas(o)
    BY <2>0, <2>6, ScriptFacts DEF Pragmas, SchemaAt
  <2>7. CASE ApplySchema(o)
    <3>1. /\ next[o] \in 1..12 /\ Script[next[o]] \in objects'
          /\ \A i \in 1..(next[o] - 1) : Script[i] \in objects'
      BY <2>0, <2>7, ScriptFacts DEF ApplySchema, SchemaAt
    <3>2. next'[o] = next[o] + 1
      BY <2>7 DEF ApplySchema
    <3>3. \A i \in 1..next[o] : Script[i] \in objects'
      BY <3>1
    <3>4. CASE next[o] = 12
      <4>1. pc'[o] = "inspect" /\ ToSet(Script) \subseteq objects'
        BY <2>7, <3>3, <3>4, ScriptFacts DEF ApplySchema
      <4> QED BY <4>1 DEF SchemaAt
    <3>5. CASE next[o] # 12
      <4>1. pc'[o] = "schema" /\ next'[o] \in 1..12
        BY <2>7, <3>1, <3>2, <3>5, ScriptFacts DEF ApplySchema
      <4>2. \A i \in 1..(next'[o] - 1) : Script[i] \in objects'
        BY <3>1, <3>2, <3>3
      <4> QED BY <4>1, <4>2, ScriptFacts DEF SchemaAt
    <3> QED BY <3>4, <3>5
  <2>8. CASE InspectColumns(o)
    <3>1. pc'[o] = "rows" /\ objects' = objects /\ saw'[o] = (Column \in objects)
      BY <2>8 DEF InspectColumns
    <3> QED BY <2>0, <2>8, <3>1 DEF InspectColumns, SchemaAt
  <2>9. CASE CloseRows(o)
    <3>1. pc[o] = "rows" /\ objects' = objects /\ saw'[o] = saw[o]
      BY <2>9 DEF CloseRows
    <3>2. CASE saw[o]
      BY <2>0, <2>9, <3>1, <3>2 DEF CloseRows, SchemaAt
    <3>3. CASE ~saw[o]
      BY <2>0, <2>9, <3>1, <3>3 DEF CloseRows, SchemaAt
    <3> QED BY <3>2, <3>3
  <2>10. CASE AddColumn(o) /\ ~Fail(o)
    BY <2>0, <2>10 DEF AddColumn, SchemaAt
  <2>11. CASE ValidateAfter(o) /\ ~Fail(o)
    BY <2>0, <2>11 DEF ValidateAfter, SchemaAt
  <2> QED
    BY <2>1, <2>2, <2>3, <2>4, <2>5, <2>6, <2>7, <2>8, <2>9, <2>10, <2>11
    DEF StepOf, OpenStep
<1> QED BY <1>1, <1>2 DEF SchemaInv

-----------------------------------------------------------------------------
(* The pool is busy only while rows are read, and whoever is past the      *)
(* pragmas has a connection.                                               *)
LEMMA ConnStep ==
  ASSUME OpenTypeOK, ConnInv, NEW o \in Openers, StepOf(o) PROVE ConnInv'
<1> USE DEF Goto, Stay, path, local, ConnInv
<1>1. ASSUME NEW p \in Openers, p # o
      PROVE  /\ pc'[p] # "rows" => conn'[p] = "free"
             /\ pc'[p] \in Past \ {"pragma"} => p \in connected'
  BY <1>1, Others
<1>2. /\ pc'[o] # "rows" => conn'[o] = "free"
      /\ pc'[o] \in Past \ {"pragma"} => o \in connected'
  <2> USE DEF OpenTypeOK, Past
  <2>1. CASE Fail(o) \/ Fault(o) \/ Crash(o) \/ Close(o)
    BY <2>1 DEF Fail, Fault, Crash, Close, Disconnect
  <2>2. CASE Start(o)
    BY <2>2 DEF Start
  <2>3. CASE (EnsureParent(o) \/ CheckExists(o) \/ ValidateParent(o)) /\ ~Fail(o)
    BY <2>3 DEF EnsureParent, CheckExists, ValidateParent
  <2>4. CASE (LstatPath(o) \/ CheckFiles(o) \/ RejectSidecars(o)) /\ ~Fail(o)
    BY <2>4 DEF LstatPath, CheckFiles, RejectSidecars
  <2>5. CASE (CreateFile(o) \/ Pragmas(o)) /\ ~Fail(o)
    BY <2>5 DEF CreateFile, Pragmas
  <2>6. CASE ApplySchema(o) \/ InspectColumns(o) \/ CloseRows(o)
    BY <2>6 DEF ApplySchema, InspectColumns, CloseRows
  <2>7. CASE (AddColumn(o) \/ ValidateAfter(o)) /\ ~Fail(o)
    BY <2>7 DEF AddColumn, ValidateAfter
  <2> QED
    BY <2>1, <2>2, <2>3, <2>4, <2>5, <2>6, <2>7 DEF StepOf, OpenStep
<1> QED BY <1>1, <1>2

(* The labels a step leads to.                                             *)
LEMMA Reached ==
  ASSUME OpenTypeOK, NEW o \in Openers, StepOf(o)
  PROVE  /\ pc'[o] = "failed" => Fail(o)
         /\ pc'[o] = "open" => ValidateAfter(o) /\ ~Fail(o)
         /\ pc'[o] \in {"reject", "create"} => LstatPath(o) \/ (RejectSidecars(o) /\ ~Fail(o))
         /\ pc'[o] = "rows" => InspectColumns(o)
         /\ pc'[o] = "alter" => CloseRows(o)
         /\ pc[o] \in Settled => Start(o) \/ pc'[o] \in Settled
<1> USE DEF OpenTypeOK, Goto, Settled
<1>1. CASE Fail(o)
  <2>1. pc'[o] = "failed"
    BY <1>1 DEF Fail
  <2> QED BY <1>1, <2>1
<1>2. CASE ~Fail(o)
  BY <1>2
  DEF StepOf, OpenStep, Start, EnsureParent, CheckExists, ValidateParent,
      LstatPath, CheckFiles, RejectSidecars, CreateFile, Pragmas, ApplySchema,
      InspectColumns, CloseRows, AddColumn, ValidateAfter, Close, Fault, Crash
<1> QED BY <1>1, <1>2

(* When OpenSQLite returns nil doctor has nothing to say.                  *)
LEMMA VerdictStep ==
  ASSUME OpenTypeOK, FilesInv, VerdictInv, NEW o \in Openers, StepOf(o)
  PROVE  VerdictInv'
<1>1. ASSUME NEW p \in Openers, p # o, pc'[p] = "open"
      PROVE  verdict'[p].fails = {} /\ ~verdict'[p].missing
  BY <1>1, Others DEF VerdictInv
<1>2. ASSUME pc'[o] = "open"
      PROVE  verdict'[o].fails = {} /\ ~verdict'[o].missing
  <2>1. /\ pc[o] = "validate" /\ ValidFiles
        /\ verdict' = [verdict EXCEPT ![o] = Doctor]
    BY <1>2, Reached DEF ValidateAfter
  <2>2. parent = "private" /\ file = "private"
    BY <2>1 DEF FilesInv, FilesAt, Past, ValidFiles
  <2>3. DoctorFails = {}
    BY <2>1, <2>2 DEF DoctorFails, ValidFiles, PrivateOrNone
  <2>4. ~DoctorMissing
    BY <2>2 DEF DoctorMissing
  <2>5. verdict'[o] = Doctor
    BY <2>1 DEF OpenTypeOK
  <2> QED BY <2>3, <2>4, <2>5 DEF Doctor
<1> QED BY <1>1, <1>2 DEF VerdictInv

(* Two processes that are opening at the same time know of each other.     *)
LEMMA RivalStep ==
  ASSUME OpenTypeOK, RivalInv, NEW o \in Openers, StepOf(o) PROVE RivalInv'
<1> SUFFICES ASSUME NEW p \in Opening', NEW q \in Opening', p # q
             PROVE  q \in rivals'[p]
  BY DEF RivalInv
<1>1. p \in Openers /\ q \in Openers
  BY DEF Opening
<1>2. CASE Start(o)
  <2>1. /\ pc' = [pc EXCEPT ![o] = pc'[o]] /\ pc[o] = "idle"
        /\ rivals' = [r \in Openers |-> IF r = o THEN Opening
                        ELSE IF r \in Opening THEN rivals[r] \union {o} ELSE rivals[r]]
    BY <1>2 DEF Start, Goto, OpenTypeOK
  <2>2. p # o => p \in Opening
    BY <1>1, <2>1 DEF Opening, OpenTypeOK
  <2>3. q # o => q \in Opening
    BY <1>1, <2>1 DEF Opening, OpenTypeOK
  <2> QED BY <1>1, <2>1, <2>2, <2>3 DEF RivalInv
<1>3. CASE ~Start(o)
  <2>1. p \in Opening /\ q \in Opening
    BY <1>1, <1>3, Others, Reached DEF Opening
  <2>2. rivals' = rivals
    BY <1>3
    DEF StepOf, OpenStep, EnsureParent, CheckExists, ValidateParent,
        LstatPath, CheckFiles, RejectSidecars, CreateFile, Pragmas, ApplySchema,
        InspectColumns, CloseRows, AddColumn, ValidateAfter, Close, Fault, Crash,
        Stay, Fail
  <2> QED BY <2>1, <2>2 DEF RivalInv
<1> QED BY <1>2, <1>3

-----------------------------------------------------------------------------
(* Who makes the file, or adds the column, will not fail.                  *)
LEMMA MakerSafe ==
  ASSUME OpenTypeOK, FilesInv, SchemaInv, NEW o \in Openers, StepOf(o)
  PROVE  /\ file = "none" /\ file' # "none" => Safe(o)' /\ o \in Opening
         /\ (Column \notin objects /\ Column \in objects' /\ "incidents" \in objects)
              => Safe(o)' /\ o \in Opening
<1> USE DEF Goto, Stay, path, local, OpenTypeOK
<1>1. ASSUME file = "none", file' # "none" PROVE Safe(o)' /\ o \in Opening
  <2>1. CreateFile(o) /\ ~Fail(o)
    BY <1>1
    DEF StepOf, OpenStep, Start, EnsureParent, CheckExists, ValidateParent,
        LstatPath, CheckFiles, RejectSidecars, CreateFile, Pragmas, ApplySchema,
        InspectColumns, CloseRows, AddColumn, ValidateAfter, Close, Fault, Crash, Fail
  <2>2. pc'[o] = "pragma" /\ objects' = {}
    BY <1>1, <2>1 DEF CreateFile, FilesInv
  <2> QED BY <2>1, <2>2 DEF CreateFile, Safe, Fresh, Opening, Settled
<1>2. ASSUME Column \notin objects, Column \in objects', "incidents" \in objects
      PROVE  Safe(o)' /\ o \in Opening
  <2>1. CASE ApplySchema(o)
    <3>1. Script[next[o]] # Column
      <4>1. Script[next[o]] \in ToSet(Script)
        BY <2>1, ScriptFacts DEF ApplySchema, SchemaInv, SchemaAt
      <4> QED BY <4>1 DEF Script, ToSet, Column
    <3> QED BY <1>2, <2>1, <3>1 DEF ApplySchema
  <2>2. CASE ~ApplySchema(o)
    <3>1. AddColumn(o) /\ ~Fail(o)
      BY <1>2, <2>2
      DEF StepOf, OpenStep, Start, EnsureParent, CheckExists, ValidateParent,
          LstatPath, CheckFiles, RejectSidecars, CreateFile, Pragmas,
          InspectColumns, CloseRows, AddColumn, ValidateAfter, Close, Fault, Crash, Fail
    <3> QED BY <3>1 DEF AddColumn, Safe, Opening, Settled
  <2> QED BY <2>1, <2>2
<1> QED BY <1>1, <1>2

(* A rival that will not fail stays one.                                   *)
LEMMA RivalStays ==
  ASSUME OpenTypeOK, FilesInv, SchemaInv, NEW o \in Openers, StepOf(o),
         NEW q \in Openers, pc[q] # "idle", \E p \in rivals[q] : Safe(p)
  PROVE  (\E p \in rivals[q] : Safe(p))'
<1>1. PICK p \in rivals[q] : Safe(p)
  OBVIOUS
<1>2. p \in Openers
  BY DEF OpenTypeOK
<1>3. Safe(p)'
  BY <1>1, <1>2, SafeStep
<1>4. p \in rivals'[q]
  <2>1. CASE q # o
    BY <2>1, Others
  <2>2. CASE q = o
    BY <2>2
    DEF StepOf, OpenStep, Start, EnsureParent, CheckExists, ValidateParent,
        LstatPath, CheckFiles, RejectSidecars, CreateFile, Pragmas, ApplySchema,
        InspectColumns, CloseRows, AddColumn, ValidateAfter, Close, Fault, Crash,
        Stay, Fail
  <2> QED BY <2>1, <2>2
<1> QED BY <1>3, <1>4

(* Whoever finds a file or a column it had not seen before has a rival that *)
(* made it and will not fail.                                              *)
LEMMA RaceStep ==
  ASSUME OpenTypeOK, OpenTypeOK', FilesInv, SchemaInv, RivalInv, RaceInv,
         NEW o \in Openers, StepOf(o)
  PROVE  RaceInv'
<1> SUFFICES ASSUME NEW p \in Openers, Raced(p)' PROVE (\E q \in rivals[p] : Safe(q))'
  BY DEF RaceInv
<1>1. CASE Raced(p)
  <2>1. pc[p] # "idle"
    BY <1>1 DEF Raced
  <2> QED BY <1>1, <2>1, RivalStays DEF RaceInv
<1>2. CASE p # o /\ ~Raced(p)
  <2>1. pc'[p] = pc[p] /\ saw'[p] = saw[p] /\ rivals[p] \subseteq rivals'[p]
    BY <1>2, Others
  <2>2. CASE pc[p] \in {"reject", "create"}
    <3>1. file = "none" /\ file' # "none"
      BY <1>2, <2>1, <2>2 DEF Raced
    <3>2. Safe(o)' /\ o \in Opening /\ p \in Opening
      BY <2>2, <3>1, MakerSafe DEF Opening, Settled
    <3>3. o \in rivals[p]
      BY <1>2, <3>2 DEF RivalInv
    <3> QED BY <2>1, <3>2, <3>3
  <2>3. CASE pc[p] \in {"rows", "alter"}
    <3>1. Column \notin objects /\ Column \in objects'
      BY <1>2, <2>1, <2>3 DEF Raced
    <3>2. "incidents" \in objects
      BY <2>3, ScriptFacts DEF SchemaInv, SchemaAt
    <3>3. Safe(o)' /\ o \in Opening /\ p \in Opening
      BY <2>3, <3>1, <3>2, MakerSafe DEF Opening, Settled
    <3>4. o \in rivals[p]
      BY <1>2, <3>3 DEF RivalInv
    <3> QED BY <2>1, <3>3, <3>4
  <2> QED BY <2>1, <2>2, <2>3 DEF Raced
<1>3. CASE p = o /\ ~Raced(o)
  <2> USE DEF OpenTypeOK, Goto, Stay, path, local
  <2>1. CASE pc'[o] \in {"reject", "create"} /\ file' # "none"
    <3>1. LstatPath(o) \/ (RejectSidecars(o) /\ ~Fail(o))
      BY <2>1, Reached
    <3>2. file' = file
      BY <3>1 DEF LstatPath, RejectSidecars
    <3>3. pc[o] = "reject"
      BY <2>1, <3>1, <3>2 DEF LstatPath, RejectSidecars
    <3> QED BY <1>3, <2>1, <3>2, <3>3 DEF Raced
  <2>2. CASE pc'[o] = "rows" /\ ~saw'[o] /\ Column \in objects'
    <3>1. InspectColumns(o)
      BY <2>2, Reached
    <3> QED BY <2>2, <3>1 DEF InspectColumns
  <2>3. CASE pc'[o] = "alter" /\ Column \in objects'
    <3>1. CloseRows(o)
      BY <2>3, Reached
    <3>2. pc[o] = "rows" /\ ~saw[o] /\ objects' = objects
      BY <2>3, <3>1 DEF CloseRows
    <3> QED BY <1>3, <2>3, <3>2 DEF Raced
  <2> QED BY <1>3, <2>1, <2>2, <2>3 DEF Raced
<1> QED BY <1>1, <1>2, <1>3

(* A process that fails has a reason.                                      *)
LEMMA FailStep ==
  ASSUME OpenTypeOK, OpenTypeOK', FilesInv, SchemaInv, RaceInv, FailInv,
         NEW o \in Openers, StepOf(o)
  PROVE  FailInv'
<1> SUFFICES ASSUME NEW p \in Openers, pc'[p] = "failed"
             PROVE  \/ verdict'[p].fails # {} \/ verdict'[p].orphans
                    \/ verdict'[p].missing /\ cmd'[p] # "init"
                    \/ (\E q \in rivals[p] : Safe(q))'
  BY DEF FailInv
<1>1. CASE p # o
  <2>1. pc[p] = "failed" /\ verdict'[p] = verdict[p] /\ cmd'[p] = cmd[p]
    BY <1>1, Others
  <2>2. CASE \E q \in rivals[p] : Safe(q)
    BY <2>1, <2>2, RivalStays
  <2> QED BY <2>1, <2>2 DEF FailInv
<1>2. CASE p = o
  <2>1. Fail(o)
    BY <1>2, Reached
  <2>2. verdict'[o] = Doctor /\ cmd' = cmd
    BY <2>1, FailFrame DEF OpenTypeOK
  <2>3. pc[o] # "idle" /\ pc'[o] = "failed"
    BY <1>2, <2>1
    DEF StepOf, OpenStep, Start, EnsureParent, CheckExists, ValidateParent,
        LstatPath, CheckFiles, RejectSidecars, CreateFile, Pragmas, ApplySchema,
        InspectColumns, CloseRows, AddColumn, ValidateAfter, Close, Fault, Crash,
        Goto, OpenTypeOK, Opening, Settled
  <2>4. \/ Doctor.fails # {} \/ Doctor.orphans
        \/ Doctor.missing /\ cmd[o] # "init"
        \/ Raced(o)
    <3>0. FilesAt(o) /\ DOMAIN side = {"wal", "shm"} /\ side \in [{"wal", "shm"} -> Files]
      BY DEF FilesInv, OpenTypeOK
    <3> USE DEF Doctor
    <3>1. CASE EnsureParent(o)
      <4>1. parent = "notdir"
        BY <2>3, <3>1 DEF EnsureParent, Goto, OpenTypeOK
      <4> QED BY <4>1 DEF DoctorFails
    <3>2. CASE CheckExists(o)
      BY <2>3, <3>0, <3>2 DEF CheckExists, Goto, OpenTypeOK, FilesAt, DoctorMissing
    <3>3. CASE ValidateParent(o)
      <4>1. parent # "private"
        BY <2>3, <3>3 DEF ValidateParent, Goto, OpenTypeOK
      <4>2. CASE parent = "missing"
        BY <3>0, <3>3, <4>2 DEF ValidateParent, FilesAt, DoctorMissing
      <4>3. CASE parent # "missing"
        BY <4>1, <4>3 DEF DoctorFails, OpenTypeOK, Parents
      <4> QED BY <4>2, <4>3
    <3>4. CASE CheckFiles(o)
      <4>1. ~ValidFiles /\ pc[o] = "check"
        BY <2>3, <3>4 DEF CheckFiles, Goto, OpenTypeOK
      <4>2. file # "none" /\ parent = "private"
        BY <3>0, <4>1 DEF FilesAt
      <4>3. CASE file # "private"
        <5>1. file \in {"irregular", "loose"}
          BY <4>2, <4>3 DEF OpenTypeOK, Files
        <5>2. "database" \in DoctorFails
          BY <4>2, <5>1 DEF DoctorFails
        <5> QED BY <5>2
      <4>4. CASE file = "private"
        <5>1. PICK s \in DOMAIN side : ~PrivateOrNone(side[s])
          BY <4>1, <4>4 DEF ValidFiles
        <5>2. side[s] \in {"irregular", "loose"}
          BY <3>0, <5>1 DEF PrivateOrNone, Files
        <5>3. s \in DoctorFails
          BY <4>2, <5>2 DEF DoctorFails
        <5> QED BY <5>3
      <4> QED BY <4>3, <4>4
    <3>5. CASE RejectSidecars(o)
      <4>1. pc[o] = "reject" /\ \E s \in DOMAIN side : side[s] # "none"
        BY <2>3, <3>5 DEF RejectSidecars, Goto, OpenTypeOK
      <4> QED BY <4>1 DEF Orphans, Raced
    <3>6. CASE CreateFile(o)
      <4>1. pc[o] = "create" /\ file # "none"
        BY <2>3, <3>6 DEF CreateFile, Goto, OpenTypeOK
      <4> QED BY <4>1 DEF Raced
    <3>7. CASE AddColumn(o)
      <4>1. pc[o] = "alter" /\ Column \in objects
        BY <2>3, <3>7 DEF AddColumn, Goto, OpenTypeOK
      <4> QED BY <4>1 DEF Raced
    <3>8. CASE ValidateAfter(o)
      <4>1. pc[o] = "validate" /\ ~ValidFiles
        BY <2>3, <3>8 DEF ValidateAfter, Goto, OpenTypeOK
      <4> QED BY <3>0, <4>1 DEF FilesAt, Past
    <3> QED
      BY <2>3, <3>1, <3>2, <3>3, <3>4, <3>5, <3>6, <3>7, <3>8
      DEF StepOf, OpenStep, Start, LstatPath, Pragmas, ApplySchema,
          InspectColumns, CloseRows, Close, Fault, Crash, Goto, OpenTypeOK
  <2>5. CASE Raced(o)
    <3>1. \E q \in rivals[o] : Safe(q)
      BY <2>5 DEF RaceInv
    <3> QED BY <1>2, <2>3, <3>1, RivalStays
  <2> QED BY <1>2, <2>2, <2>4, <2>5
<1> QED BY <1>1, <1>2

-----------------------------------------------------------------------------
(* The invariant holds at the start, and in every state.                   *)
LEMMA OpenInitial == OpenInit => OpenInv
<1> SUFFICES ASSUME OpenInit PROVE OpenInv
  OBVIOUS
<1>1. OpenTypeOK
  <2>1. side \in [{"wal", "shm"} -> Files]
    BY DEF OpenInit, Files
  <2>2. objects \in SUBSET Schema
    BY OldAssumption DEF OpenInit
  <2>3. parent \in Parents /\ file \in Files
    BY DEF OpenInit, Parents, Files
  <2>4. Doctor \in Verdicts
    <3>1. DOMAIN side = {"wal", "shm"}
      BY <2>1
    <3>2. DoctorFails \in SUBSET {"db_parent", "db_owner", "database", "wal", "shm"}
      BY <3>1 DEF DoctorFails
    <3>3. DoctorMissing \in BOOLEAN /\ Orphans \in BOOLEAN
      BY DEF DoctorMissing, Orphans
    <3> QED BY <3>2, <3>3 DEF Doctor, Verdicts
  <2>5. verdict \in [Openers -> Verdicts]
    BY <2>4 DEF OpenInit
  <2>6. pc \in [Openers -> Labels]
    BY DEF OpenInit, Labels, Settled
  <2> QED BY <2>1, <2>2, <2>3, <2>5, <2>6 DEF OpenInit, OpenTypeOK
<1>2. FilesInv /\ SchemaInv /\ ConnInv
  BY DEF OpenInit, FilesInv, FilesAt, SchemaInv, SchemaAt, ConnInv, Past
<1>3. VerdictInv /\ RivalInv /\ RaceInv /\ FailInv
  BY DEF OpenInit, VerdictInv, RivalInv, Opening, Settled, RaceInv, Raced, FailInv
<1> QED BY <1>1, <1>2, <1>3 DEF OpenInv

LEMMA OpenInvariance == OpenSpec => []OpenInv
<1>1. ASSUME OpenInv, [OpenNext]_openVars PROVE OpenInv'
  <2>1. ASSUME NEW o \in Openers, StepOf(o) PROVE OpenInv'
    <3>1. OpenTypeOK'
      BY <1>1, <2>1, OpenTypeStep DEF OpenInv
    <3>2. FilesInv' /\ SchemaInv' /\ ConnInv' /\ VerdictInv' /\ RivalInv'
      BY <1>1, <2>1, <3>1, FilesStep, SchemaStep, ConnStep, VerdictStep, RivalStep
      DEF OpenInv
    <3>3. RaceInv' /\ FailInv'
      BY <1>1, <2>1, <3>1, RaceStep, FailStep DEF OpenInv
    <3> QED BY <3>1, <3>2, <3>3 DEF OpenInv
  <2>2. CASE UNCHANGED openVars
    BY ZenonT(30), <1>1, <2>2
    DEF openVars, path, local, OpenInv, OpenTypeOK, FilesInv, FilesAt, ValidFiles, SchemaInv,
        SchemaAt, ConnInv, VerdictInv, RivalInv, Opening, RaceInv, Raced, Safe,
        Fresh, FailInv
  <2> QED BY <1>1, <2>1, <2>2 DEF OpenNext, StepOf
<1> QED BY <1>1, OpenInitial, PTL DEF OpenSpec

(* Whatever part of the schema an open finds, and whatever other processes *)
(* do or leave undone meanwhile, the database it returns is complete.      *)
THEOREM OpenedIsReadyCorrect == OpenSpec => []OpenedIsReady
<1>1. ASSUME OpenInv PROVE OpenedIsReady
  <2> SUFFICES ASSUME NEW o \in Openers, pc[o] = "open"
               PROVE  /\ objects = Schema /\ conn[o] = "free" /\ o \in connected
                      /\ verdict[o].fails = {} /\ ~verdict[o].missing
    BY DEF OpenedIsReady
  <2>1. ToSet(Script) \subseteq objects /\ Column \in objects /\ objects \subseteq Schema
    BY <1>1 DEF OpenInv, SchemaInv, SchemaAt, OpenTypeOK
  <2>2. conn[o] = "free" /\ o \in connected
    BY <1>1 DEF OpenInv, ConnInv, Past
  <2>3. verdict[o].fails = {} /\ ~verdict[o].missing
    BY <1>1 DEF OpenInv, VerdictInv
  <2> QED BY <2>1, <2>2, <2>3 DEF Schema
<1> QED BY <1>1, OpenInvariance, PTL

(* An open that fails without an I/O error has a reason that doctor shows, *)
(* or lost to another open that does not fail.                             *)
THEOREM FailureExplainedCorrect == OpenSpec => []FailureExplained
<1>1. ASSUME OpenInv PROVE FailureExplained
  <2>1. \A p : Safe(p) => pc[p] # "failed"
    BY DEF Safe
  <2> QED BY <1>1, <2>1 DEF OpenInv, FailInv, FailureExplained
<1> QED BY <1>1, OpenInvariance, PTL
=============================================================================
