------------------------------- MODULE MCStore -------------------------------
(* Small databases.  `inc-secret' stands for an incident id that redaction *)
(* changes into another one; a fixture may hold an edited version of an    *)
(* incident, evidence shared by two incidents and one event id twice.      *)
EXTENDS Store

MCIds == {"inc-1", "inc-2", "inc-secret"}
MCRedacted == [i \in MCIds |-> IF i = "inc-secret" THEN "inc-2" ELSE i]
MCRank == [i \in MCIds |-> IF i = "inc-1" THEN 1 ELSE IF i = "inc-2" THEN 2 ELSE 3]

Incident(id, evs, score) == [id |-> id, events |-> evs, score |-> score]

First  == Incident("inc-1", <<"e1", "e2">>, 1)
Edited == Incident("inc-1", <<"e2">>, 0)
Second == Incident("inc-2", <<"e2">>, 2)
Secret == Incident("inc-secret", <<"e1">>, 1)
Twice  == Incident("inc-2", <<"e2", "e2">>, 1)

SaveAll(recs) == [op : {"SaveIncidentWithEvents"}, record : recs]

(* The calls of the commands that matter to incidents and their reports.   *)
CommandCalls == SaveAll({First, Edited, Second})

(* The endpoint fails, or answers: with a full report, one with empty      *)
(* lists or with an item that is null or no text, one with an unknown      *)
(* field, a second document or a risk level of its own, or one that lacks  *)
(* a field, is null there or of another type.                              *)
Text(t) == [json |-> "string", value |-> t]
List(ts) == [json |-> "list", value |-> ts]

Document(fields, unknown, trailing) ==
  [outcome |-> "answer",
   doc |-> [fields |-> fields, unknown |-> unknown, trailing |-> trailing]]

Report(items) ==
  [f \in Texts \union Lists |->
     IF f \in Lists THEN List(items) ELSE IF f = "risk_level" THEN Text("high")
     ELSE Text("secret")]

Full == Report(<<Text("because"), Text("secret")>>)
Item(kind) == [json |-> kind, value |-> ""]

MCReplies ==
  [outcome : {"unreachable", "redirect", "timeout", "too long", "status",
              "not json", "no content"}]
    \union {Document(Full, FALSE, FALSE), Document(Report(<<>>), FALSE, FALSE),
            Document(Report(<<Item("null"), Text("secret")>>), FALSE, FALSE),
            Document(Report(<<Text("because"), Item("other")>>), FALSE, FALSE),
            Document(Full, TRUE, FALSE), Document(Full, FALSE, TRUE),
            Document([Full EXCEPT !["risk_level"] = Text("severe")], FALSE, FALSE)}
    \union {Document([Full EXCEPT ![f] = Item(k)], FALSE, FALSE) :
              f \in Texts \union Lists, k \in {"absent", "null", "other"}}

(* What a batch tells apart.                                               *)
FewReplies == {[outcome |-> "timeout"], Document(Report(<<>>), FALSE, FALSE)}

(* Every exported operation of the store; the ones no command uses (bare   *)
(* saves of incidents, links on their own) concern one of the incidents.   *)
ExportedCalls ==
  SaveAll({First, Edited, Second, Secret, Twice})
    \union [op : {"SaveIncident"}, record : {Twice, Secret}]
    \union [op : {"SaveEvents"}, events : {<<"e1">>}]
    \union [op : {"LinkIncidentEvents"}, id : {"inc-2"}, events : {<<"e2", "e1">>, <<>>}]
=============================================================================
