------------------------------ MODULE LLMClient ------------------------------
(***************************************************************************)
(* The LLM client of internal/llm: which replies of the endpoint Analyze   *)
(* accepts, and the report it makes of them.                               *)
(*                                                                         *)
(* A reply has an outcome: "answer" when the endpoint returned a completion *)
(* with assistant content, otherwise what went wrong.  An answer carries a *)
(* JSON document: the fields of the report with the kind of value ("absent",*)
(* "null", "string", "list" or "other") and the value, whether there is an *)
(* unknown field and whether something follows the document.  An item of a *)
(* list has a kind and a value as a field has.  Each name is taken to occur*)
(* once in a document.                                                     *)
(***************************************************************************)
EXTENDS Sequences

Texts == {"summary", "risk_level", "likely_behavior"}

Lists == {"why_suspicious", "false_positive_possibilities",
          "recommended_commands", "containment_advice"}

RiskLevels == {"low", "medium", "high", "critical"}

(* redact.RedactString: "secret" stands for a text with a credential.      *)
RedactString(t) == IF t = "secret" THEN "redacted" ELSE t

RedactStrings(ts) == [n \in DOMAIN ts |-> RedactString(ts[n])]

(* A Go slice of strings; nil and empty differ.                            *)
Nil == [nil |-> TRUE, items |-> <<>>]
Slice(ts) == [nil |-> FALSE, items |-> ts]

(* encoding/json into a Report: what is absent or null leaves the zero     *)
(* value, also an item of a list that is null; a value of another type is  *)
(* an error, as is an unknown field (DisallowUnknownFields) and anything   *)
(* after the document (ensureEOF).                                         *)
Decodes(doc) ==
  /\ \A f \in Texts : doc.fields[f].json \in {"absent", "null", "string"}
  /\ \A f \in Lists :
       /\ doc.fields[f].json \in {"absent", "null", "list"}
       /\ doc.fields[f].json = "list" =>
            \A n \in DOMAIN doc.fields[f].value :
              doc.fields[f].value[n].json \in {"null", "string"}
  /\ ~doc.unknown /\ ~doc.trailing

DecodedText(v) == IF v.json = "string" THEN v.value ELSE ""

DecodedItems(vs) == [n \in DOMAIN vs |-> DecodedText(vs[n])]

Decoded(doc) ==
  [texts |-> [f \in Texts |-> DecodedText(doc.fields[f])],
   lists |-> [f \in Lists |-> IF doc.fields[f].json = "list"
                              THEN Slice(DecodedItems(doc.fields[f].value)) ELSE Nil]]

(* Mutant: a list that is missing is as good as an empty one.              *)
ValidateReportNilList(r) ==
  /\ \A f \in Texts : r.texts[f] # ""
  /\ r.texts["risk_level"] \in RiskLevels

ValidateReport(r) ==
  /\ \A f \in Texts : r.texts[f] # ""
  /\ \A f \in Lists : ~r.lists[f].nil
  /\ r.texts["risk_level"] \in RiskLevels

(* RedactStrings makes a slice of the same length, so a nil list becomes   *)
(* an empty one; the risk level is not redacted.                           *)
RedactReport(r) ==
  [texts |-> [f \in Texts |-> IF f = "risk_level" THEN r.texts[f]
                              ELSE RedactString(r.texts[f])],
   lists |-> [f \in Lists |-> Slice(RedactStrings(r.lists[f].items))]]

(* Analyze returns a report: no transport error, timeout or redirect, a    *)
(* body within its bound, status 2xx, a completion with content, and in it *)
(* a document decodeReport accepts.                                        *)
Analyzed(reply) ==
  /\ reply.outcome = "answer"
  /\ Decodes(reply.doc) /\ ValidateReport(Decoded(reply.doc))
=============================================================================
