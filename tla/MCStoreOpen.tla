----------------------------- MODULE MCStoreOpen -----------------------------
(* The databases an open may find: an empty file, one whose creation died  *)
(* in the script, one of an earlier release without the column, one of a   *)
(* still earlier release that lacks tables too, and one that is complete.  *)
EXTENDS StoreOpen

MCOld ==
  {{}, ToSet(SubSeq(Script, 1, 3)), ToSet(SubSeq(Script, 1, 7)) \union {Column},
   Schema \ {Column}, Schema \ {Column, "llm_reports", "rules", "config"}, Schema}
=============================================================================
