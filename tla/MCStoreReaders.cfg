SPECIFICATION Spec
CONSTANTS
  Events = {"e1", "e2"}
  Ids <- MCIds
  Redacted <- MCRedacted
  Rank <- MCRank
  Writers = {w1}
  Batches = {b1, b2}
  Asked = {"inc-1", "inc-2"}
  Readers = {r1}
  Replies <- MCReplies
  Nobody = Nobody
  Calls <- ExportedCalls
  Limit = 1
  MinScore = 1
  MaxCalls = 2
INVARIANTS AnswerStored ShowCoherent
PROPERTIES ImplementsEvidenceStore
CHECK_DEADLOCK FALSE
