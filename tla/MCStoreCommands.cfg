SPECIFICATION FairSpec
CONSTANTS
  Events = {"e1", "e2"}
  Ids <- MCIds
  Redacted <- MCRedacted
  Rank <- MCRank
  Writers = {w1}
  Batches = {b1, b2}
  Asked = {}
  Readers = {}
  Replies <- FewReplies
  Nobody = Nobody
  Calls <- CommandCalls
  Limit = 2
  MinScore = 0
  MaxCalls = 3
INVARIANTS EvidenceComplete StatusMatchesReport BatchAccounts
PROPERTIES BatchEnds
CHECK_DEADLOCK FALSE
