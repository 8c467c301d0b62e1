\* Two collectors, queues and sink of one place: every buffer fills.
CONSTANTS
  c1 = c1
  c2 = c2
  Collectors = {c1, c2}
  EventBuffer = 1
  PersistBuffer = 1
  BatchSize = 1
  MaxRecords = 2
SPECIFICATION FairSpec
INVARIANTS NoSendOnClosedSink CleanExitIsComplete FailureIsReported
PROPERTY Stops
