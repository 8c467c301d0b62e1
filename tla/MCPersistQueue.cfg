\* One goroutine enqueues and reads statistics, another may close the queue too.
CONSTANTS
  c1 = c1
  c2 = c2
  Clients = {c1, c2}
  Producers = {c1}
  Worker = worker
  NoOwner = none
  Capacity = 2
  BatchSize = 2
  MaxCalls = 5
SPECIFICATION FairSpec
INVARIANTS NoPanic Conservation StoredInOrder CloseNilMeansStored SnapshotCoherent
PROPERTIES FailureIsFinal CloseReturns ImplementsLedger
