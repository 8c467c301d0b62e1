CONSTANTS
  Shapes <- MCShapes
  NoPath = "none"
  CorrelationWindow = 3
  InactivityTimeout = 2
  MaxCandidates = 2
  MaxEvents = 2
  MaxRetainedEvents = 3
  MaxSkew = 1
  MaxClock = 4
  MaxAdds = 4
SPECIFICATION Spec
INVARIANTS WithinLimits HistoryReported IndexesExact SpanBounded
PROPERTIES ImplementsCandidates 
