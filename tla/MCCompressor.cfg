\* Five events of downloads, writes, executions and connections, and three of
\* every kind that a rule looks at.
CONSTANTS
  p = p
  q = q
  tmp = tmp
  home = home
  etc = etc
  log = log
  NoPath = NoPath
  NoIncident = NoIncident
  Kinds <- AllKinds
  Pids = {p, q}
  Paths = {tmp, home, etc, log}
  ShellPaths = {}
  SensitiveFiles = {etc}
  SensitiveReadPaths = {etc}
  PersistencePaths = {etc}
  LogPaths = {log}
  TempPaths = {tmp}
  MaxEvents = 5
SPECIFICATION Spec
CONSTRAINT Bound
INVARIANTS DownloadChainSound FailedNeverCounts TimelineComplete ScoreExplained
CHECK_DEADLOCK FALSE
