\* The four default collectors and one of the behavior collectors.
CONSTANTS
  p = p
  t1 = t1
  t2 = t2
  d1 = d1
  d2 = d2
  Legacy = TRUE
  Collectors = {"execve", "connect", "file_write", "chmod", "process_access"}
  Pids = {p}
  Threads = {t1, t2}
  Made = {"execve", "connect_ipv4", "write", "fchmodat2"}
  Dirs = {d1, d2}
  Names = {"file"}
  Programs = {"shell"}
  MaxCalls = 2
  MaxSteps = 3
SPECIFICATION Spec
SYMMETRY Symmetry
INVARIANTS RecordIsWhole EventIsTrue DiscardIsExplained CollectorOrder
CHECK_DEADLOCK FALSE
