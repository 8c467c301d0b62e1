\* Collectors that --collectors behavior_core adds.
CONSTANTS
  p = p
  t1 = t1
  t2 = t2
  d1 = d1
  d2 = d2
  Legacy = TRUE
  Collectors = {"sensitive_read", "file_lifecycle", "network_server", "privilege_change", "namespace_change", "process_access", "kernel_tamper"}
  Pids = {p}
  Threads = {t1, t2}
  Made = {"openat", "unlinkat", "bind", "ptrace", "mount"}
  Dirs = {d1, d2}
  Names = {"file"}
  Programs = {"shell"}
  MaxCalls = 1
  MaxSteps = 1
SPECIFICATION Spec
SYMMETRY Symmetry
INVARIANT NoneRefused
CHECK_DEADLOCK FALSE
