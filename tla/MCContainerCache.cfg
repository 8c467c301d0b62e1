\* One collector, three PIDs, three processes, two cache places.
CONSTANTS
  p1 = p1
  p2 = p2
  p3 = p3
  Users = {u}
  u = u
  Pids = {p1, p2, p3}
  Containers = {"c"}
  MaxEntries = 2
  TTL = 1
  MaxTime = 2
  MaxProcesses = 3
SPECIFICATION Spec
SYMMETRY PidSymmetry
INVARIANTS HitIsOwn
PROPERTY EvictsExpiredFirst
CHECK_DEADLOCK FALSE
