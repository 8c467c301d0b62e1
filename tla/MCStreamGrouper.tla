--------------------------- MODULE MCStreamGrouper ---------------------------
(* TLC instance of StreamGrouper.  The shapes relate events by process, by *)
(* parent, by written file and by executed file, and leave one unrelated.  *)
EXTENDS StreamGrouper

Shape(home, pid, ppid, file, exe) ==
  [home |-> home, pid |-> pid, ppid |-> ppid, file |-> file, exe |-> exe]

MCShapes ==
  { Shape("host", 1, 0, "none", "none"),    (* a process                   *)
    Shape("host", 2, 1, "f", "none"),       (* its child writes f          *)
    Shape("host", 3, 0, "none", "f"),       (* another process executes f  *)
    Shape("cont", 1, 0, "none", "none") }   (* the same PID in a container *)
=============================================================================
