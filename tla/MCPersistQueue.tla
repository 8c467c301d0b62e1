--------------------------- MODULE MCPersistQueue ---------------------------
(* TLC instance of PersistQueue: one goroutine enqueues and reads the      *)
(* statistics, as the main goroutine of runLive does; a second one may     *)
(* close the queue and read its error at any time.                         *)
EXTENDS PersistQueue

CONSTANTS c1, c2
=============================================================================
