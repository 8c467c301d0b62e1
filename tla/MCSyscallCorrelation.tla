------------------------- MODULE MCSyscallCorrelation -------------------------
(* TLC instances of SyscallCorrelation: threads are interchangeable.       *)
EXTENDS SyscallCorrelation, TLC

CONSTANTS t1, t2

ThreadSymmetry == Permutations({t1, t2})
=============================================================================
