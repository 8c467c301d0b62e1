------------------------------ MODULE MCCapture ------------------------------
(* TLC instance of Capture; threads and directories are interchangeable.   *)
EXTENDS Capture

CONSTANTS p, t1, t2, d1, d2

Symmetry == Permutations({t1, t2}) \union Permutations({d1, d2})
=============================================================================
