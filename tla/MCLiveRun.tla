------------------------------ MODULE MCLiveRun ------------------------------
(* TLC instance of LiveRun.                                                *)
EXTENDS LiveRun

CONSTANTS c1, c2
=============================================================================
