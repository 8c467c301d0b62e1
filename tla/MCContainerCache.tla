--------------------------- MODULE MCContainerCache ---------------------------
(* TLC instance of ContainerCache; PIDs are interchangeable.               *)
EXTENDS ContainerCache, TLC

CONSTANTS p1, p2, p3, u

PidSymmetry == Permutations({p1, p2, p3})
=============================================================================
