--------------------------- MODULE MCSurfaceCommit ---------------------------
(* Instances of SurfaceCommit for TLC: surfaces are interchangeable.       *)
EXTENDS SurfaceCommit, TLC

SurfaceSymmetry == Permutations(Surface)

=============================================================================
