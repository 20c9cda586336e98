---------------------------- MODULE MCGpuResources -----------------------------
(* Images and descriptors for TLC.                                         *)
EXTENDS GpuResources, TLC

CONSTANTS linear, tiled

MaxId == [p \in Pool |-> 2]
Driver == (linear :> {"texture", "render"}) @@ (tiled :> {"texture"})
Symmetry == Permutations(Image)
===============================================================================
