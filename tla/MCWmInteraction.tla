---------------------------- MODULE MCWmInteraction ----------------------------
(* Instances of WmInteraction for TLC.  Windows are interchangeable.       *)
EXTENDS WmInteraction

Symmetry == Permutations(Window)

=============================================================================
