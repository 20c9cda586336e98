----------------------------- MODULE MCOutputFrame -----------------------------
(* OutputFrame with interchangeable images.                                *)
EXTENDS OutputFrame, TLC

ImageSymmetry == Permutations(Image)
================================================================================
