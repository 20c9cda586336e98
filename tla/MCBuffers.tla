------------------------------- MODULE MCBuffers -------------------------------
(* Buffers for TLC.                                                        *)
EXTENDS Buffers
===============================================================================
