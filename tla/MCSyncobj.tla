------------------------------- MODULE MCSyncobj -------------------------------
(* The waits of Syncobj for TLC.                                              *)
EXTENDS Syncobj, TLC

================================================================================
