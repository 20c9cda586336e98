----------------------------- MODULE MCSeatFocus -----------------------------
(* Two clients for TLC: one with a toplevel, its popup and a second        *)
(* toplevel, the other with one toplevel.                                  *)
EXTENDS SeatFocus, TLC

CONSTANTS c1, c2, window1, popup1, dialog1, window2

Owners == window1 :> c1 @@ popup1 :> c1 @@ dialog1 :> c1 @@ window2 :> c2
Parents == window1 :> Null @@ popup1 :> window1 @@ dialog1 :> Null @@ window2 :> Null

=============================================================================
