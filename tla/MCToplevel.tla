------------------------------ MODULE MCToplevel ------------------------------
(* A toplevel and its popups for TLC.  Two outputs side by side; a button  *)
(* near the window's edge, with menus smaller, as large and larger than    *)
(* an output, that may or may not be flipped, slid and resized.            *)
EXTENDS Popup

MCViewports == <<[pos |-> 0, size |-> 4], [pos |-> 4, size |-> 3]>>

MCRules ==
  [anchor_rect : {[pos |-> 2, size |-> 1]}, anchor : {"near", "far"}, gravity : Edge,
   size : {2, 4, 5}, offset : {1}, flip : BOOLEAN, slide : BOOLEAN, resize : BOOLEAN]

=============================================================================
