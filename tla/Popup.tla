--------------------------------- MODULE Popup ---------------------------------
(***************************************************************************)
(* Popups of a toplevel (src/way/shell/popup.cpp).  A popup is placed when *)
(* it is made and when its client asks for another place, at any time of   *)
(* the toplevel's life with a window: in every state of Toplevel, by any   *)
(* rules, against the outputs as the window's place makes them look.       *)
(***************************************************************************)
EXTENDS Toplevel, Positioner

CONSTANTS
  Viewports, \* The outputs' viewports, in the order of WmServer::io.outputs.
  PopupRules \* Rules clients ask for.

ASSUME ViewportsAssumption == Viewports \in Seq(Region) /\ Viewports # <<>>
ASSUME RulesAssumption == PopupRules \subseteq WayPositionerRules

(* scene_tree_get_position of the tree of the toplevel's surface.          *)
SurfacePlace == frame.origin + tree

(* popup_update_geometry: where on the desktop a popup by these rules is.  *)
Shown(rules) ==
  [position(rules, Viewports, SurfacePlace) EXCEPT !.pos = @ + SurfacePlace + geometry.origin]

(* Wherever the window is and whatever shadow its client draws around it   *)
(* by then, a popup is shown on the desktop as its rules ask, for the      *)
(* output the code finds, moved by the width of the shadow: it is neither  *)
(* moved, flipped nor clipped without need, and what may slide and fits    *)
(* is whole inside.  Without a shadow that is the output itself.  (With    *)
(* one, position constrains in the surface's coordinates what counts from  *)
(* the window geometry; the README lists this as a deviation.)             *)
PopupPlaced ==
  windowed =>
    \A rules \in PopupRules :
      LET start == frame.origin + rules.anchor_rect.pos + rules.offset
          Local(r) == [r EXCEPT !.pos = @ - start]
          output == wm_find_output_at(Viewports, AnchorPoint(rules))
          moved == [output EXCEPT !.pos = @ + geometry.origin]
      IN  IsBest(axis_rules(rules), Local(moved), Local(Shown(rules)))

===============================================================================
