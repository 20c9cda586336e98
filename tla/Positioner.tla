------------------------------ MODULE Positioner ------------------------------
(***************************************************************************)
(* Where a popup goes (src/way/shell/popup.cpp): the xdg_positioner's      *)
(* rules and the constraint of the output give its place and size, axis by *)
(* axis.  A region of an axis is [pos, size].  Edges of both axes are      *)
(* named alike: "near" is left or top, "far" right or bottom, "middle"     *)
(* neither.                                                                *)
(***************************************************************************)
EXTENDS Integers, Sequences

Region == [pos : Int, size : Nat]
Edge == {"near", "middle", "far"}

(* The rules one axis of a WayPositionerRules comes down to.               *)
AxisRules ==
  [anchor : Region, gravity : Int, size : Nat, flip : BOOLEAN, slide : BOOLEAN,
   resize : BOOLEAN]

(* get_position: gravity is the part of the popup past the anchor point.   *)
get_position(rules) ==
  [pos |-> rules.anchor.pos + rules.gravity - rules.size, size |-> rules.size]

Flipped(rules) ==
  [rules EXCEPT !.anchor.pos = rules.anchor.size - rules.anchor.pos,
                !.gravity = rules.size - rules.gravity]

(* get_overlaps: how far a region sticks out at its start and at its end.  *)
StartOverlap(region, constraint) == constraint.pos - region.pos
EndOverlap(region, constraint) ==
  region.pos + region.size - (constraint.pos + constraint.size)

is_unconstrained(region, constraint) ==
  StartOverlap(region, constraint) <= 0 /\ EndOverlap(region, constraint) <= 0

Lesser(a, b) == IF a < b THEN a ELSE b

(* Seeded fault: a popup is moved all the way in from its start only.      *)
SlideBackOnly(rules, region, constraint) ==
  LET start == StartOverlap(region, constraint)
      end == EndOverlap(region, constraint)
  IN  IF start > 0 THEN region
      ELSE [region EXCEPT !.pos = @ - Lesser(end, -start)]

(* Sliding a region that sticks out on one side moves it in, until it      *)
(* would stick out on the other; one that sticks out on both is moved to   *)
(* an end of the constraint by its gravity, if that has a direction.       *)
Slide(rules, region, constraint) ==
  LET start == StartOverlap(region, constraint)
      end == EndOverlap(region, constraint)
  IN  IF start > 0 /\ end > 0
      THEN [region EXCEPT !.pos = IF rules.gravity = rules.size THEN @ + start
                                  ELSE IF rules.gravity = 0 THEN @ - end
                                  ELSE @]
      ELSE IF start > 0 THEN [region EXCEPT !.pos = @ + Lesser(start, -end)]
      ELSE [region EXCEPT !.pos = @ - Lesser(end, -start)]

(* Resizing clips what sticks out, unless all of it does.                  *)
Resize(region, constraint) ==
  LET start == StartOverlap(region, constraint)
      end == EndOverlap(region, constraint)
  IN  IF start > 0 /\ end > 0 THEN constraint
      ELSE IF start > 0 /\ start < region.size
      THEN [pos |-> region.pos + start, size |-> region.size - start]
      ELSE IF end > 0 /\ end < region.size
      THEN [region EXCEPT !.size = @ - end]
      ELSE region

(* After a slide from one side only, nothing is clipped any more.          *)
positioner_apply_axis(rules, constraint) ==
  LET region == get_position(rules)
      flipped == get_position(Flipped(rules))
      both == StartOverlap(region, constraint) > 0 /\ EndOverlap(region, constraint) > 0
      slid == IF rules.slide THEN Slide(rules, region, constraint) ELSE region
  IN  IF is_unconstrained(region, constraint) THEN region
      ELSE IF rules.flip /\ is_unconstrained(flipped, constraint) THEN flipped
      ELSE IF rules.slide /\ ~both THEN slid
      ELSE IF rules.resize THEN Resize(slid, constraint)
      ELSE slid

-------------------------------------------------------------------------------
(* The rules as the client gives them, for one axis.                       *)
WayPositionerRules ==
  [anchor_rect : Region, anchor : Edge, gravity : Edge, size : Nat, offset : Int,
   flip : BOOLEAN, slide : BOOLEAN, resize : BOOLEAN]

(* positioner_anchor_to_rel and positioner_gravity_to_rel                  *)
edge_to_rel(edge, extent) ==
  CASE edge = "near" -> 0
    [] edge = "middle" -> extent \div 2
    [] edge = "far" -> extent

axis_rules(rules) ==
  [anchor |-> [pos |-> edge_to_rel(rules.anchor, rules.anchor_rect.size),
               size |-> rules.anchor_rect.size],
   gravity |-> edge_to_rel(rules.gravity, rules.size),
   size |-> rules.size,
   flip |-> rules.flip, slide |-> rules.slide, resize |-> rules.resize]

(* positioner_apply_axis_from_rules: the algorithm works relative to the   *)
(* anchor rectangle and the offset.                                        *)
positioner_apply(rules, constraint) ==
  LET offset == rules.anchor_rect.pos + rules.offset
      region == positioner_apply_axis(axis_rules(rules),
                  [constraint EXCEPT !.pos = @ - offset])
  IN  [region EXCEPT !.pos = @ + offset]

(* wm_find_output_at: the output a point is on, else the nearest one, and  *)
(* the first of several.  Points may lie at halves, so they are counted    *)
(* twice.                                                                  *)
Distance(viewport, twice) ==
  LET start == 2 * viewport.pos
      end == 2 * (viewport.pos + viewport.size)
  IN  IF twice < start THEN start - twice
      ELSE IF twice > end THEN twice - end
      ELSE 0

wm_find_output_at(viewports, twice) ==
  LET Before(m, n) == \/ Distance(viewports[m], twice) < Distance(viewports[n], twice)
                      \/ /\ Distance(viewports[m], twice) = Distance(viewports[n], twice)
                         /\ m <= n
  IN  viewports[CHOOSE m \in DOMAIN viewports : \A n \in DOMAIN viewports : Before(m, n)]

(* position: the constraint is the viewport of the output found at half    *)
(* the far edge of the anchor rectangle, taken for a point on the desktop  *)
(* although it is one of the parent, whose surface's place on the desktop  *)
(* is the translation.                                                     *)
AnchorPoint(rules) == rules.anchor_rect.pos + rules.anchor_rect.size

constraint_of(rules, viewports, translation) ==
  [wm_find_output_at(viewports, AnchorPoint(rules)) EXCEPT !.pos = @ - translation]

position(rules, viewports, translation) ==
  positioner_apply(rules, constraint_of(rules, viewports, translation))

-------------------------------------------------------------------------------
(* What a positioner promises.                                             *)

Inside(r, c) == c.pos <= r.pos /\ r.pos + r.size <= c.pos + c.size

(* The common part of two regions, if it has any.                          *)
Meets(r, c) == r.pos < c.pos + c.size /\ c.pos < r.pos + r.size
IsMeet(m, r, c) ==
  /\ m.pos = IF r.pos < c.pos THEN c.pos ELSE r.pos
  /\ m.pos + m.size = Lesser(r.pos + r.size, c.pos + c.size)

Gap(a, b) == IF a < b THEN b - a ELSE a - b

(* Region r is what the rules of an axis ask for under constraint c: the   *)
(* popup where it wants to be, else flipped, if that fits.  Else, allowed  *)
(* to slide and not too large, it is whole inside the constraint and no    *)
(* place inside is nearer to where it wants to be.  Else, allowed to be    *)
(* resized and not to slide, it is the visible part, if there is one.  And *)
(* it is never larger than the client asked for.                           *)
IsBest(rules, c, r) ==
  LET wanted == get_position(rules)
      flipped == get_position(Flipped(rules))
      flips == rules.flip /\ Inside(flipped, c)
  IN  /\ Inside(wanted, c) => r = wanted
      /\ ~Inside(wanted, c) /\ flips => r = flipped
      /\ (~Inside(wanted, c) /\ ~flips /\ rules.slide /\ rules.size <= c.size) =>
           /\ r.size = rules.size
           /\ Inside(r, c)
           /\ \A p \in c.pos .. c.pos + c.size - r.size :
                Gap(r.pos, wanted.pos) <= Gap(p, wanted.pos)
      /\ (~Inside(wanted, c) /\ ~flips /\ ~rules.slide /\ rules.resize /\ Meets(wanted, c)) =>
           IsMeet(r, wanted, c)
      /\ (~Inside(wanted, c) /\ ~flips /\ ~rules.slide /\ ~rules.resize) => r = wanted
      /\ r.size <= rules.size

===============================================================================
