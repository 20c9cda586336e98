------------------------------ MODULE WmSceneProofs ------------------------------
(***************************************************************************)
(* Theorems about WmInteraction: an interaction ends with its button or    *)
(* its modifier, and asks for its own window only; the scene shows the     *)
(* windows in the list's order, the one with the keyboard on top; a focus  *)
(* cycle comes by every window.  For any windows and number of buttons.    *)
(*                                                                         *)
(* Theorems about Scene: trees stay trees and agree with what is in them;  *)
(* the pointer's focus is not left behind by a change; no change of the    *)
(* picture goes without a frame; a frame shows the picture.  For any       *)
(* nodes, images, areas, meshes and translations.                          *)
(***************************************************************************)
EXTENDS WmInteraction, Scene, SequenceTheorems, WellFoundedInduction, TLAPS

ZoneShape == zone = [window |-> zone.window, selecting |-> zone.selecting]

(* A drag moves the window it began on, or nothing once that is gone.      *)
DragTarget == mode \in {"move", "size"} => movesize \in {under, None}

(* A zone begun on a window places that one, or nothing once it is gone.   *)
ZoneTarget == mode = "zone" /\ under # None => zone.window \in {under, None}

IInv ==
  /\ HeldWhileActive
  /\ pressed \in Nat
  /\ ZoneShape
  /\ DragTarget
  /\ ZoneTarget

(* The invariant holds initially.                                          *)
LEMMA InitHasIInv == Init => IInv
<1> SUFFICES ASSUME Init PROVE IInv
  OBVIOUS
<1>1. HeldWhileActive
  BY DEF Init, HeldWhileActive
<1>2. pressed \in Nat /\ ZoneShape
  BY DEF Init, ZoneShape
<1>3. DragTarget /\ ZoneTarget
  BY DEF Init, DragTarget, ZoneTarget
<1>4. QED
  BY <1>1, <1>2, <1>3 DEF IInv

(* What all steps but those of the pointer and the cycle have in common:   *)
(* they leave the interaction alone.                                       *)
LEMMA OthersKeepIInv ==
  ASSUME IInv, UNCHANGED interaction, pressed' \in Nat,
         pressed # 0 => pressed' # 0,
         mode = "focus_cycle" => main_mod'
  PROVE  IInv'
<1>1. UNCHANGED <<mode, movesize, zone, cycled, under>>
  BY DEF interaction
<1>2. HeldWhileActive'
  BY <1>1 DEF IInv, HeldWhileActive
<1>3. ZoneShape' /\ DragTarget' /\ ZoneTarget'
  BY <1>1 DEF IInv, ZoneShape, DragTarget, ZoneTarget
<1>4. QED
  BY <1>2, <1>3 DEF IInv

(* Creating, mapping and unmapping a window keep the invariant.            *)
LEMMA WindowsKeepIInv ==
  ASSUME IInv, NEW w \in Window,
         wm_window_create(w) \/ wm_window_map(w) \/ wm_window_unmap(w)
  PROVE  IInv'
<1>1. UNCHANGED <<interaction, pressed, main_mod>>
  BY DEF wm_window_create, wm_window_map, wm_window_unmap, input
<1>2. QED
  BY <1>1, OthersKeepIInv DEF IInv, HeldWhileActive

(* Destroying a window keeps the invariant.                                *)
LEMMA DestroyKeepsIInv ==
  ASSUME IInv, NEW w \in Window, WmWindow_destroy(w)
  PROVE  IInv'
<1>1. UNCHANGED <<mode, main_mod, pressed, under>>
  BY DEF WmWindow_destroy
<1>2. movesize' \in {movesize, None} /\ cycled' \in {cycled, None}
  BY DEF WmWindow_destroy, Unless
<1>3. zone' = [window |-> Unless(w, zone.window), selecting |-> zone.selecting]
  BY DEF WmWindow_destroy, IInv, ZoneShape
<1>4. zone'.window \in {zone.window, None}
  BY <1>3 DEF Unless
<1>5. HeldWhileActive'
  BY <1>1, <1>2 DEF IInv, HeldWhileActive
<1>6. pressed' \in Nat /\ ZoneShape'
  BY <1>1, <1>3 DEF IInv, ZoneShape
<1>7. DragTarget' /\ ZoneTarget'
  BY <1>1, <1>2, <1>4 DEF IInv, DragTarget, ZoneTarget
<1>8. QED
  BY <1>5, <1>6, <1>7 DEF IInv

(* The begin of an interaction keeps the invariant.                        *)
LEMMA BeginKeepsIInv ==
  ASSUME IInv, NEW hover, begin(hover)
  PROVE  IInv'
<1>1. mode = "none" /\ main_mod' = main_mod /\ pressed' \in Nat /\ pressed' # 0
  BY DEF begin, Press, IInv
<1>2. PICK w \in Found : \/ begin_interaction(w, "size")
                         \/ begin_interaction(w, "move")
                         \/ begin_zone(w)
  BY DEF begin
<1>3. cycled' = cycled /\ mode' # "focus_cycle" /\ cycled = None
  BY <1>1, <1>2 DEF begin_interaction, begin_zone, IInv, HeldWhileActive
<1>4. HeldWhileActive'
  BY <1>1, <1>3 DEF HeldWhileActive
<1>5. ZoneShape'
  BY <1>2 DEF begin_interaction, begin_zone, IInv, ZoneShape
<1>6. DragTarget'
  BY <1>1, <1>2 DEF begin_interaction, begin_zone, DragTarget
<1>7. ZoneTarget'
  BY <1>1, <1>2 DEF begin_interaction, begin_zone, ZoneTarget
<1>8. QED
  BY <1>1, <1>4, <1>5, <1>6, <1>7 DEF IInv

(* Pressing a button keeps the invariant.                                  *)
LEMMA PressesKeepIInv ==
  ASSUME IInv, NEW b \in Button, NEW hover,
         close_hotkey(hover) \/ press_during(b, hover) \/ press(b, hover)
  PROVE  IInv'
<1>1. main_mod' = main_mod /\ pressed' \in Nat /\ pressed' # 0
  <2>1. Press
    BY DEF close_hotkey, press_during, press
  <2>2. QED
    BY <2>1 DEF Press, IInv
<1>2. CASE close_hotkey(hover) \/ press(b, hover)
  <2>1. UNCHANGED interaction
    BY <1>2 DEF close_hotkey, press
  <2>2. QED
    BY <1>1, <2>1, OthersKeepIInv DEF IInv, HeldWhileActive
<1>3. CASE press_during(b, hover)
  <2>1. UNCHANGED <<mode, movesize, cycled, under>>
    BY <1>3 DEF press_during
  <2>2. zone'.window = zone.window /\ ZoneShape'
    BY <1>3 DEF press_during, IInv, ZoneShape
  <2>3. HeldWhileActive'
    BY <1>1, <2>1 DEF IInv, HeldWhileActive
  <2>4. DragTarget' /\ ZoneTarget'
    BY <2>1, <2>2 DEF IInv, DragTarget, ZoneTarget
  <2>5. QED
    BY <1>1, <2>2, <2>3, <2>4 DEF IInv
<1>4. QED
  BY <1>2, <1>3

(* The last release ends a drag and a zone; others change nothing.         *)
LEMMA ReleaseKeepsIInv ==
  ASSUME IInv, release
  PROVE  IInv'
<1>1. pressed' \in Nat /\ main_mod' = main_mod
  BY DEF release, IInv
<1>2. CASE mode' = "none"
  <2>1. zone' = zone /\ cycled' = cycled
    BY DEF release, end_interaction, end_zone, interaction
  <2>2. cycled = None
    <3>1. mode # "focus_cycle"
      BY <1>2 DEF release, end_interaction, end_zone, interaction
    <3>2. QED
      BY <3>1 DEF IInv, HeldWhileActive
  <2>3. HeldWhileActive'
    BY <1>2, <2>1, <2>2 DEF HeldWhileActive
  <2>4. ZoneShape' /\ DragTarget' /\ ZoneTarget'
    BY <1>2, <2>1 DEF IInv, ZoneShape, DragTarget, ZoneTarget
  <2>5. QED
    BY <1>1, <2>3, <2>4 DEF IInv
<1>3. CASE mode' # "none"
  <2>1. UNCHANGED interaction
    BY <1>3 DEF release, end_interaction, end_zone
  <2>2. mode \in {"move", "size", "zone"} => pressed' # 0
    BY <1>3 DEF release, end_interaction, end_zone
  <2>3. UNCHANGED <<mode, movesize, zone, cycled, under>>
    BY <2>1 DEF interaction
  <2>4. HeldWhileActive'
    BY <1>1, <2>2, <2>3 DEF IInv, HeldWhileActive
  <2>5. ZoneShape' /\ DragTarget' /\ ZoneTarget'
    BY <2>3 DEF IInv, ZoneShape, DragTarget, ZoneTarget
  <2>6. QED
    BY <1>1, <2>4, <2>5 DEF IInv
<1>4. QED
  BY <1>2, <1>3

(* Cycling the focus keeps the invariant.                                  *)
LEMMA CycleKeepsIInv ==
  ASSUME IInv, NEW in_cycle, NEW forward, focus_cycle(in_cycle, forward)
  PROVE  IInv'
<1>1. mode' = "focus_cycle" /\ main_mod
  BY DEF focus_cycle
<1>2. UNCHANGED <<main_mod, pressed, movesize, zone, under>>
  BY DEF focus_cycle, input
<1>3. HeldWhileActive'
  BY <1>1, <1>2 DEF HeldWhileActive
<1>4. ZoneShape' /\ DragTarget' /\ ZoneTarget'
  BY <1>1, <1>2 DEF IInv, ZoneShape, DragTarget, ZoneTarget
<1>5. QED
  BY <1>2, <1>3, <1>4 DEF IInv

(* Releasing the modifier keeps the invariant.                             *)
LEMMA ModifierReleaseKeepsIInv ==
  ASSUME IInv, modifier_release
  PROVE  IInv'
<1>1. pressed' = pressed
  BY DEF modifier_release
<1>2. CASE mode = "focus_cycle"
  <2>1. mode' = "none" /\ cycled' = None /\ zone' = zone
    BY <1>2 DEF modifier_release, focus_cycle_end
  <2>2. HeldWhileActive' /\ ZoneShape' /\ DragTarget' /\ ZoneTarget'
    BY <2>1 DEF IInv, HeldWhileActive, ZoneShape, DragTarget, ZoneTarget
  <2>3. QED
    BY <1>1, <2>2 DEF IInv
<1>3. CASE mode # "focus_cycle"
  <2>1. UNCHANGED interaction
    BY <1>3 DEF modifier_release
  <2>2. QED
    BY <1>1, <1>3, <2>1, OthersKeepIInv DEF IInv
<1>4. QED
  BY <1>2, <1>3

(* Every step keeps the invariant.                                         *)
LEMMA NextKeepsIInv == IInv /\ [Next]_vars => IInv'
<1> SUFFICES ASSUME IInv, [Next]_vars PROVE IInv'
  OBVIOUS
<1>1. CASE UNCHANGED vars
  BY <1>1, OthersKeepIInv DEF vars, interaction, input, IInv, HeldWhileActive
<1>2. CASE \E w \in Window : \/ wm_window_create(w) \/ wm_window_map(w)
                             \/ wm_window_unmap(w)  \/ WmWindow_destroy(w)
  BY <1>2, WindowsKeepIInv, DestroyKeepsIInv
<1>3. CASE motion \/ unfocus_key \/ close_key \/ fullscreen_key
  <2>1. UNCHANGED <<interaction, pressed, main_mod>>
    BY <1>3 DEF motion, unfocus_key, close_key, fullscreen_key, input
  <2>2. QED
    BY <2>1, OthersKeepIInv DEF IInv, HeldWhileActive
<1>4. CASE \E hover \in ToSet(windows) \cup {None} :
             \/ close_hotkey(hover) \/ begin(hover)
             \/ \E b \in Button : press_during(b, hover) \/ press(b, hover)
  <2>1. PICK hover : \/ close_hotkey(hover) \/ begin(hover)
                     \/ \E b \in Button : press_during(b, hover) \/ press(b, hover)
    BY <1>4
  <2>2. "left" \in Button
    BY DEF Button
  <2>3. QED
    BY <2>1, <2>2, BeginKeepsIInv, PressesKeepIInv
<1>5. CASE tab \/ wheel
  BY <1>5, CycleKeepsIInv DEF tab, wheel
<1>6. CASE modifier_press
  <2>1. UNCHANGED <<interaction, pressed>> /\ main_mod'
    BY <1>6 DEF modifier_press
  <2>2. QED
    BY <2>1, OthersKeepIInv DEF IInv
<1>7. CASE modifier_release
  BY <1>7, ModifierReleaseKeepsIInv
<1>8. CASE release
  BY <1>8, ReleaseKeepsIInv
<1>9. QED
  BY <1>1, <1>2, <1>3, <1>4, <1>5, <1>6, <1>7, <1>8 DEF Next

(* Only a drag and the end of a zone ask for a frame.                      *)
LEMMA NextAsksOwnWindow == IInv /\ [Next]_vars => [AsksOwnWindow]_vars
<1> SUFFICES ASSUME IInv, Next PROVE AsksOwnWindow
  OBVIOUS
<1> SUFFICES ASSUME NEW e \in asked'
             PROVE  /\ e.kind = "drag" => e.window = under
                    /\ e.kind = "zone" => under \in {e.window, None}
  BY DEF AsksOwnWindow
<1>1. CASE motion
  <2>1. movesize # None /\ e.kind = "drag" /\ e.window = movesize
    BY <1>1 DEF motion, Event
  <2>2. movesize = under
    BY <1>1, <2>1 DEF motion, IInv, DragTarget
  <2>3. QED
    BY <2>1, <2>2
<1>2. CASE release
  <2>1. mode = "zone" /\ zone.window # None /\ e = Event("zone", zone.window)
    BY <1>2 DEF release, end_interaction, end_zone
  <2>2. under \in {zone.window, None}
    BY <2>1 DEF IInv, ZoneTarget
  <2>3. QED
    BY <2>1, <2>2 DEF Event
<1>3. CASE \/ \E hover : close_hotkey(hover)
           \/ close_key \/ fullscreen_key
  <2>1. e.kind \in {"close", "fullscreen"}
    BY <1>3 DEF close_hotkey, close_key, fullscreen_key, close, Event
  <2>2. QED
    BY <2>1
<1>4. CASE asked' = {}
  BY <1>4
<1>5. QED
  <2>1. ASSUME NEW w \in Window, \/ wm_window_create(w) \/ wm_window_map(w)
                                 \/ wm_window_unmap(w)  \/ WmWindow_destroy(w)
        PROVE  asked' = {}
    BY <2>1 DEF wm_window_create, wm_window_map, wm_window_unmap, WmWindow_destroy
  <2>2. ASSUME NEW hover, \/ begin(hover)
                          \/ \E b \in Button : press_during(b, hover) \/ press(b, hover)
        PROVE  asked' = {}
    BY <2>2 DEF begin, press_during, press
  <2>3. tab \/ wheel \/ modifier_press \/ modifier_release \/ unfocus_key => asked' = {}
    BY DEF tab, wheel, focus_cycle, modifier_press, modifier_release, unfocus_key
  <2>4. QED
    BY <1>1, <1>2, <1>3, <1>4, <2>1, <2>2, <2>3 DEF Next

-----------------------------------------------------------------------------
(* The inductive invariant holds.                                          *)
THEOREM Invariance == Spec => []IInv
BY InitHasIInv, NextKeepsIInv, PTL DEF Spec

(* No drag or zone outlives the last button and no cycle the modifier, in  *)
(* whatever order buttons, keys and windows come and go.                   *)
THEOREM InteractionsEnd == Spec => []HeldWhileActive
<1>1. IInv => HeldWhileActive
  BY DEF IInv
<1>2. QED
  BY <1>1, Invariance, PTL

(* The requests of a drag or a zone are about the window under the pointer *)
(* when it began; a window that is destroyed is never replaced by another. *)
THEOREM RequestsKeepToTheirWindow == Spec => OwnTarget
BY Invariance, NextAsksOwnWindow, PTL DEF Spec, OwnTarget

-----------------------------------------------------------------------------
(* Induction over numbers and over sequences.                              *)

(* Any set of numbers has a least one.                                     *)
LEMMA LeastNumber ==
  ASSUME NEW S, S \subseteq Nat, S # {}
  PROVE  \E m \in S : \A k \in S : m <= k
<1> DEFINE R == {p \in Nat \X Nat : p[1] < p[2]}
<1>1. IsWellFoundedOn(R, Nat)
  <2>1. R = OpToRel(<, Nat)
    BY DEF OpToRel
  <2> QED
    BY <2>1, NatLessThanWellFounded
<1>2. \A a, b \in Nat : a < b => <<a, b>> \in R
  OBVIOUS
<1> HIDE DEF R
<1>3. PICK m \in S : \A k \in S : ~ (<<k, m>> \in R)
  BY <1>1, WFMin
<1>4. ASSUME NEW k \in S PROVE m <= k
  <2>1. k \in Nat /\ m \in Nat
    OBVIOUS
  <2>2. ~ (k < m)
    BY <1>2, <1>3, <2>1
  <2> QED
    BY <2>1, <2>2
<1> QED
  BY <1>4

(* What holds of the empty sequence and stays true when one is extended    *)
(* holds of every sequence.                                                *)
LEMMA SequenceInduction ==
  ASSUME NEW A, NEW P, <<>> \in P,
         \A s \in Seq(A) : s \in P => \A x \in A : Append(s, x) \in P
  PROVE  Seq(A) \subseteq P
<1> DEFINE Bad == {n \in Nat : \E s \in Seq(A) : Len(s) = n /\ s \notin P}
<1>1. SUFFICES ASSUME Bad # {} PROVE FALSE
  <2>1. ASSUME NEW s \in Seq(A), Bad = {} PROVE s \in P
    <3>1. Len(s) \in Nat
      OBVIOUS
    <3> QED
      BY <2>1, <3>1
  <2> QED
    BY <2>1
<1>2. PICK m \in Bad : \A k \in Bad : m <= k
  <2>1. Bad \subseteq Nat
    OBVIOUS
  <2> HIDE DEF Bad
  <2> QED
    BY <1>1, <2>1, LeastNumber
<1>3. PICK s \in Seq(A) : Len(s) = m /\ s \notin P
  OBVIOUS
<1>4. s # <<>>
  BY <1>3
<1> DEFINE t == [i \in 1 .. Len(s) - 1 |-> s[i]]
<1>5. Len(s) \in Nat \ {0} /\ \A i \in 1 .. Len(s) : s[i] \in A
  BY <1>3, <1>4
<1>6. t \in Seq(A) /\ Len(t) = Len(s) - 1 /\ \A i \in 1 .. Len(s) - 1 : t[i] = s[i]
  <2>1. Len(s) - 1 \in Nat /\ t \in [1 .. Len(s) - 1 -> A]
    BY <1>5
  <2> QED
    BY <1>5, <2>1
<1>7. s = Append(t, s[Len(s)])
  <2> HIDE DEF t
  <2>1. Append(t, s[Len(s)]) \in Seq(A)
    BY <1>5, <1>6
  <2>2. Len(Append(t, s[Len(s)])) = Len(s)
    BY <1>5, <1>6
  <2>3. \A i \in 1 .. Len(s) : Append(t, s[Len(s)])[i] = s[i]
    BY <1>5, <1>6
  <2> QED
    BY <2>1, <2>2, <2>3, SeqEqual
<1> HIDE DEF t
<1>8. Len(t) \notin Bad
  <2>1. Len(t) \in Nat /\ ~ (m <= Len(t))
    BY <1>3, <1>5, <1>6
  <2> HIDE DEF Bad
  <2> QED
    BY <1>2, <2>1
<1>9. t \in P
  BY <1>5, <1>6, <1>8
<1>10. Append(t, s[Len(s)]) \in P
  BY <1>5, <1>6, <1>9
<1> QED
  BY <1>3, <1>7, <1>10, Zenon

(* The windows that the loop has kept after its first n.                   *)
Kept(at, ws, shown, n) ==
  at = [k \in 0 .. n |->
          IF k = 0 THEN <<>>
          ELSE IF ws[k] \in shown THEN Append(at[k - 1], ws[k]) ELSE at[k - 1]]

(* Such a function has one value at every place.                           *)
LEMMA KeptIsUnique ==
  ASSUME NEW n \in Nat, NEW ws, NEW v, NEW shown, \A k \in 1 .. n : v[k] = ws[k],
         NEW m \in Nat, n <= m,
         NEW f, Kept(f, ws, shown, n), NEW g, Kept(g, v, shown, m)
  PROVE  \A k \in 0 .. n : f[k] = g[k]
<1> DEFINE Bad == {k \in 0 .. n : f[k] # g[k]}
<1>1. SUFFICES ASSUME Bad # {} PROVE FALSE
  OBVIOUS
<1>2. PICK k \in Bad : \A j \in Bad : k <= j
  <2>1. Bad \subseteq Nat
    OBVIOUS
  <2> HIDE DEF Bad
  <2> QED
    BY <1>1, <2>1, LeastNumber
<1>3. k \in 0 .. n /\ f[k] # g[k] /\ k \in 0 .. m
  OBVIOUS
<1>4. /\ f[k] = IF k = 0 THEN <<>>
                ELSE IF ws[k] \in shown THEN Append(f[k - 1], ws[k]) ELSE f[k - 1]
      /\ g[k] = IF k = 0 THEN <<>>
                ELSE IF v[k] \in shown THEN Append(g[k - 1], v[k]) ELSE g[k - 1]
  BY <1>3 DEF Kept
<1>5. k # 0
  BY <1>3, <1>4
<1>6. f[k - 1] = g[k - 1]
  <2>1. k - 1 \in 0 .. n /\ ~ (k <= k - 1)
    BY <1>3, <1>5
  <2>2. k - 1 \notin Bad
    <3> HIDE DEF Bad
    <3> QED
      BY <1>2, <2>1
  <2> QED
    BY <2>1, <2>2
<1>7. v[k] = ws[k]
  BY <1>3, <1>5
<1> QED
  BY <1>3, <1>4, <1>5, <1>6, <1>7

(* A function as in Keep exists for every sequence, by induction.          *)
LEMMA KeptExists ==
  ASSUME NEW A, NEW shown
  PROVE  \A ws \in Seq(A) : \E f : Kept(f, ws, shown, Len(ws))
<1> DEFINE P == {ws \in Seq(A) : \E f : Kept(f, ws, shown, Len(ws))}
<1>1. <<>> \in P
  <2>1. Kept([k \in 0 .. 0 |-> <<>>], <<>>, shown, 0)
    BY DEF Kept
  <2>2. <<>> \in Seq(A) /\ Len(<<>>) = 0
    OBVIOUS
  <2> QED
    BY <2>1, <2>2
<1>2. ASSUME NEW ws \in Seq(A), ws \in P, NEW x \in A PROVE Append(ws, x) \in P
  <2> DEFINE n == Len(ws)
             v == Append(ws, x)
  <2>1. PICK f : Kept(f, ws, shown, n)
    BY <1>2
  <2> DEFINE last == IF x \in shown THEN Append(f[n], x) ELSE f[n]
             g == [k \in 0 .. n + 1 |-> IF k = n + 1 THEN last ELSE f[k]]
  <2>2. /\ n \in Nat /\ v \in Seq(A) /\ Len(v) = n + 1 /\ v[n + 1] = x
        /\ \A k \in 1 .. n : v[k] = ws[k]
    OBVIOUS
  <2>3. \A k \in 0 .. n : f[k] = IF k = 0 THEN <<>>
          ELSE IF ws[k] \in shown THEN Append(f[k - 1], ws[k]) ELSE f[k - 1]
    BY <2>1 DEF Kept
  <2> HIDE DEF n, v
  <2>4. ASSUME NEW k \in 0 .. n + 1
        PROVE  g[k] = IF k = 0 THEN <<>>
                      ELSE IF v[k] \in shown THEN Append(g[k - 1], v[k]) ELSE g[k - 1]
    <3>1. CASE k = n + 1
      <4>1. g[k] = last /\ g[k - 1] = f[n] /\ k # 0 /\ v[k] = x
        BY <2>2, <3>1
      <4> QED
        BY <4>1
    <3>2. CASE k # n + 1
      <4>1. k \in 0 .. n /\ g[k] = f[k]
        BY <2>2, <3>2
      <4>2. k # 0 => k - 1 \in 0 .. n /\ g[k - 1] = f[k - 1] /\ v[k] = ws[k]
        BY <2>2, <3>2
      <4> QED
        BY <2>3, <4>1, <4>2
    <3> QED
      BY <3>1, <3>2
  <2>5. Kept(g, v, shown, n + 1)
    <3>1. g = [k \in 0 .. n + 1 |-> g[k]]
      OBVIOUS
    <3> HIDE DEF g
    <3> QED
      BY <2>4, <3>1 DEF Kept
  <2> QED
    BY <2>2, <2>5 DEF v
<1> HIDE DEF P
<1>3. Seq(A) \subseteq P
  BY <1>1, <1>2, SequenceInduction
<1> QED
  BY <1>3 DEF P

(* Keep is therefore the last value of such a function.                    *)
LEMMA KeepIsKept ==
  ASSUME NEW A, NEW shown, NEW ws \in Seq(A)
  PROVE  \E f : Kept(f, ws, shown, Len(ws)) /\ Keep(ws, shown) = f[Len(ws)]
<1> DEFINE f == CHOOSE at : Kept(at, ws, shown, Len(ws))
<1>1. Kept(f, ws, shown, Len(ws))
  BY KeptExists
<1>2. Keep(ws, shown) = f[Len(ws)]
  BY DEF Keep, Kept
<1> QED
  BY <1>1, <1>2

(* How the loop begins, and how it goes on.                                *)
LEMMA KeepNone ==
  ASSUME NEW shown
  PROVE  Keep(<<>>, shown) = <<>>
<1>1. <<>> \in Seq({}) /\ Len(<<>>) = 0
  OBVIOUS
<1>2. PICK f : Kept(f, <<>>, shown, 0) /\ Keep(<<>>, shown) = f[0]
  BY <1>1, KeepIsKept
<1> QED
  BY <1>2 DEF Kept

(* One more element is kept, or left out.                                  *)
LEMMA KeepMore ==
  ASSUME NEW A, NEW shown, NEW ws \in Seq(A), NEW x \in A
  PROVE  Keep(Append(ws, x), shown) =
           IF x \in shown THEN Append(Keep(ws, shown), x) ELSE Keep(ws, shown)
<1> DEFINE n == Len(ws)
           v == Append(ws, x)
<1>1. /\ n \in Nat /\ v \in Seq(A) /\ Len(v) = n + 1 /\ v[n + 1] = x
      /\ \A k \in 1 .. n : v[k] = ws[k]
  OBVIOUS
<1> HIDE DEF n, v
<1>2. PICK f : Kept(f, ws, shown, n) /\ Keep(ws, shown) = f[n]
  BY KeepIsKept DEF n
<1>3. PICK g : Kept(g, v, shown, n + 1) /\ Keep(v, shown) = g[n + 1]
  BY KeepIsKept, <1>1
<1>4. f[n] = g[n]
  <2>1. n + 1 \in Nat /\ n <= n + 1 /\ n \in 0 .. n
    BY <1>1
  <2> QED
    BY <1>1, <1>2, <1>3, <2>1, KeptIsUnique
<1>5. g[n + 1] = IF v[n + 1] \in shown THEN Append(g[n], v[n + 1]) ELSE g[n]
  <2>1. n + 1 \in 0 .. n + 1 /\ n + 1 # 0 /\ (n + 1) - 1 = n
    BY <1>1
  <2> QED
    BY <1>3, <2>1 DEF Kept
<1> QED
  BY <1>1, <1>2, <1>3, <1>4, <1>5 DEF v

-----------------------------------------------------------------------------
(* The elements of a list with one more.                                   *)
LEMMA AppendSet ==
  ASSUME NEW A, NEW s \in Seq(A), NEW x \in A
  PROVE  ToSet(Append(s, x)) = ToSet(s) \cup {x}
<1>1. /\ Len(s) \in Nat /\ DOMAIN s = 1 .. Len(s) /\ DOMAIN Append(s, x) = 1 .. Len(s) + 1
      /\ Append(s, x)[Len(s) + 1] = x
      /\ \A k \in 1 .. Len(s) : Append(s, x)[k] = s[k]
  OBVIOUS
<1> DEFINE t == Append(s, x)
<1> HIDE DEF t
<1>2. ToSet(t) = ToSet(s) \cup {x}
  BY <1>1 DEF t, ToSet
<1> QED
  BY <1>2 DEF t

(* Every window is in the list once.                                       *)
Distinct(ws) == \A i, j \in DOMAIN ws : ws[i] = ws[j] => i = j

(* A list stays without repetition when its next element is new.           *)
LEMMA AppendDistinct ==
  ASSUME NEW A, NEW s \in Seq(A), NEW x \in A
  PROVE  Distinct(Append(s, x)) <=> Distinct(s) /\ x \notin ToSet(s)
<1> DEFINE t == Append(s, x)
           n == Len(s)
<1>1. /\ n \in Nat /\ DOMAIN s = 1 .. n /\ DOMAIN t = 1 .. n + 1
      /\ t[n + 1] = x
      /\ \A k \in 1 .. n : t[k] = s[k]
  OBVIOUS
<1> HIDE DEF t, n
<1>2. ASSUME Distinct(t) PROVE Distinct(s) /\ x \notin ToSet(s)
  <2>1. Distinct(s)
    BY <1>1, <1>2 DEF Distinct
  <2>2. ASSUME NEW k \in 1 .. n, s[k] = x PROVE FALSE
    <3>1. k \in DOMAIN t /\ n + 1 \in DOMAIN t /\ t[k] = t[n + 1] /\ k # n + 1
      BY <1>1, <2>2
    <3> QED
      BY <1>2, <3>1 DEF Distinct
  <2> QED
    BY <1>1, <2>1, <2>2 DEF ToSet
<1>3. ASSUME Distinct(s), x \notin ToSet(s) PROVE Distinct(t)
  <2>1. \A k \in 1 .. n : s[k] # x
    BY <1>1, <1>3 DEF ToSet
  <2> QED
    BY <1>1, <1>3, <2>1 DEF Distinct
<1> QED
  BY <1>2, <1>3 DEF t

(* No element of M comes after w.                                          *)
LastOf(ws, M, w) ==
  \A i \in DOMAIN ws : ws[i] \in M => \E j \in DOMAIN ws : ws[j] = w /\ i <= j

(* An element that is appended is last, among any.                         *)
LEMMA AppendLast ==
  ASSUME NEW A, NEW s \in Seq(A), NEW x \in A, NEW M, NEW w
  PROVE  /\ LastOf(Append(s, x), M, x)
         /\ LastOf(s, M, w) /\ x \notin M => LastOf(Append(s, x), M, w)
         /\ LastOf(Append(s, x), M, w) /\ x # w => LastOf(s, M, w) /\ x \notin M
<1> DEFINE t == Append(s, x)
           n == Len(s)
<1>1. /\ n \in Nat /\ DOMAIN s = 1 .. n /\ DOMAIN t = 1 .. n + 1
      /\ t[n + 1] = x
      /\ \A k \in 1 .. n : t[k] = s[k]
  OBVIOUS
<1> HIDE DEF t, n
<1>2. LastOf(t, M, x)
  BY <1>1 DEF LastOf
<1>3. ASSUME LastOf(s, M, w), x \notin M PROVE LastOf(t, M, w)
  <2> SUFFICES ASSUME NEW i \in 1 .. n + 1, t[i] \in M
               PROVE  \E j \in 1 .. n + 1 : t[j] = w /\ i <= j
    BY <1>1 DEF LastOf
  <2>1. i \in 1 .. n /\ s[i] \in M
    BY <1>1, <1>3
  <2>2. PICK j \in 1 .. n : s[j] = w /\ i <= j
    BY <1>1, <1>3, <2>1 DEF LastOf
  <2>3. j \in 1 .. n + 1 /\ t[j] = w
    BY <1>1, <2>2
  <2> QED
    BY <2>2, <2>3
<1>4. ASSUME LastOf(t, M, w), x # w PROVE LastOf(s, M, w) /\ x \notin M
  <2>1. ASSUME NEW i \in 1 .. n + 1, t[i] \in M
        PROVE  \E j \in 1 .. n : s[j] = w /\ i <= j
    <3>1. PICK j \in 1 .. n + 1 : t[j] = w /\ i <= j
      BY <1>1, <1>4, <2>1 DEF LastOf
    <3>2. j # n + 1
      BY <1>1, <1>4, <3>1
    <3>3. j \in 1 .. n /\ s[j] = w
      BY <1>1, <3>1, <3>2
    <3> QED
      BY <3>1, <3>3
  <2>2. LastOf(s, M, w)
    <3> SUFFICES ASSUME NEW i \in 1 .. n, s[i] \in M
                 PROVE  \E j \in 1 .. n : s[j] = w /\ i <= j
      BY <1>1 DEF LastOf
    <3>1. i \in 1 .. n + 1 /\ t[i] \in M
      BY <1>1
    <3> QED
      BY <2>1, <3>1
  <2>3. x \notin M
    <3>1. n + 1 \in 1 .. n + 1 /\ t[n + 1] = x /\ \A j \in 1 .. n : ~ (n + 1 <= j)
      BY <1>1
    <3> QED
      BY <2>1, <3>1
  <2> QED
    BY <2>2, <2>3
<1> QED
  BY <1>2, <1>3, <1>4 DEF t

(* What is kept: the windows asked for, each once and in order.            *)
LEMMA KeepKeeps ==
  ASSUME NEW A, NEW S, NEW ws \in Seq(A)
  PROVE  /\ Keep(ws, S) \in Seq(A)
         /\ ToSet(Keep(ws, S)) = ToSet(ws) \cap S
         /\ Distinct(ws) => Distinct(Keep(ws, S))
         /\ ToSet(ws) \subseteq S => Keep(ws, S) = ws
<1> DEFINE Good(v) == /\ Keep(v, S) \in Seq(A)
                      /\ ToSet(Keep(v, S)) = ToSet(v) \cap S
                      /\ Distinct(v) => Distinct(Keep(v, S))
                      /\ ToSet(v) \subseteq S => Keep(v, S) = v
           P == {v \in Seq(A) : Good(v)}
<1>1. <<>> \in P
  <2>1. Keep(<<>>, S) = <<>> /\ <<>> \in Seq(A) /\ ToSet(<<>>) = {}
    BY KeepNone DEF ToSet
  <2> QED
    BY <2>1
<1>2. ASSUME NEW v \in Seq(A), v \in P, NEW x \in A PROVE Append(v, x) \in P
  <2> DEFINE w == Append(v, x)
             k == Keep(v, S)
  <2>1. k \in Seq(A) /\ ToSet(k) = ToSet(v) \cap S
        /\ (Distinct(v) => Distinct(k))
        /\ (ToSet(v) \subseteq S => k = v)
    BY <1>2
  <2>2. Keep(w, S) = IF x \in S THEN Append(k, x) ELSE k
    BY KeepMore
  <2>3. w \in Seq(A) /\ ToSet(w) = ToSet(v) \cup {x} /\ (Distinct(w) <=> Distinct(v) /\ x \notin ToSet(v))
    BY AppendSet, AppendDistinct
  <2>4. CASE x \in S
    <3>1. /\ Append(k, x) \in Seq(A) /\ ToSet(Append(k, x)) = ToSet(k) \cup {x}
          /\ (Distinct(Append(k, x)) <=> Distinct(k) /\ x \notin ToSet(k))
      BY <2>1, AppendSet, AppendDistinct
    <3>2. ToSet(w) \subseteq S => Append(k, x) = w
      BY <2>1, <2>3
    <3> HIDE DEF k, w
    <3> QED
      BY <2>1, <2>2, <2>3, <2>4, <3>1, <3>2 DEF w
  <2>5. CASE x \notin S
    <3>1. Keep(w, S) = k
      BY <2>2, <2>5
    <3> HIDE DEF k, w
    <3> QED
      BY <2>1, <2>3, <2>5, <3>1 DEF w
  <2> QED
    BY <2>4, <2>5
<1> HIDE DEF P
<1>3. Seq(A) \subseteq P
  BY <1>1, <1>2, SequenceInduction
<1> QED
  BY <1>3 DEF P

(* Keeping twice keeps what both ask for.                                  *)
LEMMA KeepAgain ==
  ASSUME NEW A, NEW S, NEW T, NEW ws \in Seq(A)
  PROVE  Keep(Keep(ws, S), T) = Keep(ws, S \cap T)
<1> DEFINE P == {v \in Seq(A) : Keep(Keep(v, S), T) = Keep(v, S \cap T)}
<1>1. <<>> \in P
  <2>1. \A R : Keep(<<>>, R) = <<>>
    BY KeepNone
  <2> QED
    BY <2>1
<1>2. ASSUME NEW v \in Seq(A), v \in P, NEW x \in A PROVE Append(v, x) \in P
  <2> DEFINE w == Append(v, x)
             k == Keep(v, S)
             m == Keep(v, S \cap T)
  <2>1. Keep(k, T) = m
    BY <1>2
  <2>2. ASSUME NEW R PROVE Keep(w, R) = IF x \in R THEN Append(Keep(v, R), x) ELSE Keep(v, R)
    BY KeepMore
  <2>3. /\ Keep(w, S) = IF x \in S THEN Append(k, x) ELSE k
        /\ Keep(w, S \cap T) = IF x \in S \cap T THEN Append(m, x) ELSE m
    BY <2>2
  <2>4. Keep(Append(k, x), T) = IF x \in T THEN Append(Keep(k, T), x) ELSE Keep(k, T)
    <3>1. k \in Seq(A)
      BY KeepKeeps
    <3> QED
      BY <3>1, KeepMore
  <2>5. w \in Seq(A)
    OBVIOUS
  <2> HIDE DEF k, m, w
  <2>6. Keep(Keep(w, S), T) = Keep(w, S \cap T)
    BY <2>1, <2>3, <2>4
  <2> QED
    BY <2>5, <2>6 DEF w
<1> HIDE DEF P
<1>3. Seq(A) \subseteq P
  BY <1>1, <1>2, SequenceInduction
<1> QED
  BY <1>3 DEF P

(* Only the windows of the list matter.                                    *)
LEMMA KeepSame ==
  ASSUME NEW A, NEW S, NEW T, NEW ws \in Seq(A), ToSet(ws) \cap S = ToSet(ws) \cap T
  PROVE  Keep(ws, S) = Keep(ws, T)
<1>1. Keep(Keep(ws, ToSet(ws)), S) = Keep(ws, ToSet(ws) \cap S)
  BY KeepAgain
<1>2. Keep(Keep(ws, ToSet(ws)), T) = Keep(ws, ToSet(ws) \cap T)
  BY KeepAgain
<1>3. Keep(ws, ToSet(ws)) = ws
  BY KeepKeeps
<1> QED
  BY <1>1, <1>2, <1>3

(* What was last stays last.                                               *)
LEMMA KeepLast ==
  ASSUME NEW A, NEW S, NEW M, NEW w \in S, NEW ws \in Seq(A), LastOf(ws, M, w)
  PROVE  LastOf(Keep(ws, S), M, w)
<1> DEFINE P == {v \in Seq(A) : LastOf(v, M, w) => LastOf(Keep(v, S), M, w)}
<1>1. <<>> \in P
  <2>1. Keep(<<>>, S) = <<>>
    BY KeepNone
  <2> QED
    BY <2>1
<1>2. ASSUME NEW v \in Seq(A), v \in P, NEW x \in A PROVE Append(v, x) \in P
  <2> DEFINE k == Keep(v, S)
  <2>1. LastOf(v, M, w) => LastOf(k, M, w)
    BY <1>2
  <2>2. Keep(Append(v, x), S) = IF x \in S THEN Append(k, x) ELSE k
    BY KeepMore
  <2>3. k \in Seq(A)
    BY KeepKeeps
  <2> HIDE DEF k
  <2>4. ASSUME LastOf(Append(v, x), M, w) PROVE LastOf(Keep(Append(v, x), S), M, w)
    <3>1. CASE x = w
      <4>1. LastOf(Append(k, x), M, x)
        BY <2>3, AppendLast
      <4> QED
        BY <2>2, <3>1, <4>1
    <3>2. CASE x # w
      <4>1. LastOf(v, M, w) /\ x \notin M
        BY <2>4, <3>2, AppendLast
      <4>2. LastOf(Append(k, x), M, w)
        BY <2>1, <2>3, <4>1, AppendLast
      <4> QED
        BY <2>1, <2>2, <4>1, <4>2
    <3> QED
      BY <3>1, <3>2
  <2>5. Append(v, x) \in Seq(A)
    OBVIOUS
  <2> QED
    BY <2>4, <2>5
<1> HIDE DEF P
<1>3. Seq(A) \subseteq P
  BY <1>1, <1>2, SequenceInduction
<1> QED
  BY <1>3 DEF P

-----------------------------------------------------------------------------
(* The stacking order.                                                     *)

(* What the scene's window layer shows.                                    *)
LEMMA StackingShows ==
  ASSUME NEW ws \in Seq(Window), NEW shown, shown \subseteq ToSet(ws),
         NEW top \in ToSet(ws) \cup {None}
  PROVE  /\ Stacking(ws, shown, top) \in Seq(ToSet(ws))
         /\ ToSet(Stacking(ws, shown, top)) = (shown \cup {top}) \ {None}
<1> DEFINE others == Keep(ws, shown \ {top})
           W == ToSet(ws)
<1>1. W \subseteq Window /\ None \notin W
  <2>1. W \subseteq Window
    BY DEF ToSet
  <2> QED
    BY <2>1, NoneAssumption
<1>2. others \in Seq(Window) /\ ToSet(others) = W \cap (shown \ {top})
  BY KeepKeeps
<1>3. ws \in Seq(W)
  <2>1. \A i \in 1 .. Len(ws) : ws[i] \in W
    BY DEF ToSet
  <2> QED
    BY <2>1, SeqDef
<1>4. others \in Seq(W)
  BY <1>3, KeepKeeps
<1> HIDE DEF others, W
<1>5. Stacking(ws, shown, top) = IF top = None THEN others ELSE Append(others, top)
  BY DEF Stacking, others
<1>6. CASE top = None
  BY <1>1, <1>2, <1>4, <1>5, <1>6 DEF W
<1>7. CASE top # None
  <2>1. top \in W
    BY <1>7 DEF W
  <2>2. ToSet(Append(others, top)) = ToSet(others) \cup {top} /\ Append(others, top) \in Seq(W)
    BY <1>4, <2>1, AppendSet
  <2> QED
    BY <1>1, <1>2, <1>5, <1>7, <2>1, <2>2 DEF W
<1> QED
  BY <1>6, <1>7

(* A window that is taken out of the list and is not mapped.               *)
LEMMA StackingWithout ==
  ASSUME NEW ws \in Seq(Window), NEW shown, shown \subseteq ToSet(ws),
         NEW top \in ToSet(ws) \cup {None}, NEW w \in Window, w \notin shown
  PROVE  Stacking(Without(ws, w), shown, Unless(w, top)) = Without(Stacking(ws, shown, top), w)
<1> DEFINE others == Keep(ws, shown \ {top})
           W == ToSet(ws)
           layers == Stacking(ws, shown, top)
<1>1. /\ layers = IF top = None THEN others ELSE Append(others, top)
      /\ w # None
  BY NoneAssumption DEF Stacking
<1>2. others \in Seq(Window) /\ ToSet(others) = W \cap (shown \ {top})
  BY KeepKeeps
<1>3. w \notin ToSet(others)
  BY <1>2
<1>4. Keep(Without(ws, w), shown \ {Unless(w, top)}) = others
  <2>1. Keep(Without(ws, w), shown \ {Unless(w, top)})
          = Keep(ws, (W \ {w}) \cap (shown \ {Unless(w, top)}))
    BY KeepAgain DEF Without
  <2>2. W \cap ((W \ {w}) \cap (shown \ {Unless(w, top)})) = W \cap (shown \ {top})
    <3>1. shown \ {None} = shown /\ shown \ {w} = shown
      <4>1. W \subseteq Window
        BY DEF ToSet
      <4> QED
        BY <4>1, NoneAssumption
    <3> QED
      BY <3>1 DEF Unless
  <2>3. Keep(ws, (W \ {w}) \cap (shown \ {Unless(w, top)})) = others
    <3> DEFINE R == (W \ {w}) \cap (shown \ {Unless(w, top)})
               T == shown \ {top}
    <3>1. ToSet(ws) \cap R = ToSet(ws) \cap T
      BY <2>2
    <3> HIDE DEF R, T
    <3>2. Keep(ws, R) = Keep(ws, T)
      BY <3>1, KeepSame
    <3> QED
      BY <3>2 DEF R, T
  <2> QED
    BY <2>1, <2>3
<1>5. Stacking(Without(ws, w), shown, Unless(w, top))
        = IF Unless(w, top) = None THEN others ELSE Append(others, Unless(w, top))
  BY <1>4 DEF Stacking
<1> HIDE DEF others, layers
<1>6. CASE top = None
  <2>1. Without(others, w) = others
    BY <1>2, <1>3, KeepKeeps DEF Without
  <2> QED
    BY <1>1, <1>5, <1>6, <2>1 DEF Unless, layers
<1>7. CASE top = w
  <2>1. ToSet(Append(others, w)) = ToSet(others) \cup {w}
    BY <1>2, AppendSet
  <2>2. Without(Append(others, w), w) = Keep(others, (ToSet(others) \cup {w}) \ {w})
    <3> DEFINE R == (ToSet(others) \cup {w}) \ {w}
    <3>1. w \notin R
      OBVIOUS
    <3> HIDE DEF R
    <3>2. Keep(Append(others, w), R) = Keep(others, R)
      BY <1>2, <3>1, KeepMore
    <3> QED
      BY <2>1, <3>2 DEF R, Without
  <2>3. (ToSet(others) \cup {w}) \ {w} = ToSet(others)
    BY <1>3
  <2>4. Keep(others, ToSet(others)) = others
    BY <1>2, KeepKeeps
  <2> QED
    BY <1>1, <1>5, <1>7, <2>2, <2>3, <2>4 DEF Unless, layers
<1>8. CASE top # w /\ top # None
  <2>1. top \in Window
    BY <1>8 DEF ToSet
  <2>2. /\ ToSet(Append(others, top)) = ToSet(others) \cup {top}
        /\ Append(others, top) \in Seq(Window)
    BY <1>2, <2>1, AppendSet
  <2>3. Without(Append(others, top), w) = Append(others, top)
    <3>1. ToSet(Append(others, top)) \subseteq ToSet(Append(others, top)) \ {w}
      BY <1>3, <1>8, <2>2
    <3> QED
      BY <2>2, <3>1, KeepKeeps DEF Without
  <2> QED
    BY <1>1, <1>5, <1>8, <2>3 DEF Unless, layers
<1> QED
  BY <1>6, <1>7, <1>8 DEF layers

(* A new window is not mapped, and not shown.                              *)
LEMMA StackingCreate ==
  ASSUME NEW ws \in Seq(Window), NEW shown, NEW top, NEW w \in Window, w \notin shown
  PROVE  Stacking(Append(ws, w), shown, top) = Stacking(ws, shown, top)
<1>1. Keep(Append(ws, w), shown \ {top}) = Keep(ws, shown \ {top})
  BY KeepMore
<1> QED
  BY <1>1 DEF Stacking

-----------------------------------------------------------------------------
(* A window of the list goes to its end.                                   *)
LEMMA RaisedList ==
  ASSUME NEW ws \in Seq(Window), Distinct(ws), NEW w \in ToSet(ws)
  PROVE  LET up == Append(Without(ws, w), w)
         IN  /\ up \in Seq(Window) /\ Distinct(up) /\ ToSet(up) = ToSet(ws)
             /\ \A M : LastOf(up, M, w)
<1> DEFINE rest == Without(ws, w)
<1>1. w \in Window
  BY DEF ToSet
<1>2. /\ rest \in Seq(Window) /\ Distinct(rest)
      /\ ToSet(rest) = ToSet(ws) \cap (ToSet(ws) \ {w})
  BY KeepKeeps DEF Without
<1> HIDE DEF rest
<1>3. /\ Append(rest, w) \in Seq(Window) /\ ToSet(Append(rest, w)) = ToSet(rest) \cup {w}
      /\ (Distinct(Append(rest, w)) <=> Distinct(rest) /\ w \notin ToSet(rest))
  BY <1>1, <1>2, AppendSet, AppendDistinct
<1>4. ASSUME NEW M PROVE LastOf(Append(rest, w), M, w)
  BY <1>1, <1>2, AppendLast
<1> QED
  BY <1>2, <1>3, <1>4 DEF rest

InCycle == mode = "focus_cycle"

(* A window is faded during a cycle, unless it is the cycled one.          *)
Fades == ToSet(layer) \cap faded = IF InCycle THEN ToSet(layer) \ {cycled} ELSE {}

(* The list of windows, and what is made of it.                            *)
Order ==
  /\ windows \in Seq(Window) /\ Distinct(windows)
  /\ mapped \subseteq ToSet(windows) /\ late \subseteq mapped
  /\ faded \subseteq ToSet(windows)
  /\ cycled \in ToSet(windows) \cup {None}
  /\ layer = Stacking(windows, mapped, Top)
  /\ Fades
  /\ focus \in mapped \ late => LastOf(windows, mapped, focus)

(* Arranging the windows brings the layer up to date.                      *)
LEMMA ArrangeKeepsOrder ==
  ASSUME windows' \in Seq(Window), Distinct(windows'),
         mapped' \subseteq ToSet(windows'), late' \subseteq mapped',
         faded \subseteq ToSet(windows'), cycled' \in ToSet(windows') \cup {None},
         focus' \in mapped' \ late' => LastOf(windows', mapped', focus'),
         wm_arrange_windows
  PROVE  Order'
<1>1. Top' \in ToSet(windows') \cup {None}
  BY DEF Top
<1>2. layer' = Stacking(windows', mapped', Top') /\ faded' = Fading
  BY DEF wm_arrange_windows
<1>3. ToSet(layer') = (mapped' \cup {Top'}) \ {None}
  BY <1>1, <1>2, StackingShows
<1>4. faded' \subseteq ToSet(windows')
  BY <1>2 DEF Fading
<1>5. None \notin mapped'
  BY NoneAssumption DEF ToSet
<1>6. Fades'
  <2>1. ToSet(layer') \cap faded' = IF mode' = "focus_cycle" THEN ToSet(layer') \ {cycled'} ELSE {}
    BY <1>2, <1>3, <1>5 DEF Fading, Top
  <2> QED
    BY <2>1 DEF Fades, InCycle
<1> QED
  BY <1>2, <1>4, <1>6 DEF Order, Distinct, LastOf

(* The stacking order is left alone, and no cycle begins or ends.          *)
LEMMA StillKeepsOrder ==
  ASSUME Order, UNCHANGED <<windows, mapped, layer, faded, late, cycled>>,
         InCycle' <=> InCycle,
         focus' \in {focus, None} \/ focus' \notin mapped
  PROVE  Order' /\ ToSet(windows') = ToSet(windows)
<1>1. Top' = Top
  BY DEF Top, InCycle
<1>2. layer' = Stacking(windows', mapped', Top')
  BY <1>1 DEF Order
<1>3. Fades'
  BY DEF Order, Fades, InCycle
<1>4. focus' \in mapped' \ late' => LastOf(windows', mapped', focus')
  <2>1. None \notin mapped
    BY NoneAssumption DEF Order, ToSet
  <2> QED
    BY <2>1 DEF Order
<1> QED
  BY <1>2, <1>3, <1>4 DEF Order, Distinct, LastOf

(* The window that gets the keyboard is raised, if it is mapped.           *)
LEMMA RaiseKeepsOrder ==
  ASSUME Order, NEW w \in ToSet(windows), wm_window_raise(w), focus' = w,
         mapped' = mapped \/ (mapped' = mapped \cup {w}),
         cycled' = cycled, InCycle' <=> InCycle
  PROVE  Order' /\ ToSet(windows') = ToSet(windows)
<1>1. CASE w \notin mapped'
  <2>1. UNCHANGED <<windows, mapped, layer, faded, late, cycled>> /\ focus' \notin mapped
    BY <1>1 DEF wm_window_raise, Restack
  <2> QED
    BY <2>1, StillKeepsOrder
<1>2. CASE w \in mapped'
  <2>1. /\ windows' = Append(Without(windows, w), w) /\ late' = late \ {w}
        /\ wm_arrange_windows
    BY <1>2 DEF wm_window_raise, Restack
  <2>2. windows \in Seq(Window) /\ Distinct(windows)
    BY DEF Order
  <2>3. /\ windows' \in Seq(Window) /\ Distinct(windows') /\ ToSet(windows') = ToSet(windows)
        /\ LastOf(windows', mapped', focus')
    BY <2>1, <2>2, RaisedList
  <2>4. /\ mapped' \subseteq ToSet(windows') /\ late' \subseteq mapped'
        /\ faded \subseteq ToSet(windows') /\ cycled' \in ToSet(windows') \cup {None}
    BY <2>1, <2>3 DEF Order
  <2> QED
    BY <2>1, <2>3, <2>4, ArrangeKeepsOrder
<1> QED
  BY <1>1, <1>2

(* Windows that come and go keep the order.                                *)
LEMMA ComeAndGoKeepsOrder ==
  ASSUME Order, IInv, NEW w \in Window,
         \/ wm_window_create(w) \/ wm_window_map(w)
         \/ wm_window_unmap(w)  \/ WmWindow_destroy(w)
  PROVE  /\ Order'
         /\ ToSet(windows') = IF wm_window_create(w) THEN ToSet(windows) \cup {w}
                              ELSE IF WmWindow_destroy(w) THEN ToSet(windows) \ {w}
                              ELSE ToSet(windows)
<1>1. /\ windows \in Seq(Window) /\ Distinct(windows)
      /\ mapped \subseteq ToSet(windows) /\ late \subseteq mapped
      /\ faded \subseteq ToSet(windows)
      /\ cycled \in ToSet(windows) \cup {None}
      /\ layer = Stacking(windows, mapped, Top)
      /\ Fades
      /\ focus \in mapped \ late => LastOf(windows, mapped, focus)
      /\ ToSet(windows) \subseteq Window
      /\ w # None
  BY NoneAssumption DEF Order, ToSet
<1>2. CASE wm_window_create(w)
  <2>1. /\ w \notin ToSet(windows) /\ windows' = Append(windows, w)
        /\ UNCHANGED <<mapped, layer, faded, late, focus, mode, cycled>>
    BY <1>2 DEF wm_window_create, input, interaction
  <2>2. /\ windows' \in Seq(Window) /\ Distinct(windows')
        /\ ToSet(windows') = ToSet(windows) \cup {w}
    BY <1>1, <2>1, AppendSet, AppendDistinct
  <2>3. Top' = Top /\ w \notin mapped
    BY <1>1, <2>1 DEF Top
  <2>4. layer' = Stacking(windows', mapped', Top')
    BY <1>1, <2>1, <2>3, StackingCreate
  <2>5. Fades'
    BY <1>1, <2>1 DEF Fades, InCycle
  <2>6. focus' \in mapped' \ late' => LastOf(windows', mapped', focus')
    BY <1>1, <2>1, <2>3, AppendLast
  <2>7. Order'
    BY <1>1, <2>1, <2>2, <2>4, <2>5, <2>6 DEF Order, Distinct, LastOf
  <2> QED
    BY <1>2, <2>2, <2>7
<1>3. CASE wm_window_map(w)
  <2>1. /\ w \in ToSet(windows) /\ mapped' = mapped \cup {w} /\ focus' = w
        /\ cycled' = cycled /\ mode' = mode
    BY <1>3 DEF wm_window_map, interaction
  <2>2. ~ wm_window_create(w) /\ ~ WmWindow_destroy(w)
    <3>1. w \in mapped' /\ mapped' # mapped
      BY <1>3 DEF wm_window_map
    <3> QED
      BY <2>1, <3>1 DEF wm_window_create, WmWindow_destroy
  <2>3. CASE focus = w
    <3>1. windows' = windows /\ late' = late \cup {w} /\ wm_arrange_windows
      BY <1>3, <2>3 DEF wm_window_map
    <3>2. Order'
      BY <1>1, <2>1, <3>1, ArrangeKeepsOrder DEF Distinct
    <3> QED
      BY <2>2, <3>1, <3>2
  <2>4. CASE focus # w
    <3>1. wm_window_raise(w)
      BY <1>3, <2>4 DEF wm_window_map
    <3> QED
      BY <2>1, <2>2, <3>1, RaiseKeepsOrder DEF InCycle
  <2> QED
    BY <2>3, <2>4
<1>4. CASE wm_window_unmap(w)
  <2>1. /\ w \in mapped /\ mapped' = mapped \ {w} /\ late' = late \ {w}
        /\ windows' = windows /\ focus' = focus /\ cycled' = cycled
        /\ wm_arrange_windows
    BY <1>4 DEF wm_window_unmap, input, interaction
  <2>2. focus' \in mapped' \ late' => LastOf(windows', mapped', focus')
    BY <1>1, <2>1 DEF LastOf
  <2>3. Order'
    BY <1>1, <2>1, <2>2, ArrangeKeepsOrder DEF Distinct
  <2>4. ~ wm_window_create(w)
    BY <1>1, <2>1 DEF wm_window_create
  <2>5. ~ WmWindow_destroy(w)
    <3>1. ASSUME WmWindow_destroy(w) PROVE windows' = Without(windows, w)
      BY <3>1 DEF WmWindow_destroy
    <3>2. w \notin ToSet(Without(windows, w))
      BY <1>1, KeepKeeps DEF Without
    <3> QED
      BY <1>1, <2>1, <3>1, <3>2
  <2> QED
    BY <2>1, <2>3, <2>4, <2>5
<1>5. CASE WmWindow_destroy(w)
  <2>1. /\ w \in ToSet(windows) /\ windows' = Without(windows, w)
        /\ mapped' = mapped \ {w} /\ late' = late \ {w}
        /\ mode' = mode
        /\ focus' = Unless(w, focus) /\ cycled' = Unless(w, cycled)
        /\ layer' = IF w \in mapped THEN Stacking(windows', mapped', Top') ELSE Without(layer, w)
        /\ faded' = (IF w \in mapped THEN Fading ELSE faded) \ {w}
    BY <1>5 DEF WmWindow_destroy
  <2>2. /\ windows' \in Seq(Window) /\ Distinct(windows')
        /\ ToSet(windows') = ToSet(windows) \ {w}
    BY <1>1, <2>1, KeepKeeps DEF Without
  <2>3. cycled' \in ToSet(windows') \cup {None} /\ Top' = Unless(w, Top)
    BY <1>1, <2>1, <2>2 DEF Top, Unless
  <2>4. mapped' \subseteq ToSet(windows') /\ late' \subseteq mapped'
    BY <1>1, <2>1, <2>2
  <2>5. layer' = Stacking(windows', mapped', Top')
    <3>1. CASE w \in mapped
      BY <2>1, <3>1
    <3>2. CASE w \notin mapped
      <4>1. mapped' = mapped /\ layer' = Without(layer, w)
        BY <2>1, <3>2
      <4>2. Top \in ToSet(windows) \cup {None}
        BY <1>1 DEF Top
      <4>3. Stacking(Without(windows, w), mapped, Unless(w, Top)) = Without(Stacking(windows, mapped, Top), w)
        BY <1>1, <3>2, <4>2, StackingWithout
      <4> QED
        BY <1>1, <2>1, <2>3, <4>1, <4>3
    <3> QED
      BY <3>1, <3>2
  <2>6. ToSet(layer') = (mapped' \cup {Top'}) \ {None}
    <3>1. Top' \in ToSet(windows') \cup {None}
      BY <2>3 DEF Top
    <3> QED
      BY <2>2, <2>4, <2>5, <3>1, StackingShows
  <2>7. Fades' /\ faded' \subseteq ToSet(windows')
    <3>1. None \notin mapped' /\ w \notin mapped'
      BY <1>1, <2>1, NoneAssumption
    <3>2. CASE w \in mapped
      <4>1. faded' = Fading \ {w}
        BY <2>1, <3>2
      <4>2. w \notin ToSet(layer') /\ w # cycled'
        BY <1>1, <2>1, <2>6, <3>1 DEF Top, Unless
      <4>3. ToSet(layer') \cap faded'
              = IF mode' = "focus_cycle" THEN ToSet(layer') \ {cycled'} ELSE {}
        BY <2>6, <3>1, <4>1, <4>2 DEF Fading, Top
      <4>4. faded' \subseteq ToSet(windows')
        BY <1>1, <2>2, <2>4, <4>1 DEF Fading
      <4> QED
        BY <4>3, <4>4 DEF Fades, InCycle
    <3>3. CASE w \notin mapped
      <4>1. faded' = faded \ {w} /\ mapped' = mapped
        BY <2>1, <3>3
      <4>2. ToSet(layer) = (mapped \cup {Top}) \ {None}
        <5>1. Top \in ToSet(windows) \cup {None}
          BY <1>1 DEF Top
        <5> QED
          BY <1>1, <5>1, StackingShows
      <4>3. ToSet(layer') = ToSet(layer) \ {w}
        BY <1>1, <2>3, <2>6, <3>3, <4>1, <4>2 DEF Unless
      <4>4. ToSet(layer) \cap faded = IF mode = "focus_cycle" THEN ToSet(layer) \ {cycled} ELSE {}
        BY <1>1 DEF Fades, InCycle
      <4>5. None \notin ToSet(layer)
        BY <4>2
      <4>6. ToSet(layer') \cap faded'
              = IF mode' = "focus_cycle" THEN ToSet(layer') \ {cycled'} ELSE {}
        BY <2>1, <4>1, <4>3, <4>4, <4>5 DEF Unless
      <4>7. faded' \subseteq ToSet(windows')
        BY <1>1, <2>2, <4>1
      <4> QED
        BY <4>6, <4>7 DEF Fades, InCycle
    <3> QED
      BY <3>2, <3>3
  <2>8. focus' \in mapped' \ late' => LastOf(windows', mapped', focus')
    <3> SUFFICES ASSUME focus' \in mapped' \ late' PROVE LastOf(windows', mapped', focus')
      OBVIOUS
    <3>1. focus' = focus /\ focus \in mapped \ late /\ focus # w
      BY <1>1, <2>1, NoneAssumption DEF Unless
    <3>2. LastOf(windows, mapped, focus) /\ focus \in ToSet(windows) \ {w}
      BY <1>1, <3>1
    <3>3. LastOf(windows', mapped, focus)
      <4> DEFINE R == ToSet(windows) \ {w}
      <4>1. focus \in R
        BY <3>2
      <4> HIDE DEF R
      <4>2. LastOf(Keep(windows, R), mapped, focus)
        BY <1>1, <3>2, <4>1, KeepLast
      <4> QED
        BY <2>1, <4>2 DEF R, Without
    <3> QED
      BY <2>1, <3>1, <3>3 DEF LastOf
  <2>9. Order'
    BY <2>2, <2>3, <2>4, <2>5, <2>7, <2>8 DEF Order, Distinct, LastOf
  <2>10. ~ wm_window_create(w)
    BY <2>1 DEF wm_window_create
  <2> QED
    BY <1>5, <2>2, <2>9, <2>10
<1> QED
  BY <1>2, <1>3, <1>4, <1>5

-----------------------------------------------------------------------------
(* The next window of a cycle is one of the list, if there is any.         *)
LEMMA CycleStays ==
  ASSUME NEW w, NEW in_cycle, NEW forward, windows \in Seq(Window), Distinct(windows)
  PROVE  cycle_next(w, in_cycle, forward) \in ToSet(windows) \cup {None}
<1> DEFINE n == Len(windows)
           NthOf(i, d) == windows[((i - 1 + (IF forward THEN n - d ELSE d)) % n) + 1]
           from == IF w \in ToSet(windows) THEN CHOOSE i \in 1..n : windows[i] = w ELSE 0
           Near(i, D) == {d \in D : NthOf(i, d) \in in_cycle}
           First(i, D) == NthOf(i, CHOOSE d \in Near(i, D) : \A e \in Near(i, D) : d <= e)
           last == CHOOSE i \in 1..n : /\ windows[i] \in in_cycle
                                       /\ \A j \in (i + 1)..n : windows[j] \notin in_cycle
<1>1. cycle_next(w, in_cycle, forward)
        = IF ToSet(windows) \cap in_cycle = {} THEN None
          ELSE IF from = 0 THEN windows[last] ELSE First(from, 1..n)
  BY DEF cycle_next
<1>2. n \in Nat /\ DOMAIN windows = 1 .. n /\ \A k \in 1 .. n : windows[k] \in ToSet(windows)
  BY SMTT(30) DEF ToSet
<1> HIDE DEF n
<1>3. SUFFICES ASSUME ToSet(windows) \cap in_cycle # {}
               PROVE  cycle_next(w, in_cycle, forward) \in ToSet(windows)
  BY <1>1
<1>4. PICK k \in 1 .. n : windows[k] \in in_cycle
  BY <1>2, <1>3 DEF ToSet
<1>5. windows[last] \in ToSet(windows)
  <2> DEFINE S == {d \in Nat : d < n /\ windows[n - d] \in in_cycle}
  <2>1. n - k \in S
    <3>1. n - k \in Nat /\ n - k < n /\ n - (n - k) = k
      BY <1>2, <1>4
    <3> QED
      BY <1>4, <3>1
  <2>2. PICK d \in S : \A e \in S : d <= e
    <3>1. S \subseteq Nat /\ S # {}
      BY <2>1
    <3> HIDE DEF S
    <3> QED
      BY <3>1, LeastNumber
  <2>3. /\ n - d \in 1 .. n /\ windows[n - d] \in in_cycle
    BY <1>2, <2>2
  <2>4. ASSUME NEW j \in (n - d + 1) .. n PROVE windows[j] \notin in_cycle
    <3>1. n - j \in Nat /\ n - j < n /\ n - (n - j) = j /\ ~ (d <= n - j)
      BY <1>2, <2>2, <2>4
    <3>2. n - j \notin S
      <4> HIDE DEF S
      <4> QED
        BY <2>2, <3>1
    <3> QED
      BY <3>1, <3>2
  <2>5. \E i \in 1..n : /\ windows[i] \in in_cycle
                        /\ \A j \in (i + 1)..n : windows[j] \notin in_cycle
    BY <2>3, <2>4
  <2>6. last \in 1 .. n
    BY <2>5
  <2> HIDE DEF last
  <2> QED
    BY <1>2, <2>6
<1>6. CASE from = 0
  BY <1>1, <1>3, <1>5, <1>6
<1>7. CASE from # 0
  <2>1. from \in 1 .. n
    BY <1>2, <1>7 DEF ToSet
  <2> HIDE DEF from, last
  <2>2. \A d \in Int : NthOf(from, d) \in ToSet(windows)
    <3> SUFFICES ASSUME NEW d \in Int PROVE NthOf(from, d) \in ToSet(windows)
      OBVIOUS
    <3> DEFINE a == from - 1 + (IF forward THEN n - d ELSE d)
    <3>1. a \in Int /\ n \in Nat \ {0}
      BY <1>2, <2>1
    <3> HIDE DEF a
    <3>2. (a % n) + 1 \in 1 .. n
      BY <3>1
    <3> QED
      BY <1>2, <3>2 DEF a
  <2>3. \E d \in 1 .. n : NthOf(from, d) \in in_cycle
    <3> DEFINE d == IF forward THEN IF k < from THEN from - k ELSE from - k + n
                    ELSE IF from < k THEN k - from ELSE k - from + n
               a == from - 1 + (IF forward THEN n - d ELSE d)
    <3>1. d \in 1 .. n
      BY <1>2, <1>4, <2>1
    <3>2. a \in Int /\ n \in Nat \ {0} /\ (a = k - 1 \/ a = k - 1 + n)
      BY <1>2, <1>4, <2>1
    <3> HIDE DEF a
    <3>3. (a % n) + 1 = k
      <4>1. k - 1 \in Int /\ 0 <= k - 1 /\ k - 1 < n
        BY <1>2, <1>4
      <4>2. (k - 1) % n = k - 1 /\ (k - 1 + n) % n = k - 1
        BY <3>2, <4>1
      <4> QED
        BY <3>2, <4>1, <4>2
    <3>4. NthOf(from, d) = windows[k]
      BY <3>3 DEF a
    <3> HIDE DEF d
    <3> QED
      BY <1>4, <3>1, <3>4
  <2>4. PICK d \in Near(from, 1..n) : \A e \in Near(from, 1..n) : d <= e
    <3> DEFINE S == Near(from, 1..n)
    <3>1. S \subseteq 1 .. n /\ 1 .. n \subseteq Nat
      BY <1>2
    <3>2. S # {}
      <4>1. PICK d \in 1 .. n : NthOf(from, d) \in in_cycle
        BY <2>3
      <4>2. d \in S
        BY <4>1
      <4> QED
        BY <4>2
    <3> HIDE DEF S
    <3>3. S \subseteq Nat
      BY <3>1
    <3>4. \E d \in S : \A e \in S : d <= e
      BY <3>2, <3>3, LeastNumber
    <3> QED
      BY <3>4 DEF S
  <2> DEFINE first == CHOOSE e \in Near(from, 1..n) : \A f \in Near(from, 1..n) : e <= f
  <2>5. first \in Near(from, 1..n)
    <3> DEFINE S == Near(from, 1..n)
    <3>1. \E e \in S : \A f \in S : e <= f
      BY <2>4
    <3> HIDE DEF S
    <3>2. (CHOOSE e \in S : \A f \in S : e <= f) \in S
      BY <3>1
    <3> QED
      BY <3>2 DEF S
  <2>6. first \in Int
    BY <1>2, <2>5
  <2> HIDE DEF first
  <2>7. NthOf(from, first) \in ToSet(windows)
    BY <2>2, <2>6
  <2>8. cycle_next(w, in_cycle, forward) = NthOf(from, first)
    BY <1>1, <1>3, <1>7 DEF first
  <2> QED
    BY <2>7, <2>8
<1> QED
  BY <1>6, <1>7

(* Cycling the focus keeps the order.                                      *)
LEMMA CycleKeepsOrder ==
  ASSUME Order, NEW in_cycle, NEW forward, focus_cycle(in_cycle, forward)
  PROVE  Order' /\ ToSet(windows') = ToSet(windows)
<1>1. /\ UNCHANGED <<windows, mapped, late, focus>> /\ wm_arrange_windows
  BY DEF focus_cycle, input
<1>2. cycled' \in ToSet(windows') \cup {None}
  <2>1. PICK v : cycled' = cycle_next(v, in_cycle, forward)
    BY DEF focus_cycle
  <2>2. windows \in Seq(Window) /\ Distinct(windows)
    BY DEF Order
  <2> QED
    BY <1>1, <2>1, <2>2, CycleStays
<1>3. /\ windows' \in Seq(Window) /\ Distinct(windows')
      /\ mapped' \subseteq ToSet(windows') /\ late' \subseteq mapped'
      /\ faded \subseteq ToSet(windows')
      /\ focus' \in mapped' \ late' => LastOf(windows', mapped', focus')
  BY <1>1 DEF Order, Distinct
<1> QED
  BY <1>1, <1>2, <1>3, ArrangeKeepsOrder

(* The end of a cycle keeps the order.                                     *)
LEMMA CycleEndKeepsOrder ==
  ASSUME Order, focus_cycle_end
  PROVE  Order' /\ ToSet(windows') = ToSet(windows)
<1>1. mapped' = mapped /\ cycled' = None /\ wm_arrange_windows
  BY DEF focus_cycle_end
<1>2. windows \in Seq(Window) /\ Distinct(windows) /\ mapped \subseteq ToSet(windows)
      /\ late \subseteq mapped /\ faded \subseteq ToSet(windows)
  BY DEF Order
<1>3. CASE cycled # None /\ cycled \in mapped
  <2>1. /\ windows' = Append(Without(windows, cycled), cycled) /\ late' = late \ {cycled}
        /\ focus' = cycled
    BY <1>1, <1>3 DEF focus_cycle_end, Restack
  <2>2. /\ windows' \in Seq(Window) /\ Distinct(windows') /\ ToSet(windows') = ToSet(windows)
        /\ LastOf(windows', mapped', focus')
    BY <1>2, <1>3, <2>1, RaisedList
  <2> QED
    BY <1>1, <1>2, <2>1, <2>2, ArrangeKeepsOrder
<1>4. CASE ~ (cycled # None /\ cycled \in mapped)
  <2>1. UNCHANGED <<windows, late>> /\ (focus' = focus \/ focus' \notin mapped)
    BY <1>1, <1>4 DEF focus_cycle_end, Restack
  <2>2. focus' \in mapped' \ late' => LastOf(windows', mapped', focus')
    BY <1>1, <2>1 DEF Order
  <2> QED
    BY <1>1, <1>2, <2>1, <2>2, ArrangeKeepsOrder DEF Distinct
<1> QED
  BY <1>3, <1>4

-----------------------------------------------------------------------------
(* What names windows names live ones, and what was asked for is for them. *)
Names ==
  /\ mode \in Mode /\ main_mod \in BOOLEAN /\ pressed \in 0..MaxButtons
  /\ {focus, movesize, zone.window} \subseteq ToSet(windows) \cup {None}
  /\ zone.selecting \in BOOLEAN
  /\ under \in Window \cup {None}
  /\ asked \subseteq [kind : Kind, window : ToSet(windows)]

(* The type of an event.                                                   *)
LEMMA Events ==
  ASSUME NEW kind \in Kind, NEW S, NEW w \in S
  PROVE  Event(kind, w) \in [kind : Kind, window : S]
<1> QED
  BY DEF Event

(* There is no window initially.                                           *)
LEMMA InitOrder == Init => Order /\ Names
<1> SUFFICES ASSUME Init PROVE Order /\ Names
  OBVIOUS
<1>1. /\ windows = <<>> /\ mapped = {} /\ layer = <<>> /\ faded = {} /\ late = {}
      /\ cycled = None /\ mode = "none" /\ Top = None
  BY DEF Init, Top
<1>2. ToSet(windows) = {} /\ windows \in Seq(Window) /\ Distinct(windows) /\ ToSet(layer) = {}
  BY <1>1 DEF ToSet, Distinct
<1>3. layer = Stacking(windows, mapped, Top)
  BY <1>1, KeepNone DEF Stacking
<1>4. Fades
  BY <1>1, <1>2 DEF Fades, InCycle
<1>5. Order
  BY <1>1, <1>2, <1>3, <1>4 DEF Order
<1>6. Names
  <2>1. 0 \in 0..MaxButtons
    BY ButtonsAssumption
  <2> QED
    BY <2>1 DEF Init, Names, Mode
<1> QED
  BY <1>5, <1>6

(* Windows that come and go keep order and names.                          *)
LEMMA ComeAndGoKeepsNames ==
  ASSUME Order, Names, IInv, NEW w \in Window,
         \/ wm_window_create(w) \/ wm_window_map(w)
         \/ wm_window_unmap(w)  \/ WmWindow_destroy(w)
  PROVE  Order' /\ Names'
<1>1. /\ Order'
      /\ ToSet(windows') = IF wm_window_create(w) THEN ToSet(windows) \cup {w}
                           ELSE IF WmWindow_destroy(w) THEN ToSet(windows) \ {w}
                           ELSE ToSet(windows)
  BY ComeAndGoKeepsOrder
<1>2. asked' = {}
  BY DEF wm_window_create, wm_window_map, wm_window_unmap, WmWindow_destroy
<1>3. CASE WmWindow_destroy(w)
  <2>1. /\ ~ wm_window_create(w) /\ w # None
        /\ UNCHANGED <<mode, main_mod, pressed, under>>
        /\ focus' = Unless(w, focus) /\ movesize' = Unless(w, movesize)
    BY <1>3, NoneAssumption DEF WmWindow_destroy, wm_window_create
  <2>2. zone' = [window |-> Unless(w, zone.window), selecting |-> zone.selecting]
    BY <1>3 DEF WmWindow_destroy, IInv, ZoneShape
  <2>3. zone'.window = Unless(w, zone.window) /\ zone'.selecting = zone.selecting
    BY <2>2
  <2>4. ToSet(windows') = ToSet(windows) \ {w}
    BY <1>1, <1>3, <2>1
  <2>5. {focus', movesize', zone'.window} \subseteq ToSet(windows') \cup {None}
    BY <2>1, <2>3, <2>4 DEF Names, Unless
  <2> QED
    BY <1>1, <1>2, <2>1, <2>3, <2>5 DEF Names
<1>4. CASE ~ WmWindow_destroy(w)
  <2>1. /\ UNCHANGED <<mode, main_mod, pressed, movesize, zone, under>>
        /\ focus' \in {focus, w}
        /\ focus' = focus \/ w \in ToSet(windows)
    BY <1>4 DEF wm_window_create, wm_window_map, wm_window_unmap, input, interaction
  <2>2. ToSet(windows) \subseteq ToSet(windows')
    BY <1>1, <1>4
  <2>3. {focus', movesize', zone'.window} \subseteq ToSet(windows') \cup {None}
    BY <2>1, <2>2 DEF Names
  <2> QED
    BY <1>1, <1>2, <2>1, <2>3 DEF Names
<1> QED
  BY <1>3, <1>4

(* A step that leaves the windows alone, and begins and ends no cycle.     *)
LEMMA StillKeepsNames ==
  ASSUME Order, Names, UNCHANGED <<windows, mapped, layer, faded, late, cycled>>,
         InCycle' <=> InCycle,
         focus' \in {focus, None},
         mode' \in Mode, main_mod' \in BOOLEAN, pressed' \in 0..MaxButtons,
         {movesize', zone'.window} \subseteq ToSet(windows) \cup {None},
         zone'.selecting \in BOOLEAN, under' \in Window \cup {None},
         asked' \subseteq [kind : Kind, window : ToSet(windows)]
  PROVE  Order' /\ Names'
<1>1. Order' /\ ToSet(windows') = ToSet(windows)
  BY StillKeepsOrder
<1> QED
  BY <1>1 DEF Names

(* Keys and motion keep order and names.                                   *)
LEMMA KeysKeepNames ==
  ASSUME Order, Names,
         \/ motion \/ close_key \/ fullscreen_key \/ unfocus_key
         \/ \E hover \in ToSet(windows) \cup {None} : close_hotkey(hover)
         \/ modifier_press \/ (modifier_release /\ mode # "focus_cycle")
         \/ UNCHANGED vars
  PROVE  Order' /\ Names'
<1>1. UNCHANGED <<windows, mapped, layer, faded, late, mode, movesize, zone, cycled, under>>
  BY DEF motion, close_key, fullscreen_key, unfocus_key, close_hotkey, Captured, Press,
         modifier_press, modifier_release, stack, interaction, input, vars
<1>2. focus' \in {focus, None} /\ main_mod' \in BOOLEAN
  BY DEF Names, motion, close_key, fullscreen_key, unfocus_key, close_hotkey, Captured, Press,
         modifier_press, modifier_release, stack, interaction, input, vars
<1>3. pressed' \in 0..MaxButtons
  <2>1. pressed' = pressed \/ (pressed < MaxButtons /\ pressed' = pressed + 1)
    BY DEF motion, close_key, fullscreen_key, unfocus_key, close_hotkey, Captured, Press,
           modifier_press, modifier_release, stack, interaction, input, vars
  <2> QED
    BY <2>1, ButtonsAssumption DEF Names
<1>4. asked' \subseteq [kind : Kind, window : ToSet(windows)]
  <2>1. asked' = {} \/ asked' = asked
          \/ \E kind \in Kind, w \in ToSet(windows) : asked' = {Event(kind, w)}
    <3>1. CASE motion
      BY <3>1 DEF motion, Names, Kind
    <3>2. CASE close_key
      BY <3>2 DEF close_key, close, Names, Kind
    <3>3. CASE fullscreen_key
      BY <3>3 DEF fullscreen_key, Names, Kind
    <3>4. CASE \E hover \in ToSet(windows) \cup {None} : close_hotkey(hover)
      BY <3>4 DEF close_hotkey, close, Kind
    <3>5. CASE unfocus_key \/ modifier_press \/ modifier_release \/ UNCHANGED vars
      BY <3>5 DEF unfocus_key, modifier_press, modifier_release, vars
    <3> QED
      BY <3>1, <3>2, <3>3, <3>4, <3>5
  <2> QED
    BY <2>1, Events DEF Names
<1> QED
  BY <1>1, <1>2, <1>3, <1>4, StillKeepsNames DEF Names, InCycle

(* Buttons keep order and names.                                           *)
LEMMA ButtonsKeepNames ==
  ASSUME Order, Names, IInv,
         \/ release
         \/ \E hover \in ToSet(windows) \cup {None} :
              begin(hover) \/ \E b \in Button : press_during(b, hover) \/ press(b, hover)
  PROVE  Order' /\ Names'
<1>1. pressed' \in 0..MaxButtons /\ main_mod' \in BOOLEAN /\ mapped' = mapped
  <2>1. /\ \/ pressed < MaxButtons /\ pressed' = pressed + 1
           \/ pressed > 0 /\ pressed' = pressed - 1
        /\ main_mod' = main_mod /\ mapped' = mapped
    BY DEF release, begin, press_during, press, Press, end_interaction, end_zone, stack
  <2> QED
    BY <2>1, ButtonsAssumption DEF Names
<1>2. ToSet(layer) \subseteq ToSet(windows) /\ ToSet(windows) \subseteq Window
  <2>1. /\ Top \in ToSet(windows) \cup {None} /\ windows \in Seq(Window)
        /\ mapped \subseteq ToSet(windows) /\ layer = Stacking(windows, mapped, Top)
    BY DEF Order, Top
  <2>2. layer \in Seq(ToSet(windows))
    BY <2>1, StackingShows
  <2>3. \A A : \A s \in Seq(A) : ToSet(s) \subseteq A
    BY DEF ToSet
  <2> QED
    BY <2>1, <2>2, <2>3
<1>3. ASSUME NEW hover \in ToSet(windows) \cup {None}, begin(hover) PROVE Order' /\ Names'
  <2>1. /\ mode = "none" /\ UNCHANGED <<windows, layer, faded, late>> /\ asked' = {}
        /\ focus' \in {focus, None}
    BY <1>3 DEF begin, Captured
  <2>2. PICK w \in Found : \/ begin_interaction(w, "size") \/ begin_interaction(w, "move")
                           \/ begin_zone(w)
    BY <1>3 DEF begin
  <2>3. w \in ToSet(windows) \cup {None} /\ w \in Window \cup {None}
    BY <1>2, <2>2 DEF Found
  <2>4. /\ mode' \in Mode /\ cycled' = cycled /\ mode' # "focus_cycle"
        /\ movesize' \in ToSet(windows) \cup {None} /\ under' \in Window \cup {None}
    BY <2>1, <2>2, <2>3 DEF begin_interaction, begin_zone, Mode, Names
  <2>5. zone'.window \in ToSet(windows) \cup {None} /\ zone'.selecting \in BOOLEAN
    <3>1. zone' = zone \/ zone' = [window |-> w, selecting |-> FALSE]
      BY <2>2 DEF begin_interaction, begin_zone
    <3>2. CASE zone' = zone
      BY <3>2 DEF Names
    <3>3. CASE zone' = [window |-> w, selecting |-> FALSE]
      BY <2>3, <3>3
    <3> QED
      BY <3>1, <3>2, <3>3
  <2> QED
    BY <1>1, <2>1, <2>4, <2>5, StillKeepsNames DEF InCycle
<1>4. ASSUME NEW hover \in ToSet(windows) \cup {None}, NEW b \in Button, press_during(b, hover)
      PROVE  Order' /\ Names'
  <2>1. /\ UNCHANGED <<mode, movesize, cycled, under, windows, layer, faded, late>>
        /\ asked' = {} /\ focus' \in {focus, None}
    BY <1>4 DEF press_during, Captured
  <2>2. zone'.window = zone.window /\ zone'.selecting \in BOOLEAN
    <3>1. zone' = zone \/ zone' = [window |-> zone.window, selecting |-> ~ zone.selecting]
      BY <1>4 DEF press_during, IInv, ZoneShape
    <3>2. (~ zone.selecting) \in BOOLEAN
      OBVIOUS
    <3>3. CASE zone' = zone
      BY <3>3 DEF Names
    <3>4. CASE zone' = [window |-> zone.window, selecting |-> ~ zone.selecting]
      BY <3>2, <3>4
    <3> QED
      BY <3>1, <3>3, <3>4
  <2> QED
    BY <1>1, <2>1, <2>2, StillKeepsNames DEF Names, InCycle
<1>5. ASSUME NEW hover \in ToSet(windows) \cup {None}, NEW b \in Button, press(b, hover)
      PROVE  Order' /\ Names'
  <2>1. /\ UNCHANGED <<mode, movesize, zone, cycled, under>> /\ asked' = {}
        /\ seat_keyboard_focus(hover)
    BY <1>5 DEF press, interaction
  <2>2. CASE hover \in {None, focus}
    <3>1. UNCHANGED <<windows, layer, faded, late>> /\ focus' \in {focus, None}
      BY <2>1, <2>2 DEF seat_keyboard_focus
    <3> QED
      BY <1>1, <2>1, <3>1, StillKeepsNames DEF Names, InCycle
  <2>3. CASE hover \notin {None, focus}
    <3>1. focus' = hover /\ wm_window_raise(hover) /\ hover \in ToSet(windows)
      BY <2>1, <2>3 DEF seat_keyboard_focus
    <3>2. Order' /\ ToSet(windows') = ToSet(windows)
      BY <1>1, <2>1, <3>1, RaiseKeepsOrder DEF InCycle
    <3> QED
      BY <1>1, <2>1, <3>1, <3>2 DEF Names
  <2> QED
    BY <2>2, <2>3
<1>6. CASE release
  <2>1. CASE end_interaction /\ mode \in {"move", "size"}
    <3>1. /\ mode' = "none" /\ movesize' = None /\ under' = None /\ asked' = {}
          /\ UNCHANGED <<windows, mapped, layer, faded, late, focus, zone, cycled>>
      BY <2>1 DEF end_interaction, stack
    <3> QED
      BY <1>1, <2>1, <3>1, StillKeepsNames DEF Names, InCycle, Mode
  <2>2. CASE end_zone /\ mode = "zone"
    <3>1. mode' = "none" /\ under' = None /\ UNCHANGED <<zone, movesize, cycled>>
      BY <2>2 DEF end_zone
    <3>2. CASE zone.selecting /\ zone.window # None
      <4>1. /\ asked' = {Event("zone", zone.window)} /\ focus' = zone.window
            /\ wm_window_raise(zone.window) /\ zone.window \in ToSet(windows)
        BY <2>2, <3>2 DEF end_zone, wm_window_focus, Names
      <4>2. Order' /\ ToSet(windows') = ToSet(windows)
        BY <1>1, <2>2, <3>1, <4>1, RaiseKeepsOrder DEF InCycle
      <4>3. asked' \subseteq [kind : Kind, window : ToSet(windows')]
        <5>1. "zone" \in Kind
          BY DEF Kind
        <5> QED
          BY <4>1, <4>2, <5>1, Events
      <4> QED
        BY <1>1, <3>1, <4>1, <4>2, <4>3 DEF Names, Mode
    <3>3. CASE ~ (zone.selecting /\ zone.window # None)
      <4>1. asked' = {} /\ UNCHANGED <<windows, layer, faded, late, focus>>
        BY <2>2, <3>3 DEF end_zone
      <4> QED
        BY <1>1, <2>2, <3>1, <4>1, StillKeepsNames DEF Names, InCycle, Mode
    <3> QED
      BY <3>2, <3>3
  <2>3. CASE asked' = {} /\ UNCHANGED <<stack, focus, interaction>>
    BY <1>1, <2>3, StillKeepsNames DEF Names, InCycle, stack, interaction
  <2> QED
    BY <1>6, <2>1, <2>2, <2>3 DEF release
<1> QED
  BY <1>3, <1>4, <1>5, <1>6

(* Cycling keeps order and names.                                          *)
LEMMA CycleKeepsNames ==
  ASSUME Order, Names, tab \/ wheel \/ (modifier_release /\ mode = "focus_cycle")
  PROVE  Order' /\ Names'
<1>1. CASE tab \/ wheel
  <2>1. PICK in_cycle, forward : focus_cycle(in_cycle, forward)
    BY <1>1 DEF tab, wheel
  <2>2. Order' /\ ToSet(windows') = ToSet(windows)
    BY <2>1, CycleKeepsOrder
  <2>3. /\ mode' = "focus_cycle" /\ asked' = {}
        /\ UNCHANGED <<main_mod, pressed, focus, movesize, zone, under>>
    BY <2>1 DEF focus_cycle, input
  <2> QED
    BY <2>2, <2>3 DEF Names, Mode
<1>2. CASE modifier_release /\ mode = "focus_cycle"
  <2>1. main_mod' = FALSE /\ asked' = {} /\ pressed' = pressed /\ focus_cycle_end
    BY <1>2 DEF modifier_release
  <2>2. Order' /\ ToSet(windows') = ToSet(windows)
    BY <2>1, CycleEndKeepsOrder
  <2>3. mode' = "none" /\ UNCHANGED <<movesize, zone, under>> /\ focus' \in {focus, cycled}
    BY <2>1 DEF focus_cycle_end
  <2>4. cycled \in ToSet(windows) \cup {None}
    BY DEF Order
  <2> QED
    BY <2>1, <2>2, <2>3, <2>4 DEF Names, Mode
<1> QED
  BY <1>1, <1>2

(* Every step keeps order and names.                                       *)
LEMMA NextKeepsOrder == IInv /\ Order /\ Names /\ [Next]_vars => Order' /\ Names'
<1> SUFFICES ASSUME IInv, Order, Names, [Next]_vars PROVE Order' /\ Names'
  OBVIOUS
<1>1. CASE \E w \in Window : \/ wm_window_create(w) \/ wm_window_map(w)
                             \/ wm_window_unmap(w)  \/ WmWindow_destroy(w)
  BY <1>1, ComeAndGoKeepsNames
<1>2. CASE motion \/ close_key \/ fullscreen_key \/ unfocus_key \/ modifier_press
  BY <1>2, KeysKeepNames, Zenon
<1>8. CASE UNCHANGED vars
  BY <1>8, KeysKeepNames
<1>3. CASE tab \/ wheel
  BY <1>3, CycleKeepsNames, Zenon
<1>4. CASE modifier_release
  <2>1. CASE mode = "focus_cycle"
    BY <1>4, <2>1, CycleKeepsNames, Zenon
  <2>2. CASE mode # "focus_cycle"
    BY <1>4, <2>2, KeysKeepNames, Zenon
  <2> QED
    BY <2>1, <2>2
<1>5. CASE release
  BY <1>5, ButtonsKeepNames, Zenon
<1>6. ASSUME NEW hover \in ToSet(windows) \cup {None},
             \/ close_hotkey(hover) \/ begin(hover)
             \/ \E b \in Button : press_during(b, hover) \/ press(b, hover)
      PROVE  Order' /\ Names'
  <2>1. CASE close_hotkey(hover)
    BY <2>1, KeysKeepNames, Zenon
  <2>2. CASE begin(hover) \/ \E b \in Button : press_during(b, hover) \/ press(b, hover)
    BY <2>2, ButtonsKeepNames, Zenon
  <2> QED
    BY <1>6, <2>1, <2>2
<1>7. \/ \E w \in Window : \/ wm_window_create(w) \/ wm_window_map(w)
                          \/ wm_window_unmap(w)  \/ WmWindow_destroy(w)
      \/ \E hover \in ToSet(windows) \cup {None} :
           \/ close_hotkey(hover) \/ begin(hover)
           \/ \E b \in Button : press_during(b, hover) \/ press(b, hover)
      \/ motion \/ tab \/ wheel \/ modifier_press \/ modifier_release
      \/ unfocus_key \/ release \/ close_key \/ fullscreen_key \/ UNCHANGED vars
  BY DEF Next
<1> QED
  BY <1>1, <1>2, <1>3, <1>4, <1>5, <1>6, <1>7, <1>8

(* The list of windows and what is made of it hold together.               *)
THEOREM OrderHolds == Spec => [](Order /\ Names)
<1> QED
  BY Invariance, InitOrder, NextKeepsOrder, PTL DEF Spec

(* The scene shows the mapped windows in the list's order, the cycled one  *)
(* on top, and only a cycle fades windows (wm/focus.cpp wm_arrange_windows),*)
(* whatever was created, mapped, raised, cycled, unmapped or destroyed.    *)
THEOREM LayerFollowsList == Spec => []LayerArranged
<1>1. IInv /\ Order /\ Names => LayerArranged
  <2> SUFFICES ASSUME IInv, Order, Names PROVE LayerArranged
    OBVIOUS
  <2>1. layer \in Seq(ToSet(windows))
    <3>1. /\ Top \in ToSet(windows) \cup {None} /\ windows \in Seq(Window)
          /\ mapped \subseteq ToSet(windows) /\ layer = Stacking(windows, mapped, Top)
      BY DEF Order, Top
    <3> QED
      BY <3>1, StackingShows
  <2>2. TypeOK
    BY <2>1 DEF TypeOK, Order, Names, IInv, ZoneShape, Distinct
  <2> QED
    BY <2>2 DEF LayerArranged, Order, Fades, InCycle
<1> QED
  BY Invariance, OrderHolds, <1>1, PTL

(* The mapped window that has the keyboard is above all others, unless it  *)
(* had the keyboard before it was mapped (wm/window.cpp wm_window_raise,   *)
(* seat/keyboard.cpp seat_keyboard_focus), for any number of windows.      *)
THEOREM FocusedWindowIsOnTop == Spec => []FocusOnTop
<1>1. Order => FocusOnTop
  BY DEF Order, LastOf, FocusOnTop
<1> QED
  BY OrderHolds, <1>1, PTL

-----------------------------------------------------------------------------
(* Where k turns of the cycle lead from place i of a list of n windows.    *)
Turn(n, i, forward, k) ==
  IF forward THEN IF k < i THEN i - k ELSE (i - k) + n
             ELSE IF i + k <= n THEN i + k ELSE (i + k) - n

(* Turning round a list stays in it.                                       *)
LEMMA TurnStays ==
  ASSUME NEW n \in Nat, NEW i \in 1 .. n, NEW forward \in BOOLEAN, NEW k \in 0 .. n
  PROVE  /\ Turn(n, i, forward, k) \in 1 .. n
         /\ Turn(n, i, forward, 0) = i
         /\ Turn(n, i, forward, n) = i
         /\ k # 0 => Turn(n, Turn(n, i, forward, k - 1), forward, 1) = Turn(n, i, forward, k)
<1> QED
  BY DEF Turn

(* Turning round a list reaches all of it.                                 *)
LEMMA TurnReaches ==
  ASSUME NEW n \in Nat, NEW i \in 1 .. n, NEW forward \in BOOLEAN, NEW j \in 1 .. n
  PROVE  \E k \in 1 .. n : Turn(n, i, forward, k) = j
<1>1. CASE forward
  <2> DEFINE k == IF j < i THEN i - j ELSE (i - j) + n
  <2>1. k \in 1 .. n /\ Turn(n, i, forward, k) = j
    BY <1>1 DEF Turn
  <2> QED
    BY <2>1
<1>2. CASE ~ forward
  <2> DEFINE k == IF i < j THEN j - i ELSE (j - i) + n
  <2>1. k \in 1 .. n /\ Turn(n, i, forward, k) = j
    BY <1>2 DEF Turn
  <2> QED
    BY <2>1
<1> QED
  BY <1>1, <1>2

(* What the remainder is at the end of a list.                             *)
LEMMA Around ==
  ASSUME NEW n \in Nat \ {0}, NEW x \in Nat
  PROVE  /\ x % n \in 0 .. n - 1
         /\ x < n => x % n = x
         /\ n <= x /\ x < n + n => x % n = x - n
<1> QED
  OBVIOUS

(* The next window of a cycle is the first one in it on the way round.     *)
LEMMA CycleNextIsFirst ==
  ASSUME windows \in Seq(Window), Distinct(windows), NEW in_cycle,
         ToSet(windows) \cap in_cycle # {},
         NEW i \in 1 .. Len(windows), NEW forward \in BOOLEAN
  PROVE  \E d \in 1 .. Len(windows) :
           /\ cycle_next(windows[i], in_cycle, forward) = windows[Turn(Len(windows), i, forward, d)]
           /\ windows[Turn(Len(windows), i, forward, d)] \in in_cycle
           /\ \A e \in 1 .. (d - 1) : windows[Turn(Len(windows), i, forward, e)] \notin in_cycle
<1> DEFINE n == Len(windows)
           NthOf(a, d) == windows[((a - 1 + (IF forward THEN n - d ELSE d)) % n) + 1]
           from == CHOOSE a \in 1 .. n : windows[a] = windows[i]
           Near(a, D) == {d \in D : NthOf(a, d) \in in_cycle}
           Least(a, D) == CHOOSE d \in Near(a, D) : \A e \in Near(a, D) : d <= e
           S == {d \in 1 .. n : windows[Turn(n, i, forward, d)] \in in_cycle}
<1>1. n \in Nat \ {0} /\ i \in 1 .. n /\ DOMAIN windows = 1 .. n
  OBVIOUS
<1>2. windows[i] \in ToSet(windows)
  BY <1>1 DEF ToSet
<1>3. from = i /\ from # 0
  <2>1. \A a \in 1 .. n : windows[a] = windows[i] => a = i
    BY DEF Distinct
  <2> QED
    BY <1>1, <2>1
<1>4. ASSUME NEW d \in 1 .. n
      PROVE  NthOf(i, d) = windows[Turn(n, i, forward, d)]
  <2> DEFINE x == i - 1 + (IF forward THEN n - d ELSE d)
  <2>1. x \in Nat /\ x < n + n
    BY <1>1
  <2>2. Turn(n, i, forward, d) = IF x < n THEN x + 1 ELSE (x - n) + 1
    BY <1>1 DEF Turn
  <2> HIDE DEF x
  <2>3. (x % n) + 1 = IF x < n THEN x + 1 ELSE (x - n) + 1
    <3>1. CASE x < n
      <4>1. x % n = x
        BY <1>1, <2>1, <3>1, Around
      <4> QED
        BY <3>1, <4>1
    <3>2. CASE ~ (x < n)
      <4>1. n <= x
        BY <1>1, <2>1, <3>2
      <4>2. x % n = x - n
        BY <1>1, <2>1, <4>1, Around
      <4> QED
        BY <3>2, <4>2
    <3> QED
      BY <3>1, <3>2
  <2> QED
    BY <2>2, <2>3 DEF x
<1>5. Near(i, 1 .. n) = S
  <2> HIDE DEF NthOf
  <2> QED
    BY <1>4
<1>6. S # {} /\ S \subseteq Nat
  <2>1. PICK j \in 1 .. n : windows[j] \in in_cycle
    BY <1>1 DEF ToSet
  <2>2. PICK k \in 1 .. n : Turn(n, i, forward, k) = j
    <3>1. n \in Nat
      BY <1>1
    <3> HIDE DEF n, NthOf, from, Near, Least, S
    <3> QED
      BY <1>1, <2>1, <3>1, TurnReaches
  <2>3. k \in S
    BY <2>1, <2>2
  <2>4. 1 .. n \subseteq Nat
    BY <1>1
  <2> QED
    BY <2>3, <2>4
<1>7. cycle_next(windows[i], in_cycle, forward) = NthOf(from, Least(from, 1 .. n))
  <2>1. cycle_next(windows[i], in_cycle, forward) =
          IF from = 0 THEN windows[CHOOSE a \in 1 .. n : /\ windows[a] \in in_cycle
                                     /\ \A b \in (a + 1) .. n : windows[b] \notin in_cycle]
                      ELSE NthOf(from, Least(from, 1 .. n))
    BY <1>2 DEF cycle_next
  <2> HIDE DEF Least, NthOf, from
  <2> QED
    BY <1>3, <2>1
<1>8. Least(i, 1 .. n) = CHOOSE d \in S : \A e \in S : d <= e
  BY <1>5
<1> DEFINE d == CHOOSE d \in S : \A e \in S : d <= e
<1>9. d \in S /\ \A e \in S : d <= e
  <2> HIDE DEF S
  <2>1. \E c \in S : \A e \in S : c <= e
    BY <1>6, LeastNumber
  <2> QED
    BY <2>1
<1>10. cycle_next(windows[i], in_cycle, forward) = NthOf(i, d)
  <2> HIDE DEF Least, NthOf, from
  <2> QED
    BY <1>3, <1>7, <1>8
<1> HIDE DEF d
<1>11. d \in 1 .. n /\ windows[Turn(n, i, forward, d)] \in in_cycle
  BY <1>9
<1>12. cycle_next(windows[i], in_cycle, forward) = windows[Turn(n, i, forward, d)]
  BY <1>4, <1>10, <1>11
<1>13. ASSUME NEW e \in 1 .. (d - 1)
       PROVE  windows[Turn(n, i, forward, e)] \notin in_cycle
  <2>1. e \in 1 .. n /\ ~ (d <= e)
    BY <1>1, <1>11
  <2>2. e \notin S
    <3> HIDE DEF S
    <3> QED
      BY <1>9, <2>1
  <2> QED
    BY <2>1, <2>2
<1> HIDE DEF n
<1> QED
  BY <1>11, <1>12, <1>13 DEF n

(* In a cycle of all windows the next one is the neighbour.                *)
LEMMA CycleNextIsNeighbour ==
  ASSUME windows \in Seq(Window), Distinct(windows),
         NEW i \in 1 .. Len(windows), NEW forward \in BOOLEAN
  PROVE  cycle_next(windows[i], Window, forward) = windows[Turn(Len(windows), i, forward, 1)]
<1> DEFINE n == Len(windows)
<1>1. n \in Nat \ {0} /\ \A a \in 1 .. n : windows[a] \in Window
  OBVIOUS
<1>2. ToSet(windows) \cap Window # {}
  BY <1>1 DEF ToSet
<1>3. PICK d \in 1 .. n :
        /\ cycle_next(windows[i], Window, forward) = windows[Turn(n, i, forward, d)]
        /\ \A e \in 1 .. (d - 1) : windows[Turn(n, i, forward, e)] \notin Window
  BY <1>2, CycleNextIsFirst
<1>4. windows[Turn(n, i, forward, 1)] \in Window
  <2>1. Turn(n, i, forward, 1) \in 1 .. n
    BY <1>1, TurnStays
  <2> QED
    BY <1>1, <2>1
<1>5. d = 1
  <2>1. 1 \notin 1 .. (d - 1)
    BY <1>3, <1>4
  <2> QED
    BY <1>1, <2>1
<1> QED
  BY <1>3, <1>5

(* Without a window to go on from, a cycle starts at its topmost one.      *)
LEMMA CycleStartsOnTop ==
  ASSUME windows \in Seq(Window), NEW in_cycle,
         ToSet(windows) \cap in_cycle # {}, NEW forward
  PROVE  \E l \in 1 .. Len(windows) :
           /\ cycle_next(None, in_cycle, forward) = windows[l]
           /\ windows[l] \in in_cycle
           /\ \A j \in (l + 1) .. Len(windows) : windows[j] \notin in_cycle
<1> DEFINE n == Len(windows)
           S == {d \in Nat : d < n /\ windows[n - d] \in in_cycle}
           Highest(l) == /\ windows[l] \in in_cycle
                         /\ \A j \in (l + 1) .. n : windows[j] \notin in_cycle
           last == CHOOSE l \in 1 .. n : Highest(l)
<1>1. n \in Nat /\ DOMAIN windows = 1 .. n
  OBVIOUS
<1>2. None \notin ToSet(windows)
  BY NoneAssumption DEF ToSet
<1>3. cycle_next(None, in_cycle, forward) = windows[last]
  BY <1>2 DEF cycle_next
<1>4. PICK k \in 1 .. n : windows[k] \in in_cycle
  BY <1>1 DEF ToSet
<1> HIDE DEF n
<1>5. n - k \in S
  <2>1. n - k \in Nat /\ n - k < n /\ n - (n - k) = k
    BY <1>1, <1>4
  <2> QED
    BY <1>4, <2>1
<1>6. PICK d \in S : \A e \in S : d <= e
  <2>1. S \subseteq Nat /\ S # {}
    BY <1>5
  <2> HIDE DEF S
  <2> QED
    BY <2>1, LeastNumber
<1>7. n - d \in 1 .. n /\ windows[n - d] \in in_cycle
  BY <1>1, <1>6
<1>8. ASSUME NEW j \in (n - d + 1) .. n PROVE windows[j] \notin in_cycle
  <2>1. n - j \in Nat /\ n - j < n /\ n - (n - j) = j /\ ~ (d <= n - j)
    BY <1>1, <1>6, <1>8
  <2>2. n - j \notin S
    <3> HIDE DEF S
    <3> QED
      BY <1>6, <2>1
  <2> QED
    BY <2>1, <2>2
<1>9. last \in 1 .. n /\ Highest(last)
  <2>1. Highest(n - d)
    BY <1>7, <1>8
  <2> HIDE DEF Highest
  <2> QED
    BY <1>7, <2>1
<1> HIDE DEF last
<1> QED
  BY <1>3, <1>9 DEF n

(* The windows that k turns from w come by.                                *)
Turns(at, w, forward, n) ==
  at = [k \in 0 .. n |-> IF k = 0 THEN w ELSE cycle_next(at[k - 1], Window, forward)]

(* The turns of the cycle turn round the list.                             *)
LEMMA TurnsAreTurns ==
  ASSUME windows \in Seq(Window), Distinct(windows),
         NEW i \in 1 .. Len(windows), NEW forward \in BOOLEAN,
         NEW at, Turns(at, windows[i], forward, Len(windows))
  PROVE  \A k \in 0 .. Len(windows) : at[k] = windows[Turn(Len(windows), i, forward, k)]
<1> DEFINE n == Len(windows)
           Bad == {k \in 0 .. n : at[k] # windows[Turn(n, i, forward, k)]}
<1>1. n \in Nat \ {0}
  OBVIOUS
<1>2. SUFFICES ASSUME Bad # {} PROVE FALSE
  OBVIOUS
<1>3. PICK k \in Bad : \A j \in Bad : k <= j
  <2>1. Bad \subseteq Nat
    OBVIOUS
  <2> HIDE DEF Bad
  <2> QED
    BY <1>2, <2>1, LeastNumber
<1>4. k \in 0 .. n /\ at[k] # windows[Turn(n, i, forward, k)]
  OBVIOUS
<1>5. at[k] = IF k = 0 THEN windows[i] ELSE cycle_next(at[k - 1], Window, forward)
  BY <1>4 DEF Turns
<1>6. k # 0
  <2>1. ASSUME k = 0 PROVE at[k] = windows[Turn(n, i, forward, k)]
    <3>1. Turn(n, i, forward, 0) = i
      <4>1. n \in Nat /\ i \in 1 .. n /\ 0 \in 0 .. n
        BY <1>1
      <4> QED
        BY <4>1, TurnStays
    <3>2. at[k] = windows[i]
      BY <1>5, <2>1
    <3> QED
      BY <2>1, <3>1, <3>2
  <2> QED
    BY <1>4, <2>1
<1>7. k - 1 \in 0 .. n /\ at[k - 1] = windows[Turn(n, i, forward, k - 1)]
  <2>1. k - 1 \in 0 .. n /\ ~ (k <= k - 1)
    BY <1>4, <1>6
  <2>2. k - 1 \notin Bad
    <3> HIDE DEF Bad
    <3> QED
      BY <1>3, <2>1
  <2> QED
    BY <2>1, <2>2
<1>8. Turn(n, i, forward, k - 1) \in 1 .. n
  BY <1>1, <1>7, TurnStays
<1>9. cycle_next(at[k - 1], Window, forward) =
        windows[Turn(n, Turn(n, i, forward, k - 1), forward, 1)]
  BY <1>7, <1>8, CycleNextIsNeighbour
<1>10. Turn(n, Turn(n, i, forward, k - 1), forward, 1) = Turn(n, i, forward, k)
  BY <1>1, <1>4, <1>6, TurnStays
<1> HIDE DEF Bad
<1> QED
  BY <1>4, <1>5, <1>6, <1>9, <1>10

(* The turns of the cycle exist.                                           *)
LEMMA TurnsExist ==
  ASSUME windows \in Seq(Window), Distinct(windows),
         NEW i \in 1 .. Len(windows), NEW forward \in BOOLEAN
  PROVE  \E at : Turns(at, windows[i], forward, Len(windows))
<1> DEFINE n == Len(windows)
           at == [k \in 0 .. n |-> windows[Turn(n, i, forward, k)]]
<1>1. n \in Nat \ {0}
  OBVIOUS
<1>2. ASSUME NEW k \in 0 .. n
      PROVE  windows[Turn(n, i, forward, k)] =
               IF k = 0 THEN windows[i] ELSE cycle_next(at[k - 1], Window, forward)
  <2>1. CASE k = 0
    BY <1>1, <2>1, TurnStays, ZenonT(40)
  <2>2. CASE k # 0
    <3>1. k - 1 \in 0 .. n /\ at[k - 1] = windows[Turn(n, i, forward, k - 1)]
      BY <1>1, <2>2
    <3>2. Turn(n, i, forward, k - 1) \in 1 .. n
      BY <1>1, <3>1, TurnStays
    <3>3. cycle_next(at[k - 1], Window, forward) =
            windows[Turn(n, Turn(n, i, forward, k - 1), forward, 1)]
      BY <3>1, <3>2, CycleNextIsNeighbour
    <3>4. Turn(n, Turn(n, i, forward, k - 1), forward, 1) = Turn(n, i, forward, k)
      BY <1>1, <2>2, TurnStays
    <3> QED
      BY <2>2, <3>3, <3>4
  <2> QED
    BY <2>1, <2>2
<1>3. Turns(at, windows[i], forward, n)
  BY <1>2 DEF Turns
<1> QED
  BY <1>3

(* The same from no window: the first turn is to the topmost one.          *)
LEMMA TurnsFromNone ==
  ASSUME windows \in Seq(Window), Distinct(windows), Len(windows) # 0,
         NEW forward \in BOOLEAN, NEW at, Turns(at, None, forward, Len(windows))
  PROVE  \A k \in 1 .. Len(windows) :
           at[k] = windows[Turn(Len(windows), Len(windows), forward, k - 1)]
<1> DEFINE n == Len(windows)
           later == [k \in 0 .. n |-> IF k < n THEN at[k + 1] ELSE cycle_next(at[n], Window, forward)]
<1>1. n \in Nat \ {0} /\ n \in 1 .. n
  OBVIOUS
<1>2. \A k \in 0 .. n : at[k] = IF k = 0 THEN None ELSE cycle_next(at[k - 1], Window, forward)
  BY DEF Turns
<1>3. at[1] = windows[n]
  <2>1. at[1] = cycle_next(None, Window, forward)
    <3>1. at[0] = None /\ at[1] = cycle_next(at[1 - 1], Window, forward)
      BY <1>1, <1>2
    <3>2. 1 - 1 = 0
      OBVIOUS
    <3> QED
      BY <3>1, <3>2
  <2>2. \A a \in 1 .. n : windows[a] \in Window
    OBVIOUS
  <2>3. ToSet(windows) \cap Window # {}
    BY <1>1, <2>2 DEF ToSet
  <2>4. PICK l \in 1 .. n : /\ cycle_next(None, Window, forward) = windows[l]
                            /\ \A j \in (l + 1) .. n : windows[j] \notin Window
    BY <2>3, CycleStartsOnTop
  <2>5. n \notin (l + 1) .. n
    BY <1>1, <2>2, <2>4
  <2>6. l = n
    BY <1>1, <2>5
  <2> QED
    BY <2>1, <2>4, <2>6
<1> HIDE DEF n
<1>4. ASSUME NEW k \in 0 .. n
      PROVE  later[k] = IF k = 0 THEN windows[n] ELSE cycle_next(later[k - 1], Window, forward)
  <2>1. CASE k = 0
    BY <1>1, <1>3, <2>1
  <2>2. CASE k # 0 /\ k < n
    <3>1. k + 1 \in 0 .. n /\ k + 1 # 0 /\ (k + 1) - 1 = k /\ k - 1 \in 0 .. n
          /\ k - 1 < n /\ (k - 1) + 1 = k
      BY <1>1, <2>2
    <3>2. later[k] = at[k + 1] /\ later[k - 1] = at[k]
      BY <2>2, <3>1
    <3>3. at[k + 1] = cycle_next(at[(k + 1) - 1], Window, forward)
      BY <1>2, <3>1
    <3> HIDE DEF later
    <3> QED
      BY <2>2, <3>1, <3>2, <3>3
  <2>3. CASE k # 0 /\ ~ (k < n)
    <3>1. k = n /\ k - 1 \in 0 .. n /\ k - 1 < n /\ (k - 1) + 1 = n
      BY <1>1, <2>3
    <3>2. later[k] = cycle_next(at[n], Window, forward) /\ later[k - 1] = at[n]
      BY <2>3, <3>1
    <3> HIDE DEF later
    <3> QED
      BY <2>3, <3>2
  <2> QED
    BY <2>1, <2>2, <2>3
<1>5. Turns(later, windows[n], forward, n)
  <2>1. later = [k \in 0 .. n |-> later[k]]
    OBVIOUS
  <2> HIDE DEF later
  <2>2. [k \in 0 .. n |-> later[k]] =
          [k \in 0 .. n |-> IF k = 0 THEN windows[n] ELSE cycle_next(later[k - 1], Window, forward)]
    BY <1>4
  <2>3. later =
          [k \in 0 .. n |-> IF k = 0 THEN windows[n] ELSE cycle_next(later[k - 1], Window, forward)]
    BY <2>1, <2>2
  <2> QED
    BY <2>3 DEF Turns
<1>6. ASSUME NEW k \in 1 .. n PROVE at[k] = windows[Turn(n, n, forward, k - 1)]
  <2>1. k - 1 \in 0 .. n /\ k - 1 < n /\ (k - 1) + 1 = k
    BY <1>1, <1>6
  <2>2. later[k - 1] = at[k]
    BY <2>1
  <2> HIDE DEF later
  <2>3. later[k - 1] = windows[Turn(n, n, forward, k - 1)]
    BY <1>1, <1>5, <2>1, TurnsAreTurns DEF n
  <2> QED
    BY <2>2, <2>3
<1> QED
  BY <1>6 DEF n

(* They exist, too.                                                        *)
LEMMA TurnsFromNoneExist ==
  ASSUME windows \in Seq(Window), Distinct(windows), NEW forward \in BOOLEAN
  PROVE  \E at : Turns(at, None, forward, Len(windows))
<1> DEFINE n == Len(windows)
<1>1. n \in Nat
  OBVIOUS
<1>2. CASE n = 0
  <2> DEFINE at == [k \in 0 .. n |-> None]
  <2>1. \A k \in 0 .. n : k = 0
    BY <1>2
  <2>2. Turns(at, None, forward, n)
    BY <2>1 DEF Turns
  <2> QED
    BY <2>2
<1>3. CASE n # 0
  <2>1. PICK on : Turns(on, windows[n], forward, n)
    BY <1>1, <1>3, TurnsExist
  <2> DEFINE at == [k \in 0 .. n |-> IF k = 0 THEN None ELSE on[k - 1]]
  <2>2. cycle_next(None, Window, forward) = windows[n]
    <3>1. \A a \in 1 .. n : windows[a] \in Window
      OBVIOUS
    <3>2. n \in 1 .. n
      BY <1>1, <1>3
    <3>3. ToSet(windows) \cap Window # {}
      BY <3>1, <3>2 DEF ToSet
    <3>4. PICK l \in 1 .. n : /\ cycle_next(None, Window, forward) = windows[l]
                              /\ \A j \in (l + 1) .. n : windows[j] \notin Window
      BY <3>3, CycleStartsOnTop
    <3>5. n \notin (l + 1) .. n
      BY <3>1, <3>2, <3>4
    <3>6. l = n
      BY <1>1, <3>5
    <3> QED
      BY <3>4, <3>6
  <2> HIDE DEF n
  <2>3. \A k \in 0 .. n :
          on[k] = IF k = 0 THEN windows[n] ELSE cycle_next(on[k - 1], Window, forward)
    BY <2>1 DEF Turns
  <2>4. ASSUME NEW k \in 0 .. n
        PROVE  at[k] = IF k = 0 THEN None ELSE cycle_next(at[k - 1], Window, forward)
    <3>1. CASE k = 0
      BY <3>1
    <3>2. CASE k = 1
      <4>1. at[k] = on[0] /\ at[k - 1] = None
        BY <1>1, <1>3, <3>2
      <4>2. on[0] = windows[n]
        BY <1>1, <2>3
      <4> HIDE DEF at
      <4> QED
        BY <2>2, <3>2, <4>1, <4>2
    <3>3. CASE k # 0 /\ k # 1
      <4>1. k - 1 \in 0 .. n /\ k - 1 # 0 /\ k - 2 \in 0 .. n /\ (k - 1) - 1 = k - 2
        BY <1>1, <3>3
      <4>2. at[k] = on[k - 1] /\ at[k - 1] = on[k - 2]
        BY <3>3, <4>1
      <4>3. on[k - 1] = cycle_next(on[(k - 1) - 1], Window, forward)
        BY <2>3, <4>1
      <4> HIDE DEF at
      <4> QED
        BY <3>3, <4>1, <4>2, <4>3
    <3> QED
      BY <3>1, <3>2, <3>3
  <2>5. at = [k \in 0 .. n |-> at[k]]
    OBVIOUS
  <2> HIDE DEF at
  <2>6. [k \in 0 .. n |-> at[k]] =
          [k \in 0 .. n |-> IF k = 0 THEN None ELSE cycle_next(at[k - 1], Window, forward)]
    BY <2>4
  <2>7. at = [k \in 0 .. n |-> IF k = 0 THEN None ELSE cycle_next(at[k - 1], Window, forward)]
    BY <2>5, <2>6
  <2>8. Turns(at, None, forward, n)
    BY <2>7 DEF Turns
  <2> QED
    BY <2>8 DEF n
<1> QED
  BY <1>2, <1>3

(* What the turns at from w have to do with cycles through any windows.    *)
Round(at, w, forward) ==
  /\ {at[k] : k \in 1 .. Len(windows)} = ToSet(windows)
  /\ w # None => at[Len(windows)] = w
  /\ \A in_cycle \in (SUBSET ToSet(windows)) \ {{}} :
       \E k \in 1 .. Len(windows) :
         /\ at[k] = cycle_next(w, in_cycle, forward)
         /\ at[k] \in in_cycle
         /\ w # None \/ forward => \A j \in 1 .. (k - 1) : at[j] \notin in_cycle

(* From a window of the list.                                              *)
LEMMA RoundFromWindow ==
  ASSUME windows \in Seq(Window), Distinct(windows), NEW forward \in BOOLEAN,
         NEW w \in ToSet(windows), NEW at, Turns(at, w, forward, Len(windows))
  PROVE  Round(at, w, forward)
<1> DEFINE n == Len(windows)
<1>1. n \in Nat /\ DOMAIN windows = 1 .. n
  OBVIOUS
<1>2. PICK i \in 1 .. n : w = windows[i]
  BY DEF ToSet
<1>3. \A k \in 0 .. n : at[k] = windows[Turn(n, i, forward, k)]
  BY <1>2, TurnsAreTurns
<1>4. \A k \in 1 .. n : at[k] = windows[Turn(n, i, forward, k)] /\ Turn(n, i, forward, k) \in 1 .. n
  BY <1>1, <1>3, TurnStays
<1>5. \A k \in 1 .. n : at[k] \in ToSet(windows)
  BY <1>1, <1>4 DEF ToSet
<1>6. ASSUME NEW v \in ToSet(windows) PROVE \E k \in 1 .. n : at[k] = v
  <2>1. PICK j \in 1 .. n : v = windows[j]
    BY DEF ToSet
  <2>2. PICK k \in 1 .. n : Turn(n, i, forward, k) = j
    BY <1>1, TurnReaches
  <2> QED
    BY <1>4, <2>1, <2>2
<1>7. at[n] = w
  <2>1. at[n] = windows[Turn(n, i, forward, n)]
    BY <1>1, <1>3
  <2>2. Turn(n, i, forward, n) = i
    BY <1>1, <1>2, TurnStays
  <2> QED
    BY <1>2, <2>1, <2>2
<1>8. ASSUME NEW in_cycle \in SUBSET ToSet(windows), in_cycle # {}
      PROVE  \E k \in 1 .. n : /\ at[k] = cycle_next(w, in_cycle, forward)
                               /\ at[k] \in in_cycle
                               /\ \A j \in 1 .. (k - 1) : at[j] \notin in_cycle
  <2>1. ToSet(windows) \cap in_cycle # {}
    BY <1>8
  <2>2. PICK d \in 1 .. n :
          /\ cycle_next(windows[i], in_cycle, forward) = windows[Turn(n, i, forward, d)]
          /\ windows[Turn(n, i, forward, d)] \in in_cycle
          /\ \A e \in 1 .. (d - 1) : windows[Turn(n, i, forward, e)] \notin in_cycle
    BY <1>2, <2>1, CycleNextIsFirst
  <2>3. \A j \in 1 .. (d - 1) : j \in 1 .. n
    BY <1>1, <2>2
  <2> HIDE DEF n
  <2> QED
    BY <1>2, <1>4, <2>2, <2>3
<1> HIDE DEF n
<1>9. {at[k] : k \in 1 .. n} = ToSet(windows)
  BY <1>5, <1>6
<1> QED
  BY <1>7, <1>8, <1>9 DEF Round, n

(* From no window.                                                         *)
LEMMA RoundFromNone ==
  ASSUME windows \in Seq(Window), Distinct(windows), NEW forward \in BOOLEAN,
         NEW at, Turns(at, None, forward, Len(windows))
  PROVE  Round(at, None, forward)
<1> DEFINE n == Len(windows)
<1>1. n \in Nat /\ DOMAIN windows = 1 .. n
  OBVIOUS
<1>2. CASE n = 0
  <2>1. ToSet(windows) = {} /\ 1 .. n = {}
    BY <1>1, <1>2 DEF ToSet
  <2> HIDE DEF n
  <2>2. {at[k] : k \in 1 .. n} = ToSet(windows)
    BY <2>1
  <2>3. \A in_cycle \in SUBSET ToSet(windows) : in_cycle = {}
    BY <2>1
  <2> QED
    BY <2>2, <2>3 DEF Round, n
<1>3. CASE n # 0
  <2>1. \A k \in 1 .. n : at[k] = windows[Turn(n, n, forward, k - 1)]
    BY <1>3, TurnsFromNone
  <2>2. ASSUME NEW k \in 1 .. n
        PROVE  Turn(n, n, forward, k - 1) \in 1 .. n
    <3>1. n \in 1 .. n /\ k - 1 \in 0 .. n
      BY <1>1, <1>3
    <3> QED
      BY <1>1, <3>1, TurnStays
  <2>3. \A k \in 1 .. n : at[k] \in ToSet(windows)
    BY <1>1, <2>1, <2>2 DEF ToSet
  <2>4. ASSUME NEW j \in 1 .. n
        PROVE  \E k \in 1 .. n : Turn(n, n, forward, k - 1) = j
    <3> HIDE DEF n
    <3>1. CASE forward
      <4>1. (n - j) + 1 \in 1 .. n /\ ((n - j) + 1) - 1 = n - j
        BY <1>1, <2>4
      <4>2. Turn(n, n, forward, n - j) = j
        BY <1>1, <2>4, <3>1 DEF Turn
      <4> QED
        BY <4>1, <4>2
    <3>2. CASE ~ forward /\ j = n
      <4>1. 1 \in 1 .. n /\ 1 - 1 = 0
        BY <1>1, <2>4
      <4>2. Turn(n, n, forward, 0) = j
        BY <1>1, <3>2 DEF Turn
      <4> QED
        BY <4>1, <4>2
    <3>3. CASE ~ forward /\ j # n
      <4>1. j + 1 \in 1 .. n /\ (j + 1) - 1 = j
        BY <1>1, <2>4, <3>3
      <4>2. Turn(n, n, forward, j) = j
        BY <1>1, <2>4, <3>3 DEF Turn
      <4> QED
        BY <4>1, <4>2
    <3> QED
      BY <3>1, <3>2, <3>3
  <2>5. ASSUME NEW v \in ToSet(windows) PROVE \E k \in 1 .. n : at[k] = v
    <3>1. PICK j \in 1 .. n : v = windows[j]
      BY DEF ToSet
    <3>2. PICK k \in 1 .. n : Turn(n, n, forward, k - 1) = j
      BY <2>4
    <3> QED
      BY <2>1, <3>1, <3>2
  <2>6. ASSUME NEW in_cycle \in SUBSET ToSet(windows), in_cycle # {}
        PROVE  \E k \in 1 .. n : /\ at[k] = cycle_next(None, in_cycle, forward)
                                 /\ at[k] \in in_cycle
                                 /\ forward => \A j \in 1 .. (k - 1) : at[j] \notin in_cycle
    <3>1. ToSet(windows) \cap in_cycle # {}
      BY <2>6
    <3>2. PICK l \in 1 .. n : /\ cycle_next(None, in_cycle, forward) = windows[l]
                              /\ windows[l] \in in_cycle
                              /\ \A j \in (l + 1) .. n : windows[j] \notin in_cycle
      BY <3>1, CycleStartsOnTop
    <3>3. PICK k \in 1 .. n : Turn(n, n, forward, k - 1) = l
      BY <2>4
    <3>4. at[k] = windows[l]
      BY <2>1, <3>3
    <3>5. ASSUME forward, NEW j \in 1 .. (k - 1)
          PROVE  at[j] \notin in_cycle
      <4>1. j \in 1 .. n
        BY <1>1, <3>3, <3>5
      <4>2. Turn(n, n, forward, j - 1) \in (l + 1) .. n
        BY <1>1, <1>3, <3>3, <3>5, <4>1 DEF Turn
      <4> QED
        BY <2>1, <3>2, <4>1, <4>2
    <3> HIDE DEF n
    <3> QED
      BY <3>2, <3>3, <3>4, <3>5
  <2> HIDE DEF n
  <2>7. {at[k] : k \in 1 .. n} = ToSet(windows)
    BY <2>3, <2>5
  <2> QED
    BY <2>6, <2>7 DEF Round, n
<1> QED
  BY <1>2, <1>3

(* Turning as often as there are windows visits all.                       *)
LEMMA CycleComesRound ==
  ASSUME windows \in Seq(Window), Distinct(windows), cycled \in ToSet(windows) \cup {None}
  PROVE  CycleVisitsAll
<1> DEFINE n == Len(windows)
           Reached(w, forward) == CHOOSE at : Turns(at, w, forward, n)
<1>1. ASSUME NEW forward \in BOOLEAN, NEW w \in ToSet(windows) \cup {None}
      PROVE  Round(Reached(w, forward), w, forward)
  <2> DEFINE at == Reached(w, forward)
  <2>1. \E f : Turns(f, w, forward, n)
    <3>1. CASE w = None
      BY <3>1, TurnsFromNoneExist
    <3>2. CASE w \in ToSet(windows)
      <4>1. PICK i \in 1 .. n : w = windows[i]
        BY <3>2 DEF ToSet
      <4> QED
        BY <4>1, TurnsExist
    <3> QED
      BY <3>1, <3>2
  <2>2. Turns(at, w, forward, n)
    BY <2>1
  <2> HIDE DEF at
  <2>3. Round(at, w, forward)
    BY <2>2, RoundFromWindow, RoundFromNone
  <2> QED
    BY <2>3 DEF at
<1>2. ASSUME NEW forward \in BOOLEAN
      PROVE  Round(CHOOSE at : Turns(at, cycled, forward, n), cycled, forward)
  BY <1>1, <1>2
<1> QED
  BY <1>2 DEF CycleVisitsAll, Turns, Round

(* Turning on in a focus cycle comes by every window once and then back to *)
(* the cycled one, in either direction, also when that one is gone; a      *)
(* cycle through some of them passes over the others alone (wm/focus.cpp   *)
(* cycle_next_window), for any number of windows.                          *)
THEOREM CyclesComeRound == Spec => []CycleVisitsAll
<1>1. Order => CycleVisitsAll
  BY CycleComesRound DEF Order
<1> QED
  BY OrderHolds, <1>1, PTL

-----------------------------------------------------------------------------
(* Loops over a list.                                                      *)

(* The values f of a loop over the first n elements of a list.             *)
IsLoop(f, base, step, s, n) ==
  /\ f[0] = base
  /\ \A k \in 1 .. n : f[k] = step[f[k - 1]][s[k]]

(* Two lists begin with the same n elements.                               *)
Begin(s, t, n) == \A k \in 1 .. n : t[k] = s[k]

(* A loop over a longer list goes through the values of the shorter one.   *)
LEMMA LoopIsUnique ==
  ASSUME NEW base, NEW step, NEW s, NEW t, NEW n \in Nat, NEW m \in Nat, n <= m,
         Begin(s, t, n),
         NEW f, IsLoop(f, base, step, s, n), NEW g, IsLoop(g, base, step, t, m)
  PROVE  \A k \in 0 .. n : f[k] = g[k]
<1> DEFINE Bad == {k \in 0 .. n : f[k] # g[k]}
<1>1. SUFFICES ASSUME Bad # {} PROVE FALSE
  OBVIOUS
<1>2. PICK k \in Bad : \A j \in Bad : k <= j
  <2>1. Bad \subseteq Nat
    OBVIOUS
  <2> HIDE DEF Bad
  <2> QED
    BY <1>1, <2>1, LeastNumber
<1>3. k \in 0 .. n /\ f[k] # g[k]
  OBVIOUS
<1>4. k # 0
  BY <1>3 DEF IsLoop
<1>5. k \in 1 .. n /\ k \in 1 .. m /\ k - 1 \in 0 .. n /\ ~ (k <= k - 1)
  BY <1>3, <1>4
<1>6. k - 1 \notin Bad
  <2> HIDE DEF Bad
  <2> QED
    BY <1>2, <1>5
<1>7. f[k - 1] = g[k - 1]
  BY <1>5, <1>6
<1>8. f[k] = step[f[k - 1]][s[k]] /\ g[k] = step[g[k - 1]][t[k]] /\ t[k] = s[k]
  BY <1>5 DEF IsLoop, Begin
<1> QED
  BY <1>3, <1>7, <1>8

(* Of two such loops, the second goes one step further over a longer list. *)
OneFurther(base, step, s, t, n, m, f, g) ==
  /\ n \in Nat /\ m = n + 1 /\ Begin(s, t, n)
  /\ IsLoop(f, base, step, s, n) /\ IsLoop(g, base, step, t, m)

(* A loop goes on from where a shorter one ended.                          *)
LEMMA LoopGoesOn ==
  ASSUME NEW base, NEW step, NEW s, NEW t, NEW n, NEW m, NEW f, NEW g,
         OneFurther(base, step, s, t, n, m, f, g)
  PROVE  g[m] = step[f[n]][t[m]]
<1>1. /\ n \in Nat /\ m \in Nat /\ n <= m /\ m \in 1 .. m /\ m - 1 = n /\ n \in 0 .. n
      /\ Begin(s, t, n) /\ IsLoop(f, base, step, s, n) /\ IsLoop(g, base, step, t, m)
  BY DEF OneFurther
<1>2. f[n] = g[n]
  <2>1. \A k \in 0 .. n : f[k] = g[k]
    BY <1>1, LoopIsUnique
  <2> QED
    BY <1>1, <2>1
<1>3. g[m] = step[g[m - 1]][t[m]]
  BY <1>1 DEF IsLoop
<1> QED
  BY <1>1, <1>2, <1>3

(* There is a loop over every list, if each step gives a value.            *)
LEMMA LoopExists ==
  ASSUME NEW V, NEW A, NEW base \in V, NEW step \in [V -> [A -> V]]
  PROVE  \A s \in Seq(A) : \E f \in [0 .. Len(s) -> V] : IsLoop(f, base, step, s, Len(s))
<1> DEFINE P == {s \in Seq(A) : \E f \in [0 .. Len(s) -> V] : IsLoop(f, base, step, s, Len(s))}
<1>1. <<>> \in P
  <2>1. [k \in 0 .. 0 |-> base] \in [0 .. 0 -> V] /\ IsLoop([k \in 0 .. 0 |-> base], base, step, <<>>, 0)
    BY DEF IsLoop
  <2>2. <<>> \in Seq(A) /\ Len(<<>>) = 0
    OBVIOUS
  <2> QED
    BY <2>1, <2>2
<1>2. ASSUME NEW s \in Seq(A), s \in P, NEW x \in A PROVE Append(s, x) \in P
  <2> DEFINE n == Len(s)
             t == Append(s, x)
  <2>1. PICK f \in [0 .. n -> V] : IsLoop(f, base, step, s, n)
    BY <1>2
  <2>0. PICK y : y = step[f[n]][x]
    OBVIOUS
  <2> DEFINE g == [k \in 0 .. n + 1 |-> IF k = n + 1 THEN y ELSE f[k]]
  <2>2. /\ n \in Nat /\ t \in Seq(A) /\ Len(t) = n + 1 /\ t[n + 1] = x
        /\ \A k \in 1 .. n : t[k] = s[k]
    OBVIOUS
  <2> HIDE DEF n, t
  <2>3. g \in [0 .. n + 1 -> V]
    <3>1. n \in 0 .. n /\ f[n] \in V
      BY <2>2
    <3>2. y \in V
      <4>1. PICK h : h = step[f[n]]
        OBVIOUS
      <4>2. h \in [A -> V]
        BY <3>1, <4>1
      <4>3. h[x] \in V
        BY <4>2
      <4> QED
        BY <2>0, <4>1, <4>3
    <3> QED
      BY <2>2, <3>2
  <2>4. IsLoop(g, base, step, t, n + 1)
    <3>1. g[0] = base
      BY <2>1, <2>2 DEF IsLoop
    <3>2. ASSUME NEW k \in 1 .. n + 1 PROVE g[k] = step[g[k - 1]][t[k]]
      <4>1. CASE k = n + 1
        <5>1. g[k] = y /\ g[k - 1] = f[n] /\ t[k] = x
          BY <2>2, <4>1
        <5> QED
          BY <2>0, <5>1
      <4>2. CASE k # n + 1
        <5>1. k \in 1 .. n
          BY <2>2, <4>2
        <5>4. k \in 0 .. n + 1 /\ k - 1 \in 0 .. n + 1 /\ k - 1 # n + 1
          BY <2>2, <5>1
        <5>3. g[k] = f[k] /\ g[k - 1] = f[k - 1] /\ t[k] = s[k]
          BY <2>2, <4>2, <5>1, <5>4
        <5>2. f[k] = step[f[k - 1]][s[k]]
          BY <2>1, <5>1 DEF IsLoop
        <5> QED
          BY <5>2, <5>3
      <4> QED
        BY <4>1, <4>2
    <3> HIDE DEF g
    <3> QED
      BY <3>1, <3>2 DEF IsLoop
  <2> HIDE DEF g
  <2> QED
    BY <2>2, <2>3, <2>4 DEF t
<1> HIDE DEF P
<1>3. Seq(A) \subseteq P
  BY <1>1, <1>2, SequenceInduction
<1> QED
  BY <1>3 DEF P

-----------------------------------------------------------------------------
(* Flat lists.                                                             *)

(* Lists of lists over A.                                                  *)
ListsOver(A) == Seq(Seq(A))

(* What is put together of lists over A.                                   *)
Joining(A) == [a \in Seq(A) |-> [s \in Seq(A) |-> a \o s]]

(* FlattenSeq is such a loop.                                              *)
LEMMA FlattenIsLoop ==
  ASSUME NEW A, NEW ss \in ListsOver(A)
  PROVE  \E f \in [0 .. Len(ss) -> Seq(A)] :
            IsLoop(f, <<>>, Joining(A), ss, Len(ss)) /\ FlattenSeq(ss) = f[Len(ss)]
<1> DEFINE n == Len(ss)
           Flat(h) == h = [i \in 1 .. n |-> IF i = 1 THEN ss[i] ELSE h[i - 1] \o ss[i]]
<1>1. n \in Nat /\ \A i \in 1 .. n : ss[i] \in Seq(A)
  BY DEF ListsOver
<1>2. PICK f \in [0 .. n -> Seq(A)] : IsLoop(f, <<>>, Joining(A), ss, n)
  <2>1. <<>> \in Seq(A) /\ Joining(A) \in [Seq(A) -> [Seq(A) -> Seq(A)]]
    BY DEF Joining
  <2> QED
    BY <2>1, LoopExists DEF ListsOver
<1>3. f[0] = <<>> /\ \A i \in 1 .. n : f[i] = f[i - 1] \o ss[i]
  <2>1. f[0] = <<>>
    BY <1>2 DEF IsLoop
  <2>2. ASSUME NEW i \in 1 .. n PROVE f[i] = f[i - 1] \o ss[i]
    <3>1. f[i] = Joining(A)[f[i - 1]][ss[i]]
      BY <1>2 DEF IsLoop
    <3>2. i - 1 \in 0 .. n
      BY <1>1
    <3>3. f[i - 1] \in Seq(A) /\ ss[i] \in Seq(A)
      BY <1>1, <1>2, <3>2
    <3> QED
      BY <3>1, <3>3 DEF Joining
  <2> QED
    BY <2>1, <2>2
<1>4. CASE n = 0
  <2>1. FlattenSeq(ss) = ss /\ ss = <<>>
    BY <1>4 DEF FlattenSeq, ListsOver
  <2> QED
    BY <1>2, <1>3, <1>4, <2>1
<1>5. CASE n # 0
  <2> DEFINE g == [i \in 1 .. n |-> f[i]]
  <2>1. Flat(g)
    <3>1. ASSUME NEW i \in 1 .. n PROVE g[i] = IF i = 1 THEN ss[i] ELSE g[i - 1] \o ss[i]
      <4>1. CASE i = 1
        <5>1. f[i] = <<>> \o ss[i]
          <6>1. i - 1 = 0 /\ f[i - 1] = f[0]
            BY <4>1
          <6>2. f[i] = f[i - 1] \o ss[i] /\ f[0] = <<>>
            BY <1>3
          <6> QED
            BY <6>1, <6>2, Zenon
        <5>2. <<>> \o ss[i] = ss[i]
          BY <1>1
        <5> QED
          BY <4>1, <5>1, <5>2
      <4>2. CASE i # 1
        <5>1. i - 1 \in 1 .. n /\ g[i - 1] = f[i - 1] /\ g[i] = f[i]
          BY <1>1, <4>2
        <5> QED
          BY <1>3, <4>2, <5>1
      <4> QED
        BY <4>1, <4>2
    <3>2. g = [i \in 1 .. n |-> g[i]]
      BY Zenon
    <3> HIDE DEF g
    <3> QED
      BY <3>1, <3>2
  <2> DEFINE h == CHOOSE h : Flat(h)
  <2>2. Flat(h)
    BY <2>1, Zenon
  <2>3. FlattenSeq(ss) = h[n]
    BY <1>5, Zenon DEF FlattenSeq
  <2> DEFINE e == [i \in 0 .. n |-> IF i = 0 THEN <<>> ELSE h[i]]
  <2>4. \A i \in 1 .. n : h[i] = IF i = 1 THEN ss[i] ELSE h[i - 1] \o ss[i]
    BY <2>2, Zenon
  <2> HIDE DEF h
  <2>5. ASSUME NEW i \in 1 .. n, NEW v \in Seq(A), e[i - 1] = v PROVE e[i] = v \o ss[i]
    <3>1. e[i] = h[i]
      BY <1>1
    <3>2. CASE i = 1
      <4>1. v = <<>>
        BY <1>1, <2>5, <3>2
      <4>2. <<>> \o ss[i] = ss[i]
        BY <1>1
      <4> QED
        BY <2>4, <3>1, <3>2, <4>1, <4>2
    <3>3. CASE i # 1
      <4>1. e[i - 1] = h[i - 1]
        BY <1>1, <3>3
      <4> QED
        BY <2>4, <2>5, <3>1, <3>3, <4>1
    <3> QED
      BY <3>2, <3>3
  <2>6. \A i \in 0 .. n : e[i] = f[i]
    <3> DEFINE Bad == {i \in 0 .. n : e[i] # f[i]}
    <3>1. SUFFICES ASSUME Bad # {} PROVE FALSE
      OBVIOUS
    <3>2. PICK i \in Bad : \A j \in Bad : i <= j
      <4>1. Bad \subseteq Nat
        OBVIOUS
      <4> HIDE DEF Bad
      <4> QED
        BY <3>1, <4>1, LeastNumber
    <3>3. i \in 0 .. n /\ e[i] # f[i] /\ i # 0
      BY <1>3
    <3>4. i \in 1 .. n /\ i - 1 \in 0 .. n /\ ~ (i <= i - 1)
      BY <1>1, <3>3
    <3> HIDE DEF e
    <3>5. e[i - 1] = f[i - 1]
      <4>1. i - 1 \notin Bad
        <5> HIDE DEF Bad
        <5> QED
          BY <3>2, <3>4
      <4> QED
        BY <3>4, <4>1
    <3>6. f[i - 1] \in Seq(A)
      BY <1>2, <3>4
    <3> QED
      BY <1>3, <2>5, <3>3, <3>4, <3>5, <3>6
  <2>7. f[n] = h[n]
    <3>1. n \in 0 .. n /\ e[n] = h[n]
      BY <1>1, <1>5
    <3> HIDE DEF e
    <3> QED
      BY <2>6, <3>1
  <2> QED
    BY <1>2, <2>3, <2>7
<1> QED
  BY <1>4, <1>5

(* Putting together nothing, and one list more.                            *)
LEMMA FlattenNone == FlattenSeq(<<>>) = <<>>
<1>1. Len(<<>>) = 0
  OBVIOUS
<1> QED
  BY <1>1 DEF FlattenSeq

(* One list more comes at the end.                                         *)
LEMMA FlattenMore ==
  ASSUME NEW A, NEW ss \in ListsOver(A), NEW s \in Seq(A)
  PROVE  /\ FlattenSeq(ss) \in Seq(A)
         /\ FlattenSeq(Append(ss, s)) = FlattenSeq(ss) \o s
<1>0. PICK n, m, tt : n = Len(ss) /\ m = n + 1 /\ tt = Append(ss, s)
  OBVIOUS
<1>1. /\ n \in Nat /\ tt \in ListsOver(A) /\ Len(tt) = m /\ tt[m] = s
      /\ \A k \in 1 .. n : tt[k] = ss[k]
  BY <1>0 DEF ListsOver
<1>2. PICK f : f \in [0 .. n -> Seq(A)] /\ IsLoop(f, <<>>, Joining(A), ss, n) /\ FlattenSeq(ss) = f[n]
  BY <1>0, FlattenIsLoop
<1>3. PICK g : IsLoop(g, <<>>, Joining(A), tt, m) /\ FlattenSeq(tt) = g[m]
  BY <1>1, FlattenIsLoop
<1>4. n \in Nat /\ m = n + 1 /\ tt[m] = s
  BY <1>0, <1>1
<1>5. Begin(ss, tt, n)
  BY <1>1 DEF Begin
<1>6. g[m] = Joining(A)[f[n]][s]
  <2>1. OneFurther(<<>>, Joining(A), ss, tt, n, m, f, g)
    BY <1>2, <1>3, <1>4, <1>5 DEF OneFurther
  <2>2. g[m] = Joining(A)[f[n]][tt[m]]
    BY <2>1, LoopGoesOn
  <2> QED
    BY <1>4, <2>2
<1>7. f[n] \in Seq(A)
  BY <1>2, <1>4
<1>8. Joining(A)[f[n]][s] = f[n] \o s
  BY <1>7 DEF Joining
<1> QED
  BY <1>0, <1>2, <1>3, <1>6, <1>7, <1>8

-----------------------------------------------------------------------------
(* Placing.                                                                *)

(* The elements of joined lists.                                           *)
LEMMA JoinElements ==
  ASSUME NEW A, NEW s \in Seq(A), NEW t \in Seq(A)
  PROVE  /\ s \o t \in Seq(A) /\ Len(s \o t) = Len(s) + Len(t)
         /\ \A k \in 1 .. Len(s) : (s \o t)[k] = s[k]
         /\ \A k \in 1 .. Len(t) : (s \o t)[Len(s) + k] = t[k]
         /\ ToSet(s \o t) = ToSet(s) \cup ToSet(t)
<1>1. PICK n, m, r : n = Len(s) /\ m = Len(t) /\ r = s \o t
  OBVIOUS
<1>2. /\ n \in Nat /\ m \in Nat /\ r \in Seq(A) /\ Len(r) = n + m
      /\ DOMAIN s = 1 .. n /\ DOMAIN t = 1 .. m /\ DOMAIN r = 1 .. n + m
  BY <1>1
<1>3. \A k \in 1 .. n : r[k] = s[k]
  BY <1>1
<1>4. \A k \in 1 .. m : r[n + k] = t[k]
  BY <1>1
<1>5. ToSet(r) = ToSet(s) \cup ToSet(t)
  <2>1. ASSUME NEW k \in 1 .. n + m PROVE r[k] \in ToSet(s) \cup ToSet(t)
    <3>1. CASE k <= n
      <4>1. k \in 1 .. n
        BY <1>2, <3>1
      <4> QED
        BY <1>2, <1>3, <4>1 DEF ToSet
    <3>2. CASE ~ (k <= n)
      <4>1. PICK j : j = k - n
        OBVIOUS
      <4>2. j \in 1 .. m /\ n + j = k
        BY <1>2, <3>2, <4>1
      <4>3. r[k] = t[j]
        BY <1>4, <4>2
      <4> QED
        BY <1>2, <4>2, <4>3 DEF ToSet
    <3> QED
      BY <3>1, <3>2
  <2>2. ASSUME NEW k \in 1 .. n PROVE s[k] \in ToSet(r)
    <3>1. k \in 1 .. n + m
      BY <1>2
    <3> QED
      BY <1>2, <1>3, <3>1 DEF ToSet
  <2>3. ASSUME NEW k \in 1 .. m PROVE t[k] \in ToSet(r)
    <3>1. n + k \in 1 .. n + m
      BY <1>2
    <3> QED
      BY <1>2, <1>4, <3>1 DEF ToSet
  <2>4. ToSet(r) \subseteq ToSet(s) \cup ToSet(t)
    BY <1>2, <2>1 DEF ToSet
  <2>5. ToSet(s) \subseteq ToSet(r) /\ ToSet(t) \subseteq ToSet(r)
    BY <1>2, <2>2, <2>3 DEF ToSet
  <2> QED
    BY <2>4, <2>5
<1> QED
  BY <1>1, <1>2, <1>3, <1>4, <1>5

(* A list that two were joined to.                                         *)
Joins(A, s, t, r) == s \in Seq(A) /\ t \in Seq(A) /\ r = s \o t

(* Its elements.                                                           *)
LEMMA JoinIs ==
  ASSUME NEW A, NEW s, NEW t, NEW r, Joins(A, s, t, r)
  PROVE  /\ r \in Seq(A) /\ Len(r) = Len(s) + Len(t)
         /\ \A k \in 1 .. Len(s) : r[k] = s[k]
         /\ \A k \in 1 .. Len(t) : r[Len(s) + k] = t[k]
<1>1. s \in Seq(A) /\ t \in Seq(A) /\ r = s \o t
  BY DEF Joins
<1> QED
  BY <1>1, JoinElements

(* Putting an element that is not in a list at a place of it.              *)
LEMMA InsertPuts ==
  ASSUME NEW A, NEW s \in Seq(A), Distinct(s), NEW n \in A, n \notin ToSet(s),
         NEW i \in 1 .. Len(s) + 1
  PROVE  /\ InsertAt(s, i, n) \in Seq(A)
         /\ ToSet(InsertAt(s, i, n)) = ToSet(s) \cup {n}
         /\ Distinct(InsertAt(s, i, n))
<1> DEFINE t == InsertAt(s, i, n)
           len == Len(s)
<1>1. /\ len \in Nat /\ i \in 1 .. len + 1
      /\ SubSeq(s, 1, i - 1) \in Seq(A) /\ Len(SubSeq(s, 1, i - 1)) = i - 1
      /\ \A k \in 1 .. i - 1 : SubSeq(s, 1, i - 1)[k] = s[k]
  OBVIOUS
<1>2. /\ SubSeq(s, i, len) \in Seq(A) /\ Len(SubSeq(s, i, len)) = len + 1 - i
      /\ \A k \in 1 .. len + 1 - i : SubSeq(s, i, len)[k] = s[i + k - 1]
  OBVIOUS
<1>3. /\ t \in Seq(A) /\ Len(t) = len + 1
      /\ \A k \in 1 .. len + 1 : t[k] = IF k < i THEN s[k] ELSE IF k = i THEN n ELSE s[k - 1]
  <2>1. PICK u, v : u = SubSeq(s, 1, i - 1) /\ v = SubSeq(s, i, len)
    OBVIOUS
  <2>2. t = u \o <<n>> \o v
    BY <2>1 DEF InsertAt
  <2>3. /\ u \in Seq(A) /\ Len(u) = i - 1 /\ v \in Seq(A) /\ Len(v) = len + 1 - i
        /\ \A k \in 1 .. i - 1 : u[k] = s[k]
        /\ \A k \in 1 .. len + 1 - i : v[k] = s[i + k - 1]
    BY <1>1, <1>2, <2>1
  <2>6. PICK w : w = u \o <<n>>
    OBVIOUS
  <2>7. /\ w \in Seq(A) /\ Len(w) = i /\ w[i] = n
        /\ \A k \in 1 .. i - 1 : w[k] = s[k]
    <3>1. PICK one : one = <<n>>
      OBVIOUS
    <3>2. one \in Seq(A) /\ Len(one) = 1 /\ one[1] = n
      BY <3>1
    <3>3. /\ w \in Seq(A) /\ Len(w) = Len(u) + Len(one) /\ (\A k \in 1 .. Len(u) : w[k] = u[k])
          /\ \A k \in 1 .. Len(one) : w[Len(u) + k] = one[k]
      <4>1. Joins(A, u, one, w)
        BY <2>3, <2>6, <3>1, <3>2 DEF Joins
      <4> QED
        BY <4>1, JoinIs
    <3>4. w[Len(u) + 1] = n
      BY <3>2, <3>3
    <3>5. i - 1 + 1 = i
      BY <1>1
    <3> QED
      BY <2>3, <3>2, <3>3, <3>4, <3>5
  <2>8. t = w \o v
    BY <2>2, <2>6
  <2> HIDE DEF t, len
  <2>4. t \in Seq(A) /\ Len(t) = len + 1
    <3>1. t \in Seq(A)
      BY <2>3, <2>7, <2>8
    <3>2. Len(t) = Len(w) + Len(v)
      <4>1. w \in Seq(A) /\ v \in Seq(A)
        BY <2>3, <2>7
      <4>2. Len(w \o v) = Len(w) + Len(v)
        BY <4>1
      <4> QED
        BY <2>8, <4>2
    <3> QED
      BY <1>1, <2>3, <2>7, <3>1, <3>2
  <2>5. ASSUME NEW k \in 1 .. len + 1
        PROVE  t[k] = IF k < i THEN s[k] ELSE IF k = i THEN n ELSE s[k - 1]
    <3>1. CASE k < i
      BY <1>1, <2>3, <2>7, <2>8, <3>1
    <3>2. CASE k = i
      <4>1. k \in 1 .. Len(w) /\ w[k] = n
        BY <1>1, <2>7, <3>2
      <4>2. t[k] = w[k]
        BY <2>3, <2>7, <2>8, <4>1
      <4> QED
        BY <1>1, <3>2, <4>1, <4>2
    <3>3. CASE k > i
      <4>1. k - i \in 1 .. len + 1 - i /\ v[k - i] = s[i + (k - i) - 1] /\ i + (k - i) - 1 = k - 1
        BY <1>1, <2>3, <3>3
      <4>2. t[k] = v[k - i]
        <5>1. k \in 1 .. Len(w) + Len(v) /\ ~ (k <= Len(w)) /\ k - Len(w) = k - i
          BY <1>1, <2>3, <2>7, <3>3
        <5>2. \A j \in 1 .. Len(v) : t[Len(w) + j] = v[j]
          <6>1. Joins(A, w, v, t)
            BY <2>3, <2>7, <2>8 DEF Joins
          <6> QED
            BY <6>1, JoinIs
        <5>3. k - i \in 1 .. Len(v) /\ i + (k - i) = k
          BY <1>1, <2>3, <3>3
        <5> QED
          BY <2>7, <5>2, <5>3
      <4> QED
        BY <1>1, <3>3, <4>1, <4>2
    <3> QED
      BY <1>1, <3>1, <3>2, <3>3
  <2> QED
    BY <2>4, <2>5
<1>4. /\ \A k \in 1 .. len : s[k] \in ToSet(s)
      /\ DOMAIN s = 1 .. len /\ DOMAIN t = 1 .. len + 1
  BY <1>3 DEF ToSet
<1> HIDE DEF t, len
<1>5. ToSet(t) \subseteq ToSet(s) \cup {n}
  <2>1. ASSUME NEW k \in 1 .. len + 1 PROVE t[k] \in ToSet(s) \cup {n}
    <3>1. k < i => k \in 1 .. len
      BY <1>1
    <3>2. ~ (k < i) /\ k # i => k - 1 \in 1 .. len
      BY <1>1
    <3> QED
      BY <1>3, <1>4, <3>1, <3>2
  <2> QED
    BY <1>4, <2>1 DEF ToSet
<1>6. ToSet(s) \cup {n} \subseteq ToSet(t)
  <2>1. n \in ToSet(t)
    <3>1. i \in 1 .. len + 1 /\ t[i] = n
      BY <1>1, <1>3
    <3> QED
      BY <1>4, <3>1 DEF ToSet
  <2>2. ASSUME NEW k \in 1 .. len PROVE s[k] \in ToSet(t)
    <3>1. CASE k < i
      <4>1. k \in 1 .. len + 1 /\ t[k] = s[k]
        BY <1>1, <1>3, <3>1
      <4> QED
        BY <1>4, <4>1 DEF ToSet
    <3>2. CASE ~ (k < i)
      <4>1. k + 1 \in 1 .. len + 1 /\ ~ (k + 1 < i) /\ k + 1 # i /\ (k + 1) - 1 = k
        BY <1>1, <3>2
      <4>2. t[k + 1] = s[k]
        BY <1>3, <4>1
      <4> QED
        BY <1>4, <4>1, <4>2 DEF ToSet
    <3> QED
      BY <3>1, <3>2
  <2> QED
    BY <1>4, <2>1, <2>2 DEF ToSet
<1>7. Distinct(t)
  <2> SUFFICES ASSUME NEW a \in 1 .. len + 1, NEW b \in 1 .. len + 1, t[a] = t[b] PROVE a = b
    BY <1>4 DEF Distinct
  <2>1. \A k \in 1 .. len : s[k] # n
    BY <1>4
  <2> DEFINE old(k) == IF k < i THEN k ELSE k - 1
  <2>2. ASSUME NEW k \in 1 .. len + 1, k # i PROVE old(k) \in 1 .. len /\ t[k] = s[old(k)]
    BY <1>1, <1>3, <2>2
  <2>3. CASE a = i \/ b = i
    <3>1. t[i] = n /\ \A k \in 1 .. len + 1 : k # i => t[k] # n
      <4>1. t[i] = n
        BY <1>1, <1>3
      <4>2. ASSUME NEW k \in 1 .. len + 1, k # i PROVE t[k] # n
        BY <2>1, <2>2, <4>2
      <4> QED
        BY <4>1, <4>2
    <3> QED
      BY <2>3, <3>1
  <2>4. CASE a # i /\ b # i
    <3>1. s[old(a)] = s[old(b)] /\ old(a) \in 1 .. len /\ old(b) \in 1 .. len
      BY <2>2, <2>4
    <3>2. old(a) = old(b)
      <4> HIDE DEF old
      <4> QED
        BY <1>4, <3>1 DEF Distinct
    <3> QED
      BY <1>1, <2>4, <3>2
  <2> QED
    BY <2>3, <2>4
<1> QED
  BY <1>3, <1>5, <1>6, <1>7 DEF t

(* Without drops an element and nothing else.                              *)
LEMMA WithoutDrops ==
  ASSUME NEW A, NEW s \in Seq(A), NEW n
  PROVE  /\ Without(s, n) \in Seq(A)
         /\ ToSet(Without(s, n)) = ToSet(s) \ {n}
         /\ Distinct(s) => Distinct(Without(s, n))
         /\ n \notin ToSet(s) => Without(s, n) = s
<1> DEFINE S == ToSet(s) \ {n}
<1>1. Without(s, n) = Keep(s, S)
  BY DEF Without
<1>2. ToSet(s) \cap S = S /\ (n \notin ToSet(s) => ToSet(s) \subseteq S)
  OBVIOUS
<1> HIDE DEF S
<1>3. /\ Keep(s, S) \in Seq(A)
      /\ ToSet(Keep(s, S)) = ToSet(s) \cap S
      /\ Distinct(s) => Distinct(Keep(s, S))
      /\ ToSet(s) \subseteq S => Keep(s, S) = s
  BY KeepKeeps
<1> QED
  BY <1>1, <1>2, <1>3 DEF S

(* tree_place puts a node into a list once, and changes nothing but order. *)
LEMMA PlacedPuts ==
  ASSUME NEW A, NEW s \in Seq(A), Distinct(s), NEW n \in A, NEW sibling, NEW above
  PROVE  /\ Placed(s, sibling, n, above) \in Seq(A)
         /\ ToSet(Placed(s, sibling, n, above)) = ToSet(s) \cup {n}
         /\ Distinct(Placed(s, sibling, n, above))
<1>1. CASE s = <<>>
  <2>1. Placed(s, sibling, n, above) = <<n>>
    BY <1>1 DEF Placed
  <2>2. ToSet(s) = {} /\ ToSet(<<n>>) = {n} /\ Distinct(<<n>>) /\ <<n>> \in Seq(A)
    BY <1>1 DEF ToSet, Distinct
  <2> QED
    BY <2>1, <2>2
<1>2. CASE s # <<>>
  <2>1. PICK sib : sib = IF sibling \in ToSet(s) THEN sibling ELSE IF above THEN Last(s) ELSE Head(s)
    OBVIOUS
  <2>2. Placed(s, sibling, n, above) = IF sib = n THEN s ELSE Rotate(s, sib, n, above)
    BY <1>2, <2>1 DEF Placed
  <2>3. sib \in ToSet(s)
    <3>1. Len(s) \in 1 .. Len(s) /\ 1 \in 1 .. Len(s) /\ DOMAIN s = 1 .. Len(s)
      BY <1>2
    <3>2. Last(s) \in ToSet(s)
      BY <3>1 DEF Last, ToSet
    <3>3. Head(s) \in ToSet(s)
      BY <1>2, <3>1 DEF ToSet
    <3> QED
      BY <2>1, <3>2, <3>3
  <2>4. CASE sib = n
    BY <2>2, <2>3, <2>4
  <2>5. CASE sib # n
    <3>1. PICK rest : rest = Without(s, n)
      OBVIOUS
    <3>2. rest \in Seq(A) /\ ToSet(rest) = ToSet(s) \ {n} /\ Distinct(rest)
      BY <3>1, WithoutDrops
    <3>3. PICK p : p = Position(rest, sib)
      OBVIOUS
    <3>4. p \in 1 .. Len(rest)
      <4>1. \E k \in DOMAIN rest : rest[k] = sib
        BY <2>3, <2>5, <3>2 DEF ToSet
      <4>2. p \in DOMAIN rest
        BY <3>3, <4>1 DEF Position
      <4> QED
        BY <3>2, <4>2
    <3>5. PICK i : i = IF above THEN p + 1 ELSE p
      OBVIOUS
    <3>6. i \in 1 .. Len(rest) + 1
      BY <3>2, <3>4, <3>5
    <3>7. Placed(s, sibling, n, above) = InsertAt(rest, i, n)
      BY <2>2, <2>5, <3>1, <3>3, <3>5 DEF Rotate
    <3>8. n \notin ToSet(rest) /\ ToSet(rest) \cup {n} = ToSet(s) \cup {n}
      BY <3>2
    <3>9. /\ InsertAt(rest, i, n) \in Seq(A)
          /\ ToSet(InsertAt(rest, i, n)) = ToSet(rest) \cup {n}
          /\ Distinct(InsertAt(rest, i, n))
      BY <3>2, <3>6, <3>8, InsertPuts
    <3> QED
      BY <3>7, <3>8, <3>9
  <2> QED
    BY <2>4, <2>5
<1> QED
  BY <1>1, <1>2

-----------------------------------------------------------------------------
(* Walks through trees.                                                    *)

(* What is in a tree is below it.                                          *)
Ranks(lists, h, rank) ==
  /\ h \in Nat /\ rank \in [Node -> 0 .. h]
  /\ \A t \in Tree : \A n \in ToSet(lists[t]) : rank[n] < rank[t]

(* No tree is in itself, at any depth, and depths are bounded.             *)
Forest(lists) == lists \in [Tree -> Seq(Node)] /\ \E h, rank : Ranks(lists, h, rank)

(* What holds of a tree if it holds of all in it holds of every node.      *)
LEMMA RankInduction ==
  ASSUME NEW lists, Forest(lists), NEW S,
         \A n \in Node : (n \in Tree => ToSet(lists[n]) \subseteq S) => n \in S
  PROVE  Node \subseteq S
<1>1. PICK h, rank : Ranks(lists, h, rank)
  BY DEF Forest
<1>2. /\ \A n \in Node : rank[n] \in Nat
      /\ \A t \in Tree : \A n \in ToSet(lists[t]) : n \in Node /\ rank[n] < rank[t]
  <2>1. \A n \in Node : rank[n] \in 0 .. h
    BY <1>1 DEF Ranks
  <2>2. ASSUME NEW t \in Tree, NEW n \in ToSet(lists[t]) PROVE n \in Node
    <3>1. lists[t] \in Seq(Node)
      BY DEF Forest
    <3> QED
      BY <3>1 DEF ToSet
  <2> QED
    BY <1>1, <2>1, <2>2 DEF Ranks
<1> DEFINE Bad == {rank[n] : n \in Node \ S}
<1>3. SUFFICES ASSUME Bad # {} PROVE FALSE
  OBVIOUS
<1>4. PICK k \in Bad : \A j \in Bad : k <= j
  <2>1. Bad \subseteq Nat
    BY <1>2
  <2> HIDE DEF Bad
  <2> QED
    BY <1>3, <2>1, LeastNumber
<1>5. PICK n \in Node \ S : rank[n] = k
  BY <1>4
<1>6. n \in Tree => ToSet(lists[n]) \subseteq S
  <2> SUFFICES ASSUME n \in Tree, NEW m \in ToSet(lists[n]), m \notin S PROVE FALSE
    OBVIOUS
  <2>1. m \in Node /\ rank[m] < rank[n] /\ rank[m] \in Nat /\ rank[n] \in Nat
    BY <1>2
  <2>2. k <= rank[m]
    BY <1>4, <2>1
  <2> QED
    BY <1>5, <2>1, <2>2
<1> QED
  BY <1>5, <1>6

(* What w says of each element of a list.                                  *)
Each(w, l) == [k \in DOMAIN l |-> w[l[k]]]

(* One step of a walk.                                                     *)
Visit(w, lists, shown, gives, n) ==
  IF n \in Leaf THEN gives[n]
  ELSE IF n \notin shown THEN <<>> ELSE FlattenSeq(Each(w, lists[n]))

IsWalk(w, lists, shown, gives) ==
  w = [n \in Node |-> Visit(w, lists, shown, gives, n)]

(* A step depends on what is in the tree only.                             *)
LEMMA VisitSame ==
  ASSUME NEW w, NEW v, NEW lists, NEW shown, NEW gives, NEW n \in Node,
         n \in Tree => \A m \in ToSet(lists[n]) : w[m] = v[m]
  PROVE  Visit(w, lists, shown, gives, n) = Visit(v, lists, shown, gives, n)
<1>1. CASE n \in Leaf
  BY <1>1 DEF Visit
<1>2. CASE n \notin Leaf
  <2>1. n \in Tree
    BY <1>2 DEF Node
  <2>2. \A k \in DOMAIN lists[n] : lists[n][k] \in ToSet(lists[n])
    BY DEF ToSet
  <2>3. Each(w, lists[n]) = Each(v, lists[n])
    BY <2>1, <2>2 DEF Each
  <2> QED
    BY <1>2, <2>3 DEF Visit
<1> QED
  BY <1>1, <1>2

(* Lists are put together to a list.                                       *)
LEMMA FlattenType ==
  ASSUME NEW A, NEW ss \in ListsOver(A)
  PROVE  FlattenSeq(ss) \in Seq(A)
<1>1. PICK f : f \in [0 .. Len(ss) -> Seq(A)] /\ FlattenSeq(ss) = f[Len(ss)]
  BY FlattenIsLoop
<1>2. Len(ss) \in 0 .. Len(ss)
  BY DEF ListsOver
<1> QED
  BY <1>1, <1>2

(* Lists over A for a list of anything.                                    *)
LEMMA EachType ==
  ASSUME NEW A, NEW B, NEW w, NEW l \in Seq(B), \A m \in ToSet(l) : w[m] \in Seq(A)
  PROVE  Each(w, l) \in ListsOver(A) /\ Len(Each(w, l)) = Len(l)
<1>1. DOMAIN l = 1 .. Len(l) /\ Len(l) \in Nat
  OBVIOUS
<1>2. \A k \in 1 .. Len(l) : w[l[k]] \in Seq(A)
  BY <1>1 DEF ToSet
<1>3. Each(w, l) = [k \in 1 .. Len(l) |-> w[l[k]]]
  BY <1>1 DEF Each
<1> QED
  BY <1>1, <1>2, <1>3 DEF ListsOver

(* Every step gives a list.                                                *)
LEMMA VisitType ==
  ASSUME NEW A, NEW w, NEW lists, lists \in [Tree -> Seq(Node)], NEW shown,
         NEW gives \in [Leaf -> Seq(A)], NEW n \in Node,
         n \in Tree => \A m \in ToSet(lists[n]) : w[m] \in Seq(A)
  PROVE  Visit(w, lists, shown, gives, n) \in Seq(A)
<1>1. CASE n \in Leaf
  BY <1>1 DEF Visit
<1>2. CASE n \notin Leaf
  <2>1. n \in Tree
    BY <1>2 DEF Node
  <2>2. lists[n] \in Seq(Node)
    BY <2>1
  <2>3. Each(w, lists[n]) \in ListsOver(A)
    BY <2>1, <2>2, EachType
  <2>4. FlattenSeq(Each(w, lists[n])) \in Seq(A)
    BY <2>3, FlattenType
  <2>5. <<>> \in Seq(A)
    OBVIOUS
  <2> QED
    BY <1>2, <2>4, <2>5 DEF Visit
<1> QED
  BY <1>1, <1>2

(* There is no more than one walk.                                         *)
LEMMA WalkIsUnique ==
  ASSUME NEW lists, Forest(lists), NEW shown, NEW gives,
         NEW w, IsWalk(w, lists, shown, gives), NEW v, IsWalk(v, lists, shown, gives)
  PROVE  w = v
<1> DEFINE S == {n \in Node : w[n] = v[n]}
<1>1. ASSUME NEW n \in Node, n \in Tree => ToSet(lists[n]) \subseteq S PROVE n \in S
  <2>1. Visit(w, lists, shown, gives, n) = Visit(v, lists, shown, gives, n)
    BY <1>1, VisitSame
  <2>2. w[n] = Visit(w, lists, shown, gives, n) /\ v[n] = Visit(v, lists, shown, gives, n)
    BY DEF IsWalk
  <2> QED
    BY <2>1, <2>2
<1>2. Node \subseteq S
  <2> HIDE DEF S
  <2> QED
    BY <1>1, RankInduction
<1>3. \A n \in Node : w[n] = v[n]
  BY <1>2
<1>4. w = [n \in Node |-> w[n]] /\ v = [n \in Node |-> v[n]]
  BY DEF IsWalk
<1> QED
  BY <1>3, <1>4

(* Through the nodes below a rank there is one.                            *)
LEMMA WalkExists ==
  ASSUME NEW A, NEW lists, Forest(lists), NEW shown, NEW gives \in [Leaf -> Seq(A)]
  PROVE  \E w : w \in [Node -> Seq(A)] /\ IsWalk(w, lists, shown, gives)
<1>1. PICK h, rank : Ranks(lists, h, rank)
  BY DEF Forest
<1>2. /\ lists \in [Tree -> Seq(Node)] /\ h \in Nat
      /\ \A n \in Node : rank[n] \in 0 .. h
      /\ \A t \in Tree : \A n \in ToSet(lists[t]) : n \in Node /\ rank[n] < rank[t]
  <2>1. \A n \in Node : rank[n] \in 0 .. h
    BY <1>1 DEF Ranks
  <2>2. ASSUME NEW t \in Tree, NEW n \in ToSet(lists[t]) PROVE n \in Node
    <3>1. lists[t] \in Seq(Node)
      BY DEF Forest
    <3> QED
      BY <3>1 DEF ToSet
  <2> QED
    BY <1>1, <2>1, <2>2 DEF Ranks, Forest
<1> DEFINE Upto(w, k) == \A n \in Node : rank[n] < k => w[n] = Visit(w, lists, shown, gives, n)
           P == {k \in Nat : \E w \in [Node -> Seq(A)] : Upto(w, k)}
<1>3. 0 \in P
  <2>1. [n \in Node |-> <<>>] \in [Node -> Seq(A)]
    OBVIOUS
  <2>2. \A n \in Node : ~ (rank[n] < 0)
    BY <1>2
  <2> QED
    BY <2>1, <2>2
<1>4. ASSUME NEW k \in P PROVE k + 1 \in P
  <2>1. k \in Nat
    OBVIOUS
  <2>2. PICK w \in [Node -> Seq(A)] : Upto(w, k)
    BY <1>4
  <2> DEFINE v == [n \in Node |-> Visit(w, lists, shown, gives, n)]
  <2> HIDE DEF P
  <2>3. v \in [Node -> Seq(A)]
    <3>1. ASSUME NEW n \in Node PROVE Visit(w, lists, shown, gives, n) \in Seq(A)
      <4>1. n \in Tree => \A m \in ToSet(lists[n]) : w[m] \in Seq(A)
        BY <1>2
      <4> QED
        BY <1>2, <4>1, VisitType
    <3> QED
      BY <3>1
  <2>4. ASSUME NEW n \in Node, rank[n] < k + 1 PROVE v[n] = Visit(v, lists, shown, gives, n)
    <3>1. ASSUME n \in Tree, NEW m \in ToSet(lists[n]) PROVE w[m] = v[m]
      <4>1. m \in Node /\ rank[m] < k
        <5>1. m \in Node /\ rank[m] < rank[n] /\ rank[m] \in 0 .. h /\ rank[n] \in 0 .. h
          BY <1>2, <3>1
        <5> QED
          BY <1>2, <2>1, <2>4, <5>1
      <4> QED
        BY <2>2, <4>1
    <3>2. Visit(w, lists, shown, gives, n) = Visit(v, lists, shown, gives, n)
      <4> HIDE DEF v
      <4> QED
        BY <3>1, VisitSame
    <3> QED
      BY <3>2
  <2>5. k + 1 \in Nat
    BY <2>1
  <2> HIDE DEF v
  <2> QED
    BY <2>3, <2>4, <2>5 DEF P
<1>5. h + 1 \in P
  <2> DEFINE Bad == Nat \ P
  <2> HIDE DEF P
  <2>1. SUFFICES ASSUME Bad # {} PROVE FALSE
    BY <1>2
  <2>2. PICK k \in Bad : \A j \in Bad : k <= j
    <3>1. Bad \subseteq Nat
      OBVIOUS
    <3> HIDE DEF Bad
    <3> QED
      BY <2>1, <3>1, LeastNumber
  <2>3. k \in Nat /\ k # 0
    BY <1>3
  <2>4. k - 1 \in Nat /\ ~ (k <= k - 1) /\ k = (k - 1) + 1
    BY <2>3
  <2>5. k - 1 \in P
    BY <2>2, <2>4
  <2>6. (k - 1) + 1 \in P
    BY <1>4, <2>5
  <2> QED
    BY <2>4, <2>6
<1>6. PICK w : w \in [Node -> Seq(A)] /\ Upto(w, h + 1)
  BY <1>5
<1>7. ASSUME NEW n \in Node PROVE w[n] = Visit(w, lists, shown, gives, n)
  <2>1. rank[n] < h + 1
    BY <1>2
  <2> QED
    BY <1>6, <2>1
<1>8. w = [n \in Node |-> w[n]]
  BY <1>6
<1>9. w = [n \in Node |-> Visit(w, lists, shown, gives, n)]
  BY <1>7, <1>8
<1> QED
  BY <1>6, <1>9 DEF IsWalk

(* scene_iterate comes to an end, and gives what each leaf gives, in order. *)
LEMMA WalkIsWalk ==
  ASSUME NEW A, NEW lists, Forest(lists), NEW shown, NEW gives \in [Leaf -> Seq(A)]
  PROVE  /\ Walk(lists, shown, gives) \in [Node -> Seq(A)]
         /\ \A n \in Node : Walk(lists, shown, gives)[n] =
                              Visit(Walk(lists, shown, gives), lists, shown, gives, n)
         /\ IsWalk(Walk(lists, shown, gives), lists, shown, gives)
<1>1. PICK w : w \in [Node -> Seq(A)] /\ IsWalk(w, lists, shown, gives)
  BY WalkExists
<1> DEFINE v == CHOOSE v : IsWalk(v, lists, shown, gives)
<1>2. Walk(lists, shown, gives) = v
  BY DEF Walk, IsWalk, Visit, Each
<1>3. IsWalk(v, lists, shown, gives)
  BY <1>1
<1> HIDE DEF v
<1>4. w = v
  BY <1>1, <1>3, WalkIsUnique
<1>5. \A n \in Node : v[n] = Visit(v, lists, shown, gives, n)
  BY <1>3 DEF IsWalk
<1> QED
  BY <1>1, <1>2, <1>3, <1>4, <1>5

-----------------------------------------------------------------------------
(* Ways up.                                                                *)

(* Whatever is in a tree is lower than the tree.                           *)
Heights(up, h, rank) ==
  /\ h \in Nat /\ rank \in [Node -> 0 .. h]
  /\ \A n \in Node : up[n] # Null => rank[n] < rank[up[n]]

(* Every way up comes to an end.                                           *)
Ascending(up) == up \in [Node -> Tree \cup {Null}] /\ \E h, rank : Heights(up, h, rank)

(* What holds of a tree if it holds of the one that it is in holds of all. *)
LEMMA UpInduction ==
  ASSUME NEW up, Ascending(up), NEW S,
         \A t \in Tree : (up[t] # Null => up[t] \in S) => t \in S
  PROVE  Tree \subseteq S
<1>1. PICK h, rank : Heights(up, h, rank)
  BY DEF Ascending
<1>2. /\ h \in Nat /\ Tree \subseteq Node
      /\ \A t \in Tree : rank[t] \in 0 .. h
      /\ \A t \in Tree : up[t] # Null => up[t] \in Tree /\ rank[t] < rank[up[t]]
  BY <1>1 DEF Heights, Ascending, Node
<1> DEFINE Bad == {h - rank[t] : t \in Tree \ S}
<1>3. SUFFICES ASSUME Bad # {} PROVE FALSE
  OBVIOUS
<1>4. PICK k \in Bad : \A j \in Bad : k <= j
  <2>1. Bad \subseteq Nat
    BY <1>2
  <2> HIDE DEF Bad
  <2> QED
    BY <1>3, <2>1, LeastNumber
<1>5. PICK t \in Tree \ S : h - rank[t] = k
  BY <1>4
<1>6. up[t] # Null => up[t] \in S
  <2> SUFFICES ASSUME up[t] # Null, up[t] \notin S PROVE FALSE
    OBVIOUS
  <2>1. PICK u : u = up[t]
    OBVIOUS
  <2>2. u \in Tree \ S /\ rank[t] < rank[u] /\ rank[t] \in 0 .. h /\ rank[u] \in 0 .. h
    BY <1>2, <2>1
  <2>3. k <= h - rank[u]
    BY <1>4, <2>2
  <2> QED
    BY <1>2, <1>5, <2>2, <2>3
<1> QED
  BY <1>5, <1>6

(* One step of a way up.                                                   *)
Climb(w, up, base, step, t) == IF up[t] = Null THEN base[t] ELSE step[t][w[up[t]]]

(* Steps that give a value of V.                                           *)
CanClimb(V, up, base, step) ==
  Ascending(up) /\ base \in [Tree -> V] /\ step \in [Tree -> [V -> V]]

(* What a way up gives every tree.                                         *)
IsClimb(w, V, up, base, step) ==
  w \in [Tree -> V] /\ \A t \in Tree : w[t] = Climb(w, up, base, step, t)

(* There is a way up from every tree.                                      *)
LEMMA ClimbExists ==
  ASSUME NEW V, NEW up, NEW base, NEW step, CanClimb(V, up, base, step)
  PROVE  \E w : IsClimb(w, V, up, base, step)
<1> USE DEF CanClimb
<1>1. PICK h, rank : Heights(up, h, rank)
  BY DEF Ascending
<1>2. /\ h \in Nat /\ Tree \subseteq Node
      /\ \A t \in Tree : rank[t] \in 0 .. h
      /\ \A t \in Tree : up[t] # Null => up[t] \in Tree /\ rank[t] < rank[up[t]]
  BY <1>1 DEF Heights, Ascending, Node
<1> DEFINE Upto(w, k) == \A t \in Tree : h - rank[t] < k => w[t] = Climb(w, up, base, step, t)
           P == {k \in Nat : \E w \in [Tree -> V] : Upto(w, k)}
<1>3. 0 \in P
  <2>1. \A t \in Tree : ~ (h - rank[t] < 0)
    BY <1>2
  <2> QED
    BY <2>1
<1>4. ASSUME NEW k \in P PROVE k + 1 \in P
  <2>1. k \in Nat
    OBVIOUS
  <2>2. PICK w \in [Tree -> V] : Upto(w, k)
    BY <1>4
  <2> DEFINE v == [t \in Tree |-> Climb(w, up, base, step, t)]
  <2> HIDE DEF P
  <2>3. v \in [Tree -> V]
    <3>1. ASSUME NEW t \in Tree PROVE Climb(w, up, base, step, t) \in V
      <4>1. CASE up[t] = Null
        BY <4>1 DEF Climb
      <4>2. CASE up[t] # Null
        <5>1. PICK a, b : a = step[t] /\ b = w[up[t]]
          OBVIOUS
        <5>2. a \in [V -> V] /\ b \in V
          BY <1>2, <4>2, <5>1
        <5>3. a[b] \in V
          BY <5>2
        <5> QED
          BY <4>2, <5>1, <5>3 DEF Climb
      <4> QED
        BY <4>1, <4>2
    <3> QED
      BY <3>1
  <2>4. ASSUME NEW t \in Tree, h - rank[t] < k + 1 PROVE v[t] = Climb(v, up, base, step, t)
    <3>1. CASE up[t] = Null
      BY <3>1 DEF Climb
    <3>2. CASE up[t] # Null
      <4>1. PICK u : u = up[t]
        OBVIOUS
      <4>2. u \in Tree /\ rank[t] < rank[u] /\ rank[t] \in 0 .. h /\ rank[u] \in 0 .. h
        BY <1>2, <3>2, <4>1
      <4>3. h - rank[u] < k
        BY <1>2, <2>1, <2>4, <4>2
      <4>4. w[u] = v[u]
        BY <2>2, <4>2, <4>3
      <4>5. Climb(w, up, base, step, t) = Climb(v, up, base, step, t)
        <5> HIDE DEF v
        <5> QED
          BY <3>2, <4>1, <4>4 DEF Climb
      <4> QED
        BY <4>5
    <3> QED
      BY <3>1, <3>2
  <2>5. k + 1 \in Nat
    BY <2>1
  <2> HIDE DEF v
  <2> QED
    BY <2>3, <2>4, <2>5 DEF P
<1>5. h + 1 \in P
  <2> DEFINE Bad == Nat \ P
  <2> HIDE DEF P
  <2>1. SUFFICES ASSUME Bad # {} PROVE FALSE
    BY <1>2
  <2>2. PICK k \in Bad : \A j \in Bad : k <= j
    <3>1. Bad \subseteq Nat
      OBVIOUS
    <3> HIDE DEF Bad
    <3> QED
      BY <2>1, <3>1, LeastNumber
  <2>3. k \in Nat /\ k # 0
    BY <1>3
  <2>4. k - 1 \in Nat /\ ~ (k <= k - 1) /\ k = (k - 1) + 1
    BY <2>3
  <2>5. k - 1 \in P
    BY <2>2, <2>4
  <2>6. (k - 1) + 1 \in P
    BY <1>4, <2>5
  <2> QED
    BY <2>4, <2>6
<1>6. PICK w : w \in [Tree -> V] /\ Upto(w, h + 1)
  BY <1>5
<1>7. ASSUME NEW t \in Tree PROVE w[t] = Climb(w, up, base, step, t)
  <2>1. h - rank[t] < h + 1
    BY <1>2
  <2> QED
    BY <1>6, <2>1
<1> QED
  BY <1>6, <1>7 DEF IsClimb

(* What is above a tree: itself, and what is above the tree it is in.      *)
LEMMA AboveIs ==
  ASSUME NEW up, Ascending(up)
  PROVE  \A t \in Tree : Above(up, t) = {t} \cup (IF up[t] = Null THEN {} ELSE Above(up, up[t]))
<1> DEFINE base == [t \in Tree |-> {t}]
           step == [t \in Tree |-> [s \in SUBSET Tree |-> {t} \cup s]]
           Is(w) == w = [u \in Tree |-> {u} \cup (IF up[u] = Null THEN {} ELSE w[up[u]])]
<1>1. PICK w \in [Tree -> SUBSET Tree] : \A t \in Tree : w[t] = Climb(w, up, base, step, t)
  <2>1. PICK V, b, st : V = SUBSET Tree /\ b = base /\ st = step
    OBVIOUS
  <2>2. CanClimb(V, up, b, st)
    BY <2>1 DEF CanClimb
  <2> HIDE DEF base, step
  <2>3. PICK w : IsClimb(w, V, up, b, st)
    BY <2>2, ClimbExists
  <2> QED
    BY <2>1, <2>3 DEF IsClimb
<1>2. Is(w)
  <2>1. ASSUME NEW t \in Tree PROVE w[t] = {t} \cup (IF up[t] = Null THEN {} ELSE w[up[t]])
    <3>1. up[t] # Null => up[t] \in Tree
      BY DEF Ascending, Node
    <3>2. w[t] = Climb(w, up, base, step, t)
      BY <1>1
    <3>3. CASE up[t] = Null
      <4>1. Climb(w, up, base, step, t) = {t}
        BY <3>3 DEF Climb
      <4> QED
        BY <3>2, <3>3, <4>1
    <3>4. CASE up[t] # Null
      <4>1. PICK a : a = w[up[t]]
        OBVIOUS
      <4>2. a \in SUBSET Tree
        BY <3>1, <3>4, <4>1
      <4>3. step[t][a] = {t} \cup a
        BY <4>2
      <4> HIDE DEF step, base
      <4>4. Climb(w, up, base, step, t) = {t} \cup a
        BY <3>4, <4>1, <4>3 DEF Climb
      <4> QED
        BY <3>2, <3>4, <4>1, <4>4
    <3> QED
      BY <3>3, <3>4
  <2>2. w = [t \in Tree |-> w[t]]
    OBVIOUS
  <2> QED
    BY <2>1, <2>2
<1> DEFINE v == CHOOSE v : Is(v)
<1>3. \A t : Above(up, t) = v[t]
  BY DEF Above
<1>4. Is(v)
  BY <1>2
<1> HIDE DEF v
<1>5. \A t \in Tree : v[t] = {t} \cup (IF up[t] = Null THEN {} ELSE v[up[t]])
  BY <1>4
<1> QED
  BY <1>3, <1>5

-----------------------------------------------------------------------------
(* Trees that agree with what is in them.                                  *)

(* Nodes know the tree that lists them, and no tree lists a node twice.    *)
Intact(lists, up) ==
  /\ lists \in [Tree -> Seq(Node)] /\ up \in [Node -> Tree \cup {Null}]
  /\ \A t \in Tree, n \in Node : n \in ToSet(lists[t]) <=> up[n] = t
  /\ \A t \in Tree : Distinct(lists[t])

(* The induction: no tree is in itself, and nothing holds the root.        *)
SceneIInv == TreeIntact /\ Forest(children) /\ parent[root] = Null

(* Null is no tree, and trees are not leaves.                              *)
LEMMA NodesDiffer ==
  /\ root \in Tree /\ Null \notin Tree /\ Null \notin Node /\ Tree \subseteq Node /\ Leaf \subseteq Node
  /\ \A n \in Node : n \in Tree <=> n \notin Leaf
BY NodeAssumption DEF Node

(* TreeIntact is about the lists and the parents only.                     *)
LEMMA IntactIs == TreeIntact <=> SceneTypeOK /\ Intact(children, parent)
BY DEF TreeIntact, Intact, IsInjective, Distinct, SceneTypeOK

(* Lists that lose nodes stay without cycles.                              *)
LEMMA ForestLess ==
  ASSUME NEW lists, Forest(lists), NEW less \in [Tree -> Seq(Node)],
         \A t \in Tree : ToSet(less[t]) \subseteq ToSet(lists[t])
  PROVE  Forest(less)
<1>1. PICK h, rank : Ranks(lists, h, rank)
  BY DEF Forest
<1>2. Ranks(less, h, rank)
  BY <1>1 DEF Ranks
<1> QED
  BY <1>2 DEF Forest

(* What is listed is a node.                                               *)
LEMMA ListedAreNodes ==
  ASSUME NEW lists \in [Tree -> Seq(Node)], NEW t \in Tree
  PROVE  lists[t] \in Seq(Node) /\ ToSet(lists[t]) \subseteq Node
<1>1. lists[t] \in Seq(Node)
  OBVIOUS
<1> QED
  BY <1>1 DEF ToSet

(* With lists without cycles every way up ends.                            *)
LEMMA IntactAscends ==
  ASSUME NEW lists, NEW up, Intact(lists, up), Forest(lists)
  PROVE  Ascending(up)
<1>1. PICK h, rank : Ranks(lists, h, rank)
  BY DEF Forest
<1>2. ASSUME NEW n \in Node, up[n] # Null PROVE rank[n] < rank[up[n]]
  <2>1. up[n] \in Tree
    BY <1>2 DEF Intact
  <2>2. n \in ToSet(lists[up[n]])
    BY <2>1 DEF Intact
  <2> QED
    BY <1>1, <2>1, <2>2 DEF Ranks
<1>3. Heights(up, h, rank)
  BY <1>1, <1>2 DEF Ranks, Heights
<1> QED
  BY <1>3 DEF Ascending, Intact

(* A node put into a tree that is not below it makes no cycle.             *)
LEMMA PlacingKeepsForest ==
  ASSUME NEW lists, NEW up, Intact(lists, up), Forest(lists),
         NEW tree \in Tree, NEW node \in Node, node \notin Above(up, tree),
         NEW more \in [Tree -> Seq(Node)],
         \A t \in Tree : ToSet(more[t]) \subseteq ToSet(lists[t]) \cup (IF t = tree THEN {node} ELSE {})
  PROVE  Forest(more)
<1> DEFINE Under == {n \in Node : \/ n = node
                                  \/ n \in Tree /\ node \in Above(up, n)
                                  \/ n \in Leaf /\ up[n] # Null /\ node \in Above(up, up[n])}
<1>1. PICK h, rank : Ranks(lists, h, rank)
  BY DEF Forest
<1>2. \A t \in Tree : Above(up, t) = {t} \cup (IF up[t] = Null THEN {} ELSE Above(up, up[t]))
  BY IntactAscends, AboveIs
<1>3. tree \notin Under
  <2>1. tree \in Above(up, tree)
    BY <1>2
  <2>2. tree \notin Leaf
    BY NodesDiffer
  <2> QED
    BY <2>1, <2>2
<1>4. ASSUME NEW t \in Tree, t \in Under, NEW n \in ToSet(lists[t]) PROVE n \in Under
  <2>1. n \in Node /\ up[n] = t /\ t # Null
    <3>1. n \in Node
      BY ListedAreNodes DEF Intact
    <3> QED
      BY <3>1, NodesDiffer DEF Intact
  <2>2. node \in Above(up, t)
    <3>1. t \notin Leaf /\ t \in Above(up, t)
      BY <1>2, NodesDiffer
    <3> QED
      BY <1>4, <3>1
  <2>3. CASE n \in Tree
    <3>1. Above(up, n) = {n} \cup Above(up, t)
      BY <1>2, <2>1, <2>3
    <3> QED
      BY <2>1, <2>2, <2>3, <3>1
  <2>4. CASE n \notin Tree
    BY <2>1, <2>2, <2>4, NodesDiffer
  <2> QED
    BY <2>3, <2>4
<1>5. node \in Under
  OBVIOUS
<1> HIDE DEF Under
<1>6. /\ h \in Nat /\ \A n \in Node : rank[n] \in 0 .. h
      /\ \A t \in Tree : \A n \in ToSet(lists[t]) : rank[n] < rank[t]
  BY <1>1 DEF Ranks
<1> DEFINE high == [n \in Node |-> IF n \in Under THEN rank[n] ELSE rank[n] + h + 1]
<1>7. high \in [Node -> 0 .. h + h + 1]
  <2>1. ASSUME NEW n \in Node PROVE rank[n] \in 0 .. h + h + 1 /\ rank[n] + h + 1 \in 0 .. h + h + 1
    <3>1. rank[n] \in 0 .. h /\ h \in Nat
      BY <1>6
    <3> QED
      BY <3>1
  <2> QED
    BY <2>1
<1>8. ASSUME NEW t \in Tree, NEW n \in ToSet(more[t]) PROVE high[n] < high[t]
  <2>1. n \in Node /\ t \in Node /\ rank[n] \in 0 .. h /\ rank[t] \in 0 .. h /\ h \in Nat
    BY <1>6, ListedAreNodes, NodesDiffer
  <2>2. CASE n \in ToSet(lists[t])
    <3>1. rank[n] < rank[t] /\ (t \in Under => n \in Under)
      BY <1>4, <1>6, <2>2
    <3>2. CASE t \in Under
      BY <2>1, <3>1, <3>2
    <3>3. CASE t \notin Under /\ n \in Under
      <4>1. high[n] = rank[n] /\ high[t] = rank[t] + h + 1
        BY <2>1, <3>3
      <4> HIDE DEF high
      <4> QED
        BY <2>1, <4>1
    <3>4. CASE t \notin Under /\ n \notin Under
      <4>1. high[n] = rank[n] + h + 1 /\ high[t] = rank[t] + h + 1
        BY <2>1, <3>4
      <4> HIDE DEF high
      <4> QED
        BY <2>1, <3>1, <4>1
    <3> QED
      BY <3>2, <3>3, <3>4
  <2>3. CASE n \notin ToSet(lists[t])
    <3>1. t = tree /\ n = node
      BY <2>3
    <3>2. high[n] = rank[n] /\ high[t] = rank[t] + h + 1
      BY <1>3, <1>5, <2>1, <3>1
    <3> HIDE DEF high
    <3> QED
      BY <2>1, <3>2
  <2> QED
    BY <2>2, <2>3
<1>9. h + h + 1 \in Nat
  BY <1>6
<1> HIDE DEF high
<1>10. Ranks(more, h + h + 1, high)
  BY <1>7, <1>8, <1>9 DEF Ranks
<1> QED
  BY <1>10 DEF Forest

(* The lists and parents when a node is out.                               *)
TakenOut(lists, up, n, less, off) ==
  less = [lists EXCEPT ![up[n]] = Without(@, n)] /\ off = [up EXCEPT ![n] = Null]

(* A node is taken out of the tree that it is in.                          *)
LEMMA TakingOutKeepsIntact ==
  ASSUME NEW lists, NEW up, Intact(lists, up), NEW n \in Node, up[n] # Null,
         NEW less, NEW off, TakenOut(lists, up, n, less, off)
  PROVE  Intact(less, off) /\ \A t \in Tree : ToSet(less[t]) = ToSet(lists[t]) \ {n}
<1> USE DEF TakenOut
<1>1. /\ lists \in [Tree -> Seq(Node)] /\ up \in [Node -> Tree \cup {Null}] /\ up[n] \in Tree
      /\ \A t \in Tree, m \in Node : m \in ToSet(lists[t]) <=> up[m] = t
  BY DEF Intact
<1>2. ASSUME NEW t \in Tree
      PROVE  less[t] \in Seq(Node) /\ ToSet(less[t]) = ToSet(lists[t]) \ {n} /\ Distinct(less[t])
  <2>1. lists[t] \in Seq(Node) /\ Distinct(lists[t])
    BY DEF Intact
  <2>2. CASE t = up[n]
    <3>1. less[t] = Without(lists[t], n)
      BY <1>1, <2>2
    <3> QED
      BY <2>1, <3>1, WithoutDrops
  <2>3. CASE t # up[n]
    <3>1. less[t] = lists[t]
      BY <1>1, <2>3
    <3>2. n \notin ToSet(lists[t])
      BY <1>1, <2>3
    <3> QED
      BY <2>1, <3>1, <3>2
  <2> QED
    BY <2>2, <2>3
<1>3. less \in [Tree -> Seq(Node)]
  <2>1. less = [t \in Tree |-> less[t]]
    BY <1>1
  <2> QED
    BY <1>2, <2>1
<1>4. off \in [Node -> Tree \cup {Null}]
  BY <1>1
<1>5. ASSUME NEW t \in Tree, NEW m \in Node PROVE m \in ToSet(less[t]) <=> off[m] = t
  <2>1. m \in ToSet(less[t]) <=> m # n /\ up[m] = t
    BY <1>1, <1>2
  <2>2. off[m] = IF m = n THEN Null ELSE up[m]
    BY <1>1
  <2> QED
    BY <2>1, <2>2, NodesDiffer
<1> QED
  BY <1>2, <1>3, <1>4, <1>5 DEF Intact

(* The list that has the node, the lists and the parents that are left.    *)
PlacedIn(lists, up, tree, sibling, node, above, more, end, on) ==
  /\ more = [lists EXCEPT ![tree] = Placed(@, sibling, node, above)]
  /\ end = IF up[node] \notin {tree, Null}
           THEN [more EXCEPT ![up[node]] = Without(@, node)] ELSE more
  /\ on = [up EXCEPT ![node] = tree]

(* tree_place and reparent_unsafe together keep lists and parents in step, *)
(* and the list that has the node twice for a while makes no cycle either. *)
LEMMA PlacingKeepsIntact ==
  ASSUME NEW lists, NEW up, Intact(lists, up), Forest(lists),
         NEW tree \in Tree, NEW node \in Node, node \notin Above(up, tree), NEW sibling, NEW above,
         NEW more, NEW end, NEW on, PlacedIn(lists, up, tree, sibling, node, above, more, end, on)
  PROVE  Intact(end, on) /\ Forest(end) /\ Forest(more)
<1> USE DEF PlacedIn
<1>1. /\ lists \in [Tree -> Seq(Node)] /\ up \in [Node -> Tree \cup {Null}]
      /\ \A t \in Tree, n \in Node : n \in ToSet(lists[t]) <=> up[n] = t
      /\ \A t \in Tree : lists[t] \in Seq(Node) /\ ToSet(lists[t]) \subseteq Node /\ Distinct(lists[t])
  BY ListedAreNodes DEF Intact
<1>2. /\ Placed(lists[tree], sibling, node, above) \in Seq(Node)
      /\ ToSet(Placed(lists[tree], sibling, node, above)) = ToSet(lists[tree]) \cup {node}
      /\ Distinct(Placed(lists[tree], sibling, node, above))
  <2>1. lists[tree] \in Seq(Node) /\ Distinct(lists[tree])
    BY <1>1
  <2> QED
    BY <2>1, PlacedPuts
<1>3. ASSUME NEW t \in Tree
      PROVE  /\ more[t] \in Seq(Node) /\ Distinct(more[t])
             /\ t = tree => ToSet(more[t]) = ToSet(lists[t]) \cup {node}
             /\ t # tree => ToSet(more[t]) = ToSet(lists[t])
  <2>1. CASE t = tree
    <3>1. more[t] = Placed(lists[tree], sibling, node, above)
      BY <1>1, <2>1
    <3> QED
      BY <1>2, <2>1, <3>1
  <2>2. CASE t # tree
    <3>1. more[t] = lists[t]
      BY <1>1, <2>2
    <3> QED
      BY <1>1, <2>2, <3>1
  <2> QED
    BY <2>1, <2>2
<1>4. more \in [Tree -> Seq(Node)]
  <2>1. more = [t \in Tree |-> more[t]]
    BY <1>1
  <2> QED
    BY <1>3, <2>1
<1>5. Forest(more)
  <2>1. \A t \in Tree : ToSet(more[t]) \subseteq ToSet(lists[t]) \cup (IF t = tree THEN {node} ELSE {})
    BY <1>3
  <2> QED
    BY <1>4, <2>1, PlacingKeepsForest
<1>6. ASSUME NEW t \in Tree
      PROVE  /\ end[t] \in Seq(Node) /\ Distinct(end[t])
             /\ t = tree => ToSet(end[t]) = ToSet(lists[t]) \cup {node}
             /\ t # tree => ToSet(end[t]) = ToSet(lists[t]) \ {node}
  <2>1. up[node] \in Tree \cup {Null}
    BY <1>1
  <2>2. CASE t = up[node] /\ t # tree
    <3>1. end[t] = Without(more[t], node)
      BY <1>4, <2>2, NodesDiffer
    <3>2. more[t] \in Seq(Node) /\ Distinct(more[t]) /\ ToSet(more[t]) = ToSet(lists[t])
      BY <1>3, <2>2
    <3>3. /\ Without(more[t], node) \in Seq(Node) /\ Distinct(Without(more[t], node))
          /\ ToSet(Without(more[t], node)) = ToSet(more[t]) \ {node}
      BY <3>2, WithoutDrops
    <3> QED
      BY <2>2, <3>1, <3>2, <3>3
  <2>3. CASE ~ (t = up[node] /\ t # tree)
    <3>1. end[t] = more[t]
      <4>1. CASE up[node] \notin {tree, Null}
        BY <1>4, <2>3, <4>1
      <4>2. CASE up[node] \in {tree, Null}
        BY <4>2
      <4> QED
        BY <4>1, <4>2
    <3>2. t # tree => node \notin ToSet(lists[t])
      BY <1>1, <2>3
    <3>3. t # tree => ToSet(lists[t]) \ {node} = ToSet(lists[t])
      BY <3>2
    <3> QED
      BY <1>3, <3>1, <3>3
  <2> QED
    BY <2>2, <2>3
<1>7. end \in [Tree -> Seq(Node)]
  <2>1. end = [t \in Tree |-> end[t]]
    <3>1. CASE up[node] \notin {tree, Null}
      BY <1>4, <3>1
    <3>2. CASE up[node] \in {tree, Null}
      BY <1>4, <3>2
    <3> QED
      BY <3>1, <3>2
  <2> QED
    BY <1>6, <2>1
<1>8. Forest(end)
  <2>1. \A t \in Tree : ToSet(end[t]) \subseteq ToSet(more[t])
    BY <1>3, <1>6, ZenonT(40)
  <2> QED
    BY <1>5, <1>7, <2>1, ForestLess
<1>9. on \in [Node -> Tree \cup {Null}] /\ \A n \in Node : on[n] = IF n = node THEN tree ELSE up[n]
  BY <1>1
<1>10. ASSUME NEW t \in Tree, NEW n \in Node PROVE n \in ToSet(end[t]) <=> on[n] = t
  <2>1. n \in ToSet(lists[t]) <=> up[n] = t
    BY <1>1
  <2>2. CASE n = node
    <3>1. n \in ToSet(end[t]) <=> t = tree
      BY <1>6, <2>2
    <3> QED
      BY <1>9, <2>2, <3>1
  <2>3. CASE n # node
    <3>1. n \in ToSet(end[t]) <=> n \in ToSet(lists[t])
      BY <1>6, <2>3
    <3> QED
      BY <1>9, <2>1, <2>3, <3>1
  <2> QED
    BY <2>2, <2>3
<1>11. Intact(end, on)
  BY <1>6, <1>7, <1>9, <1>10 DEF Intact
<1> QED
  BY <1>5, <1>8, <1>11

(* The lists and parents when a tree lists only some nodes any more.       *)
Replaced(lists, up, tree, new, less, off) ==
  /\ less = [lists EXCEPT ![tree] = new]
  /\ off = [n \in Node |-> IF n \in ToSet(new) THEN tree ELSE IF up[n] = tree THEN Null ELSE up[n]]

(* So do scene_tree_clear and scene_tree_replace, with some of the nodes.  *)
LEMMA ReplacingKeepsIntact ==
  ASSUME NEW lists, NEW up, Intact(lists, up), NEW tree \in Tree,
         NEW new, new \in Seq(Node), ToSet(new) \subseteq ToSet(lists[tree]), Distinct(new),
         NEW less, NEW off, Replaced(lists, up, tree, new, less, off)
  PROVE  Intact(less, off) /\ \A t \in Tree : ToSet(less[t]) \subseteq ToSet(lists[t])
<1> USE DEF Replaced
<1>1. /\ lists \in [Tree -> Seq(Node)] /\ up \in [Node -> Tree \cup {Null}]
      /\ \A t \in Tree, n \in Node : n \in ToSet(lists[t]) <=> up[n] = t
      /\ \A t \in Tree : lists[t] \in Seq(Node) /\ Distinct(lists[t])
  BY DEF Intact
<1>2. ASSUME NEW t \in Tree
      PROVE  /\ less[t] \in Seq(Node) /\ Distinct(less[t])
             /\ ToSet(less[t]) = IF t = tree THEN ToSet(new) ELSE ToSet(lists[t])
  <2>1. less[t] = IF t = tree THEN new ELSE lists[t]
    BY <1>1
  <2> QED
    BY <1>1, <2>1
<1>3. less \in [Tree -> Seq(Node)]
  <2>1. less = [t \in Tree |-> less[t]]
    BY <1>1
  <2> QED
    BY <1>2, <2>1
<1>4. off \in [Node -> Tree \cup {Null}]
  BY <1>1
<1>5. ASSUME NEW t \in Tree, NEW n \in Node PROVE n \in ToSet(less[t]) <=> off[n] = t
  <2>1. n \in ToSet(lists[t]) <=> up[n] = t
    BY <1>1
  <2>2. n \in ToSet(lists[tree]) <=> up[n] = tree
    BY <1>1
  <2>3. off[n] = IF n \in ToSet(new) THEN tree ELSE IF up[n] = tree THEN Null ELSE up[n]
    OBVIOUS
  <2>4. CASE n \in ToSet(new)
    BY <1>2, <2>1, <2>2, <2>3, <2>4
  <2>5. CASE n \notin ToSet(new)
    BY <1>2, <2>1, <2>2, <2>3, <2>5, NodesDiffer
  <2> QED
    BY <2>4, <2>5
<1>6. Intact(less, off)
  BY <1>2, <1>3, <1>4, <1>5 DEF Intact
<1> QED
  BY <1>2, <1>6

(* And ~SceneTree.                                                         *)
LEMMA DestroyingKeepsIntact ==
  ASSUME NEW lists, NEW up, Intact(lists, up), NEW tree \in Tree,
         NEW less, less = [k \in Tree |-> IF k = tree THEN <<>> ELSE Without(lists[k], tree)],
         NEW off, off = [n \in Node |-> IF n = tree \/ up[n] = tree THEN Null ELSE up[n]]
  PROVE  Intact(less, off) /\ \A t \in Tree : ToSet(less[t]) \subseteq ToSet(lists[t])
<1>1. /\ lists \in [Tree -> Seq(Node)] /\ up \in [Node -> Tree \cup {Null}]
      /\ \A t \in Tree, n \in Node : n \in ToSet(lists[t]) <=> up[n] = t
      /\ \A t \in Tree : lists[t] \in Seq(Node) /\ Distinct(lists[t])
  BY DEF Intact
<1>2. ASSUME NEW t \in Tree
      PROVE  /\ less[t] \in Seq(Node) /\ Distinct(less[t])
             /\ ToSet(less[t]) = IF t = tree THEN {} ELSE ToSet(lists[t]) \ {tree}
  <2>1. CASE t = tree
    <3>1. less[t] = <<>>
      BY <2>1
    <3>2. <<>> \in Seq(Node) /\ Distinct(<<>>) /\ ToSet(<<>>) = {}
      BY DEF Distinct, ToSet
    <3> QED
      BY <2>1, <3>1, <3>2
  <2>2. CASE t # tree
    <3>1. less[t] = Without(lists[t], tree)
      BY <2>2
    <3>2. lists[t] \in Seq(Node) /\ Distinct(lists[t])
      BY <1>1
    <3> QED
      BY <2>2, <3>1, <3>2, WithoutDrops
  <2> QED
    BY <2>1, <2>2
<1>3. less \in [Tree -> Seq(Node)]
  <2>1. less = [t \in Tree |-> less[t]]
    OBVIOUS
  <2> QED
    BY <1>2, <2>1
<1>4. off \in [Node -> Tree \cup {Null}]
  BY <1>1
<1>5. ASSUME NEW t \in Tree, NEW n \in Node PROVE n \in ToSet(less[t]) <=> off[n] = t
  <2>1. n \in ToSet(lists[t]) <=> up[n] = t
    BY <1>1
  <2>2. off[n] = IF n = tree \/ up[n] = tree THEN Null ELSE up[n]
    OBVIOUS
  <2>3. n \in ToSet(less[t]) <=> t # tree /\ n # tree /\ n \in ToSet(lists[t])
    BY <1>2
  <2> QED
    BY <2>1, <2>2, <2>3, NodesDiffer
<1>6. Intact(less, off)
  BY <1>2, <1>3, <1>4, <1>5 DEF Intact
<1> QED
  BY <1>2, <1>6

-----------------------------------------------------------------------------
(* Types.                                                                  *)

(* Damage is a pair of flags.                                              *)
LEMMA DamageType ==
  ASSUME NEW leaves, scene_post_damage(leaves), SceneTypeOK
  PROVE  damaged' \in BOOLEAN /\ requested' \in BOOLEAN
BY DEF scene_post_damage, SceneTypeOK

(* What the pointer finds is a region or nothing.                          *)
LEMMA FoundType ==
  ASSUME NEW pos, Forest(children)
  PROVE  scene_find_input_region_at(pos) \in Region \cup {Null}
<1>1. PICK gives : gives = [n \in Leaf |-> IF n \in Region /\ pos - At(n) \in area[n] THEN <<n>> ELSE <<>>]
  OBVIOUS
<1>2. PICK hit : hit = scene_iterate(gives)
  OBVIOUS
<1>3. gives \in [Leaf -> Seq(Region)]
  <2>1. ASSUME NEW n \in Leaf
        PROVE  (IF n \in Region /\ pos - At(n) \in area[n] THEN <<n>> ELSE <<>>) \in Seq(Region)
    OBVIOUS
  <2> QED
    BY <1>1, <2>1
<1>4. hit \in Seq(Region)
  <2>1. Walk(children, Shown, gives) \in [Node -> Seq(Region)]
    BY <1>3, WalkIsWalk
  <2> QED
    BY <1>2, <2>1, NodesDiffer DEF scene_iterate
<1>5. hit # <<>> => Last(hit) \in Region
  <2>1. hit # <<>> => Len(hit) \in 1 .. Len(hit)
    BY <1>4
  <2> QED
    BY <1>4, <2>1 DEF Last
<1>6. scene_find_input_region_at(pos) = IF hit = <<>> THEN Null ELSE Last(hit)
  BY <1>1, <1>2 DEF scene_find_input_region_at
<1> QED
  BY <1>5, <1>6

-----------------------------------------------------------------------------
(* Every step keeps the trees.                                             *)

(* The part of the induction that is about the trees.                      *)
NodesOK(lists, up) == Intact(lists, up) /\ Forest(lists) /\ up[root] = Null

(* It is all of it, but for the types.                                     *)
LEMMA SceneIInvIs == SceneIInv <=> SceneTypeOK /\ NodesOK(children, parent)
BY IntactIs DEF SceneIInv, NodesOK

(* Also after a step.                                                      *)
LEMMA SceneIInvIsNext == SceneIInv' <=> SceneTypeOK' /\ NodesOK(children', parent')
<1>1. TreeIntact' <=> SceneTypeOK' /\ Intact(children', parent')
  BY DEF TreeIntact, Intact, IsInjective, Distinct, SceneTypeOK
<1> QED
  BY <1>1 DEF SceneIInv, NodesOK

(* tree_place.                                                             *)
LEMMA PlaceKeepsNodes ==
  ASSUME SceneIInv, NEW tree \in Tree, NEW sibling, NEW node \in Node, NEW above,
         tree_place(tree, sibling, node, above)
  PROVE  NodesOK(children', parent')
<1>1. PICK more, end, on : /\ more = [children EXCEPT ![tree] = Placed(@, sibling, node, above)]
                           /\ end = children' /\ on = parent'
  OBVIOUS
<1>2. Intact(children, parent) /\ Forest(children) /\ parent[root] = Null
  BY SceneIInvIs DEF NodesOK
<1>3. /\ node # root /\ node \notin Above(parent, tree)
      /\ PlacedIn(children, parent, tree, sibling, node, above, more, end, on)
  BY <1>1 DEF tree_place, MayHold, PlacedIn
<1>4. Intact(end, on) /\ Forest(end)
  BY <1>1, <1>2, <1>3, PlacingKeepsIntact
<1>5. on[root] = Null
  BY <1>2, <1>3, NodesDiffer DEF Intact, PlacedIn
<1> QED
  BY <1>1, <1>4, <1>5 DEF NodesOK

(* scene_node_unparent.                                                    *)
LEMMA UnparentKeepsNodes ==
  ASSUME SceneIInv, NEW n \in Node, Unparent(n)
  PROVE  NodesOK(children', parent')
<1>1. PICK less, off : less = children' /\ off = parent'
  OBVIOUS
<1>2. Intact(children, parent) /\ Forest(children) /\ parent[root] = Null
  BY SceneIInvIs DEF NodesOK
<1>3. parent \in [Node -> Tree \cup {Null}]
  BY <1>2 DEF Intact
<1>4. off = [parent EXCEPT ![n] = Null]
  BY <1>1 DEF Unparent
<1>5. CASE parent[n] = Null
  <2>1. off = parent
    BY <1>3, <1>4, <1>5
  <2>2. less = children
    BY <1>1, <1>5 DEF Unparent
  <2>3. children' = children /\ parent' = parent
    BY <1>1, <2>1, <2>2
  <2> QED
    BY <1>2, <2>3 DEF NodesOK
<1>6. CASE parent[n] # Null
  <2>1. TakenOut(children, parent, n, less, off)
    BY <1>1, <1>6 DEF Unparent, TakenOut
  <2>2. Intact(less, off) /\ \A t \in Tree : ToSet(less[t]) = ToSet(children[t]) \ {n}
    BY <1>2, <1>6, <2>1, TakingOutKeepsIntact
  <2>3. Forest(less)
    <3>1. less \in [Tree -> Seq(Node)]
      BY <2>2 DEF Intact
    <3>2. \A t \in Tree : ToSet(less[t]) \subseteq ToSet(children[t])
      BY <2>2
    <3> QED
      BY <1>2, <3>1, <3>2, ForestLess
  <2>4. off[root] = Null
    BY <1>2, <1>3, <1>4, NodesDiffer
  <2> QED
    BY <1>1, <2>2, <2>3, <2>4 DEF NodesOK
<1> QED
  BY <1>5, <1>6

(* ~SceneTree.                                                             *)
LEMMA DestroyKeepsNodes ==
  ASSUME SceneIInv, NEW t \in Tree, destroy_tree(t)
  PROVE  NodesOK(children', parent')
<1>1. PICK less, off : less = children' /\ off = parent'
  OBVIOUS
<1>2. Intact(children, parent) /\ Forest(children) /\ parent[root] = Null
  BY SceneIInvIs DEF NodesOK
<1>3. /\ less = [k \in Tree |-> IF k = t THEN <<>> ELSE Without(children[k], t)]
      /\ off = [n \in Node |-> IF n = t \/ parent[n] = t THEN Null ELSE parent[n]]
  BY <1>1 DEF destroy_tree
<1>4. Intact(less, off) /\ \A k \in Tree : ToSet(less[k]) \subseteq ToSet(children[k])
  BY <1>2, <1>3, DestroyingKeepsIntact, ZenonT(40)
<1>5. Forest(less)
  BY <1>2, <1>4, ForestLess DEF Intact
<1>6. off[root] = Null
  BY <1>2, <1>3, NodesDiffer
<1> QED
  BY <1>1, <1>4, <1>5, <1>6 DEF NodesOK

(* scene_tree_clear and _replace.                                          *)
LEMMA ReplaceKeepsNodes ==
  ASSUME SceneIInv, NEW t \in Tree, NEW new, new \in Seq(Node), ToSet(new) \subseteq ToSet(children[t]),
         Distinct(new), children' = [children EXCEPT ![t] = new],
         parent' = [n \in Node |-> IF n \in ToSet(new) THEN t ELSE Cleared(t)[n]]
  PROVE  NodesOK(children', parent')
<1>1. PICK less, off : less = children' /\ off = parent'
  OBVIOUS
<1>2. Intact(children, parent) /\ Forest(children) /\ parent[root] = Null
  BY SceneIInvIs DEF NodesOK
<1>3. Replaced(children, parent, t, new, less, off)
  BY <1>1 DEF Cleared, Replaced
<1>4. Intact(less, off) /\ \A k \in Tree : ToSet(less[k]) \subseteq ToSet(children[k])
  BY <1>2, <1>3, ReplacingKeepsIntact
<1>5. Forest(less)
  BY <1>2, <1>4, ForestLess DEF Intact
<1>6. off[root] = Null
  <2>1. root \notin ToSet(children[t])
    <3>1. root \in ToSet(children[t]) <=> parent[root] = t
      BY <1>2, NodesDiffer DEF Intact
    <3> QED
      BY <1>2, <3>1, NodesDiffer
  <2> QED
    BY <1>2, <1>3, <2>1, NodesDiffer DEF Replaced
<1> QED
  BY <1>1, <1>4, <1>5, <1>6 DEF NodesOK

(* A step that arranges nodes.                                             *)
LEMMA ArrangeKeepsNodes ==
  ASSUME SceneIInv, Arrange
  PROVE  NodesOK(children', parent')
<1>1. ASSUME NEW t \in Tree, NEW n \in Node, NEW above \in BOOLEAN, NEW sibling,
             tree_place(t, sibling, n, above)
      PROVE  NodesOK(children', parent')
  BY <1>1, PlaceKeepsNodes
<1>2. ASSUME NEW n \in Node, scene_node_unparent(n) \/ destroy_leaf(n)
      PROVE  NodesOK(children', parent')
  <2>1. Unparent(n)
    BY <1>2 DEF scene_node_unparent, destroy_leaf
  <2> QED
    BY <2>1, UnparentKeepsNodes
<1>3. ASSUME NEW n \in Node, destroy_tree(n) PROVE NodesOK(children', parent')
  <2>1. n \in Tree
    BY <1>3 DEF destroy_tree
  <2> QED
    BY <1>3, <2>1, DestroyKeepsNodes
<1>4. ASSUME NEW t \in Tree, scene_tree_clear(t) PROVE NodesOK(children', parent')
  <2>1. <<>> \in Seq(Node) /\ ToSet(<<>>) = {} /\ Distinct(<<>>)
    BY DEF ToSet, Distinct
  <2>2. children' = [children EXCEPT ![t] = <<>>] /\ parent' = Cleared(t)
    BY <1>4 DEF scene_tree_clear
  <2>3. Cleared(t) = [n \in Node |-> IF n \in ToSet(<<>>) THEN t ELSE Cleared(t)[n]]
    BY <2>1 DEF Cleared
  <2>4. ToSet(<<>>) \subseteq ToSet(children[t])
    BY <2>1
  <2> QED
    BY <2>1, <2>2, <2>3, <2>4, ReplaceKeepsNodes
<1>5. ASSUME NEW t \in Tree, NEW a \in ToSet(children[t]), NEW b \in ToSet(children[t]), a # b,
             scene_tree_replace(t, <<a, b>>)
      PROVE  NodesOK(children', parent')
  <2>1. a \in Node /\ b \in Node
    <3>1. children \in [Tree -> Seq(Node)]
      BY SceneIInvIs DEF SceneTypeOK
    <3> QED
      BY <3>1, ListedAreNodes
  <2>2. PICK new : new = <<a, b>>
    OBVIOUS
  <2>3. new \in Seq(Node) /\ ToSet(new) = {a, b} /\ Distinct(new)
    BY <1>5, <2>1, <2>2 DEF ToSet, Distinct
  <2>4. /\ children' = [children EXCEPT ![t] = new]
        /\ parent' = [n \in Node |-> IF n \in ToSet(new) THEN t ELSE Cleared(t)[n]]
    BY <1>5, <2>2 DEF scene_tree_replace
  <2>5. ToSet(new) \subseteq ToSet(children[t])
    BY <2>3
  <2> QED
    BY <2>3, <2>4, <2>5, ReplaceKeepsNodes
<1> QED
  BY <1>1, <1>2, <1>3, <1>4, <1>5 DEF Arrange

(* And its types.                                                          *)
LEMMA ArrangeKeepsTypes ==
  ASSUME SceneIInv, Arrange
  PROVE  SceneTypeOK'
<1>1. children' \in [Tree -> Seq(Node)] /\ parent' \in [Node -> Tree \cup {Null}]
  BY ArrangeKeepsNodes DEF NodesOK, Intact
<1>2. SceneTypeOK
  BY SceneIInvIs
<1>3. \E leaves : scene_post_damage(leaves)
  <2>1. ASSUME NEW t, NEW n, NEW above, NEW sibling, tree_place(t, sibling, n, above)
        PROVE  \E leaves : scene_post_damage(leaves)
    BY <2>1, Zenon DEF tree_place
  <2>2. ASSUME NEW n, scene_node_unparent(n) \/ destroy_leaf(n) PROVE \E leaves : scene_post_damage(leaves)
    BY <2>2, Zenon DEF scene_node_unparent, destroy_leaf, Unparent
  <2>3. ASSUME NEW n, destroy_tree(n) PROVE \E leaves : scene_post_damage(leaves)
    BY <2>3, Zenon DEF destroy_tree
  <2>4. ASSUME NEW t, scene_tree_clear(t) PROVE \E leaves : scene_post_damage(leaves)
    BY <2>4, Zenon DEF scene_tree_clear, scene_node_damage
  <2>5. ASSUME NEW t, NEW new, scene_tree_replace(t, new) PROVE \E leaves : scene_post_damage(leaves)
    BY <2>5, Zenon DEF scene_tree_replace
  <2> QED
    BY <2>1, <2>2, <2>3, <2>4, <2>5 DEF Arrange
<1>4. damaged' \in BOOLEAN /\ requested' \in BOOLEAN
  BY <1>2, <1>3, DamageType
<1>5. CASE UNCHANGED <<looks, pointer_focus, button_down>>
  BY <1>1, <1>2, <1>4, <1>5 DEF SceneTypeOK, looks
<1>6. ASSUME NEW n \in Node, destroy_leaf(n) PROVE SceneTypeOK'
  <2>1. area' \in [Region -> Area]
    <3>1. {} \in Area
      BY GeometryAssumption
    <3> QED
      BY <1>2, <1>6, <3>1 DEF SceneTypeOK, destroy_leaf
  <2>2. image' \in [Texture -> Image \cup {Null}]
    BY <1>2, <1>6 DEF SceneTypeOK, destroy_leaf
  <2>3. segments' \in [Mesh -> Segments]
    <3>1. <<>> \in Segments
      BY GeometryAssumption
    <3> QED
      BY <1>2, <1>6, <3>1 DEF SceneTypeOK, destroy_leaf
  <2>4. pointer_focus' \in Region \cup {Null} /\ UNCHANGED <<enabled, translation, button_down>>
    BY <1>2, <1>6 DEF SceneTypeOK, destroy_leaf
  <2> QED
    BY <1>1, <1>2, <1>4, <2>1, <2>2, <2>3, <2>4 DEF SceneTypeOK
<1>7. ASSUME NEW n \in Node, destroy_tree(n) PROVE SceneTypeOK'
  <2>1. /\ enabled' = [enabled EXCEPT ![n] = TRUE] /\ translation' = [translation EXCEPT ![n] = 0]
        /\ UNCHANGED <<area, image, segments, pointer_focus, button_down>>
    BY <1>7 DEF destroy_tree
  <2>2. enabled' \in [Tree -> BOOLEAN]
    BY <1>2, <2>1, Zenon DEF SceneTypeOK
  <2>3. translation' \in [Tree -> Offset]
    BY <1>2, <2>1, GeometryAssumption DEF SceneTypeOK
  <2> QED
    BY <1>1, <1>2, <1>4, <2>1, <2>2, <2>3 DEF SceneTypeOK
<1> QED
  BY <1>5, <1>6, <1>7, ZenonT(40) DEF Arrange, tree_place, scene_node_unparent, scene_tree_clear, scene_tree_replace

(* A step that changes how nodes look.                                     *)
LEMMA LookKeepsTypes ==
  ASSUME SceneIInv, Look
  PROVE  SceneTypeOK' /\ UNCHANGED nodes
<1>1. SceneTypeOK
  BY SceneIInvIs
<1>2. \E leaves : scene_post_damage(leaves)
  BY DEF Look, scene_node_damage, scene_tree_set_enabled, scene_tree_set_translation,
         scene_input_region_set_region, scene_texture_set_image, scene_mesh_update
<1>3. damaged' \in BOOLEAN /\ requested' \in BOOLEAN
  BY <1>1, <1>2, DamageType
<1>4. ASSUME NEW t \in Tree, scene_tree_set_enabled(t) PROVE SceneTypeOK' /\ UNCHANGED nodes
  <2>1. enabled' \in [Tree -> BOOLEAN]
    <3>1. enabled' = [enabled EXCEPT ![t] = ~ enabled[t]]
      BY <1>4 DEF scene_tree_set_enabled
    <3>2. enabled \in [Tree -> BOOLEAN]
      BY <1>1 DEF SceneTypeOK
    <3> QED
      BY <3>1, <3>2, Zenon
  <2> QED
    BY <1>1, <1>3, <1>4, <2>1 DEF SceneTypeOK, scene_tree_set_enabled, nodes
<1>5. ASSUME NEW t \in Tree, NEW offset \in Offset, scene_tree_set_translation(t, offset)
      PROVE  SceneTypeOK' /\ UNCHANGED nodes
  BY <1>1, <1>3, <1>5 DEF SceneTypeOK, scene_tree_set_translation, nodes
<1>6. ASSUME NEW r \in Region, NEW covers \in Area, scene_input_region_set_region(r, covers)
      PROVE  SceneTypeOK' /\ UNCHANGED nodes
  BY <1>1, <1>3, <1>6 DEF SceneTypeOK, scene_input_region_set_region, nodes
<1>7. ASSUME NEW x \in Texture, NEW img \in Image \cup {Null}, scene_texture_set_image(x, img)
      PROVE  SceneTypeOK' /\ UNCHANGED nodes
  BY <1>1, <1>3, <1>7 DEF SceneTypeOK, scene_texture_set_image, nodes
<1>8. ASSUME NEW m \in Mesh, NEW new \in Segments, scene_mesh_update(m, new)
      PROVE  SceneTypeOK' /\ UNCHANGED nodes
  BY <1>1, <1>3, <1>8 DEF SceneTypeOK, scene_mesh_update, nodes
<1> QED
  BY <1>4, <1>5, <1>6, <1>7, <1>8 DEF Look

(* The pointer's focus is a region or nothing.                             *)
LEMMA PointerKeepsTypes ==
  ASSUME SceneIInv, handle_input_region_damage \/ seat_pointer_button \/ output_frame
  PROVE  SceneTypeOK' /\ UNCHANGED nodes
<1>1. SceneTypeOK /\ scene_find_input_region_at(Pointer) \in Region \cup {Null}
  BY SceneIInvIs, FoundType DEF NodesOK
<1>2. CASE handle_input_region_damage
  <2>1. pointer_focus' \in Region \cup {Null}
    BY <1>1, <1>2 DEF handle_input_region_damage, update_pointer_focus, SceneTypeOK
  <2> QED
    BY <1>1, <1>2, <2>1 DEF SceneTypeOK, handle_input_region_damage, nodes, looks
<1>3. CASE seat_pointer_button
  <2>1. pointer_focus' \in Region \cup {Null}
    BY <1>1, <1>3 DEF seat_pointer_button, update_pointer_focus, SceneTypeOK
  <2>2. button_down' \in BOOLEAN
    BY <1>1, <1>3 DEF seat_pointer_button, SceneTypeOK
  <2> QED
    BY <1>1, <1>3, <2>1, <2>2 DEF SceneTypeOK, seat_pointer_button, nodes, looks
<1>4. CASE output_frame
  BY <1>1, <1>4 DEF SceneTypeOK, output_frame, nodes, looks
<1> QED
  BY <1>2, <1>3, <1>4

(* An empty scene.                                                         *)
LEMMA SceneInitIInv == SceneInit => SceneIInv
<1> SUFFICES ASSUME SceneInit PROVE SceneIInv
  OBVIOUS
<1>1. SceneTypeOK
  <2>1. children \in [Tree -> Seq(Node)] /\ parent \in [Node -> Tree \cup {Null}]
    <3>1. <<>> \in Seq(Node)
      OBVIOUS
    <3> QED
      BY <3>1 DEF SceneInit
  <2>2. enabled \in [Tree -> BOOLEAN] /\ image \in [Texture -> Image \cup {Null}]
    BY DEF SceneInit
  <2>3. translation \in [Tree -> Offset] /\ area \in [Region -> Area] /\ segments \in [Mesh -> Segments]
    BY GeometryAssumption DEF SceneInit
  <2> QED
    BY <2>1, <2>2, <2>3 DEF SceneInit, SceneTypeOK
<1>2. PICK lists, up : lists = children /\ up = parent
  OBVIOUS
<1>3. /\ lists \in [Tree -> Seq(Node)] /\ up \in [Node -> Tree \cup {Null}]
      /\ \A t \in Tree : lists[t] = <<>>
      /\ \A n \in Node : up[n] = Null
  BY <1>1, <1>2 DEF SceneTypeOK, SceneInit
<1>4. \A t \in Tree : ToSet(lists[t]) = {} /\ Distinct(lists[t])
  BY <1>3 DEF ToSet, Distinct
<1>5. Intact(lists, up)
  BY <1>3, <1>4, NodesDiffer DEF Intact
<1>6. Ranks(lists, 0, [n \in Node |-> 0])
  BY <1>4 DEF Ranks
<1>7. NodesOK(lists, up)
  BY <1>3, <1>5, <1>6, NodesDiffer DEF NodesOK, Forest
<1> QED
  BY <1>1, <1>2, <1>7, SceneIInvIs

(* Every step.                                                             *)
LEMMA SceneStepKeeps == SceneIInv /\ [SceneNext]_scene_vars => SceneIInv'
<1> SUFFICES ASSUME SceneIInv, [SceneNext]_scene_vars PROVE SceneIInv'
  OBVIOUS
<1>1. CASE Arrange
  BY <1>1, ArrangeKeepsNodes, ArrangeKeepsTypes, SceneIInvIsNext
<1>2. ASSUME SceneTypeOK', UNCHANGED nodes PROVE SceneIInv'
  <2>1. NodesOK(children, parent)
    BY SceneIInvIs
  <2>2. children' = children /\ parent' = parent
    BY <1>2 DEF nodes
  <2>3. NodesOK(children', parent')
    BY <2>1, <2>2
  <2> QED
    BY <1>2, <2>3, SceneIInvIsNext
<1>3. CASE Look
  BY <1>2, <1>3, LookKeepsTypes
<1>4. CASE handle_input_region_damage \/ seat_pointer_button \/ output_frame
  BY <1>2, <1>4, PointerKeepsTypes
<1>5. CASE UNCHANGED scene_vars
  <2>1. UNCHANGED <<children, parent, enabled, translation, area, image, segments, pointer_focus,
                    button_down, damaged, requested>>
    BY <1>5 DEF scene_vars, nodes, looks
  <2>2. SceneTypeOK'
    BY <2>1, SceneIInvIs DEF SceneTypeOK
  <2> QED
    BY <1>2, <2>1, <2>2 DEF nodes
<1> QED
  BY <1>1, <1>3, <1>4, <1>5 DEF SceneNext

(* Whatever is placed, moved, cleared and destroyed, lists and parents     *)
(* agree and no tree comes to be in itself.                                *)
THEOREM SceneInvariance == SceneSpec => []SceneIInv
<1>1. SceneSpec => SceneInit /\ [][SceneNext]_scene_vars
  BY PTL DEF SceneSpec
<1> QED
  BY <1>1, SceneInitIInv, SceneStepKeeps, PTL

(* tree_place, ~SceneTree: every node is listed once by its parent and by  *)
(* no other tree.                                                          *)
THEOREM TreesStayIntact == SceneSpec => []TreeIntact
<1>1. SceneIInv => TreeIntact
  BY DEF SceneIInv
<1> QED
  BY <1>1, SceneInvariance, PTL

-----------------------------------------------------------------------------
(* What a walk over lists gives.                                           *)

(* A list of elements that give lists over A.                              *)
Giving(A, B, w, l) == w \in [B -> Seq(A)] /\ l \in Seq(B)

(* One element more in a list.                                             *)
LEMMA EachMoreOf ==
  ASSUME NEW A, NEW B, NEW w, NEW l, Giving(A, B, w, l), NEW n, n \in B
  PROVE  /\ FlattenSeq(Each(w, l)) \in Seq(A)
         /\ FlattenSeq(Each(w, Append(l, n))) = FlattenSeq(Each(w, l)) \o w[n]
<1> USE DEF Giving
<1>1. ToSet(l) \subseteq B
  BY DEF ToSet
<1>2. Each(w, l) \in ListsOver(A) /\ Len(Each(w, l)) = Len(l)
  BY <1>1, EachType
<1>3. Each(w, Append(l, n)) = Append(Each(w, l), w[n])
  <2>1. PICK x, ss, t : x = w[n] /\ ss = Each(w, l) /\ t = Append(l, n)
    OBVIOUS
  <2>2. /\ Len(l) \in Nat /\ DOMAIN l = 1 .. Len(l) /\ DOMAIN t = 1 .. Len(l) + 1
        /\ t[Len(l) + 1] = n /\ \A k \in 1 .. Len(l) : t[k] = l[k]
    BY <2>1
  <2>3. ss \in Seq(Seq(A)) /\ Len(ss) = Len(l) /\ x \in Seq(A)
    BY <1>2, <2>1 DEF ListsOver
  <2>4. \A k \in 1 .. Len(l) : ss[k] = w[l[k]]
    BY <2>1, <2>2 DEF Each
  <2>5. Append(ss, x) = [k \in 1 .. Len(l) + 1 |-> IF k = Len(l) + 1 THEN x ELSE ss[k]]
    <3>1. PICK C : C = Seq(A)
      OBVIOUS
    <3>2. ss \in Seq(C) /\ x \in C
      BY <2>3, <3>1
    <3>3. Append(ss, x) = [k \in 1 .. Len(ss) + 1 |-> IF k = Len(ss) + 1 THEN x ELSE ss[k]]
      <4>1. PICK z : z = Append(ss, x)
        OBVIOUS
      <4>2. z \in Seq(C) /\ Len(z) = Len(ss) + 1 /\ z[Len(ss) + 1] = x
            /\ \A k \in 1 .. Len(ss) : z[k] = ss[k]
        BY <3>2, <4>1
      <4>3. z = [k \in 1 .. Len(ss) + 1 |-> z[k]]
        BY <4>2
      <4>4. ASSUME NEW k \in 1 .. Len(ss) + 1 PROVE z[k] = IF k = Len(ss) + 1 THEN x ELSE ss[k]
        <5>1. k # Len(ss) + 1 => k \in 1 .. Len(ss)
          BY <2>2, <2>3
        <5> QED
          BY <4>2, <5>1
      <4> QED
        BY <4>1, <4>3, <4>4
    <3> QED
      BY <2>3, <3>3
  <2>6. Each(w, t) = [k \in 1 .. Len(l) + 1 |-> w[t[k]]]
    BY <2>2 DEF Each
  <2>7. ASSUME NEW k \in 1 .. Len(l) + 1 PROVE w[t[k]] = IF k = Len(l) + 1 THEN x ELSE ss[k]
    <3>1. CASE k = Len(l) + 1
      BY <2>1, <2>2, <3>1
    <3>2. CASE k # Len(l) + 1
      <4>1. k \in 1 .. Len(l)
        BY <2>2, <3>2
      <4> QED
        BY <2>2, <2>4, <3>2, <4>1
    <3> QED
      BY <3>1, <3>2
  <2> QED
    BY <2>1, <2>5, <2>6, <2>7
<1>4. w[n] \in Seq(A)
  OBVIOUS
<1> QED
  BY <1>2, <1>3, <1>4, FlattenMore

(* One node more in a list.                                                *)
LEMMA EachMore ==
  ASSUME NEW A, NEW w \in [Node -> Seq(A)], NEW l \in Seq(Node), NEW n \in Node
  PROVE  /\ FlattenSeq(Each(w, l)) \in Seq(A)
         /\ FlattenSeq(Each(w, Append(l, n))) = FlattenSeq(Each(w, l)) \o w[n]
<1>1. Giving(A, Node, w, l)
  BY DEF Giving
<1> QED
  BY <1>1, EachMoreOf

(* Of no nodes, nothing.                                                   *)
LEMMA EachNone == ASSUME NEW w PROVE FlattenSeq(Each(w, <<>>)) = <<>>
<1>1. Each(w, <<>>) = <<>>
  BY DEF Each
<1> QED
  BY <1>1, FlattenNone

(* Nodes that give nothing need not be listed.                             *)
LEMMA FlattenKeep ==
  ASSUME NEW A, NEW w \in [Node -> Seq(A)], NEW S
  PROVE  \A l \in Seq(Node) : (\A n \in ToSet(l) \ S : w[n] = <<>>) =>
            FlattenSeq(Each(w, Keep(l, S))) = FlattenSeq(Each(w, l))
<1> DEFINE P == {l \in Seq(Node) : (\A n \in ToSet(l) \ S : w[n] = <<>>) =>
                    FlattenSeq(Each(w, Keep(l, S))) = FlattenSeq(Each(w, l))}
<1>1. <<>> \in P
  <2>1. Keep(<<>>, S) = <<>>
    BY KeepNone
  <2> QED
    BY <2>1
<1>2. ASSUME NEW l \in Seq(Node), l \in P, NEW n \in Node PROVE Append(l, n) \in P
  <2>1. PICK t : t = Append(l, n)
    OBVIOUS
  <2>2. t \in Seq(Node) /\ ToSet(t) = ToSet(l) \cup {n}
    BY <2>1, AppendSet
  <2>3. ASSUME \A m \in ToSet(t) \ S : w[m] = <<>>
        PROVE  FlattenSeq(Each(w, Keep(t, S))) = FlattenSeq(Each(w, t))
    <3>1. FlattenSeq(Each(w, Keep(l, S))) = FlattenSeq(Each(w, l))
      BY <1>2, <2>2, <2>3
    <3>2. /\ FlattenSeq(Each(w, l)) \in Seq(A)
          /\ FlattenSeq(Each(w, t)) = FlattenSeq(Each(w, l)) \o w[n]
      BY <2>1, EachMore
    <3>3. Keep(t, S) = IF n \in S THEN Append(Keep(l, S), n) ELSE Keep(l, S)
      BY <2>1, KeepMore
    <3>4. CASE n \in S
      <4>1. Keep(l, S) \in Seq(Node)
        BY KeepKeeps
      <4>2. FlattenSeq(Each(w, Append(Keep(l, S), n))) = FlattenSeq(Each(w, Keep(l, S))) \o w[n]
        BY <4>1, EachMore
      <4> QED
        BY <3>1, <3>2, <3>3, <3>4, <4>2
    <3>5. CASE n \notin S
      <4>1. w[n] = <<>>
        BY <2>2, <2>3, <3>5
      <4>2. FlattenSeq(Each(w, l)) \o <<>> = FlattenSeq(Each(w, l))
        <5>1. PICK x : x = FlattenSeq(Each(w, l))
          OBVIOUS
        <5>2. x \in Seq(A)
          BY <3>2, <5>1
        <5>3. x \o <<>> = x
          BY <5>2
        <5> QED
          BY <5>1, <5>3
      <4> QED
        BY <3>1, <3>2, <3>3, <3>5, <4>1, <4>2
    <3> QED
      BY <3>4, <3>5
  <2> QED
    BY <2>1, <2>2, <2>3
<1> HIDE DEF P
<1>3. Seq(Node) \subseteq P
  BY <1>1, <1>2, SequenceInduction
<1> QED
  BY <1>3 DEF P

(* A node that gives nothing need not be listed.                           *)
LEMMA FlattenWithout ==
  ASSUME NEW A, NEW w \in [Node -> Seq(A)], NEW l \in Seq(Node), NEW n,
         n \in ToSet(l) => w[n] = <<>>
  PROVE  FlattenSeq(Each(w, Without(l, n))) = FlattenSeq(Each(w, l))
<1>1. PICK S : S = ToSet(l) \ {n}
  OBVIOUS
<1>2. \A m \in ToSet(l) \ S : w[m] = <<>>
  BY <1>1
<1>3. FlattenSeq(Each(w, Keep(l, S))) = FlattenSeq(Each(w, l))
  BY <1>2, FlattenKeep
<1> QED
  BY <1>1, <1>3 DEF Without

(* Of nodes that give nothing comes nothing.                               *)
LEMMA FlattenEmpty ==
  ASSUME NEW A, NEW w \in [Node -> Seq(A)], NEW l \in Seq(Node), \A n \in ToSet(l) : w[n] = <<>>
  PROVE  FlattenSeq(Each(w, l)) = <<>>
<1>1. Keep(l, {}) = <<>>
  <2>1. Keep(l, {}) \in Seq(Node) /\ ToSet(Keep(l, {})) = {}
    BY KeepKeeps
  <2>2. PICK k : k = Keep(l, {})
    OBVIOUS
  <2>3. k \in Seq(Node) /\ DOMAIN k = 1 .. Len(k) /\ Len(k) \in Nat
    BY <2>1, <2>2
  <2>4. \A i \in 1 .. Len(k) : k[i] \in ToSet(k)
    BY <2>3 DEF ToSet
  <2>5. Len(k) = 0
    <3>1. Len(k) # 0 => 1 \in 1 .. Len(k)
      BY <2>3
    <3>2. ToSet(k) = {}
      BY <2>1, <2>2
    <3> QED
      BY <2>4, <3>1, <3>2
  <2> QED
    BY <2>2, <2>3, <2>5
<1>2. \A n \in ToSet(l) \ {} : w[n] = <<>>
  OBVIOUS
<1>3. FlattenSeq(Each(w, Keep(l, {}))) = FlattenSeq(Each(w, l))
  BY <1>2, FlattenKeep
<1> QED
  BY <1>1, <1>3, EachNone

(* All that listed nodes give is there.                                    *)
LEMMA FlattenHas ==
  ASSUME NEW A, NEW w \in [Node -> Seq(A)]
  PROVE  \A l \in Seq(Node) : \A n \in ToSet(l) : ToSet(w[n]) \subseteq ToSet(FlattenSeq(Each(w, l)))
<1> DEFINE P == {l \in Seq(Node) : \A n \in ToSet(l) : ToSet(w[n]) \subseteq ToSet(FlattenSeq(Each(w, l)))}
<1>1. <<>> \in P
  <2>1. ToSet(<<>>) = {}
    BY DEF ToSet
  <2> QED
    BY <2>1
<1>2. ASSUME NEW l \in Seq(Node), l \in P, NEW n \in Node PROVE Append(l, n) \in P
  <2>1. PICK t, x, y : t = Append(l, n) /\ x = FlattenSeq(Each(w, l)) /\ y = w[n]
    OBVIOUS
  <2>2. t \in Seq(Node) /\ ToSet(t) = ToSet(l) \cup {n}
    BY <2>1, AppendSet
  <2>3. x \in Seq(A) /\ y \in Seq(A) /\ FlattenSeq(Each(w, t)) = x \o y
    BY <2>1, EachMore
  <2>4. ToSet(x) \subseteq ToSet(x \o y) /\ ToSet(y) \subseteq ToSet(x \o y)
    <3>1. PICK z : z = x \o y
      OBVIOUS
    <3>2. /\ DOMAIN x = 1 .. Len(x) /\ DOMAIN y = 1 .. Len(y) /\ DOMAIN z = 1 .. Len(x) + Len(y)
          /\ Len(x) \in Nat /\ Len(y) \in Nat
      BY <2>3, <3>1
    <3>3. ASSUME NEW k \in 1 .. Len(x) PROVE x[k] \in ToSet(z)
      <4>1. k \in DOMAIN z /\ z[k] = x[k]
        BY <2>3, <3>1, <3>2
      <4> QED
        BY <4>1 DEF ToSet
    <3>4. ASSUME NEW k \in 1 .. Len(y) PROVE y[k] \in ToSet(z)
      <4>1. PICK i : i = Len(x) + k
        OBVIOUS
      <4>2. i \in 1 .. Len(x) + Len(y) /\ ~ (i <= Len(x)) /\ i - Len(x) = k
        BY <3>2, <4>1
      <4>3. z[i] = y[i - Len(x)]
        BY <2>3, <3>1, <4>2
      <4> QED
        BY <3>2, <4>2, <4>3 DEF ToSet
    <3>5. ToSet(x) \subseteq ToSet(z)
      BY <3>2, <3>3 DEF ToSet
    <3>6. ToSet(y) \subseteq ToSet(z)
      BY <3>2, <3>4 DEF ToSet
    <3> QED
      BY <3>1, <3>5, <3>6
  <2>5. ASSUME NEW m \in ToSet(t) PROVE ToSet(w[m]) \subseteq ToSet(FlattenSeq(Each(w, t)))
    <3>1. CASE m \in ToSet(l)
      <4>1. ToSet(w[m]) \subseteq ToSet(x)
        BY <1>2, <2>1, <3>1
      <4> QED
        BY <2>3, <2>4, <4>1
    <3>2. CASE m = n
      BY <2>1, <2>3, <2>4, <3>2
    <3> QED
      BY <2>2, <3>1, <3>2
  <2> QED
    BY <2>1, <2>2, <2>5
<1> HIDE DEF P
<1>3. Seq(Node) \subseteq P
  BY <1>1, <1>2, SequenceInduction
<1> QED
  BY <1>3 DEF P

-----------------------------------------------------------------------------
(* Walks that give the same.                                               *)

(* What is below a leaf, and below what a tree lists.                      *)
LEMMA BelowIs ==
  ASSUME NEW lists, Forest(lists)
  PROVE  /\ \A n \in Leaf : Below(lists, n) = {n}
         /\ \A t \in Tree : \A n \in ToSet(lists[t]) : Below(lists, n) \subseteq Below(lists, t)
<1>1. PICK gives, w : gives = [m \in Leaf |-> <<m>>] /\ w = Walk(lists, Tree, gives)
  OBVIOUS
<1>2. gives \in [Leaf -> Seq(Leaf)]
  BY <1>1
<1>3. w \in [Node -> Seq(Leaf)] /\ \A n \in Node : w[n] = Visit(w, lists, Tree, gives, n)
  <2>1. PICK A, all : A = Leaf /\ all = Tree
    OBVIOUS
  <2>2. gives \in [Leaf -> Seq(A)] /\ w = Walk(lists, all, gives)
    BY <1>1, <1>2, <2>1
  <2>3. w \in [Node -> Seq(A)] /\ \A n \in Node : w[n] = Visit(w, lists, all, gives, n)
    BY <2>2, WalkIsWalk
  <2> QED
    BY <2>1, <2>3
<1>4. \A n : Below(lists, n) = ToSet(w[n])
  BY <1>1 DEF Below
<1>5. ASSUME NEW n \in Leaf PROVE Below(lists, n) = {n}
  <2>1. w[n] = <<n>>
    BY <1>1, <1>3, NodesDiffer DEF Visit
  <2>2. ToSet(<<n>>) = {n}
    BY DEF ToSet
  <2> QED
    BY <1>4, <2>1, <2>2
<1>6. ASSUME NEW t \in Tree, NEW n \in ToSet(lists[t]) PROVE Below(lists, n) \subseteq Below(lists, t)
  <2>1. w[t] = FlattenSeq(Each(w, lists[t]))
    <3>1. t \in Node /\ t \notin Leaf
      BY NodesDiffer
    <3> QED
      BY <1>3, <3>1 DEF Visit
  <2>2. lists[t] \in Seq(Node)
    BY DEF Forest
  <2>3. ToSet(w[n]) \subseteq ToSet(FlattenSeq(Each(w, lists[t])))
    BY <1>3, <2>2, FlattenHas
  <2> QED
    BY <1>4, <2>1, <2>3
<1> QED
  BY <1>5, <1>6

(* Where no leaf of a kind is below a node, what only such leaves give is  *)
(* nothing, also when trees list less.                                     *)
LEMMA NothingBelow ==
  ASSUME NEW more, Forest(more), NEW lists, Forest(lists),
         \A t \in Tree : ToSet(lists[t]) \subseteq ToSet(more[t]),
         NEW A, NEW shown, NEW gives \in [Leaf -> Seq(A)], NEW Q, \A m \in Leaf \ Q : gives[m] = <<>>
  PROVE  \A n \in Node : Below(more, n) \cap Q = {} => Walk(lists, shown, gives)[n] = <<>>
<1>1. PICK w : w = Walk(lists, shown, gives)
  OBVIOUS
<1>2. w \in [Node -> Seq(A)] /\ \A n \in Node : w[n] = Visit(w, lists, shown, gives, n)
  BY <1>1, WalkIsWalk
<1> DEFINE S == {n \in Node : Below(more, n) \cap Q = {} => w[n] = <<>>}
<1>3. ASSUME NEW n \in Node, n \in Tree => ToSet(lists[n]) \subseteq S, Below(more, n) \cap Q = {}
      PROVE  w[n] = <<>>
  <2>1. CASE n \in Leaf
    <3>1. n \notin Q
      BY <1>3, <2>1, BelowIs
    <3> QED
      BY <1>2, <2>1, <3>1 DEF Visit
  <2>2. CASE n \notin Leaf
    <3>1. n \in Tree
      BY <2>2, NodesDiffer
    <3>2. ASSUME NEW m \in ToSet(lists[n]) PROVE w[m] = <<>>
      <4>1. Below(more, m) \subseteq Below(more, n)
        BY <3>1, BelowIs
      <4>2. m \in S
        BY <1>3, <3>1
      <4> QED
        BY <1>3, <4>1, <4>2
    <3>3. lists[n] \in Seq(Node)
      BY <3>1 DEF Forest
    <3>4. FlattenSeq(Each(w, lists[n])) = <<>>
      BY <1>2, <3>2, <3>3, FlattenEmpty
    <3> QED
      BY <1>2, <2>2, <3>4 DEF Visit
  <2> QED
    BY <2>1, <2>2
<1>4. \A n \in Node : (n \in Tree => ToSet(lists[n]) \subseteq S) => n \in S
  BY <1>3
<1>5. Node \subseteq S
  <2> HIDE DEF S
  <2> QED
    BY <1>4, RankInduction
<1> QED
  BY <1>1, <1>5

(* What a walk gives at each node.                                         *)
WalksOn(A, w, lists, shown, gives) ==
  w \in [Node -> Seq(A)] /\ \A n \in Node : w[n] = Visit(w, lists, shown, gives, n)

(* Nodes of S give the same in two walks, or list the same but for nodes   *)
(* of which nothing comes.                                                 *)
Alike(S, w, lists, shown, gives, w2, lists2, shown2, gives2) ==
  /\ \A n \in S \cap Leaf : w[n] = w2[n] \/ gives[n] = gives2[n]
  /\ \A n \in S \cap Tree :
       \/ w[n] = w2[n]
       \/ /\ n \in shown <=> n \in shown2
          /\ FlattenSeq(Each(w, lists2[n])) = FlattenSeq(Each(w, lists[n]))
          /\ ToSet(lists2[n]) \subseteq S

(* Then the walks give the same.                                           *)
LEMMA WalkSame ==
  ASSUME NEW A, NEW S,
         NEW lists, NEW shown, NEW gives, NEW w, WalksOn(A, w, lists, shown, gives),
         NEW lists2, NEW shown2, NEW gives2, NEW w2, WalksOn(A, w2, lists2, shown2, gives2),
         Forest(lists2), Alike(S, w, lists, shown, gives, w2, lists2, shown2, gives2)
  PROVE  \A n \in S \cap Node : w[n] = w2[n]
<1> USE DEF WalksOn, Alike
<1> DEFINE P == {n \in Node : n \in S => w[n] = w2[n]}
<1>1. ASSUME NEW n \in Node, n \in Tree => ToSet(lists2[n]) \subseteq P, n \in S PROVE w[n] = w2[n]
  <2>1. w[n] = Visit(w, lists, shown, gives, n) /\ w2[n] = Visit(w2, lists2, shown2, gives2, n)
    OBVIOUS
  <2>2. CASE n \in Leaf
    BY <1>1, <2>1, <2>2 DEF Visit
  <2>3. CASE n \notin Leaf /\ w[n] # w2[n]
    <3>1. n \in Tree /\ n \in S \cap Tree
      BY <1>1, <2>3, NodesDiffer
    <3>2. /\ n \in shown <=> n \in shown2
          /\ FlattenSeq(Each(w, lists2[n])) = FlattenSeq(Each(w, lists[n]))
          /\ ToSet(lists2[n]) \subseteq S
      BY <2>3, <3>1
    <3>3. \A m \in ToSet(lists2[n]) : w[m] = w2[m]
      BY <1>1, <3>1, <3>2
    <3>4. Each(w, lists2[n]) = Each(w2, lists2[n])
      <4>1. \A k \in DOMAIN lists2[n] : lists2[n][k] \in ToSet(lists2[n])
        BY DEF ToSet
      <4> QED
        BY <3>3, <4>1 DEF Each
    <3> QED
      BY <2>1, <2>3, <3>2, <3>4 DEF Visit
  <2> QED
    BY <2>2, <2>3
<1>2. \A n \in Node : (n \in Tree => ToSet(lists2[n]) \subseteq P) => n \in P
  BY <1>1
<1>3. Node \subseteq P
  <2> HIDE DEF P
  <2> QED
    BY <1>2, RankInduction
<1> QED
  BY <1>3

-----------------------------------------------------------------------------
(* What is in the scene, and elsewhere in it.                              *)

(* get_root goes up to the tree that is in none.                           *)
LEMMA RootIs ==
  ASSUME NEW up, Ascending(up)
  PROVE  \A t \in Tree : RootOf(up)[t] = IF up[t] = Null THEN t ELSE RootOf(up)[up[t]]
<1> DEFINE base == [t \in Tree |-> t]
           step == [t \in Tree |-> [s \in Tree |-> s]]
           Is(w) == w = [u \in Tree |-> IF up[u] = Null THEN u ELSE w[up[u]]]
<1>1. PICK w \in [Tree -> Tree] : \A t \in Tree : w[t] = Climb(w, up, base, step, t)
  <2>1. PICK V, b, st : V = Tree /\ b = base /\ st = step
    OBVIOUS
  <2>2. CanClimb(V, up, b, st)
    BY <2>1 DEF CanClimb
  <2> HIDE DEF base, step
  <2>3. PICK w : IsClimb(w, V, up, b, st)
    BY <2>2, ClimbExists
  <2> QED
    BY <2>1, <2>3 DEF IsClimb
<1>2. Is(w)
  <2>1. ASSUME NEW t \in Tree PROVE w[t] = IF up[t] = Null THEN t ELSE w[up[t]]
    <3>1. up[t] # Null => up[t] \in Tree
      BY NodesDiffer DEF Ascending
    <3>2. w[t] = Climb(w, up, base, step, t)
      BY <1>1
    <3>3. CASE up[t] = Null
      BY <3>2, <3>3 DEF Climb
    <3>4. CASE up[t] # Null
      <4>1. PICK a : a = w[up[t]]
        OBVIOUS
      <4>2. a \in Tree
        BY <3>1, <3>4, <4>1
      <4>3. step[t][a] = a
        BY <4>2
      <4> HIDE DEF step, base
      <4> QED
        BY <3>2, <3>4, <4>1, <4>3 DEF Climb
    <3> QED
      BY <3>3, <3>4
  <2>2. w = [t \in Tree |-> w[t]]
    OBVIOUS
  <2> QED
    BY <2>1, <2>2
<1> DEFINE v == CHOOSE v : Is(v)
<1>3. RootOf(up) = v
  BY DEF RootOf
<1>4. Is(v)
  BY <1>2
<1> HIDE DEF v
<1>5. \A t \in Tree : v[t] = IF up[t] = Null THEN t ELSE v[up[t]]
  BY <1>4
<1> QED
  BY <1>3, <1>5

(* Where trees are.                                                        *)
PositionOf(up, moved) ==
  LET position[t \in Tree] == moved[t] + (IF up[t] = Null THEN 0 ELSE position[up[t]])
  IN  position

(* scene_tree_get_position adds up what trees are moved by.                *)
LEMMA PositionIs ==
  ASSUME NEW up, Ascending(up), NEW moved \in [Tree -> Int]
  PROVE  \A t \in Tree : PositionOf(up, moved)[t] =
            moved[t] + (IF up[t] = Null THEN 0 ELSE PositionOf(up, moved)[up[t]])
<1> DEFINE base == [t \in Tree |-> moved[t]]
           step == [t \in Tree |-> [s \in Int |-> moved[t] + s]]
           Is(w) == w = [u \in Tree |-> moved[u] + (IF up[u] = Null THEN 0 ELSE w[up[u]])]
<1>1. PICK w \in [Tree -> Int] : \A t \in Tree : w[t] = Climb(w, up, base, step, t)
  <2>1. PICK V, b, st : V = Int /\ b = base /\ st = step
    OBVIOUS
  <2>2. CanClimb(V, up, b, st)
    <3>1. \A t \in Tree : moved[t] \in Int
      OBVIOUS
    <3>2. ASSUME NEW t \in Tree PROVE [s \in Int |-> moved[t] + s] \in [Int -> Int]
      BY <3>1
    <3>3. step \in [Tree -> [Int -> Int]]
      BY <3>2
    <3> HIDE DEF step
    <3> QED
      BY <2>1, <3>3 DEF CanClimb
  <2> HIDE DEF base, step
  <2>3. PICK w : IsClimb(w, V, up, b, st)
    BY <2>2, ClimbExists
  <2> QED
    BY <2>1, <2>3 DEF IsClimb
<1>2. Is(w)
  <2>1. ASSUME NEW t \in Tree PROVE w[t] = moved[t] + (IF up[t] = Null THEN 0 ELSE w[up[t]])
    <3>1. up[t] # Null => up[t] \in Tree
      BY NodesDiffer DEF Ascending
    <3>2. w[t] = Climb(w, up, base, step, t) /\ moved[t] \in Int
      BY <1>1
    <3>3. CASE up[t] = Null
      <4>1. w[t] = moved[t]
        BY <3>2, <3>3 DEF Climb
      <4> QED
        BY <3>2, <3>3, <4>1
    <3>4. CASE up[t] # Null
      <4>1. PICK a : a = w[up[t]]
        OBVIOUS
      <4>2. a \in Int
        BY <3>1, <3>4, <4>1
      <4>3. step[t][a] = moved[t] + a
        BY <4>2
      <4> HIDE DEF step, base
      <4> QED
        BY <3>2, <3>4, <4>1, <4>3 DEF Climb
    <3> QED
      BY <3>3, <3>4
  <2>2. w = [t \in Tree |-> w[t]]
    OBVIOUS
  <2> QED
    BY <2>1, <2>2
<1> DEFINE v == CHOOSE v : Is(v)
<1>3. PositionOf(up, moved) = v
  BY DEF PositionOf
<1>4. Is(v)
  BY <1>2
<1> HIDE DEF v
<1>5. \A t \in Tree : v[t] = moved[t] + (IF up[t] = Null THEN 0 ELSE v[up[t]])
  BY <1>4
<1> QED
  BY <1>3, <1>5

(* Trees that stay where they are, with all above them, are where they were. *)
LEMMA PositionSame ==
  ASSUME NEW up, Ascending(up), NEW moved \in [Tree -> Int],
         NEW up2, Ascending(up2), NEW moved2 \in [Tree -> Int], NEW S,
         \A t \in S \cap Tree : up2[t] = up[t] /\ moved2[t] = moved[t] /\ (up[t] # Null => up[t] \in S)
  PROVE  \A t \in S \cap Tree : PositionOf(up2, moved2)[t] = PositionOf(up, moved)[t]
<1> DEFINE P == {t \in Tree : t \in S => PositionOf(up2, moved2)[t] = PositionOf(up, moved)[t]}
<1>1. ASSUME NEW t \in Tree, up[t] # Null => up[t] \in P, t \in S
      PROVE  PositionOf(up2, moved2)[t] = PositionOf(up, moved)[t]
  <2>1. /\ PositionOf(up, moved)[t] = moved[t] + (IF up[t] = Null THEN 0 ELSE PositionOf(up, moved)[up[t]])
        /\ PositionOf(up2, moved2)[t] =
             moved2[t] + (IF up2[t] = Null THEN 0 ELSE PositionOf(up2, moved2)[up2[t]])
    BY PositionIs
  <2>2. up2[t] = up[t] /\ moved2[t] = moved[t] /\ (up[t] # Null => up[t] \in S)
    BY <1>1
  <2>3. up[t] # Null => PositionOf(up2, moved2)[up[t]] = PositionOf(up, moved)[up[t]]
    BY <1>1, <2>2
  <2> QED
    BY <2>1, <2>2, <2>3
<1>2. \A t \in Tree : (up[t] # Null => up[t] \in P) => t \in P
  BY <1>1
<1>3. Tree \subseteq P
  <2> HIDE DEF P
  <2> QED
    BY <1>2, UpInduction
<1> QED
  BY <1>3

(* A node and all above it.                                                *)
Over(up, n) == {n} \cup (IF up[n] = Null THEN {} ELSE Above(up, up[n]))

(* What is in the scene and not at or below a node.                        *)
Elsewhere(up, n) == {m \in Node : InScene(up, m) /\ n \notin Over(up, m)}

(* The scene goes on with what is in a tree, and so does what is elsewhere. *)
LEMMA ElsewhereIs ==
  ASSUME NEW lists, NEW up, NodesOK(lists, up), NEW n \in Node
  PROVE  /\ InScene(up, root)
         /\ root # n => root \in Elsewhere(up, n)
         /\ \A m \in Elsewhere(up, n) :
              m \in Node /\ m # n /\ InScene(up, m) /\
              (up[m] # Null => up[m] \in Tree \cap Elsewhere(up, n))
         /\ \A t \in Tree : \A m \in ToSet(lists[t]) : m \in Node /\ (InScene(up, m) <=> InScene(up, t))
         /\ \A t \in Tree \cap Elsewhere(up, n) : \A m \in ToSet(lists[t]) :
              m = n \/ m \in Elsewhere(up, n)
         /\ \A t \in Tree : InScene(up, t) /\ n \notin Above(up, t) => t \in Elsewhere(up, n)
<1>1. /\ Ascending(up) /\ up[root] = Null /\ lists \in [Tree -> Seq(Node)] /\ up \in [Node -> Tree \cup {Null}]
      /\ \A t \in Tree, m \in Node : m \in ToSet(lists[t]) <=> up[m] = t
  BY IntactAscends DEF NodesOK, Intact
<1>2. \A t \in Tree : RootOf(up)[t] = IF up[t] = Null THEN t ELSE RootOf(up)[up[t]]
  BY <1>1, RootIs
<1>3. \A t \in Tree : Above(up, t) = Over(up, t)
  BY <1>1, AboveIs DEF Over
<1>4. InScene(up, root)
  BY <1>1, <1>2, NodesDiffer DEF InScene
<1>5. root # n => root \in Elsewhere(up, n)
  <2>1. Over(up, root) = {root}
    BY <1>1 DEF Over
  <2> QED
    BY <1>4, <2>1, NodesDiffer DEF Elsewhere
<1>6. ASSUME NEW m \in Node, up[m] # Null
      PROVE  /\ up[m] \in Tree /\ (InScene(up, m) <=> InScene(up, up[m]))
             /\ Over(up, m) = {m} \cup Over(up, up[m])
  <2>1. up[m] \in Tree
    BY <1>1, <1>6
  <2>2. InScene(up, m) <=> InScene(up, up[m])
    <3>1. CASE m \in Tree
      <4>1. RootOf(up)[m] = RootOf(up)[up[m]]
        BY <1>2, <1>6, <3>1
      <4> QED
        BY <2>1, <3>1, <4>1 DEF InScene
    <3>2. CASE m \notin Tree
      BY <1>6, <2>1, <3>2 DEF InScene
    <3> QED
      BY <3>1, <3>2
  <2>3. Over(up, m) = {m} \cup Above(up, up[m])
    BY <1>6 DEF Over
  <2> QED
    BY <1>3, <2>1, <2>2, <2>3
<1>7. ASSUME NEW m \in Elsewhere(up, n)
      PROVE  m \in Node /\ m # n /\ InScene(up, m) /\ (up[m] # Null => up[m] \in Tree \cap Elsewhere(up, n))
  <2>1. m \in Node /\ InScene(up, m) /\ n \notin Over(up, m) /\ m \in Over(up, m)
    BY DEF Elsewhere, Over
  <2>2. ASSUME up[m] # Null PROVE up[m] \in Tree \cap Elsewhere(up, n)
    <3>1. up[m] \in Tree /\ InScene(up, up[m]) /\ n \notin Over(up, up[m])
      BY <1>6, <2>1, <2>2
    <3> QED
      BY <3>1, NodesDiffer DEF Elsewhere
  <2> QED
    BY <2>1, <2>2
<1>8. ASSUME NEW t \in Tree, NEW m \in ToSet(lists[t])
      PROVE  /\ m \in Node /\ (InScene(up, m) <=> InScene(up, t))
             /\ t \in Elsewhere(up, n) => m = n \/ m \in Elsewhere(up, n)
  <2>1. m \in Node
    BY <1>1, ListedAreNodes
  <2>2. up[m] = t /\ t # Null
    BY <1>1, <2>1, NodesDiffer
  <2>3. (InScene(up, m) <=> InScene(up, t)) /\ Over(up, m) = {m} \cup Over(up, t)
    BY <1>6, <2>1, <2>2
  <2>4. ASSUME t \in Elsewhere(up, n), m # n PROVE m \in Elsewhere(up, n)
    <3>1. InScene(up, t) /\ n \notin Over(up, t)
      BY <2>4 DEF Elsewhere
    <3> QED
      BY <2>1, <2>3, <2>4, <3>1 DEF Elsewhere
  <2> QED
    BY <2>1, <2>3, <2>4
<1>9. \A t \in Tree : InScene(up, t) /\ n \notin Above(up, t) => t \in Elsewhere(up, n)
  BY <1>3, NodesDiffer DEF Elsewhere
<1> QED
  BY <1>4, <1>5, <1>7, <1>8, <1>9

-----------------------------------------------------------------------------
(* Changes that post damage.                                               *)

(* Lists and looks change at or below node n, in the tree that it leaves   *)
(* or where damage is posted for all in a tree; more lists what was there  *)
(* before or is there now.                                                 *)
Moves(l, up, sh, l2, sh2, more, n, posted) ==
  /\ NodesOK(l, up) /\ Forest(l2) /\ Forest(more) /\ n \in Node
  /\ \A t \in Tree : ToSet(l[t]) \subseteq ToSet(more[t]) /\ ToSet(l2[t]) \subseteq ToSet(more[t])
  /\ InScene(up, n) => Below(more, n) \subseteq posted
  /\ \A t \in Tree \cap Elsewhere(up, n) :
       \/ Below(more, t) \subseteq posted
       \/ (t \in sh <=> t \in sh2) /\ l2[t] \in {l[t], Without(l[t], n)}

(* Leaves give something only if they are of a kind, and give the same as  *)
(* before elsewhere.                                                       *)
GivesOf(A, gives, gives2, up, n, Q) ==
  /\ gives \in [Leaf -> Seq(A)] /\ gives2 \in [Leaf -> Seq(A)]
  /\ \A m \in Leaf \cap Elsewhere(up, n) : gives[m] = gives2[m]
  /\ \A m \in Leaf \ Q : gives[m] = <<>> /\ gives2[m] = <<>>

(* If nothing of a kind is posted, a walk that looks for it gives what it  *)
(* gave.                                                                   *)
LEMMA MoveKeepsWalk ==
  ASSUME NEW l, NEW up, NEW sh, NEW l2, NEW sh2, NEW more, NEW n, NEW posted,
         Moves(l, up, sh, l2, sh2, more, n, posted),
         NEW Q, posted \cap Q = {}, NEW A, NEW gives, NEW gives2, GivesOf(A, gives, gives2, up, n, Q)
  PROVE  Walk(l2, sh2, gives2)[root] = Walk(l, sh, gives)[root]
<1>1. PICK w, w2 : w = Walk(l, sh, gives) /\ w2 = Walk(l2, sh2, gives2)
  OBVIOUS
<1>2. /\ NodesOK(l, up) /\ Forest(l) /\ Forest(l2) /\ Forest(more) /\ n \in Node
      /\ gives \in [Leaf -> Seq(A)] /\ gives2 \in [Leaf -> Seq(A)]
  BY DEF Moves, NodesOK, GivesOf
<1>3. w \in [Node -> Seq(A)] /\ \A m \in Node : w[m] = Visit(w, l, sh, gives, m)
  BY <1>1, <1>2, WalkIsWalk
<1>4. w2 \in [Node -> Seq(A)] /\ \A m \in Node : w2[m] = Visit(w2, l2, sh2, gives2, m)
  BY <1>1, <1>2, WalkIsWalk
<1>5. ASSUME NEW m \in Node, Below(more, m) \subseteq posted PROVE w[m] = <<>> /\ w2[m] = <<>>
  <2>1. Below(more, m) \cap Q = {}
    BY <1>5
  <2>2. \A t \in Tree : ToSet(l[t]) \subseteq ToSet(more[t])
    BY DEF Moves
  <2>3. \A t \in Tree : ToSet(l2[t]) \subseteq ToSet(more[t])
    BY DEF Moves
  <2>4. \A k \in Leaf \ Q : gives[k] = <<>>
    BY DEF GivesOf
  <2>5. \A k \in Leaf \ Q : gives2[k] = <<>>
    BY DEF GivesOf
  <2>6. Walk(l, sh, gives)[m] = <<>>
    BY <1>2, <2>1, <2>2, <2>4, NothingBelow
  <2>7. Walk(l2, sh2, gives2)[m] = <<>>
    BY <1>2, <2>1, <2>3, <2>5, NothingBelow
  <2> QED
    BY <1>1, <2>6, <2>7
<1>6. PICK E : E = Elsewhere(up, n)
  OBVIOUS
<1>7. /\ InScene(up, root) /\ (root # n => root \in E)
      /\ \A m \in E : m \in Node /\ m # n /\ InScene(up, m)
      /\ \A t \in Tree : \A m \in ToSet(l[t]) : m \in Node /\ (InScene(up, m) <=> InScene(up, t))
      /\ \A t \in Tree \cap E : \A m \in ToSet(l[t]) : m = n \/ m \in E
  BY <1>2, <1>6, ElsewhereIs
<1>8. InScene(up, n) => w[n] = <<>> /\ w2[n] = <<>>
  BY <1>2, <1>5 DEF Moves
<1> DEFINE S == E \cup (IF InScene(up, n) THEN {n} ELSE {})
<1>9. \A m \in S \cap Leaf : w[m] = w2[m] \/ gives[m] = gives2[m]
  BY <1>6, <1>8 DEF GivesOf
<1>10. ASSUME NEW t \in S \cap Tree, w[t] # w2[t]
       PROVE  /\ t \in sh <=> t \in sh2
              /\ FlattenSeq(Each(w, l2[t])) = FlattenSeq(Each(w, l[t]))
              /\ ToSet(l2[t]) \subseteq S
  <2>1. t \in Tree \cap E /\ t \in Node /\ InScene(up, t)
    BY <1>7, <1>8, <1>10
  <2>2. (t \in sh <=> t \in sh2) /\ l2[t] \in {l[t], Without(l[t], n)}
    <3>1. ~ (Below(more, t) \subseteq posted)
      BY <1>5, <1>10, <2>1
    <3> QED
      BY <1>6, <2>1, <3>1 DEF Moves
  <2>3. l[t] \in Seq(Node)
    BY <1>2 DEF Forest
  <2>4. ToSet(l[t]) \subseteq S
    <3>1. n \in ToSet(l[t]) => InScene(up, n)
      BY <1>7, <2>1
    <3> QED
      BY <1>7, <2>1, <3>1
  <2>5. ToSet(Without(l[t], n)) \subseteq ToSet(l[t])
    BY <2>3, WithoutDrops
  <2>6. n \in ToSet(l[t]) => w[n] = <<>>
    BY <1>7, <1>8, <2>1
  <2>7. FlattenSeq(Each(w, Without(l[t], n))) = FlattenSeq(Each(w, l[t]))
    BY <1>3, <2>3, <2>6, FlattenWithout
  <2>8. CASE l2[t] = l[t]
    BY <2>2, <2>4, <2>8
  <2>9. CASE l2[t] = Without(l[t], n)
    <3> HIDE DEF S
    <3> QED
      BY <2>2, <2>4, <2>5, <2>7, <2>9
  <2> QED
    BY <2>2, <2>8, <2>9
<1>11. root \in S \cap Node
  BY <1>7, NodesDiffer
<1>12. \A m \in S \cap Node : w[m] = w2[m]
  <2>1. \A t \in S \cap Tree :
          \/ w[t] = w2[t]
          \/ /\ t \in sh <=> t \in sh2
             /\ FlattenSeq(Each(w, l2[t])) = FlattenSeq(Each(w, l[t]))
             /\ ToSet(l2[t]) \subseteq S
    BY <1>10
  <2>2. WalksOn(A, w, l, sh, gives) /\ WalksOn(A, w2, l2, sh2, gives2)
    BY <1>3, <1>4 DEF WalksOn
  <2>3. Alike(S, w, l, sh, gives, w2, l2, sh2, gives2)
    BY <1>9, <2>1 DEF Alike
  <2> HIDE DEF S
  <2> QED
    BY <1>2, <2>2, <2>3, WalkSame
<1> QED
  BY <1>1, <1>11, <1>12

-----------------------------------------------------------------------------
(* What a step leaves alone.                                               *)

(* Apart from one node and what is below it nodes stay where they are and  *)
(* look as they did.                                                       *)
Still(n, up, up2, moved, moved2) ==
  /\ \A m \in Elsewhere(up, n) : up2[m] = up[m] /\ (m \in Tree => moved2[m] = moved[m])

(* A change of the trees and of how nodes look.                            *)
Change(more, n, posted) ==
  /\ scene_post_damage(posted)
  /\ Moves(children, parent, Shown, children', Shown', more, n, posted)
  /\ Still(n, parent, parent', translation, translation')
  /\ \A m \in Leaf \ {n} : /\ m \in Region => area'[m] = area[m]
                           /\ m \in Texture => image'[m] = image[m]
                           /\ m \in Mesh => segments'[m] = segments[m]
  /\ UNCHANGED button_down
  /\ pointer_focus' # pointer_focus => n \in Region /\ pointer_focus = n /\ pointer_focus' = Null /\ area'[n] = {}

(* A node in no tree, but the root, is not in the scene.                   *)
LEMMA LooseIsNotShown ==
  ASSUME NEW lists, NEW up, NodesOK(lists, up), NEW n \in Node, n # root, up[n] = Null
  PROVE  ~ InScene(up, n)
<1>1. Ascending(up)
  BY IntactAscends DEF NodesOK
<1>2. CASE n \in Tree
  <2>1. RootOf(up)[n] = n
    BY <1>1, <1>2, RootIs
  <2> QED
    BY <1>2, <2>1 DEF InScene
<1>3. CASE n \notin Tree
  BY <1>3 DEF InScene
<1> QED
  BY <1>2, <1>3

(* Elsewhere nothing is in the tree whose nodes leave.                     *)
LEMMA ElsewhereStays ==
  ASSUME NEW lists, NEW up, NodesOK(lists, up), NEW n \in Node, NEW m \in Elsewhere(up, n)
  PROVE  m \in Node /\ m # n /\ up[m] # n
<1>1. m \in Node /\ m # n /\ (up[m] # Null => up[m] \in Elsewhere(up, n))
  BY ElsewhereIs
<1>2. ASSUME up[m] = n PROVE FALSE
  <2>1. n # Null
    BY NodesDiffer
  <2>2. n \in Elsewhere(up, n)
    BY <1>1, <1>2, <2>1
  <2> QED
    BY <2>2, ElsewhereIs
<1> QED
  BY <1>1, <1>2

(* Lists that only change at a node or lose it, and looks that only change *)
(* at it, with the damage of all that is below it.                         *)
LEMMA MovesAt ==
  ASSUME NEW l, NEW up, NodesOK(l, up), NEW sh, NEW l2, Forest(l2), NEW sh2, NEW n \in Node, NEW posted,
         \A t \in Tree : ToSet(l2[t]) \subseteq ToSet(l[t]),
         \A t \in Tree \ {n} : (t \in sh <=> t \in sh2) /\ l2[t] \in {l[t], Without(l[t], n)},
         InScene(up, n) => Below(l, n) \subseteq posted
  PROVE  Moves(l, up, sh, l2, sh2, l, n, posted)
<1>1. \A t \in Tree \cap Elsewhere(up, n) : t # n
  BY ElsewhereIs
<1> QED
  BY <1>1 DEF Moves, NodesOK

(* tree_place posts what is below the tree that gets the node and, if the  *)
(* node moves, below the node, with lists that have it twice.              *)
LEMMA PlaceMoves ==
  ASSUME NEW lists, NEW up, NodesOK(lists, up), NEW sh,
         NEW tree \in Tree, NEW sibling, NEW node \in Node, NEW above, node # root, node \notin Above(up, tree),
         NEW more, NEW end, NEW on, PlacedIn(lists, up, tree, sibling, node, above, more, end, on),
         NEW posted, posted = Posted(more, up, tree)
                                \cup (IF up[node] \notin {tree, Null} THEN Posted(more, up, node) ELSE {})
  PROVE  Moves(lists, up, sh, end, sh, more, node, posted)
<1>1. /\ lists \in [Tree -> Seq(Node)] /\ up \in [Node -> Tree \cup {Null}]
      /\ \A t \in Tree, n \in Node : n \in ToSet(lists[t]) <=> up[n] = t
      /\ Intact(lists, up) /\ Forest(lists)
  BY DEF NodesOK, Intact
<1>2. Intact(end, on) /\ Forest(end) /\ Forest(more)
  BY <1>1, PlacingKeepsIntact
<1>3. /\ more = [lists EXCEPT ![tree] = Placed(@, sibling, node, above)]
      /\ end = IF up[node] \notin {tree, Null}
               THEN [more EXCEPT ![up[node]] = Without(@, node)] ELSE more
  BY DEF PlacedIn
<1>4. more \in [Tree -> Seq(Node)]
  BY <1>2 DEF Forest
<1>5. /\ ToSet(more[tree]) = ToSet(lists[tree]) \cup {node}
      /\ \A t \in Tree \ {tree} : more[t] = lists[t]
  <2>1. lists[tree] \in Seq(Node) /\ Distinct(lists[tree])
    BY <1>1 DEF Intact
  <2>2. more[tree] = Placed(lists[tree], sibling, node, above)
    BY <1>1, <1>3
  <2> QED
    BY <1>1, <1>3, <2>1, <2>2, PlacedPuts
<1>6. ASSUME NEW t \in Tree
      PROVE  end[t] \in {more[t], Without(more[t], node)} /\ ToSet(end[t]) \subseteq ToSet(more[t])
  <2>1. end[t] \in {more[t], Without(more[t], node)}
    <3>1. CASE up[node] \notin {tree, Null}
      BY <1>3, <1>4, <3>1
    <3>2. CASE up[node] \in {tree, Null}
      BY <1>3, <3>2
    <3> QED
      BY <3>1, <3>2
  <2>2. more[t] \in Seq(Node)
    BY <1>4
  <2>3. ToSet(Without(more[t], node)) \subseteq ToSet(more[t])
    BY <2>2, WithoutDrops
  <2> QED
    BY <2>1, <2>3
<1>7. \A t \in Tree : ToSet(lists[t]) \subseteq ToSet(more[t])
  BY <1>5
<1>8. InScene(up, tree) => Below(more, tree) \subseteq posted
  BY DEF Posted
<1>9. ASSUME InScene(up, node) PROVE Below(more, node) \subseteq posted
  <2>1. up[node] # Null
    BY <1>9, LooseIsNotShown
  <2>2. CASE up[node] = tree
    <3>1. node \in ToSet(lists[tree])
      BY <1>1, <2>2
    <3>2. InScene(up, tree)
      BY <1>9, <3>1, ElsewhereIs
    <3>3. Below(more, node) \subseteq Below(more, tree)
      BY <1>2, <1>5, BelowIs
    <3> QED
      BY <1>8, <3>2, <3>3
  <2>3. CASE up[node] # tree
    <3>1. posted = Posted(more, up, tree) \cup Posted(more, up, node)
      BY <2>1, <2>3
    <3> QED
      BY <1>9, <3>1 DEF Posted
  <2> QED
    BY <2>2, <2>3
<1>10. ASSUME NEW t \in Tree \cap Elsewhere(up, node)
       PROVE  Below(more, t) \subseteq posted \/ end[t] \in {lists[t], Without(lists[t], node)}
  <2>1. CASE t = tree
    <3>1. InScene(up, t)
      BY ElsewhereIs
    <3> QED
      BY <1>8, <2>1, <3>1
  <2>2. CASE t # tree
    BY <1>5, <1>6, <2>2
  <2> QED
    BY <2>1, <2>2
<1> QED
  BY <1>2, <1>6, <1>7, <1>9, <1>10 DEF Moves

(* tree_place.                                                             *)
LEMMA PlaceChange ==
  ASSUME SceneIInv, NEW tree \in Tree, NEW sibling, NEW node \in Node, NEW above,
         tree_place(tree, sibling, node, above)
  PROVE  \E more, n, posted : Change(more, n, posted)
<1>1. PICK more, end, on, posted :
        /\ more = [children EXCEPT ![tree] = Placed(@, sibling, node, above)]
        /\ end = children' /\ on = parent'
        /\ posted = Posted(more, parent, tree)
                      \cup (IF parent[node] \notin {tree, Null} THEN Posted(more, parent, node) ELSE {})
  OBVIOUS
<1>2. NodesOK(children, parent)
  BY SceneIInvIs
<1>3. /\ node # root /\ node \notin Above(parent, tree)
      /\ PlacedIn(children, parent, tree, sibling, node, above, more, end, on)
      /\ scene_post_damage(posted)
      /\ UNCHANGED <<looks, pointer_focus, button_down>>
  BY <1>1 DEF tree_place, MayHold, PlacedIn
<1>4. UNCHANGED <<enabled, translation, area, image, segments, pointer_focus, button_down>> /\ Shown' = Shown
  BY <1>3 DEF looks, Shown
<1>5. Moves(children, parent, Shown, end, Shown, more, node, posted)
  BY <1>1, <1>2, <1>3, PlaceMoves
<1>6. Still(node, parent, on, translation, translation')
  <2>1. \A m \in Elsewhere(parent, node) : m \in Node /\ m # node
    BY <1>2, ElsewhereStays
  <2>2. \A m \in Node \ {node} : on[m] = parent[m]
    BY <1>2, <1>3 DEF PlacedIn, NodesOK, Intact
  <2> QED
    BY <1>4, <2>1, <2>2 DEF Still
<1>7. Change(more, node, posted)
  <2>1. Moves(children, parent, Shown, children', Shown', more, node, posted)
    BY <1>1, <1>4, <1>5
  <2>2. Still(node, parent, parent', translation, translation')
    BY <1>1, <1>6
  <2> QED
    BY <1>3, <1>4, <2>1, <2>2 DEF Change
<1> QED
  BY <1>7

(* scene_node_unparent and the destructor of a leaf post what is below the *)
(* node before it leaves.                                                  *)
LEMMA UnparentMoves ==
  ASSUME SceneIInv, NEW n \in Node, n # root, Unparent(n), UNCHANGED enabled, UNCHANGED translation
  PROVE  \E posted : /\ scene_post_damage(posted)
                     /\ Moves(children, parent, Shown, children', Shown', children, n, posted)
                     /\ Still(n, parent, parent', translation, translation')
<1>1. PICK less, off, posted : /\ less = children' /\ off = parent'
                               /\ posted = IF parent[n] = Null THEN {} ELSE Posted(children, parent, n)
  OBVIOUS
<1>2. NodesOK(children, parent) /\ NodesOK(less, off)
  BY <1>1, SceneIInvIs, UnparentKeepsNodes
<1>3. /\ less = IF parent[n] = Null THEN children ELSE [children EXCEPT ![parent[n]] = Without(@, n)]
      /\ off = [parent EXCEPT ![n] = Null]
      /\ scene_post_damage(posted)
  BY <1>1 DEF Unparent
<1>4. children \in [Tree -> Seq(Node)] /\ Forest(less)
  BY <1>2 DEF NodesOK, Intact
<1>5. ASSUME NEW t \in Tree
      PROVE  less[t] \in {children[t], Without(children[t], n)} /\ ToSet(less[t]) \subseteq ToSet(children[t])
  <2>1. less[t] \in {children[t], Without(children[t], n)}
    <3>1. CASE parent[n] = Null
      BY <1>3, <3>1
    <3>2. CASE parent[n] # Null
      BY <1>3, <1>4, <3>2
    <3> QED
      BY <3>1, <3>2
  <2>2. children[t] \in Seq(Node)
    BY <1>4
  <2>3. ToSet(Without(children[t], n)) \subseteq ToSet(children[t])
    BY <2>2, WithoutDrops
  <2> QED
    BY <2>1, <2>3
<1>6. InScene(parent, n) => Below(children, n) \subseteq posted
  <2>1. InScene(parent, n) => parent[n] # Null
    BY <1>2, LooseIsNotShown
  <2> QED
    BY <1>1, <2>1 DEF Posted
<1>7. Moves(children, parent, Shown, less, Shown, children, n, posted)
  BY <1>2, <1>4, <1>5, <1>6, MovesAt
<1>8. Shown' = Shown /\ translation' = translation
  BY DEF Shown
<1>9. Still(n, parent, off, translation, translation')
  <2>1. \A m \in Elsewhere(parent, n) : m \in Node /\ m # n
    BY <1>2, ElsewhereStays
  <2>2. \A m \in Node \ {n} : off[m] = parent[m]
    BY <1>2, <1>3 DEF NodesOK, Intact
  <2> QED
    BY <1>8, <2>1, <2>2 DEF Still
<1>10. Moves(children, parent, Shown, children', Shown', children, n, posted)
  BY <1>1, <1>7, <1>8
<1>11. Still(n, parent, parent', translation, translation')
  BY <1>1, <1>9
<1> QED
  BY <1>3, <1>10, <1>11

(* scene_node_unparent.                                                    *)
LEMMA UnparentChange ==
  ASSUME SceneIInv, NEW n \in Node, scene_node_unparent(n)
  PROVE  \E more, m, posted : Change(more, m, posted)
<1>1. n # root /\ Unparent(n)
      /\ UNCHANGED <<enabled, translation, area, image, segments, pointer_focus, button_down>>
  BY DEF scene_node_unparent, looks
<1>2. PICK posted : /\ scene_post_damage(posted)
                    /\ Moves(children, parent, Shown, children', Shown', children, n, posted)
                    /\ Still(n, parent, parent', translation, translation')
  BY <1>1, UnparentMoves
<1>3. Change(children, n, posted)
  BY <1>1, <1>2 DEF Change
<1> QED
  BY <1>3

(* The destructor of a leaf; a region takes the pointer's focus with it.   *)
LEMMA DestroyLeafChange ==
  ASSUME SceneIInv, NEW n \in Node, destroy_leaf(n)
  PROVE  \E more, m, posted : Change(more, m, posted)
<1>1. /\ n \in Leaf /\ Unparent(n)
      /\ area' = [r \in Region |-> IF r = n THEN {} ELSE area[r]]
      /\ image' = [x \in Texture |-> IF x = n THEN Null ELSE image[x]]
      /\ segments' = [m \in Mesh |-> IF m = n THEN <<>> ELSE segments[m]]
      /\ pointer_focus' = IF pointer_focus = n THEN Null ELSE pointer_focus
      /\ UNCHANGED <<enabled, translation, button_down>>
  BY DEF destroy_leaf
<1>2. n # root /\ n # Null
  BY <1>1, NodesDiffer
<1>3. PICK posted : /\ scene_post_damage(posted)
                    /\ Moves(children, parent, Shown, children', Shown', children, n, posted)
                    /\ Still(n, parent, parent', translation, translation')
  BY <1>1, <1>2, UnparentMoves
<1>4. \A m \in Leaf \ {n} : /\ m \in Region => area'[m] = area[m]
                            /\ m \in Texture => image'[m] = image[m]
                            /\ m \in Mesh => segments'[m] = segments[m]
  BY <1>1
<1>5. pointer_focus \in Region \cup {Null}
  BY SceneIInvIs DEF SceneTypeOK
<1>6. pointer_focus' # pointer_focus =>
        n \in Region /\ pointer_focus = n /\ pointer_focus' = Null /\ area'[n] = {}
  BY <1>1, <1>2, <1>5
<1>7. Change(children, n, posted)
  BY <1>1, <1>3, <1>4, <1>6 DEF Change
<1> QED
  BY <1>7

(* A step that changes lists, parents and looks of trees at a node only,   *)
(* and takes it and what it had out of other trees.                        *)
LEMMA ChangeAt ==
  ASSUME SceneIInv, NodesOK(children', parent'), NEW n \in Node, NEW posted, scene_post_damage(posted),
         InScene(parent, n) => Below(children, n) \subseteq posted,
         \A t \in Tree : ToSet(children'[t]) \subseteq ToSet(children[t]),
         \A t \in Tree \ {n} : children'[t] \in {children[t], Without(children[t], n)},
         \A m \in Node \ {n} : parent[m] # n => parent'[m] = parent[m],
         \A t \in Tree \ {n} : enabled'[t] = enabled[t] /\ translation'[t] = translation[t],
         \A m \in Leaf \ {n} : /\ m \in Region => area'[m] = area[m]
                               /\ m \in Texture => image'[m] = image[m]
                               /\ m \in Mesh => segments'[m] = segments[m],
         UNCHANGED <<pointer_focus, button_down>>
  PROVE  \E more, m, leaves : Change(more, m, leaves)
<1>1. PICK less, off, shown : less = children' /\ off = parent' /\ shown = Shown'
  OBVIOUS
<1>2. NodesOK(children, parent) /\ Forest(less)
  BY <1>1, SceneIInvIs DEF NodesOK
<1>3. \A t \in Tree \ {n} : t \in Shown <=> t \in shown
  BY <1>1 DEF Shown
<1>4. Moves(children, parent, Shown, less, shown, children, n, posted)
  BY <1>1, <1>2, <1>3, MovesAt
<1>5. Moves(children, parent, Shown, children', Shown', children, n, posted)
  BY <1>1, <1>4
<1>6. Still(n, parent, parent', translation, translation')
  <2>1. ASSUME NEW m \in Elsewhere(parent, n)
        PROVE  parent'[m] = parent[m] /\ (m \in Tree => translation'[m] = translation[m])
    <3>1. m \in Node /\ m # n /\ parent[m] # n
      BY <1>2, ElsewhereStays
    <3> QED
      BY <3>1
  <2> QED
    BY <2>1 DEF Still
<1>7. Change(children, n, posted)
  BY <1>5, <1>6 DEF Change
<1> QED
  BY <1>7

(* ~SceneTree.                                                             *)
LEMMA DestroyTreeChange ==
  ASSUME SceneIInv, NEW n \in Node, destroy_tree(n)
  PROVE  \E more, m, posted : Change(more, m, posted)
<1>1. /\ n \in Tree /\ n # root
      /\ children' = [k \in Tree |-> IF k = n THEN <<>> ELSE Without(children[k], n)]
      /\ parent' = [m \in Node |-> IF m = n \/ parent[m] = n THEN Null ELSE parent[m]]
      /\ enabled' = [enabled EXCEPT ![n] = TRUE]
      /\ translation' = [translation EXCEPT ![n] = 0]
      /\ UNCHANGED <<area, image, segments, pointer_focus, button_down>>
  BY DEF destroy_tree
<1>2. PICK posted : posted = IF parent[n] = Null THEN {} ELSE Posted(children, parent, n)
  OBVIOUS
<1>3. scene_post_damage(posted)
  BY <1>2 DEF destroy_tree
<1>4. NodesOK(children, parent) /\ SceneTypeOK
  BY SceneIInvIs
<1>5. NodesOK(children', parent')
  BY <1>1, DestroyKeepsNodes
<1>6. InScene(parent, n) => Below(children, n) \subseteq posted
  <2>1. InScene(parent, n) => parent[n] # Null
    BY <1>1, <1>4, LooseIsNotShown
  <2> QED
    BY <1>2, <2>1 DEF Posted
<1>7. \A t \in Tree : ToSet(children'[t]) \subseteq ToSet(children[t])
  <2>1. PICK less, off : less = children' /\ off = parent'
    OBVIOUS
  <2>2. \A k \in Tree : ToSet(less[k]) \subseteq ToSet(children[k])
    BY <1>1, <1>4, <2>1, DestroyingKeepsIntact DEF NodesOK
  <2> QED
    BY <2>1, <2>2
<1>8. \A t \in Tree \ {n} : children'[t] \in {children[t], Without(children[t], n)}
  BY <1>1
<1>9. \A m \in Node \ {n} : parent[m] # n => parent'[m] = parent[m]
  BY <1>1
<1>10. \A t \in Tree \ {n} : enabled'[t] = enabled[t] /\ translation'[t] = translation[t]
  BY <1>1, <1>4 DEF SceneTypeOK
<1> QED
  BY <1>1, <1>3, <1>5, <1>6, <1>7, <1>8, <1>9, <1>10, ChangeAt

(* scene_tree_clear and scene_tree_replace.                                *)
LEMMA ReplaceChange ==
  ASSUME SceneIInv, NodesOK(children', parent'), NEW t \in Tree, NEW new, ToSet(new) \subseteq ToSet(children[t]),
         children' = [children EXCEPT ![t] = new],
         parent' = [m \in Node |-> IF m \in ToSet(new) THEN t ELSE Cleared(t)[m]],
         NEW posted, scene_post_damage(posted), Posted(children, parent, t) \subseteq posted,
         UNCHANGED <<looks, pointer_focus, button_down>>
  PROVE  \E more, m, leaves : Change(more, m, leaves)
<1>1. NodesOK(children, parent) /\ t \in Node
  BY SceneIInvIs, NodesDiffer
<1>2. /\ children \in [Tree -> Seq(Node)]
      /\ \A k \in Tree, m \in Node : m \in ToSet(children[k]) <=> parent[m] = k
  BY <1>1 DEF NodesOK, Intact
<1>3. InScene(parent, t) => Below(children, t) \subseteq posted
  BY DEF Posted
<1>4. \A k \in Tree : children'[k] = IF k = t THEN new ELSE children[k]
  BY <1>2
<1>5. ASSUME NEW m \in Node \ {t}, parent[m] # t PROVE parent'[m] = parent[m]
  <2>1. m \notin ToSet(new)
    BY <1>2, <1>5
  <2> QED
    BY <1>5, <2>1 DEF Cleared
<1>6. UNCHANGED <<enabled, translation, area, image, segments, pointer_focus, button_down>>
  BY DEF looks
<1> QED
  BY <1>1, <1>3, <1>4, <1>5, <1>6, ChangeAt

(* A step that arranges nodes.                                             *)
LEMMA ArrangeChange ==
  ASSUME SceneIInv, Arrange
  PROVE  \E more, n, posted : Change(more, n, posted)
<1>1. ASSUME NEW t \in Tree, NEW n \in Node, NEW above \in BOOLEAN, NEW sibling,
             tree_place(t, sibling, n, above)
      PROVE  \E more, m, posted : Change(more, m, posted)
  BY <1>1, PlaceChange
<1>2. ASSUME NEW n \in Node, scene_node_unparent(n) PROVE \E more, m, posted : Change(more, m, posted)
  BY <1>2, UnparentChange
<1>3. ASSUME NEW n \in Node, destroy_leaf(n) PROVE \E more, m, posted : Change(more, m, posted)
  BY <1>3, DestroyLeafChange
<1>4. ASSUME NEW n \in Node, destroy_tree(n) PROVE \E more, m, posted : Change(more, m, posted)
  BY <1>4, DestroyTreeChange
<1>5. ASSUME NEW t \in Tree, scene_tree_clear(t) PROVE \E more, m, posted : Change(more, m, posted)
  <2>1. PICK posted : posted = Posted(children, parent, t)
    OBVIOUS
  <2>2. /\ children' = [children EXCEPT ![t] = <<>>] /\ parent' = Cleared(t)
        /\ scene_post_damage(posted) /\ UNCHANGED <<looks, pointer_focus, button_down>>
    BY <1>5, <2>1 DEF scene_tree_clear, scene_node_damage
  <2>3. PICK new : new = <<>>
    OBVIOUS
  <2>4. ToSet(new) = {}
    BY <2>3 DEF ToSet
  <2>5. Cleared(t) = [m \in Node |-> IF m \in ToSet(new) THEN t ELSE Cleared(t)[m]]
    BY <2>4 DEF Cleared
  <2>6. ToSet(new) \subseteq ToSet(children[t]) /\ Posted(children, parent, t) \subseteq posted
    BY <2>1, <2>4
  <2>7. NodesOK(children', parent')
    BY <1>5, ArrangeKeepsNodes
  <2> QED
    BY <2>2, <2>3, <2>5, <2>6, <2>7, ReplaceChange
<1>6. ASSUME NEW t \in Tree, NEW a \in ToSet(children[t]), NEW b \in ToSet(children[t]), a # b,
             scene_tree_replace(t, <<a, b>>)
      PROVE  \E more, m, posted : Change(more, m, posted)
  <2>1. PICK new : new = <<a, b>>
    OBVIOUS
  <2>2. ToSet(new) = {a, b}
    BY <2>1 DEF ToSet
  <2>3. PICK posted : posted = Posted(children, parent, t) \cup Posted(children', parent', t)
    OBVIOUS
  <2>4. /\ children' = [children EXCEPT ![t] = new]
        /\ parent' = [m \in Node |-> IF m \in ToSet(new) THEN t ELSE Cleared(t)[m]]
        /\ scene_post_damage(posted) /\ UNCHANGED <<looks, pointer_focus, button_down>>
    BY <1>6, <2>1, <2>3 DEF scene_tree_replace
  <2>5. ToSet(new) \subseteq ToSet(children[t]) /\ Posted(children, parent, t) \subseteq posted
    BY <2>2, <2>3
  <2>6. NodesOK(children', parent')
    BY <1>6, ArrangeKeepsNodes
  <2> QED
    BY <2>4, <2>5, <2>6, ReplaceChange
<1> QED
  BY <1>1, <1>2, <1>3, <1>4, <1>5, <1>6 DEF Arrange

(* A step that changes how a node looks.                                   *)
LEMMA LooksChange ==
  ASSUME SceneIInv, UNCHANGED <<children, parent>>, NEW n \in Node, scene_node_damage(n),
         \A t \in Tree \ {n} : enabled'[t] = enabled[t] /\ translation'[t] = translation[t],
         \A m \in Leaf \ {n} : /\ m \in Region => area'[m] = area[m]
                               /\ m \in Texture => image'[m] = image[m]
                               /\ m \in Mesh => segments'[m] = segments[m],
         UNCHANGED <<pointer_focus, button_down>>
  PROVE  \E more, m, leaves : Change(more, m, leaves)
<1>1. PICK posted : posted = Posted(children, parent, n)
  OBVIOUS
<1>2. scene_post_damage(posted) /\ (InScene(parent, n) => Below(children, n) \subseteq posted)
  BY <1>1 DEF scene_node_damage, Posted
<1>3. NodesOK(children', parent')
  <2>1. NodesOK(children, parent) /\ children' = children /\ parent' = parent
    BY SceneIInvIs
  <2> QED
    BY <2>1
<1> QED
  BY <1>2, <1>3, ChangeAt

(* A step that changes how nodes look.                                     *)
LEMMA LookChange ==
  ASSUME SceneIInv, Look
  PROVE  \E more, n, posted : Change(more, n, posted)
<1>1. SceneTypeOK /\ Tree \subseteq Node /\ Leaf \subseteq Node
  BY SceneIInvIs, NodesDiffer
<1>2. ASSUME NEW t \in Tree, scene_tree_set_enabled(t) PROVE \E more, m, leaves : Change(more, m, leaves)
  <2>1. /\ enabled' = [enabled EXCEPT ![t] = ~@] /\ scene_node_damage(t)
        /\ UNCHANGED <<children, parent, translation, area, image, segments, pointer_focus, button_down>>
    BY <1>2 DEF scene_tree_set_enabled, nodes
  <2>2. \A u \in Tree \ {t} : enabled'[u] = enabled[u]
    BY <1>1, <2>1 DEF SceneTypeOK
  <2> QED
    BY <1>1, <2>1, <2>2, LooksChange
<1>3. ASSUME NEW t \in Tree, NEW offset \in Offset, scene_tree_set_translation(t, offset)
      PROVE  \E more, m, leaves : Change(more, m, leaves)
  <2>1. /\ translation' = [translation EXCEPT ![t] = offset] /\ scene_node_damage(t)
        /\ UNCHANGED <<children, parent, enabled, area, image, segments, pointer_focus, button_down>>
    BY <1>3 DEF scene_tree_set_translation, nodes
  <2>2. \A u \in Tree \ {t} : translation'[u] = translation[u]
    BY <1>1, <2>1 DEF SceneTypeOK
  <2> QED
    BY <1>1, <2>1, <2>2, LooksChange
<1>4. ASSUME NEW r \in Region, NEW covers \in Area, scene_input_region_set_region(r, covers)
      PROVE  \E more, m, leaves : Change(more, m, leaves)
  <2>1. /\ area' = [area EXCEPT ![r] = covers] /\ scene_node_damage(r)
        /\ UNCHANGED <<children, parent, enabled, translation, image, segments, pointer_focus, button_down>>
    BY <1>4 DEF scene_input_region_set_region, nodes
  <2>2. \A u \in Region \ {r} : area'[u] = area[u]
    BY <1>1, <2>1 DEF SceneTypeOK
  <2>3. r \in Node
    BY <1>1 DEF Leaf
  <2> QED
    BY <2>1, <2>2, <2>3, LooksChange
<1>5. ASSUME NEW x \in Texture, NEW img \in Image \cup {Null}, scene_texture_set_image(x, img)
      PROVE  \E more, m, leaves : Change(more, m, leaves)
  <2>1. /\ image' = [image EXCEPT ![x] = img] /\ scene_node_damage(x)
        /\ UNCHANGED <<children, parent, enabled, translation, area, segments, pointer_focus, button_down>>
    BY <1>5 DEF scene_texture_set_image, nodes
  <2>2. \A u \in Texture \ {x} : image'[u] = image[u]
    BY <1>1, <2>1 DEF SceneTypeOK
  <2>3. x \in Node
    BY <1>1 DEF Leaf
  <2> QED
    BY <2>1, <2>2, <2>3, LooksChange
<1>6. ASSUME NEW m \in Mesh, NEW new \in Segments, scene_mesh_update(m, new)
      PROVE  \E more, k, leaves : Change(more, k, leaves)
  <2>1. /\ segments' = [segments EXCEPT ![m] = new] /\ scene_node_damage(m)
        /\ UNCHANGED <<children, parent, enabled, translation, area, image, pointer_focus, button_down>>
    BY <1>6 DEF scene_mesh_update, nodes
  <2>2. \A u \in Mesh \ {m} : segments'[u] = segments[u]
    BY <1>1, <2>1 DEF SceneTypeOK
  <2>3. m \in Node
    BY <1>1 DEF Leaf
  <2> QED
    BY <2>1, <2>2, <2>3, LooksChange
<1> QED
  BY <1>2, <1>3, <1>4, <1>5, <1>6 DEF Look

-----------------------------------------------------------------------------
(* What a change leaves as it was.                                         *)

(* Where a node is.                                                        *)
PlaceOf(up, moved, n) == IF up[n] = Null THEN 0 ELSE PositionOf(up, moved)[up[n]]

(* What a search for the pointer goes by, and what it ends with.           *)
Hits(up, moved, covers) ==
  [n \in Leaf |-> IF n \in Region /\ Pointer - PlaceOf(up, moved, n) \in covers[n] THEN <<n>> ELSE <<>>]
FrontOf(hit) == IF hit = <<>> THEN Null ELSE Last(hit)

(* What a picture is made of.                                              *)
QuadsOf(up, moved, img, parts) ==
  [n \in Leaf |->
    IF n \in Texture THEN <<[image |-> img[n], at |-> PlaceOf(up, moved, n)]>>
    ELSE IF n \in Mesh
    THEN [k \in DOMAIN parts[n] |-> [image |-> parts[n][k], at |-> PlaceOf(up, moved, n) + k - 1]]
    ELSE <<>>]

(* The pointer's search, before and after a step.                          *)
LEMMA FoundIs ==
  /\ scene_find_input_region_at(Pointer) =
       FrontOf(Walk(children, Shown, Hits(parent, translation, area))[root])
  /\ scene_find_input_region_at(Pointer)' =
       FrontOf(Walk(children', Shown', Hits(parent', translation', area'))[root])
BY DEF scene_find_input_region_at, scene_iterate, Hits, FrontOf, PlaceOf, PositionOf, At, scene_tree_get_position

(* The picture, before and after a step.                                   *)
LEMMA PictureIs ==
  /\ Picture = Walk(children, Shown, QuadsOf(parent, translation, image, segments))[root]
  /\ Picture' = Walk(children', Shown', QuadsOf(parent', translation', image', segments'))[root]
BY DEF Picture, Quads, scene_iterate, QuadsOf, PlaceOf, PositionOf, At, scene_tree_get_position

(* Elsewhere nodes are where they were.                                    *)
LEMMA PlacesSame ==
  ASSUME NEW l, NEW up, NodesOK(l, up), NEW l2, NEW up2, NodesOK(l2, up2), NEW n \in Node,
         NEW moved \in [Tree -> Int], NEW moved2 \in [Tree -> Int], Still(n, up, up2, moved, moved2)
  PROVE  \A m \in Elsewhere(up, n) : PlaceOf(up2, moved2, m) = PlaceOf(up, moved, m)
<1>1. Ascending(up) /\ Ascending(up2)
  BY IntactAscends DEF NodesOK
<1>2. PICK E : E = Elsewhere(up, n)
  OBVIOUS
<1>3. \A m \in E : up[m] # Null => up[m] \in Tree \cap E
  BY <1>2, ElsewhereIs
<1>4. \A m \in E : up2[m] = up[m] /\ (m \in Tree => moved2[m] = moved[m])
  BY <1>2 DEF Still
<1>5. \A t \in E \cap Tree : up2[t] = up[t] /\ moved2[t] = moved[t] /\ (up[t] # Null => up[t] \in E)
  BY <1>3, <1>4
<1>6. \A t \in E \cap Tree : PositionOf(up2, moved2)[t] = PositionOf(up, moved)[t]
  BY <1>1, <1>5, PositionSame
<1> QED
  BY <1>2, <1>3, <1>4, <1>6 DEF PlaceOf

(* Unless an input region was posted, the pointer finds what it found.     *)
LEMMA FoundSame ==
  ASSUME SceneIInv, SceneIInv', NEW more, NEW n, NEW posted, Change(more, n, posted), posted \cap Region = {}
  PROVE  scene_find_input_region_at(Pointer)' = scene_find_input_region_at(Pointer)
<1>1. PICK l2, up2, sh2, moved2, covers2 :
        l2 = children' /\ up2 = parent' /\ sh2 = Shown' /\ moved2 = translation' /\ covers2 = area'
  OBVIOUS
<1>2. /\ NodesOK(children, parent) /\ NodesOK(l2, up2)
      /\ translation \in [Tree -> Int] /\ moved2 \in [Tree -> Int]
  BY <1>1, SceneIInvIs, SceneIInvIsNext, GeometryAssumption DEF SceneTypeOK
<1>3. /\ Moves(children, parent, Shown, l2, sh2, more, n, posted) /\ n \in Node
      /\ Still(n, parent, up2, translation, moved2)
      /\ \A m \in Leaf \ {n} : m \in Region => covers2[m] = area[m]
  BY <1>1 DEF Change, Moves
<1>4. \A m \in Elsewhere(parent, n) : m # n /\ PlaceOf(up2, moved2, m) = PlaceOf(parent, translation, m)
  BY <1>2, <1>3, PlacesSame, ElsewhereIs
<1>5. PICK gives, gives2, A, Q : /\ gives = Hits(parent, translation, area)
                                 /\ gives2 = Hits(up2, moved2, covers2)
                                 /\ A = Region /\ Q = Region
  OBVIOUS
<1>6. gives \in [Leaf -> Seq(A)]
  <2>1. \A m \in Leaf : (IF m \in Region /\ Pointer - PlaceOf(parent, translation, m) \in area[m]
                         THEN <<m>> ELSE <<>>) \in Seq(Region)
    OBVIOUS
  <2> QED
    BY <1>5, <2>1 DEF Hits
<1>7. gives2 \in [Leaf -> Seq(A)]
  <2>1. \A m \in Leaf : (IF m \in Region /\ Pointer - PlaceOf(up2, moved2, m) \in covers2[m]
                         THEN <<m>> ELSE <<>>) \in Seq(Region)
    OBVIOUS
  <2> QED
    BY <1>5, <2>1 DEF Hits
<1>8. \A m \in Leaf \cap Elsewhere(parent, n) : gives[m] = gives2[m]
  <2>1. ASSUME NEW m \in Leaf \cap Elsewhere(parent, n) PROVE gives[m] = gives2[m]
    <3>1. PlaceOf(up2, moved2, m) = PlaceOf(parent, translation, m) /\ (m \in Region => covers2[m] = area[m])
      BY <1>3, <1>4
    <3> QED
      BY <1>5, <3>1 DEF Hits
  <2> QED
    BY <2>1
<1>9. \A m \in Leaf \ Q : gives[m] = <<>> /\ gives2[m] = <<>>
  BY <1>5 DEF Hits
<1>10. GivesOf(A, gives, gives2, parent, n, Q)
  BY <1>6, <1>7, <1>8, <1>9 DEF GivesOf
<1>11. Walk(l2, sh2, gives2)[root] = Walk(children, Shown, gives)[root]
  <2>1. posted \cap Q = {}
    BY <1>5
  <2> QED
    BY <1>3, <1>10, <2>1, MoveKeepsWalk
<1> QED
  BY <1>1, <1>5, <1>11, FoundIs

(* Unless something was posted, the picture is what it was.                *)
LEMMA PictureSame ==
  ASSUME SceneIInv, SceneIInv', NEW more, NEW n, Change(more, n, {})
  PROVE  Picture' = Picture
<1>1. PICK l2, up2, sh2, moved2, img2, parts2 : /\ l2 = children' /\ up2 = parent' /\ sh2 = Shown'
                                                /\ moved2 = translation' /\ img2 = image' /\ parts2 = segments'
  OBVIOUS
<1>2. /\ NodesOK(children, parent) /\ NodesOK(l2, up2)
      /\ translation \in [Tree -> Int] /\ moved2 \in [Tree -> Int]
  BY <1>1, SceneIInvIs, SceneIInvIsNext, GeometryAssumption DEF SceneTypeOK
<1>3. PICK none, Q : none = {} /\ Q = Leaf
  OBVIOUS
<1>4. /\ Moves(children, parent, Shown, l2, sh2, more, n, none) /\ n \in Node
      /\ Still(n, parent, up2, translation, moved2)
      /\ \A m \in Leaf \ {n} : /\ m \in Texture => img2[m] = image[m]
                               /\ m \in Mesh => parts2[m] = segments[m]
  BY <1>1, <1>3 DEF Change, Moves
<1>5. \A m \in Elsewhere(parent, n) : m # n /\ PlaceOf(up2, moved2, m) = PlaceOf(parent, translation, m)
  BY <1>2, <1>4, PlacesSame, ElsewhereIs
<1>6. PICK gives, gives2 : /\ gives = QuadsOf(parent, translation, image, segments)
                           /\ gives2 = QuadsOf(up2, moved2, img2, parts2)
  OBVIOUS
<1>7. PICK S : S = UNION {ToSet(gives[m]) \cup ToSet(gives2[m]) : m \in Leaf}
  OBVIOUS
<1>8. \A m \in Mesh : /\ DOMAIN segments[m] = 1 .. Len(segments[m]) /\ Len(segments[m]) \in Nat
                      /\ DOMAIN parts2[m] = 1 .. Len(parts2[m]) /\ Len(parts2[m]) \in Nat
  <2>1. segments \in [Mesh -> Segments] /\ parts2 \in [Mesh -> Segments]
    BY <1>1, SceneIInvIs, SceneIInvIsNext DEF SceneTypeOK
  <2>2. \A s \in Segments : s \in Seq(Image \cup {Null})
    BY GeometryAssumption
  <2>3. ASSUME NEW s \in Segments PROVE DOMAIN s = 1 .. Len(s) /\ Len(s) \in Nat
    BY <2>2
  <2> QED
    BY <2>1, <2>3
<1>9. ASSUME NEW up, NEW moved, NEW img, NEW parts,
             \A m \in Mesh : DOMAIN parts[m] = 1 .. Len(parts[m]) /\ Len(parts[m]) \in Nat,
             NEW m \in Leaf
      PROVE  /\ DOMAIN QuadsOf(up, moved, img, parts)[m] = 1 .. Len(QuadsOf(up, moved, img, parts)[m])
             /\ Len(QuadsOf(up, moved, img, parts)[m]) \in Nat
             /\ QuadsOf(up, moved, img, parts)[m] =
                  [k \in DOMAIN QuadsOf(up, moved, img, parts)[m] |-> QuadsOf(up, moved, img, parts)[m][k]]
  <2>1. PICK q : q = QuadsOf(up, moved, img, parts)[m]
    OBVIOUS
  <2>2. q = IF m \in Texture THEN <<[image |-> img[m], at |-> PlaceOf(up, moved, m)]>>
            ELSE IF m \in Mesh
            THEN [k \in DOMAIN parts[m] |-> [image |-> parts[m][k], at |-> PlaceOf(up, moved, m) + k - 1]]
            ELSE <<>>
    BY <2>1 DEF QuadsOf
  <2>3. CASE m \in Texture
    <3>1. PICK x : x = [image |-> img[m], at |-> PlaceOf(up, moved, m)]
      OBVIOUS
    <3>2. q = <<x>>
      BY <2>2, <2>3, <3>1
    <3>3. DOMAIN q = 1 .. Len(q) /\ Len(q) \in Nat /\ q = [k \in DOMAIN q |-> q[k]]
      BY <3>2
    <3> QED
      BY <2>1, <3>3
  <2>4. CASE m \notin Texture /\ m \in Mesh
    <3>1. PICK len \in Nat : DOMAIN parts[m] = 1 .. len
      BY <1>9, <2>4
    <3>2. PICK f : f = [k \in 1 .. len |-> [image |-> parts[m][k], at |-> PlaceOf(up, moved, m) + k - 1]]
      OBVIOUS
    <3>3. q = f
      BY <2>2, <2>4, <3>1, <3>2
    <3>4. DOMAIN f = 1 .. len /\ f = [k \in DOMAIN f |-> f[k]]
      BY <3>2
    <3>5. Len(f) = len
      BY <3>1, <3>4, LenProperties
    <3> QED
      BY <2>1, <3>1, <3>3, <3>4, <3>5
  <2>5. CASE m \notin Texture /\ m \notin Mesh
    <3>1. q = <<>>
      BY <2>2, <2>5
    <3>2. DOMAIN q = 1 .. Len(q) /\ Len(q) \in Nat /\ q = [k \in DOMAIN q |-> q[k]]
      BY <3>1
    <3> QED
      BY <2>1, <3>2
  <2> QED
    BY <2>3, <2>4, <2>5
<1>10. ASSUME NEW g, NEW m \in Leaf, ToSet(g[m]) \subseteq S,
              DOMAIN g[m] = 1 .. Len(g[m]), Len(g[m]) \in Nat, g[m] = [k \in DOMAIN g[m] |-> g[m][k]]
       PROVE  g[m] \in Seq(S)
  <2>1. PICK s, len : s = g[m] /\ len = Len(g[m])
    OBVIOUS
  <2>2. \A k \in 1 .. len : s[k] \in S
    BY <1>10, <2>1 DEF ToSet
  <2>3. s \in [1 .. len -> S] /\ len \in Nat
    BY <1>10, <2>1, <2>2
  <2>4. s \in Seq(S)
    BY <2>3
  <2> QED
    BY <2>1, <2>4
<1>11. ASSUME NEW m \in Leaf PROVE gives[m] \in Seq(S) /\ gives2[m] \in Seq(S)
  <2>1. ToSet(gives[m]) \subseteq S /\ ToSet(gives2[m]) \subseteq S
    BY <1>7
  <2>2. /\ DOMAIN gives[m] = 1 .. Len(gives[m]) /\ Len(gives[m]) \in Nat
        /\ gives[m] = [k \in DOMAIN gives[m] |-> gives[m][k]]
    BY <1>6, <1>8, <1>9
  <2>3. /\ DOMAIN gives2[m] = 1 .. Len(gives2[m]) /\ Len(gives2[m]) \in Nat
        /\ gives2[m] = [k \in DOMAIN gives2[m] |-> gives2[m][k]]
    BY <1>6, <1>8, <1>9
  <2> QED
    BY <1>10, <2>1, <2>2, <2>3
<1>12. gives \in [Leaf -> Seq(S)] /\ gives2 \in [Leaf -> Seq(S)]
  <2>1. gives = [m \in Leaf |-> gives[m]] /\ gives2 = [m \in Leaf |-> gives2[m]]
    BY <1>6 DEF QuadsOf
  <2> QED
    BY <1>11, <2>1
<1>13. ASSUME NEW m \in Leaf \cap Elsewhere(parent, n) PROVE gives[m] = gives2[m]
  <2>1. /\ PlaceOf(up2, moved2, m) = PlaceOf(parent, translation, m)
        /\ m \in Texture => img2[m] = image[m]
        /\ m \in Mesh => parts2[m] = segments[m]
    BY <1>4, <1>5
  <2> QED
    BY <1>6, <2>1 DEF QuadsOf
<1>14. GivesOf(S, gives, gives2, parent, n, Q)
  <2>1. \A m \in Leaf \ Q : gives[m] = <<>> /\ gives2[m] = <<>>
    BY <1>3
  <2> QED
    BY <1>12, <1>13, <2>1 DEF GivesOf
<1>15. none \cap Q = {}
  BY <1>3
<1>16. Walk(l2, sh2, gives2)[root] = Walk(children, Shown, gives)[root]
  BY <1>4, <1>14, <1>15, MoveKeepsWalk
<1> QED
  BY <1>1, <1>6, <1>16, PictureIs

(* What a search ends with is nothing, or a region that covers something.  *)
LEMMA FoundCovers ==
  ASSUME NEW l, Forest(l), NEW sh, NEW up, NEW moved, NEW covers
  PROVE  FrontOf(Walk(l, sh, Hits(up, moved, covers))[root]) \in {r \in Region : covers[r] # {}} \cup {Null}
<1>1. PICK A, gives, hit : /\ A = {r \in Region : covers[r] # {}} /\ gives = Hits(up, moved, covers)
                           /\ hit = Walk(l, sh, gives)[root]
  OBVIOUS
<1>2. gives \in [Leaf -> Seq(A)]
  <2>1. ASSUME NEW m \in Leaf
        PROVE  (IF m \in Region /\ Pointer - PlaceOf(up, moved, m) \in covers[m] THEN <<m>> ELSE <<>>) \in Seq(A)
    <3>1. CASE m \in Region /\ Pointer - PlaceOf(up, moved, m) \in covers[m]
      <4>1. m \in A
        BY <1>1, <3>1
      <4>2. <<m>> \in Seq(A)
        BY <4>1
      <4> QED
        BY <3>1, <4>2
    <3>2. CASE ~ (m \in Region /\ Pointer - PlaceOf(up, moved, m) \in covers[m])
      <4>1. <<>> \in Seq(A)
        OBVIOUS
      <4> QED
        BY <3>2, <4>1
    <3> QED
      BY <3>1, <3>2
  <2> QED
    BY <1>1, <2>1 DEF Hits
<1>3. hit \in Seq(A)
  <2>1. Walk(l, sh, gives) \in [Node -> Seq(A)]
    BY <1>2, WalkIsWalk
  <2> QED
    BY <1>1, <2>1, NodesDiffer
<1>4. hit # <<>> => Last(hit) \in A
  <2>1. hit # <<>> => Len(hit) \in 1 .. Len(hit)
    BY <1>3
  <2> QED
    BY <1>3, <2>1 DEF Last
<1> QED
  BY <1>1, <1>4 DEF FrontOf

(* A change of the scene that leaves no listener behind leaves the focus   *)
(* as it was and right.                                                    *)
LEMMA ChangeKeepsHit ==
  ASSUME SceneIInv, SceneIInv', HitIsFresh, NEW more, NEW n, NEW posted, Change(more, n, posted)
  PROVE  HitIsFresh'
<1> SUFFICES ASSUME ~damaged', ~button_down'
             PROVE  pointer_focus' = scene_find_input_region_at(Pointer)'
  BY DEF HitIsFresh
<1>1. /\ damaged' = (damaged \/ posted \cap Region # {}) /\ button_down' = button_down
      /\ pointer_focus' # pointer_focus =>
           n \in Region /\ pointer_focus = n /\ pointer_focus' = Null /\ area'[n] = {}
  BY DEF Change, scene_post_damage
<1>2. ~damaged /\ posted \cap Region = {}
  <2>1. damaged \in BOOLEAN
    BY SceneIInvIs DEF SceneTypeOK
  <2> QED
    BY <1>1, <2>1
<1>3. scene_find_input_region_at(Pointer)' = scene_find_input_region_at(Pointer)
  BY <1>2, FoundSame
<1>4. pointer_focus = scene_find_input_region_at(Pointer)
  BY <1>1, <1>2 DEF HitIsFresh
<1>5. ASSUME pointer_focus' # pointer_focus PROVE FALSE
  <2>1. n \in Region /\ pointer_focus = n /\ area'[n] = {}
    BY <1>1, <1>5
  <2>2. PICK l2, up2, sh2, moved2, covers2 :
          l2 = children' /\ up2 = parent' /\ sh2 = Shown' /\ moved2 = translation' /\ covers2 = area'
    OBVIOUS
  <2>3. Forest(l2)
    BY <2>2, SceneIInvIsNext DEF NodesOK
  <2>4. FrontOf(Walk(l2, sh2, Hits(up2, moved2, covers2))[root]) \in {r \in Region : covers2[r] # {}} \cup {Null}
    BY <2>3, FoundCovers
  <2>5. scene_find_input_region_at(Pointer)' = FrontOf(Walk(l2, sh2, Hits(up2, moved2, covers2))[root])
    BY <2>2, FoundIs
  <2>6. n # Null
    BY <2>1, NodesDiffer DEF Leaf
  <2> QED
    BY <1>3, <1>4, <2>1, <2>2, <2>4, <2>5, <2>6
<1> QED
  BY <1>3, <1>4, <1>5

(* Steps that change nothing in the scene find what was found and show     *)
(* what was shown.                                                         *)
LEMMA SceneUnchanged ==
  ASSUME UNCHANGED <<nodes, looks>>
  PROVE  /\ scene_find_input_region_at(Pointer)' = scene_find_input_region_at(Pointer)
         /\ Picture' = Picture
<1>1. UNCHANGED <<children, parent, enabled, translation, area, image, segments>>
  BY DEF nodes, looks
<1>2. Shown' = Shown
  BY <1>1 DEF Shown
<1>3. Hits(parent', translation', area') = Hits(parent, translation, area)
  BY <1>1
<1>4. QuadsOf(parent', translation', image', segments') = QuadsOf(parent, translation, image, segments)
  BY <1>1
<1> QED
  BY <1>1, <1>2, <1>3, <1>4, FoundIs, PictureIs

(* Every step.                                                             *)
LEMMA SceneStepKeepsHit == SceneIInv /\ SceneIInv' /\ HitIsFresh /\ [SceneNext]_scene_vars => HitIsFresh'
<1> SUFFICES ASSUME SceneIInv, SceneIInv', HitIsFresh, [SceneNext]_scene_vars PROVE HitIsFresh'
  OBVIOUS
<1>1. CASE Arrange \/ Look
  BY <1>1, ArrangeChange, LookChange, ChangeKeepsHit
<1>2. CASE handle_input_region_damage
  <2>1. scene_find_input_region_at(Pointer)' = scene_find_input_region_at(Pointer)
    BY <1>2, SceneUnchanged DEF handle_input_region_damage
  <2>2. /\ button_down' = button_down
        /\ pointer_focus' = IF button_down THEN pointer_focus ELSE scene_find_input_region_at(Pointer)
    BY <1>2 DEF handle_input_region_damage, update_pointer_focus
  <2> QED
    BY <2>1, <2>2 DEF HitIsFresh
<1>3. CASE seat_pointer_button
  <2>1. scene_find_input_region_at(Pointer)' = scene_find_input_region_at(Pointer)
    BY <1>3, SceneUnchanged DEF seat_pointer_button
  <2>2. button_down' = ~button_down
    BY <1>3 DEF seat_pointer_button
  <2>3. button_down => pointer_focus' = scene_find_input_region_at(Pointer)
    BY <1>3 DEF seat_pointer_button, update_pointer_focus
  <2> QED
    BY <2>1, <2>2, <2>3 DEF HitIsFresh
<1>4. CASE output_frame \/ UNCHANGED scene_vars
  <2>1. UNCHANGED <<nodes, looks, pointer_focus, button_down, damaged>>
    BY <1>4 DEF output_frame, scene_vars
  <2>2. scene_find_input_region_at(Pointer)' = scene_find_input_region_at(Pointer)
    BY <2>1, SceneUnchanged
  <2> QED
    BY <2>1, <2>2 DEF HitIsFresh
<1> QED
  BY <1>1, <1>2, <1>3, <1>4 DEF SceneNext

(* An empty scene has nothing to find.                                     *)
LEMMA SceneInitHit == SceneInit => HitIsFresh
<1> SUFFICES ASSUME SceneInit PROVE pointer_focus = scene_find_input_region_at(Pointer)
  BY DEF HitIsFresh
<1>1. NodesOK(children, parent)
  BY SceneInitIInv, SceneIInvIs
<1>2. \A r \in Region : area[r] = {}
  BY DEF SceneInit
<1>3. PICK found : found = FrontOf(Walk(children, Shown, Hits(parent, translation, area))[root])
  OBVIOUS
<1>4. found \in {r \in Region : area[r] # {}} \cup {Null}
  BY <1>1, <1>3, FoundCovers DEF NodesOK
<1>5. found = Null
  BY <1>2, <1>4
<1> QED
  BY <1>3, <1>5, FoundIs DEF SceneInit

(* handle_input_region_damage: without an idle listener and with no button *)
(* down, the pointer's focus is the region on top under it.                *)
THEOREM HitStaysFresh == SceneSpec => []HitIsFresh
<1>1. SceneSpec => SceneInit /\ [][SceneNext]_scene_vars
  BY PTL DEF SceneSpec
<1> QED
  BY <1>1, SceneInvariance, SceneInitHit, SceneStepKeepsHit, PTL

(* A step that changes the picture asks for a frame.                       *)
LEMMA SceneStepRequests ==
  SceneIInv /\ SceneIInv' /\ [SceneNext]_scene_vars => [requested' \/ Picture' = Picture]_<<nodes, looks>>
<1> SUFFICES ASSUME SceneIInv, SceneIInv', [SceneNext]_scene_vars, ~requested' PROVE Picture' = Picture
  OBVIOUS
<1>1. ASSUME NEW more, NEW n, NEW posted, Change(more, n, posted) PROVE Picture' = Picture
  <2>1. posted = {}
    BY <1>1 DEF Change, scene_post_damage
  <2>2. Change(more, n, {})
    BY <1>1, <2>1
  <2> QED
    BY <2>2, PictureSame
<1>2. CASE Arrange \/ Look
  BY <1>1, <1>2, ArrangeChange, LookChange
<1>3. CASE ~ (Arrange \/ Look)
  <2>1. UNCHANGED <<nodes, looks>>
    BY <1>3 DEF SceneNext, handle_input_region_damage, seat_pointer_button, output_frame, scene_vars
  <2> QED
    BY <2>1, SceneUnchanged
<1> QED
  BY <1>2, <1>3

(* scene_node_damage: no change of what is shown goes without a request    *)
(* for a frame.                                                            *)
THEOREM ChangesAreRequested == SceneSpec => ChangeIsRequested
<1>1. SceneSpec => SceneInit /\ [][SceneNext]_scene_vars
  BY PTL DEF SceneSpec
<1> QED
  BY <1>1, SceneInvariance, SceneStepRequests, PTL DEF ChangeIsRequested

-----------------------------------------------------------------------------
(* Lists that are put together.                                            *)

(* Joining lists is associative.                                           *)
LEMMA JoinJoin ==
  ASSUME NEW A, NEW a \in Seq(A), NEW b \in Seq(A), NEW c \in Seq(A)
  PROVE  (a \o b) \o c = a \o (b \o c) /\ a \o <<>> = a /\ <<>> \o a = a /\ a \o b \in Seq(A)
OBVIOUS

(* So is joining and adding one element.                                   *)
LEMMA JoinAppend ==
  ASSUME NEW A, NEW a \in Seq(A), NEW b \in Seq(A), NEW x \in A
  PROVE  a \o Append(b, x) = Append(a \o b, x) /\ a \o b \in Seq(A)
OBVIOUS

(* What joined lists give is joined.                                       *)
LEMMA FlattenJoin ==
  ASSUME NEW A, NEW B, NEW w, NEW l, Giving(A, B, w, l)
  PROVE  \A m \in Seq(B) : FlattenSeq(Each(w, l \o m)) = FlattenSeq(Each(w, l)) \o FlattenSeq(Each(w, m))
<1> DEFINE P == {m \in Seq(B) : /\ FlattenSeq(Each(w, l \o m)) = FlattenSeq(Each(w, l)) \o FlattenSeq(Each(w, m))
                                /\ FlattenSeq(Each(w, l)) \in Seq(A) /\ FlattenSeq(Each(w, m)) \in Seq(A)}
<1>1. \A m \in Seq(B) : Giving(A, B, w, m)
  BY DEF Giving
<1>2. ASSUME NEW m \in Seq(B) PROVE FlattenSeq(Each(w, m)) \in Seq(A)
  <2>1. Each(w, m) \in ListsOver(A)
    <3>1. \A x \in ToSet(m) : w[x] \in Seq(A)
      BY DEF Giving, ToSet
    <3> QED
      BY <3>1, EachType
  <2> QED
    BY <2>1, FlattenType
<1>3. l \in Seq(B)
  BY DEF Giving
<1>4. <<>> \in P
  <2>1. l \o <<>> = l /\ <<>> \in Seq(B)
    BY <1>3
  <2>2. FlattenSeq(Each(w, l)) \o <<>> = FlattenSeq(Each(w, l))
    BY <1>2, <1>3, JoinJoin
  <2> QED
    BY <1>2, <1>3, <2>1, <2>2, EachNone
<1>5. ASSUME NEW m \in Seq(B), m \in P, NEW x \in B PROVE Append(m, x) \in P
  <2>0. Append(m, x) \in Seq(B)
    OBVIOUS
  <2>1. l \o Append(m, x) = Append(l \o m, x) /\ l \o m \in Seq(B) /\ Append(m, x) \in Seq(B)
    <3>1. l \o m \in Seq(B)
      BY <1>3
    <3>2. l \o Append(m, x) = Append(l \o m, x)
      BY <1>3, JoinAppend
    <3> QED
      BY <2>0, <3>1, <3>2
  <2>2. FlattenSeq(Each(w, Append(l \o m, x))) = FlattenSeq(Each(w, l \o m)) \o w[x]
    <3>1. PICK lm : lm = l \o m
      OBVIOUS
    <3>2. Giving(A, B, w, lm)
      BY <1>1, <2>1, <3>1
    <3>3. FlattenSeq(Each(w, Append(lm, x))) = FlattenSeq(Each(w, lm)) \o w[x]
      BY <3>2, EachMoreOf
    <3> QED
      BY <3>1, <3>3
  <2>3. FlattenSeq(Each(w, Append(m, x))) = FlattenSeq(Each(w, m)) \o w[x]
    BY <1>1, EachMoreOf
  <2>4. w[x] \in Seq(A)
    BY DEF Giving
  <2>5. PICK p, q, r : p = FlattenSeq(Each(w, l)) /\ q = FlattenSeq(Each(w, m)) /\ r = w[x]
    OBVIOUS
  <2>6. p \in Seq(A) /\ q \in Seq(A) /\ r \in Seq(A)
    BY <1>5, <2>4, <2>5
  <2>7. (p \o q) \o r = p \o (q \o r)
    BY <2>6, JoinJoin
  <2>8. FlattenSeq(Each(w, l \o m)) = p \o q
    BY <1>5, <2>5
  <2>9. FlattenSeq(Each(w, Append(l \o m, x))) = p \o FlattenSeq(Each(w, Append(m, x)))
    BY <2>2, <2>3, <2>5, <2>7, <2>8
  <2> QED
    BY <1>2, <1>3, <2>1, <2>5, <2>9
<1> HIDE DEF P
<1>6. Seq(B) \subseteq P
  BY <1>4, <1>5, SequenceInduction
<1> QED
  BY <1>6 DEF P

(* Two functions, of which one gives lists.                                *)
Singles(A, B, w, f) == w \in [B -> Seq(A)] /\ f \in [B -> A]

(* Lists of one element each, joined.                                      *)
LEMMA FlattenOnes ==
  ASSUME NEW A, NEW B, NEW w, NEW f, Singles(A, B, w, f)
  PROVE  \A l \in Seq(B) : (\A b \in ToSet(l) : w[b] = <<f[b]>>) => FlattenSeq(Each(w, l)) = Each(f, l)
<1> USE DEF Singles
<1> DEFINE P == {l \in Seq(B) : (\A b \in ToSet(l) : w[b] = <<f[b]>>) => FlattenSeq(Each(w, l)) = Each(f, l)}
<1>1. <<>> \in P
  <2>1. Each(f, <<>>) = <<>>
    BY DEF Each
  <2> QED
    BY <2>1, EachNone
<1>2. ASSUME NEW l \in Seq(B), l \in P, NEW x \in B PROVE Append(l, x) \in P
  <2>1. PICK t : t = Append(l, x)
    OBVIOUS
  <2>2. t \in Seq(B) /\ ToSet(t) = ToSet(l) \cup {x}
    BY <2>1, AppendSet
  <2>3. ASSUME \A b \in ToSet(t) : w[b] = <<f[b]>> PROVE FlattenSeq(Each(w, t)) = Each(f, t)
    <3>1. FlattenSeq(Each(w, l)) = Each(f, l)
      BY <1>2, <2>2, <2>3
    <3>2. FlattenSeq(Each(w, t)) = FlattenSeq(Each(w, l)) \o w[x]
      <4>1. Giving(A, B, w, l)
        BY DEF Giving
      <4> QED
        BY <2>1, <4>1, EachMoreOf
    <3>3. w[x] = <<f[x]>>
      BY <2>2, <2>3
    <3>4. Each(f, t) = Each(f, l) \o <<f[x]>>
      <4>1. /\ Len(l) \in Nat /\ DOMAIN l = 1 .. Len(l) /\ DOMAIN t = 1 .. Len(l) + 1
            /\ t[Len(l) + 1] = x /\ \A k \in 1 .. Len(l) : t[k] = l[k] /\ l[k] \in B
        BY <2>1
      <4>2. PICK e, y : e = Each(f, l) /\ y = f[x]
        OBVIOUS
      <4>3. e \in Seq(A) /\ Len(e) = Len(l) /\ (\A k \in 1 .. Len(l) : e[k] = f[l[k]]) /\ y \in A
        <5>1. e = [k \in 1 .. Len(l) |-> f[l[k]]]
          BY <4>1, <4>2 DEF Each
        <5>2. \A k \in 1 .. Len(l) : f[l[k]] \in A
          BY <4>1
        <5> QED
          BY <4>1, <4>2, <5>1, <5>2
      <4>4. PICK z : z = e \o <<y>>
        OBVIOUS
      <4>5. z = [k \in 1 .. Len(l) + 1 |-> IF k = Len(l) + 1 THEN y ELSE e[k]]
        BY <4>1, <4>3, <4>4
      <4>6. Each(f, t) = [k \in 1 .. Len(l) + 1 |-> f[t[k]]]
        BY <4>1 DEF Each
      <4>7. ASSUME NEW k \in 1 .. Len(l) + 1 PROVE f[t[k]] = IF k = Len(l) + 1 THEN y ELSE e[k]
        <5>1. k # Len(l) + 1 => k \in 1 .. Len(l)
          BY <4>1
        <5> QED
          BY <4>1, <4>2, <4>3, <5>1
      <4> QED
        BY <4>2, <4>4, <4>5, <4>6, <4>7
    <3> QED
      BY <3>1, <3>2, <3>3, <3>4
  <2> QED
    BY <2>1, <2>2, <2>3
<1> HIDE DEF P
<1>3. Seq(B) \subseteq P
  BY <1>1, <1>2, SequenceInduction
<1> QED
  BY <1>3 DEF P

(* What nodes give: q and w a list over A, v a list of nodes.              *)
Twice(A, q, v, w) == q \in [Node -> Seq(A)] /\ v \in [Node -> Seq(Node)] /\ w \in [Node -> Seq(A)]

(* What comes of lists of nodes, one after the other.                      *)
LEMMA FlattenFlat ==
  ASSUME NEW A, NEW q, NEW v, NEW w, Twice(A, q, v, w)
  PROVE  \A l \in Seq(Node) : (\A n \in ToSet(l) : w[n] = FlattenSeq(Each(q, v[n]))) =>
            FlattenSeq(Each(w, l)) = FlattenSeq(Each(q, FlattenSeq(Each(v, l))))
<1> USE DEF Twice
<1> DEFINE P == {l \in Seq(Node) : (\A n \in ToSet(l) : w[n] = FlattenSeq(Each(q, v[n]))) =>
                    FlattenSeq(Each(w, l)) = FlattenSeq(Each(q, FlattenSeq(Each(v, l))))}
<1>1. <<>> \in P
  <2>1. FlattenSeq(Each(v, <<>>)) = <<>> /\ FlattenSeq(Each(w, <<>>)) = <<>> /\ FlattenSeq(Each(q, <<>>)) = <<>>
    BY EachNone
  <2> QED
    BY <2>1
<1>2. ASSUME NEW l \in Seq(Node), l \in P, NEW n \in Node PROVE Append(l, n) \in P
  <2>1. PICK t : t = Append(l, n)
    OBVIOUS
  <2>2. t \in Seq(Node) /\ ToSet(t) = ToSet(l) \cup {n}
    BY <2>1, AppendSet
  <2>3. ASSUME \A m \in ToSet(t) : w[m] = FlattenSeq(Each(q, v[m]))
        PROVE  FlattenSeq(Each(w, t)) = FlattenSeq(Each(q, FlattenSeq(Each(v, t))))
    <3>1. FlattenSeq(Each(w, l)) = FlattenSeq(Each(q, FlattenSeq(Each(v, l)))) /\ w[n] = FlattenSeq(Each(q, v[n]))
      BY <1>2, <2>2, <2>3
    <3>2. FlattenSeq(Each(w, t)) = FlattenSeq(Each(w, l)) \o w[n]
      BY <2>1, EachMore
    <3>3. PICK a, b : a = FlattenSeq(Each(v, l)) /\ b = v[n]
      OBVIOUS
    <3>4. a \in Seq(Node) /\ b \in Seq(Node) /\ FlattenSeq(Each(v, t)) = a \o b
      <4>1. PICK C : C = Node
        OBVIOUS
      <4>2. Giving(C, C, v, l) /\ n \in C
        BY <4>1 DEF Giving
      <4>3. FlattenSeq(Each(v, l)) \in Seq(C) /\ FlattenSeq(Each(v, Append(l, n))) = FlattenSeq(Each(v, l)) \o v[n]
        BY <4>2, EachMoreOf
      <4> QED
        BY <2>1, <3>3, <4>1, <4>3
    <3>5. FlattenSeq(Each(q, a \o b)) = FlattenSeq(Each(q, a)) \o FlattenSeq(Each(q, b))
      <4>1. Giving(A, Node, q, a)
        BY <3>4 DEF Giving
      <4> QED
        BY <3>4, <4>1, FlattenJoin
    <3> QED
      BY <3>1, <3>2, <3>3, <3>4, <3>5
  <2> QED
    BY <2>1, <2>2, <2>3
<1> HIDE DEF P
<1>3. Seq(Node) \subseteq P
  BY <1>1, <1>2, SequenceInduction
<1> QED
  BY <1>3 DEF P

(* What nodes give, and leaves.                                            *)
Given(A, lists, q, gives) ==
  Forest(lists) /\ q \in [Node -> Seq(A)] /\ gives = [n \in Leaf |-> q[n]]

(* What leaves give on a walk is what those that a walk visits give.       *)
LEMMA WalkOfWalk ==
  ASSUME NEW A, NEW lists, NEW shown, NEW q, NEW gives, Given(A, lists, q, gives)
  PROVE  \A n \in Node : /\ Walk(lists, shown, [m \in Leaf |-> <<m>>])[n] \in Seq(Leaf)
                         /\ Walk(lists, shown, gives)[n] =
                              FlattenSeq(Each(q, Walk(lists, shown, [m \in Leaf |-> <<m>>])[n]))
<1>0. Forest(lists) /\ q \in [Node -> Seq(A)] /\ gives = [n \in Leaf |-> q[n]]
  BY DEF Given
<1> USE <1>0
<1>1. PICK ones, v, w : /\ ones = [m \in Leaf |-> <<m>>] /\ v = Walk(lists, shown, ones)
                        /\ w = Walk(lists, shown, gives)
  OBVIOUS
<1>2. ones \in [Leaf -> Seq(Leaf)] /\ gives \in [Leaf -> Seq(A)] /\ Leaf \subseteq Node
  BY <1>1, NodesDiffer
<1>3. v \in [Node -> Seq(Leaf)] /\ \A n \in Node : v[n] = Visit(v, lists, shown, ones, n)
  <2>1. PICK C : C = Leaf
    OBVIOUS
  <2>2. ones \in [Leaf -> Seq(C)]
    BY <1>2, <2>1
  <2>3. Walk(lists, shown, ones) \in [Node -> Seq(C)]
        /\ \A n \in Node : Walk(lists, shown, ones)[n] = Visit(Walk(lists, shown, ones), lists, shown, ones, n)
    BY <2>2, WalkIsWalk
  <2> QED
    BY <1>1, <2>1, <2>3
<1>4. w \in [Node -> Seq(A)] /\ \A n \in Node : w[n] = Visit(w, lists, shown, gives, n)
  BY <1>1, <1>2, WalkIsWalk
<1>5. v \in [Node -> Seq(Node)]
  <2>1. \A s \in Seq(Leaf) : s \in Seq(Node)
    BY <1>2
  <2> QED
    BY <1>3, <2>1
<1> DEFINE S == {n \in Node : w[n] = FlattenSeq(Each(q, v[n]))}
<1>6. ASSUME NEW n \in Node, n \in Tree => ToSet(lists[n]) \subseteq S
      PROVE  w[n] = FlattenSeq(Each(q, v[n]))
  <2>1. v[n] = Visit(v, lists, shown, ones, n) /\ w[n] = Visit(w, lists, shown, gives, n)
    BY <1>3, <1>4
  <2>2. CASE n \in Leaf
    <3>1. v[n] = <<n>> /\ w[n] = q[n] /\ q[n] \in Seq(A)
      BY <1>1, <2>1, <2>2 DEF Visit
    <3>2. FlattenSeq(Each(q, <<n>>)) = q[n]
      <4>1. <<>> \in Seq(Node) /\ Append(<<>>, n) = <<n>>
        OBVIOUS
      <4>2. FlattenSeq(Each(q, Append(<<>>, n))) = FlattenSeq(Each(q, <<>>)) \o q[n]
        BY <4>1, EachMore
      <4>3. <<>> \o q[n] = q[n]
        BY <3>1
      <4> QED
        BY <4>1, <4>2, <4>3, EachNone
    <3> QED
      BY <3>1, <3>2
  <2>3. CASE n \notin Leaf /\ n \notin shown
    <3>1. v[n] = <<>> /\ w[n] = <<>>
      BY <2>1, <2>3 DEF Visit
    <3> QED
      BY <3>1, EachNone
  <2>4. CASE n \notin Leaf /\ n \in shown
    <3>1. n \in Tree
      BY <2>4, NodesDiffer
    <3>2. v[n] = FlattenSeq(Each(v, lists[n])) /\ w[n] = FlattenSeq(Each(w, lists[n]))
      BY <2>1, <2>4 DEF Visit
    <3>3. lists[n] \in Seq(Node) /\ \A m \in ToSet(lists[n]) : w[m] = FlattenSeq(Each(q, v[m]))
      BY <1>6, <3>1 DEF Forest
    <3>4. FlattenSeq(Each(w, lists[n])) = FlattenSeq(Each(q, FlattenSeq(Each(v, lists[n]))))
      <4>1. Twice(A, q, v, w)
        BY <1>4, <1>5 DEF Twice
      <4> QED
        BY <3>3, <4>1, FlattenFlat
    <3> QED
      BY <3>2, <3>4
  <2> QED
    BY <2>2, <2>3, <2>4
<1>7. \A n \in Node : (n \in Tree => ToSet(lists[n]) \subseteq S) => n \in S
  BY <1>6
<1>8. Node \subseteq S
  <2> HIDE DEF S
  <2> QED
    BY <1>7, RankInduction
<1> QED
  BY <1>1, <1>3, <1>8

-----------------------------------------------------------------------------
(* Frames.                                                                 *)

(* What a quad shows, and the draws there may be.                          *)
Quad == [image : Image \cup {Null}, at : Int]
Draw == [vertex_offset : Int, first_index : Nat, index_count : Nat, image : Image \cup {Null}, position : Int]
Frame == [vertices : Seq(Int), indices : Seq(Int), draws : Seq(Draw)]

(* A draw reads indices and vertices that are there.                       *)
Reads(f, d) ==
  /\ d \in Draw /\ d.first_index + d.index_count <= Len(f.indices)
  /\ \A k \in 1 .. d.index_count : VertexOf(f, d, k) \in 1 .. Len(f.vertices)

(* Every draw does, and the last one reads the last indices.               *)
FrameOK(f) ==
  /\ f \in Frame
  /\ \A d \in ToSet(f.draws) : Reads(f, d)
  /\ f.draws # <<>> => Last(f.draws).first_index + Last(f.draws).index_count = Len(f.indices)

(* What a draw shows.                                                      *)
Shows(f, d) ==
  [k \in 1 .. d.index_count |-> [image |-> d.image, at |-> d.position + f.vertices[VertexOf(f, d, k)]]]

(* A list that begins with another.                                        *)
Longer(s, t) == Len(s) <= Len(t) /\ \A k \in 1 .. Len(s) : t[k] = s[k]

(* The parts of frames.                                                    *)
LEMMA FrameParts ==
  ASSUME NEW f \in Frame
  PROVE  /\ f.vertices \in Seq(Int) /\ f.indices \in Seq(Int) /\ f.draws \in Seq(Draw)
         /\ Len(f.vertices) \in Nat /\ Len(f.indices) \in Nat /\ Len(f.draws) \in Nat
         /\ DOMAIN f.draws = 1 .. Len(f.draws)
<1>1. f.vertices \in Seq(Int) /\ f.indices \in Seq(Int) /\ f.draws \in Seq(Draw)
  BY DEF Frame
<1>2. \A s \in Seq(Int) : Len(s) \in Nat
  OBVIOUS
<1>3. \A s \in Seq(Draw) : Len(s) \in Nat /\ DOMAIN s = 1 .. Len(s)
  OBVIOUS
<1> QED
  BY <1>1, <1>2, <1>3

(* The parts of draws.                                                     *)
LEMMA DrawParts ==
  ASSUME NEW d \in Draw
  PROVE  /\ d.vertex_offset \in Int /\ d.first_index \in Nat /\ d.index_count \in Nat
         /\ d.image \in Image \cup {Null} /\ d.position \in Int
BY DEF Draw

(* Which index a draw reads.                                               *)
LEMMA ReadsIndex ==
  ASSUME NEW f \in Frame, NEW d, Reads(f, d), NEW k \in 1 .. d.index_count
  PROVE  /\ d.first_index + k \in 1 .. Len(f.indices) /\ f.indices[d.first_index + k] \in Int
         /\ VertexOf(f, d, k) \in 1 .. Len(f.vertices) /\ f.vertices[VertexOf(f, d, k)] \in Int
<1>1. d.first_index \in Nat /\ d.index_count \in Nat /\ Len(f.indices) \in Nat
      /\ d.first_index + d.index_count <= Len(f.indices)
  BY FrameParts, DrawParts DEF Reads
<1>2. PICK a, n, m : a = d.first_index /\ n = d.index_count /\ m = Len(f.indices)
  OBVIOUS
<1>3. a + k \in 1 .. m
  BY <1>1, <1>2
<1>4. f.indices[d.first_index + k] \in Int
  <2>1. PICK s : s = f.indices
    OBVIOUS
  <2>2. s \in Seq(Int) /\ m = Len(s)
    BY <1>2, <2>1, FrameParts
  <2>3. s[a + k] \in Int
    BY <1>3, <2>2
  <2> QED
    BY <1>2, <2>1, <2>3
<1>5. VertexOf(f, d, k) \in 1 .. Len(f.vertices)
  BY DEF Reads
<1>6. f.vertices[VertexOf(f, d, k)] \in Int
  <2>1. PICK s, i : s = f.vertices /\ i = VertexOf(f, d, k)
    OBVIOUS
  <2>2. s \in Seq(Int) /\ i \in 1 .. Len(s)
    BY <1>5, <2>1, FrameParts
  <2>3. s[i] \in Int
    BY <2>2
  <2> QED
    BY <2>1, <2>3
<1> QED
  BY <1>2, <1>3, <1>4, <1>5, <1>6

(* A draw shows quads.                                                     *)
LEMMA ShowsType ==
  ASSUME NEW f \in Frame, NEW d, Reads(f, d)
  PROVE  Shows(f, d) \in Seq(Quad) /\ Len(Shows(f, d)) = d.index_count
<1>1. d \in Draw /\ d.index_count \in Nat /\ d.position \in Int /\ d.image \in Image \cup {Null}
  BY DrawParts DEF Reads
<1>2. ASSUME NEW k \in 1 .. d.index_count
      PROVE  [image |-> d.image, at |-> d.position + f.vertices[VertexOf(f, d, k)]] \in Quad
  <2>1. PICK v : v = f.vertices[VertexOf(f, d, k)]
    OBVIOUS
  <2>2. v \in Int
    BY <2>1, ReadsIndex
  <2>3. d.position + v \in Int
    BY <1>1, <2>2
  <2> QED
    BY <1>1, <2>1, <2>3 DEF Quad
<1>3. PICK n, s : n = d.index_count /\ s = Shows(f, d)
  OBVIOUS
<1>4. n \in Nat /\ s \in [1 .. n -> Quad]
  BY <1>1, <1>2, <1>3 DEF Shows
<1>5. s \in Seq(Quad) /\ Len(s) = n
  BY <1>4
<1> QED
  BY <1>3, <1>5

(* More vertices and indices change nothing of what a draw shows.          *)
LEMMA ShowsSame ==
  ASSUME NEW f \in Frame, NEW g \in Frame, Longer(f.vertices, g.vertices), Longer(f.indices, g.indices),
         NEW d, Reads(f, d)
  PROVE  Reads(g, d) /\ Shows(g, d) = Shows(f, d)
<1>1. /\ d \in Draw /\ d.first_index \in Nat /\ d.index_count \in Nat
      /\ d.first_index + d.index_count <= Len(f.indices)
  BY DrawParts DEF Reads
<1>2. /\ Len(f.vertices) \in Nat /\ Len(f.indices) \in Nat /\ Len(g.vertices) \in Nat /\ Len(g.indices) \in Nat
      /\ Len(f.vertices) <= Len(g.vertices) /\ Len(f.indices) <= Len(g.indices)
  BY FrameParts DEF Longer
<1>3. ASSUME NEW k \in 1 .. d.index_count
      PROVE  /\ VertexOf(g, d, k) = VertexOf(f, d, k)
             /\ VertexOf(g, d, k) \in 1 .. Len(g.vertices)
             /\ g.vertices[VertexOf(g, d, k)] = f.vertices[VertexOf(f, d, k)]
  <2>1. d.first_index + k \in 1 .. Len(f.indices) /\ VertexOf(f, d, k) \in 1 .. Len(f.vertices)
    BY ReadsIndex
  <2>2. g.indices[d.first_index + k] = f.indices[d.first_index + k]
    BY <2>1 DEF Longer
  <2>3. VertexOf(g, d, k) = VertexOf(f, d, k)
    BY <2>2 DEF VertexOf
  <2>4. PICK i : i = VertexOf(f, d, k)
    OBVIOUS
  <2>5. i \in 1 .. Len(f.vertices) /\ i \in 1 .. Len(g.vertices)
    BY <1>2, <2>1, <2>4
  <2>6. g.vertices[i] = f.vertices[i]
    BY <2>5 DEF Longer
  <2> QED
    BY <2>3, <2>4, <2>5, <2>6
<1>4. d.first_index + d.index_count <= Len(g.indices)
  BY <1>1, <1>2
<1>5. Reads(g, d)
  BY <1>1, <1>3, <1>4 DEF Reads
<1>6. Shows(g, d) = Shows(f, d)
  BY <1>3 DEF Shows
<1> QED
  BY <1>5, <1>6

(* What the GPU draws is what the draws show, one after the other.         *)
LEMMA DrawnIs ==
  ASSUME NEW f \in Frame, NEW B, ToSet(f.draws) \subseteq B
  PROVE  Drawn(f) = FlattenSeq(Each([d \in B |-> Shows(f, d)], f.draws))
<1>1. \A k \in DOMAIN f.draws : f.draws[k] \in B
  BY DEF ToSet
<1>2. PICK w : w = [d \in B |-> Shows(f, d)]
  OBVIOUS
<1>3. \A k \in DOMAIN f.draws : w[f.draws[k]] = Shows(f, f.draws[k])
  BY <1>1, <1>2
<1>4. Each(w, f.draws) = [k \in DOMAIN f.draws |-> Shows(f, f.draws[k])]
  BY <1>3 DEF Each
<1>5. Drawn(f) = FlattenSeq([k \in DOMAIN f.draws |-> Shows(f, f.draws[k])])
  BY DEF Drawn, Shows
<1> QED
  BY <1>2, <1>4, <1>5

(* Draws that a frame can make.                                            *)
Drawable(f) == {d \in Draw : Reads(f, d)}
ShowsOf(f) == [d \in Drawable(f) |-> Shows(f, d)]

(* A frame with more vertices and indices shows with the draws of a frame  *)
(* what that frame shows.                                                  *)
LEMMA DrawnLater ==
  ASSUME NEW f, FrameOK(f), NEW g \in Frame, Longer(f.vertices, g.vertices), Longer(f.indices, g.indices)
  PROVE  /\ Giving(Quad, Drawable(g), ShowsOf(g), f.draws) /\ ToSet(f.draws) \subseteq Drawable(g)
         /\ Drawn(f) = FlattenSeq(Each(ShowsOf(g), f.draws)) /\ Drawn(f) \in Seq(Quad)
<1>1. f \in Frame /\ \A d \in ToSet(f.draws) : Reads(f, d)
  BY DEF FrameOK
<1>2. ASSUME NEW d \in ToSet(f.draws) PROVE d \in Drawable(g) /\ Shows(g, d) = Shows(f, d)
  <2>1. Reads(f, d) /\ Reads(g, d) /\ Shows(g, d) = Shows(f, d)
    BY <1>1, ShowsSame
  <2> QED
    BY <2>1 DEF Drawable, Reads
<1>3. ShowsOf(g) \in [Drawable(g) -> Seq(Quad)]
  <2>1. ASSUME NEW d \in Drawable(g) PROVE Shows(g, d) \in Seq(Quad)
    <3>1. Reads(g, d)
      BY DEF Drawable
    <3> QED
      BY <3>1, ShowsType
  <2> QED
    BY <2>1 DEF ShowsOf
<1>4. f.draws \in Seq(Drawable(g))
  <2>1. f.draws \in Seq(Draw)
    BY <1>1, FrameParts
  <2>2. PICK s, B : s = f.draws /\ B = Drawable(g)
    OBVIOUS
  <2>3. s \in Seq(Draw) /\ \A k \in DOMAIN s : s[k] \in B
    BY <1>2, <2>1, <2>2 DEF ToSet
  <2>4. s \in Seq(B)
    BY <2>3
  <2> QED
    BY <2>2, <2>4
<1>5. Drawn(f) = FlattenSeq(Each(ShowsOf(g), f.draws))
  <2>1. Drawn(f) = FlattenSeq(Each([d \in Drawable(g) |-> Shows(f, d)], f.draws))
    BY <1>1, <1>2, DrawnIs
  <2>2. ASSUME NEW k \in DOMAIN f.draws
        PROVE  [d \in Drawable(g) |-> Shows(f, d)][f.draws[k]] = ShowsOf(g)[f.draws[k]]
    <3>1. f.draws[k] \in ToSet(f.draws)
      BY DEF ToSet
    <3> QED
      BY <1>2, <3>1 DEF ShowsOf
  <2>3. Each([d \in Drawable(g) |-> Shows(f, d)], f.draws) = Each(ShowsOf(g), f.draws)
    BY <2>2 DEF Each
  <2> QED
    BY <2>1, <2>3
<1>6. Giving(Quad, Drawable(g), ShowsOf(g), f.draws)
  BY <1>3, <1>4 DEF Giving
<1>7. Drawn(f) \in Seq(Quad)
  <2>1. \A d \in ToSet(f.draws) : ShowsOf(g)[d] \in Seq(Quad)
    BY <1>2, <1>3
  <2>2. Each(ShowsOf(g), f.draws) \in ListsOver(Quad)
    BY <1>4, <2>1, EachType
  <2> QED
    BY <1>5, <2>2, FlattenType
<1> QED
  BY <1>2, <1>5, <1>6, <1>7

(* A list begins with itself and its part.                                 *)
LEMMA LongerIs ==
  ASSUME NEW A, NEW s \in Seq(A), NEW t \in Seq(A)
  PROVE  Longer(s, s) /\ Longer(s, s \o t)
BY DEF Longer

(* A list with a last element.                                             *)
LEMMA LastIs ==
  ASSUME NEW A, NEW s \in Seq(A), s # <<>>
  PROVE  \E front \in Seq(A), x \in A : s = Append(front, x) /\ Last(s) = x
<1> DEFINE front == [k \in 1 .. Len(s) - 1 |-> s[k]]
<1>1. Len(s) \in Nat /\ Len(s) # 0 /\ \A k \in 1 .. Len(s) : s[k] \in A
  OBVIOUS
<1>2. front \in Seq(A) /\ Len(front) = Len(s) - 1
  <2>1. Len(s) - 1 \in Nat
    BY <1>1
  <2>2. \A k \in 1 .. Len(s) - 1 : s[k] \in A
    BY <1>1
  <2> QED
    BY <2>1, <2>2
<1>3. Last(s) = s[Len(s)] /\ s[Len(s)] \in A
  BY <1>1 DEF Last
<1>4. PICK t : t = Append(front, s[Len(s)])
  OBVIOUS
<1>5. t \in Seq(A) /\ Len(t) = Len(s) /\ t[Len(s)] = s[Len(s)] /\ \A k \in 1 .. Len(s) - 1 : t[k] = front[k]
  <2> HIDE DEF front
  <2> QED
    BY <1>1, <1>2, <1>3, <1>4
<1>6. \A k \in 1 .. Len(s) : t[k] = s[k]
  <2>1. ASSUME NEW k \in 1 .. Len(s) PROVE t[k] = s[k]
    <3>1. CASE k = Len(s)
      BY <1>5, <3>1
    <3>2. CASE k # Len(s)
      <4>1. k \in 1 .. Len(s) - 1
        BY <1>1, <3>2
      <4> QED
        BY <1>5, <4>1
    <3> QED
      BY <3>1, <3>2
  <2> QED
    BY <2>1
<1>7. t = s
  BY <1>5, <1>6
<1> HIDE DEF front
<1> QED
  BY <1>2, <1>3, <1>4, <1>7

(* get_draw gives a draw that looks as asked for and reads the last        *)
(* indices, and shows nothing more.                                        *)
LEMMA GetDraw ==
  ASSUME NEW f, FrameOK(f), NEW img \in Image \cup {Null}, NEW position \in Int,
         NEW f0, f0 = [vertices |-> f.vertices, indices |-> f.indices, draws |-> get_draw(f, img, position)]
  PROVE  /\ FrameOK(f0) /\ Drawn(f0) = Drawn(f) /\ f0.draws # <<>>
         /\ Last(f0.draws).image = img /\ Last(f0.draws).position = position
<1>1. f \in Frame
  BY DEF FrameOK
<1>2. /\ f.vertices \in Seq(Int) /\ f.indices \in Seq(Int) /\ f.draws \in Seq(Draw)
      /\ Len(f.vertices) \in Nat /\ Len(f.indices) \in Nat
  BY <1>1, FrameParts
<1>3. f0.vertices = f.vertices /\ f0.indices = f.indices /\ f0.draws = get_draw(f, img, position)
  OBVIOUS
<1>4. CASE f0.draws = f.draws /\ f.draws # <<>> /\ Last(f.draws).image = img /\ Last(f.draws).position = position
  <2>1. f0 = f
    <3>1. f = [vertices |-> f.vertices, indices |-> f.indices, draws |-> f.draws]
      BY <1>1 DEF Frame
    <3> QED
      BY <1>3, <1>4, <3>1
  <2> QED
    BY <1>4, <2>1
<1> DEFINE d == [vertex_offset |-> Len(f.vertices), first_index |-> Len(f.indices),
                 index_count |-> 0, image |-> img, position |-> position]
<1>5. CASE f0.draws = Append(f.draws, d)
  <2>1. d \in Draw /\ d.first_index = Len(f.indices) /\ d.index_count = 0 /\ d.image = img /\ d.position = position
    BY <1>2 DEF Draw
  <2> HIDE DEF d
  <2>2. f0.draws \in Seq(Draw)
    <3>1. PICK D, s : D = Draw /\ s = f.draws
      OBVIOUS
    <3>2. s \in Seq(D) /\ d \in D
      BY <1>2, <2>1, <3>1
    <3>3. Append(s, d) \in Seq(D)
      BY <3>2
    <3> QED
      BY <1>5, <3>1, <3>3
  <2>3. f0 \in Frame
    BY <1>2, <1>3, <2>2 DEF Frame
  <2>4. Longer(f.vertices, f0.vertices) /\ Longer(f.indices, f0.indices)
    BY <1>2, <1>3 DEF Longer
  <2>5. Reads(f0, d) /\ Shows(f0, d) = <<>>
    <3>1. 1 .. d.index_count = {}
      BY <2>1
    <3>2. d.first_index + d.index_count <= Len(f0.indices)
      BY <1>2, <1>3, <2>1
    <3>3. Shows(f0, d) \in Seq(Quad) /\ Len(Shows(f0, d)) = 0
      BY <2>1, <2>3, <3>1, <3>2, ShowsType DEF Reads
    <3>4. PICK s : s = Shows(f0, d)
      OBVIOUS
    <3>5. s = <<>>
      BY <3>3, <3>4
    <3> QED
      BY <2>1, <3>1, <3>2, <3>4, <3>5 DEF Reads
  <2>6. /\ Giving(Quad, Drawable(f0), ShowsOf(f0), f.draws) /\ ToSet(f.draws) \subseteq Drawable(f0)
        /\ Drawn(f) = FlattenSeq(Each(ShowsOf(f0), f.draws)) /\ Drawn(f) \in Seq(Quad)
    BY <2>3, <2>4, DrawnLater
  <2>7. ToSet(f0.draws) = ToSet(f.draws) \cup {d} /\ Last(f0.draws) = d /\ f0.draws # <<>>
    <3>1. PICK s, t : s = f.draws /\ t = Append(s, d)
      OBVIOUS
    <3>2. s \in Seq(Draw) /\ d \in Draw
      BY <1>2, <2>1, <3>1
    <3>3. t # <<>> /\ Last(t) = d
      BY <3>1, <3>2 DEF Last
    <3>4. ToSet(t) = ToSet(s) \cup {d}
      BY <3>1, <3>2, AppendSet
    <3> QED
      BY <1>5, <3>1, <3>3, <3>4
  <2>8. \A e \in ToSet(f0.draws) : Reads(f0, e)
    BY <2>5, <2>6, <2>7 DEF Drawable
  <2>9. FrameOK(f0)
    <3>1. Len(f.indices) + 0 = Len(f.indices)
      BY <1>2
    <3> QED
      BY <1>3, <2>1, <2>3, <2>7, <2>8, <3>1 DEF FrameOK
  <2>10. d \in Drawable(f0) /\ ShowsOf(f0)[d] = <<>>
    BY <2>1, <2>5 DEF Drawable, ShowsOf
  <2>11. Drawn(f0) = FlattenSeq(Each(ShowsOf(f0), f0.draws))
    <3>1. ToSet(f0.draws) \subseteq Drawable(f0)
      BY <2>6, <2>7, <2>10
    <3> QED
      BY <2>3, <3>1, DrawnIs DEF ShowsOf
  <2>12. FlattenSeq(Each(ShowsOf(f0), Append(f.draws, d))) = Drawn(f) \o <<>>
    BY <2>6, <2>10, EachMoreOf
  <2>13. Drawn(f) \o <<>> = Drawn(f)
    BY <2>6, JoinJoin
  <2> QED
    BY <1>5, <2>1, <2>7, <2>9, <2>11, <2>12, <2>13
<1> QED
  BY <1>3, <1>4, <1>5 DEF get_draw

(* The last of the draws reads one index more.                             *)
LastGrew(s, t) == t = [s EXCEPT ![Len(s)].index_count = @ + 1]

(* The last draw of f reads one vertex more in g, which is new.            *)
OneMore(f, g, at) ==
  /\ g.vertices = Append(f.vertices, at)
  /\ g.indices = Append(f.indices, Len(f.vertices) - Last(f.draws).vertex_offset)
  /\ LastGrew(f.draws, g.draws)

(* The same draw with one index more.                                      *)
Grown(d, e) ==
  /\ d \in Draw /\ e \in Draw
  /\ e.vertex_offset = d.vertex_offset /\ e.first_index = d.first_index /\ e.index_count = d.index_count + 1
  /\ e.image = d.image /\ e.position = d.position

(* Only the last draw grows.                                               *)
LEMMA LastGrows ==
  ASSUME NEW s \in Seq(Draw), s # <<>>, NEW t, LastGrew(s, t)
  PROVE  \E front \in Seq(Draw), d \in Draw, e \in Draw :
            Grown(d, e) /\ s = Append(front, d) /\ t = Append(front, e) /\ Last(s) = d
<1>1. PICK front \in Seq(Draw), d \in Draw : s = Append(front, d) /\ Last(s) = d
  BY LastIs
<1>2. PICK e : e = [vertex_offset |-> d.vertex_offset, first_index |-> d.first_index,
                    index_count |-> d.index_count + 1, image |-> d.image, position |-> d.position]
  OBVIOUS
<1>3. Grown(d, e)
  BY <1>1, <1>2, DrawParts DEF Grown, Draw
<1>0. [d EXCEPT !.index_count = @ + 1] = e
  <2>1. d = [vertex_offset |-> d.vertex_offset, first_index |-> d.first_index,
             index_count |-> d.index_count, image |-> d.image, position |-> d.position]
    BY <1>1 DEF Draw
  <2> QED
    BY <1>2, <2>1
<1>4. /\ Len(s) = Len(front) + 1 /\ Len(s) \in Nat /\ Len(front) \in Nat /\ s[Len(s)] = d
      /\ \A k \in 1 .. Len(front) : s[k] = front[k]
  BY <1>1
<1>5. PICK r : r = Append(front, e)
  OBVIOUS
<1>6. /\ r \in Seq(Draw) /\ Len(r) = Len(s) /\ r[Len(s)] = e
      /\ \A k \in 1 .. Len(front) : r[k] = front[k]
  BY <1>3, <1>4, <1>5 DEF Grown
<1>7. DOMAIN t = 1 .. Len(s) /\ \A k \in 1 .. Len(s) : t[k] = IF k = Len(s) THEN e ELSE s[k]
  <2>1. DOMAIN s = 1 .. Len(s)
    OBVIOUS
  <2>2. t = [s EXCEPT ![Len(s)] = e]
    <3>1. PICK n : n = Len(s)
      OBVIOUS
    <3>2. t = [s EXCEPT ![n] = [s[n] EXCEPT !.index_count = @ + 1]]
      BY <3>1 DEF LastGrew
    <3> QED
      BY <1>0, <1>4, <3>1, <3>2
  <2>3. t = [k \in 1 .. Len(s) |-> IF k = Len(s) THEN e ELSE s[k]]
    BY <2>1, <2>2
  <2> QED
    BY <2>3
<1>8. \A k \in 1 .. Len(s) : t[k] = r[k]
  <2>1. ASSUME NEW k \in 1 .. Len(s), k # Len(s) PROVE k \in 1 .. Len(front)
    BY <1>4, <2>1
  <2> QED
    BY <1>4, <1>6, <1>7, <2>1
<1>9. t = r
  <2>1. t = [k \in 1 .. Len(s) |-> t[k]]
    <3>1. PICK n : n = Len(s)
      OBVIOUS
    <3>2. t = [s EXCEPT ![n].index_count = @ + 1] /\ DOMAIN s = 1 .. n
      BY <3>1 DEF LastGrew
    <3>3. t = [k \in DOMAIN s |-> t[k]]
      BY <3>2
    <3> QED
      BY <3>1, <3>2, <3>3
  <2>2. r = [k \in 1 .. Len(s) |-> r[k]]
    BY <1>6
  <2> QED
    BY <1>8, <2>1, <2>2
<1>10. e \in Draw
  BY <1>3 DEF Grown
<1>11. Grown(d, e) /\ s = Append(front, d) /\ t = Append(front, e) /\ Last(s) = d
  BY <1>1, <1>3, <1>5, <1>9
<1> QED
  BY <1>10, <1>11, Zenon

(* A draw d of f that reads the last indices becomes draw e of g.          *)
Grows(f, g, at, d, e) ==
  /\ f \in Frame /\ g \in Frame /\ at \in Int /\ Grown(d, e) /\ Reads(f, d) /\ d.position = 0
  /\ g.vertices = Append(f.vertices, at)
  /\ g.indices = Append(f.indices, Len(f.vertices) - d.vertex_offset)
  /\ d.first_index + d.index_count = Len(f.indices)

(* What the draw shows then.                                               *)
LEMMA GrownShows ==
  ASSUME NEW f, NEW g, NEW at, NEW d, NEW e, Grows(f, g, at, d, e), NEW q, q = [image |-> d.image, at |-> at]
  PROVE  Reads(g, e) /\ Shows(g, e) = Append(Shows(f, d), q)
<1>0. /\ f \in Frame /\ g \in Frame /\ at \in Int /\ Grown(d, e) /\ Reads(f, d) /\ d.position = 0
      /\ g.vertices = Append(f.vertices, at)
      /\ g.indices = Append(f.indices, Len(f.vertices) - d.vertex_offset)
      /\ d.first_index + d.index_count = Len(f.indices)
  BY DEF Grows
<1>1. /\ d.vertex_offset \in Int /\ d.first_index \in Nat /\ d.index_count \in Nat
      /\ e.vertex_offset = d.vertex_offset /\ e.first_index = d.first_index
      /\ e.index_count = d.index_count + 1 /\ e.image = d.image /\ e.position = d.position /\ e \in Draw
  BY <1>0, DrawParts DEF Grown
<1>2. /\ f.vertices \in Seq(Int) /\ f.indices \in Seq(Int)
      /\ Len(f.vertices) \in Nat /\ Len(f.indices) \in Nat
  BY <1>0, FrameParts
<1>3. PICK off, first, c, v, i : /\ off = d.vertex_offset /\ first = d.first_index /\ c = d.index_count
                                 /\ v = f.vertices /\ i = f.indices
  OBVIOUS
<1>4. PICK v2, i2, o : v2 = Append(v, at) /\ o = Len(v) - off /\ i2 = Append(i, o)
  OBVIOUS
<1>5. /\ v \in Seq(Int) /\ i \in Seq(Int) /\ off \in Int /\ first \in Nat /\ c \in Nat /\ o \in Int
      /\ g.vertices = v2 /\ g.indices = i2 /\ first + c = Len(i) /\ Len(v) \in Nat /\ Len(i) \in Nat
  BY <1>0, <1>1, <1>2, <1>3, <1>4
<1>6. /\ Len(v2) = Len(v) + 1 /\ v2[Len(v) + 1] = at /\ (\A k \in 1 .. Len(v) : v2[k] = v[k])
      /\ Len(i2) = Len(i) + 1 /\ i2[Len(i) + 1] = o /\ (\A k \in 1 .. Len(i) : i2[k] = i[k])
  BY <1>4, <1>5
<1>7. Longer(f.vertices, g.vertices) /\ Longer(f.indices, g.indices)
  BY <1>3, <1>5, <1>6 DEF Longer
<1>8. Reads(g, d) /\ Shows(g, d) = Shows(f, d)
  BY <1>0, <1>7, ShowsSame
<1>9. \A k : VertexOf(g, e, k) = VertexOf(g, d, k)
  BY <1>1 DEF VertexOf
<1>10. VertexOf(g, e, c + 1) = Len(v) + 1
  <2>1. first + (c + 1) = Len(i) + 1
    BY <1>5
  <2>2. g.indices[e.first_index + (c + 1)] = o
    BY <1>1, <1>3, <1>5, <1>6, <2>1
  <2>3. off + o + 1 = Len(v) + 1
    BY <1>4, <1>5
  <2> QED
    BY <1>1, <1>3, <2>2, <2>3 DEF VertexOf
<1>11. Reads(g, e)
  <2>1. e.first_index + e.index_count <= Len(g.indices)
    BY <1>1, <1>3, <1>5, <1>6
  <2>2. ASSUME NEW k \in 1 .. e.index_count PROVE VertexOf(g, e, k) \in 1 .. Len(g.vertices)
    <3>1. CASE k = c + 1
      BY <1>5, <1>6, <1>10, <3>1
    <3>2. CASE k # c + 1
      <4>1. k \in 1 .. d.index_count
        BY <1>1, <1>3, <3>2
      <4> QED
        BY <1>8, <1>9, <4>1 DEF Reads
    <3> QED
      BY <3>1, <3>2
  <2> QED
    BY <1>1, <2>1, <2>2 DEF Reads
<1>12. Shows(g, e) = Append(Shows(f, d), q)
  <2>1. PICK s, t : s = Shows(f, d) /\ t = Shows(g, e)
    OBVIOUS
  <2>2. s \in Seq(Quad) /\ Len(s) = c
    BY <1>0, <1>3, <2>1, ShowsType
  <2>3. q \in Quad
    <3>1. d.image \in Image \cup {Null}
      BY <1>0, DrawParts DEF Grown
    <3> QED
      BY <1>0, <3>1 DEF Quad
  <2>4. t = [k \in 1 .. c + 1 |-> t[k]]
    BY <1>1, <1>3, <2>1 DEF Shows
  <2>5. ASSUME NEW k \in 1 .. c + 1 PROVE t[k] = IF k = c + 1 THEN q ELSE s[k]
    <3>1. t[k] = [image |-> d.image, at |-> d.position + g.vertices[VertexOf(g, e, k)]]
      BY <1>1, <1>3, <2>1 DEF Shows
    <3>2. CASE k = c + 1
      <4>1. g.vertices[VertexOf(g, e, k)] = at
        BY <1>5, <1>6, <1>10, <3>2
      <4>2. PICK z : z = d.position + g.vertices[VertexOf(g, e, k)]
        OBVIOUS
      <4>3. z = at
        BY <1>0, <4>1, <4>2
      <4>4. t[k] = [image |-> d.image, at |-> z]
        BY <3>1, <4>2, Zenon
      <4> QED
        BY <3>2, <4>3, <4>4
    <3>3. CASE k # c + 1
      <4>1. k \in 1 .. d.index_count
        <5>1. k \in 1 .. c
          BY <1>5, <3>3
        <5> QED
          BY <1>3, <5>1
      <4>2. Shows(g, d)[k] = [image |-> d.image, at |-> d.position + g.vertices[VertexOf(g, d, k)]]
        BY <4>1 DEF Shows
      <4> QED
        BY <1>8, <1>9, <2>1, <3>1, <3>3, <4>2
    <3> QED
      BY <3>2, <3>3
  <2>6. Append(s, q) = [k \in 1 .. c + 1 |-> IF k = c + 1 THEN q ELSE s[k]]
    <3>1. PICK z : z = Append(s, q)
      OBVIOUS
    <3>2. z \in Seq(Quad) /\ Len(z) = c + 1 /\ z[c + 1] = q /\ \A k \in 1 .. c : z[k] = s[k]
      BY <2>2, <2>3, <3>1
    <3>3. z = [k \in 1 .. c + 1 |-> z[k]]
      BY <3>2
    <3>4. ASSUME NEW k \in 1 .. c + 1 PROVE z[k] = IF k = c + 1 THEN q ELSE s[k]
      <4>1. k # c + 1 => k \in 1 .. c
        BY <1>5
      <4> QED
        BY <3>2, <4>1
    <3> QED
      BY <3>1, <3>3, <3>4
  <2> QED
    BY <2>1, <2>4, <2>5, <2>6
<1> QED
  BY <1>11, <1>12

(* A texture that is added to the last draw is shown last.                 *)
LEMMA TextureDrawn ==
  ASSUME NEW f, FrameOK(f), f.draws # <<>>, Last(f.draws).position = 0, NEW at \in Int,
         NEW g, OneMore(f, g, at),
         g = [vertices |-> g.vertices, indices |-> g.indices, draws |-> g.draws]
  PROVE  FrameOK(g) /\ Drawn(g) = Drawn(f) \o <<[image |-> Last(f.draws).image, at |-> at]>>
<1>1. f \in Frame /\ \A d \in ToSet(f.draws) : Reads(f, d)
  BY DEF FrameOK
<1>2. /\ f.vertices \in Seq(Int) /\ f.indices \in Seq(Int) /\ f.draws \in Seq(Draw)
      /\ Len(f.vertices) \in Nat /\ Len(f.indices) \in Nat
  BY <1>1, FrameParts
<1>3. PICK front \in Seq(Draw), d \in Draw, e \in Draw :
        Grown(d, e) /\ f.draws = Append(front, d) /\ g.draws = Append(front, e) /\ Last(f.draws) = d
  <2>1. PICK s, t : s = f.draws /\ t = g.draws
    OBVIOUS
  <2>2. s \in Seq(Draw) /\ s # <<>> /\ LastGrew(s, t)
    BY <1>2, <2>1 DEF OneMore
  <2>3. \E front \in Seq(Draw), d \in Draw, e \in Draw :
           Grown(d, e) /\ s = Append(front, d) /\ t = Append(front, e) /\ Last(s) = d
    BY <2>2, LastGrows
  <2> QED
    BY <2>1, <2>3
<1>4. /\ d \in Draw /\ e \in Draw /\ d.vertex_offset \in Int /\ d.position = 0
      /\ d.first_index \in Nat /\ d.index_count \in Nat
      /\ d.first_index + d.index_count = Len(f.indices)
      /\ e.first_index = d.first_index /\ e.index_count = d.index_count + 1
  BY <1>3, DrawParts DEF Grown, FrameOK
<1>5. /\ g.vertices = Append(f.vertices, at)
      /\ g.indices = Append(f.indices, Len(f.vertices) - d.vertex_offset)
  BY <1>3 DEF OneMore
<1>6. g \in Frame
  <2>1. PICK v, i, o : v = f.vertices /\ i = f.indices /\ o = Len(v) - d.vertex_offset
    OBVIOUS
  <2>2. o \in Int
    BY <1>2, <1>4, <2>1
  <2>3. Append(v, at) \in Seq(Int) /\ Append(i, o) \in Seq(Int)
    BY <1>2, <2>1, <2>2
  <2>4. Append(front, e) \in Seq(Draw)
    BY <1>4
  <2> QED
    BY <1>3, <1>5, <2>1, <2>3, <2>4 DEF Frame
<1>7. Longer(f.vertices, g.vertices) /\ Longer(f.indices, g.indices)
  <2>1. \A s \in Seq(Int), x \in Int : Longer(s, Append(s, x))
    BY DEF Longer
  <2>2. Len(f.vertices) - d.vertex_offset \in Int
    BY <1>2, <1>4
  <2> QED
    BY <1>2, <1>5, <2>1, <2>2
<1>8. /\ ToSet(f.draws) = ToSet(front) \cup {d} /\ ToSet(g.draws) = ToSet(front) \cup {e}
      /\ g.draws # <<>> /\ Last(g.draws) = e
  <2>1. ToSet(Append(front, d)) = ToSet(front) \cup {d} /\ ToSet(Append(front, e)) = ToSet(front) \cup {e}
    BY <1>4, AppendSet
  <2>2. PICK z : z = Append(front, e)
    OBVIOUS
  <2>3. z # <<>> /\ Last(z) = e
    BY <1>4, <2>2 DEF Last
  <2> QED
    BY <1>3, <2>1, <2>2, <2>3
<1>9. Reads(f, d)
  BY <1>1, <1>8
<1>10. PICK q : q = [image |-> d.image, at |-> at]
  OBVIOUS
<1>11. Reads(g, e) /\ Shows(g, e) = Append(Shows(f, d), q)
  <2>1. Grows(f, g, at, d, e)
    BY <1>1, <1>3, <1>4, <1>5, <1>6, <1>9 DEF Grows
  <2> QED
    BY <1>10, <2>1, GrownShows
<1>12. /\ Giving(Quad, Drawable(g), ShowsOf(g), f.draws) /\ ToSet(f.draws) \subseteq Drawable(g)
       /\ Drawn(f) = FlattenSeq(Each(ShowsOf(g), f.draws))
  BY <1>6, <1>7, DrawnLater
<1>13. e \in Drawable(g) /\ ToSet(g.draws) \subseteq Drawable(g)
  BY <1>4, <1>8, <1>11, <1>12 DEF Drawable
<1>14. FrameOK(g)
  <2>1. \A x \in ToSet(g.draws) : Reads(g, x)
    BY <1>13 DEF Drawable
  <2>2. e.first_index + e.index_count = Len(g.indices)
    <3>1. Len(g.indices) = Len(f.indices) + 1
      <4>1. \A s \in Seq(Int) : \A x : Len(Append(s, x)) = Len(s) + 1
        OBVIOUS
      <4> QED
        BY <1>2, <1>5, <4>1
    <3>2. PICK a, c, n : a = d.first_index /\ c = d.index_count /\ n = Len(f.indices)
      OBVIOUS
    <3>3. a \in Nat /\ c \in Nat /\ n \in Nat /\ a + c = n
      BY <1>2, <1>4, <3>2
    <3>4. a + (c + 1) = n + 1
      BY <3>3
    <3> QED
      BY <1>4, <3>1, <3>2, <3>4
  <2> QED
    BY <1>6, <1>8, <2>1, <2>2 DEF FrameOK
<1>15. Giving(Quad, Drawable(g), ShowsOf(g), front)
  <2>1. PICK B : B = Drawable(g)
    OBVIOUS
  <2>2. ToSet(front) \subseteq B
    BY <1>8, <1>12, <2>1
  <2>3. \A k \in DOMAIN front : front[k] \in B
    BY <2>2 DEF ToSet
  <2>4. front \in Seq(B)
    BY <2>3
  <2> QED
    BY <1>12, <2>1, <2>4 DEF Giving
<1>16. d \in Drawable(g) /\ ShowsOf(g)[d] = Shows(f, d)
  <2>1. Shows(g, d) = Shows(f, d)
    BY <1>1, <1>6, <1>7, <1>9, ShowsSame
  <2>2. d \in Drawable(g)
    BY <1>8, <1>12
  <2> QED
    BY <2>1, <2>2 DEF ShowsOf
<1>17. ShowsOf(g)[e] = Append(Shows(f, d), q)
  BY <1>11, <1>13 DEF ShowsOf
<1>18. PICK p : p = FlattenSeq(Each(ShowsOf(g), front))
  OBVIOUS
<1>19. p \in Seq(Quad) /\ Drawn(f) = p \o Shows(f, d)
  <2>1. PICK w : w = ShowsOf(g)
    OBVIOUS
  <2>2. Giving(Quad, Drawable(g), w, front) /\ d \in Drawable(g)
    BY <1>15, <1>16, <2>1
  <2>3. /\ FlattenSeq(Each(w, front)) \in Seq(Quad)
        /\ FlattenSeq(Each(w, Append(front, d))) = FlattenSeq(Each(w, front)) \o w[d]
    BY <2>2, EachMoreOf
  <2> QED
    BY <1>3, <1>12, <1>16, <1>18, <2>1, <2>3
<1>20. Drawn(g) = p \o Append(Shows(f, d), q)
  <2>1. Drawn(g) = FlattenSeq(Each(ShowsOf(g), g.draws))
    BY <1>6, <1>13, DrawnIs DEF ShowsOf
  <2>2. PICK w : w = ShowsOf(g)
    OBVIOUS
  <2>3. Giving(Quad, Drawable(g), w, front) /\ e \in Drawable(g)
    BY <1>13, <1>15, <2>2
  <2>4. FlattenSeq(Each(w, Append(front, e))) = FlattenSeq(Each(w, front)) \o w[e]
    BY <2>3, EachMoreOf
  <2> QED
    BY <1>3, <1>17, <1>18, <2>1, <2>2, <2>4
<1>21. p \o Append(Shows(f, d), q) = (p \o Shows(f, d)) \o <<q>>
  <2>1. PICK s : s = Shows(f, d)
    OBVIOUS
  <2>2. s \in Seq(Quad) /\ q \in Quad
    <3>1. d.image \in Image \cup {Null}
      BY <1>4, DrawParts
    <3>2. q \in Quad
      BY <1>10, <3>1 DEF Quad
    <3> QED
      BY <1>1, <1>9, <2>1, <3>2, ShowsType
  <2>3. Append(s, q) = s \o <<q>> /\ <<q>> \in Seq(Quad)
    BY <2>2
  <2>4. p \o (s \o <<q>>) = (p \o s) \o <<q>>
    BY <1>19, <2>2, <2>3, JoinJoin
  <2> QED
    BY <2>1, <2>3, <2>4
<1> QED
  BY <1>3, <1>10, <1>14, <1>19, <1>20, <1>21

(* The draws of the segments of a mesh, each with a vertex and an index of *)
(* its own after those of f.                                               *)
MeshDraws(f, parts, at) ==
  [k \in DOMAIN parts |-> [vertex_offset |-> Len(f.vertices), first_index |-> Len(f.indices) + k - 1,
                           index_count |-> 1, image |-> parts[k], position |-> at]]
Counts(parts) == [k \in DOMAIN parts |-> k - 1]
MeshQuads(parts, at) == [k \in DOMAIN parts |-> [image |-> parts[k], at |-> at + k - 1]]

(* A frame with the segments of a mesh added.                              *)
WithMesh(f, g, parts, at) ==
  g = [vertices |-> f.vertices \o Counts(parts), indices |-> f.indices \o Counts(parts),
       draws |-> f.draws \o MeshDraws(f, parts, at)]

(* Counts that are appended.                                               *)
Counted(s, c, t) ==
  s \in Seq(Int) /\ c \in Seq(Int) /\ (\A k \in 1 .. Len(c) : c[k] = k - 1) /\ t = s \o c

(* They come after what was there.                                         *)
LEMMA JoinCounts ==
  ASSUME NEW s, NEW c, NEW t, Counted(s, c, t)
  PROVE  t \in Seq(Int) /\ Len(t) = Len(s) + Len(c) /\ \A k \in 1 .. Len(c) : t[Len(s) + k] = k - 1
<1> USE DEF Counted
<1>1. PICK I : I = Int
  OBVIOUS
<1>2. s \in Seq(I) /\ c \in Seq(I)
  BY <1>1
<1>3. /\ s \o c \in Seq(I) /\ Len(s \o c) = Len(s) + Len(c)
      /\ \A k \in 1 .. Len(c) : (s \o c)[Len(s) + k] = c[k]
  BY <1>2, JoinElements
<1>4. \A k \in 1 .. Len(c) : t[Len(s) + k] = k - 1
  BY <1>3
<1> QED
  BY <1>1, <1>3, <1>4

(* A frame to which a mesh was added, and its draws.                       *)
MeshAdded(f, g, parts, at, new) ==
  /\ FrameOK(f) /\ parts \in Seq(Image \cup {Null}) /\ at \in Int
  /\ WithMesh(f, g, parts, at) /\ new = MeshDraws(f, parts, at)

SegmentsShown(f, g, parts, at, new) ==
  /\ g \in Frame /\ new \in Seq(Draw) /\ Len(new) = Len(parts) /\ g.draws = f.draws \o new
  /\ Longer(f.vertices, g.vertices) /\ Longer(f.indices, g.indices)
  /\ Len(g.indices) = Len(f.indices) + Len(parts)
  /\ \A k \in 1 .. Len(parts) :
       /\ new[k].first_index = Len(f.indices) + k - 1 /\ new[k].index_count = 1
       /\ Reads(g, new[k])
       /\ Shows(g, new[k]) = <<[image |-> parts[k], at |-> at + k - 1]>>

(* What each of them shows.                                                *)
LEMMA SegmentShows ==
  ASSUME NEW f, NEW parts, NEW at, NEW g, NEW new, MeshAdded(f, g, parts, at, new)
  PROVE  SegmentsShown(f, g, parts, at, new)
<1>0. /\ FrameOK(f) /\ parts \in Seq(Image \cup {Null}) /\ at \in Int
      /\ WithMesh(f, g, parts, at) /\ new = MeshDraws(f, parts, at)
  BY DEF MeshAdded
<1> USE <1>0
<1>1. f \in Frame
  BY DEF FrameOK
<1>2. PICK v, i, c, n, a, b, v2, i2 : /\ v = f.vertices /\ i = f.indices /\ c = Counts(parts) /\ n = Len(parts)
                                      /\ a = Len(f.vertices) /\ b = Len(f.indices)
                                      /\ v2 = v \o c /\ i2 = i \o c
  OBVIOUS
<1>3. v \in Seq(Int) /\ i \in Seq(Int) /\ f.draws \in Seq(Draw) /\ a \in Nat /\ b \in Nat /\ a = Len(v) /\ b = Len(i)
  BY <1>1, <1>2, FrameParts
<1>4. n \in Nat /\ DOMAIN parts = 1 .. n /\ \A k \in 1 .. n : parts[k] \in Image \cup {Null}
  BY <1>2
<1>5. c \in Seq(Int) /\ Len(c) = n /\ \A k \in 1 .. n : c[k] = k - 1
  <2>1. c = [k \in 1 .. n |-> k - 1]
    BY <1>2, <1>4 DEF Counts
  <2>2. \A k \in 1 .. n : k - 1 \in Int
    BY <1>4
  <2> QED
    BY <1>4, <2>1, <2>2
<1>6. /\ v2 \in Seq(Int) /\ Len(v2) = a + n /\ (\A k \in 1 .. n : v2[a + k] = k - 1) /\ Longer(v, v2)
      /\ i2 \in Seq(Int) /\ Len(i2) = b + n /\ (\A k \in 1 .. n : i2[b + k] = k - 1) /\ Longer(i, i2)
  <2>0. Counted(v, c, v2) /\ Counted(i, c, i2)
    BY <1>2, <1>3, <1>5 DEF Counted
  <2>1. v2 \in Seq(Int) /\ Len(v2) = Len(v) + Len(c) /\ \A k \in 1 .. Len(c) : v2[Len(v) + k] = k - 1
    BY <2>0, JoinCounts
  <2>2. i2 \in Seq(Int) /\ Len(i2) = Len(i) + Len(c) /\ \A k \in 1 .. Len(c) : i2[Len(i) + k] = k - 1
    BY <2>0, JoinCounts
  <2>3. Longer(v, v2) /\ Longer(i, i2)
    BY <1>2, <1>3, <1>5, LongerIs
  <2> QED
    BY <1>3, <1>5, <2>1, <2>2, <2>3
<1>7. ASSUME NEW k \in 1 .. n
      PROVE  /\ [vertex_offset |-> a, first_index |-> b + k - 1, index_count |-> 1,
                 image |-> parts[k], position |-> at] \in Draw
             /\ new[k] = [vertex_offset |-> a, first_index |-> b + k - 1, index_count |-> 1,
                          image |-> parts[k], position |-> at]
  <2>1. b + k - 1 \in Nat
    BY <1>3, <1>4
  <2>2. parts[k] \in Image \cup {Null}
    BY <1>4
  <2>3. new[k] = [vertex_offset |-> a, first_index |-> b + k - 1, index_count |-> 1,
                  image |-> parts[k], position |-> at]
    BY <1>2, <1>4 DEF MeshDraws
  <2> QED
    BY <1>3, <2>1, <2>2, <2>3 DEF Draw
<1>8. new \in Seq(Draw) /\ Len(new) = n
  <2>1. new = [k \in 1 .. n |-> new[k]]
    BY <1>2, <1>4 DEF MeshDraws
  <2>2. \A k \in 1 .. n : new[k] \in Draw
    BY <1>7
  <2>3. new \in [1 .. n -> Draw]
    BY <2>1, <2>2
  <2> QED
    BY <1>4, <2>3
<1>9. g.vertices = v2 /\ g.indices = i2 /\ g.draws = f.draws \o new /\ g \in Frame
  <2>1. g = [vertices |-> v2, indices |-> i2, draws |-> f.draws \o new]
    BY <1>2 DEF WithMesh
  <2>2. f.draws \o new \in Seq(Draw)
    BY <1>3, <1>8, JoinElements
  <2> QED
    BY <1>6, <2>1, <2>2 DEF Frame
<1>10. ASSUME NEW k \in 1 .. n
       PROVE  /\ new[k].first_index = b + k - 1 /\ new[k].index_count = 1
              /\ Reads(g, new[k])
              /\ Shows(g, new[k]) = <<[image |-> parts[k], at |-> at + k - 1]>>
  <2>1. PICK d : d = new[k]
    OBVIOUS
  <2>2. /\ d \in Draw /\ d.vertex_offset = a /\ d.first_index = b + k - 1 /\ d.index_count = 1
        /\ d.image = parts[k] /\ d.position = at
    <3>1. PICK j, p : j = b + k - 1 /\ p = parts[k]
      OBVIOUS
    <3>2. d = [vertex_offset |-> a, first_index |-> j, index_count |-> 1, image |-> p, position |-> at]
      BY <1>7, <2>1, <3>1
    <3>3. d \in Draw
      BY <1>7, <2>1
    <3>4. /\ d.vertex_offset = a /\ d.first_index = j /\ d.index_count = 1
          /\ d.image = p /\ d.position = at
      BY <3>2
    <3> QED
      BY <3>1, <3>3, <3>4
  <2>3. VertexOf(g, d, 1) = a + k
    <3>1. b + k - 1 + 1 = b + k /\ a + (k - 1) + 1 = a + k
      BY <1>3, <1>4
    <3>2. g.indices[d.first_index + 1] = k - 1
      BY <1>6, <1>9, <2>2, <3>1
    <3> QED
      BY <2>2, <3>1, <3>2 DEF VertexOf
  <2>4. Reads(g, d)
    <3>1. d.first_index + d.index_count <= Len(g.indices)
      <4>1. b + k - 1 + 1 <= b + n
        BY <1>3, <1>4
      <4> QED
        BY <1>6, <1>9, <2>2, <4>1
    <3>2. \A j \in 1 .. d.index_count : j = 1
      BY <2>2
    <3>3. a + k \in 1 .. Len(g.vertices)
      <4>1. Len(g.vertices) = a + n
        BY <1>6, <1>9
      <4>2. a + k \in 1 .. a + n
        BY <1>3, <1>4
      <4> QED
        BY <4>1, <4>2
    <3> QED
      BY <2>2, <2>3, <3>1, <3>2, <3>3 DEF Reads
  <2>5. Shows(g, d) = <<[image |-> parts[k], at |-> at + k - 1]>>
    <3>1. PICK s : s = Shows(g, d)
      OBVIOUS
    <3>2. s \in Seq(Quad) /\ Len(s) = 1
      BY <1>9, <2>2, <2>4, <3>1, ShowsType
    <3>3. s[1] = [image |-> parts[k], at |-> at + k - 1]
      <4>1. PICK z : z = d.position + g.vertices[VertexOf(g, d, 1)]
        OBVIOUS
      <4>2. g.vertices[VertexOf(g, d, 1)] = k - 1
        BY <1>6, <1>9, <2>3
      <4>3. z = at + k - 1
        BY <2>2, <4>1, <4>2
      <4>4. 1 \in 1 .. d.index_count
        BY <2>2
      <4>5. s[1] = [image |-> d.image, at |-> z]
        BY <3>1, <4>1, <4>4 DEF Shows
      <4> QED
        BY <2>2, <4>3, <4>5
    <3>4. s = <<s[1]>>
      BY <3>2
    <3> QED
      BY <3>1, <3>3, <3>4
  <2> QED
    BY <2>1, <2>2, <2>4, <2>5
<1> QED
  BY <1>2, <1>6, <1>8, <1>9, <1>10 DEF SegmentsShown

(* A list whose elements are in a set is a list of that set.               *)
LEMMA Retyped ==
  ASSUME NEW A, NEW s \in Seq(A), NEW B, \A k \in 1 .. Len(s) : s[k] \in B
  PROVE  s \in Seq(B)
<1>1. Len(s) \in Nat /\ s = [k \in 1 .. Len(s) |-> s[k]]
  OBVIOUS
<1>2. PICK n : n = Len(s)
  OBVIOUS
<1>3. s \in [1 .. n -> B]
  BY <1>1, <1>2
<1> QED
  BY <1>1, <1>2, <1>3

(* A mesh that is added is shown last, segment by segment.                 *)
LEMMA MeshDrawn ==
  ASSUME NEW f, FrameOK(f), NEW parts \in Seq(Image \cup {Null}), NEW at \in Int, NEW g, WithMesh(f, g, parts, at)
  PROVE  FrameOK(g) /\ Drawn(g) = Drawn(f) \o MeshQuads(parts, at)
<1>1. PICK new, n, b : new = MeshDraws(f, parts, at) /\ n = Len(parts) /\ b = Len(f.indices)
  OBVIOUS
<1>2. /\ g \in Frame /\ new \in Seq(Draw) /\ Len(new) = n /\ g.draws = f.draws \o new
      /\ Longer(f.vertices, g.vertices) /\ Longer(f.indices, g.indices)
      /\ Len(g.indices) = b + n
      /\ \A k \in 1 .. n : /\ new[k].first_index = b + k - 1 /\ new[k].index_count = 1
                           /\ Reads(g, new[k])
                           /\ Shows(g, new[k]) = <<[image |-> parts[k], at |-> at + k - 1]>>
  <2>1. MeshAdded(f, g, parts, at, new)
    BY <1>1 DEF MeshAdded
  <2>2. SegmentsShown(f, g, parts, at, new)
    BY <2>1, SegmentShows
  <2> QED
    BY <1>1, <2>2 DEF SegmentsShown
<1>3. f \in Frame /\ f.draws \in Seq(Draw) /\ b \in Nat /\ n \in Nat /\ DOMAIN parts = 1 .. n
  <2>1. f \in Frame
    BY DEF FrameOK
  <2> QED
    BY <1>1, <2>1, FrameParts
<1>4. /\ Giving(Quad, Drawable(g), ShowsOf(g), f.draws) /\ ToSet(f.draws) \subseteq Drawable(g)
      /\ Drawn(f) = FlattenSeq(Each(ShowsOf(g), f.draws))
  BY <1>2, DrawnLater
<1>5. DOMAIN new = 1 .. n /\ \A k \in 1 .. n : new[k] \in Draw
  <2>1. \A s \in Seq(Draw) : DOMAIN s = 1 .. Len(s) /\ \A k \in 1 .. Len(s) : s[k] \in Draw
    OBVIOUS
  <2> QED
    BY <1>2, <2>1
<1>6. ToSet(new) \subseteq Drawable(g)
  BY <1>2, <1>5 DEF ToSet, Drawable
<1>7. new \in Seq(Drawable(g))
  <2>1. PICK B : B = Drawable(g)
    OBVIOUS
  <2>2. \A k \in 1 .. Len(new) : new[k] \in B
    BY <1>2, <1>5, <1>6, <2>1 DEF ToSet
  <2>3. new \in Seq(B)
    BY <1>2, <2>2, Retyped
  <2> QED
    BY <2>1, <2>3
<1>8. ToSet(g.draws) \subseteq Drawable(g) /\ (n = 0 => g.draws = f.draws)
      /\ (n # 0 => g.draws # <<>> /\ Last(g.draws) = new[n])
  <2>1. PICK s, t : s = f.draws /\ t = s \o new
    OBVIOUS
  <2>2. s \in Seq(Draw) /\ new \in Seq(Draw)
    BY <1>2, <1>3, <2>1
  <2>3. ToSet(t) = ToSet(s) \cup ToSet(new)
    BY <2>1, <2>2, JoinElements
  <2>4. n = 0 => t = s
    BY <1>2, <2>1, <2>2
  <2>5. n # 0 => t # <<>> /\ Last(t) = new[n]
    <3>1. t \in Seq(Draw) /\ Len(t) = Len(s) + n /\ Len(s) \in Nat /\ \A k \in 1 .. n : t[Len(s) + k] = new[k]
      BY <1>2, <2>1, <2>2, JoinElements
    <3>2. n # 0 => n \in 1 .. n
      BY <1>3
    <3>3. n # 0 => Len(t) # 0 /\ t[Len(t)] = new[n]
      BY <1>3, <3>1, <3>2
    <3> QED
      BY <3>1, <3>3 DEF Last
  <2> QED
    BY <1>2, <1>4, <1>6, <2>1, <2>3, <2>4, <2>5
<1>9. FrameOK(g)
  <2>1. \A d \in ToSet(g.draws) : Reads(g, d)
    BY <1>8 DEF Drawable
  <2>2. ASSUME g.draws # <<>> PROVE Last(g.draws).first_index + Last(g.draws).index_count = Len(g.indices)
    <3>1. CASE n = 0
      <4>1. Last(f.draws).first_index + Last(f.draws).index_count = b
        BY <1>1, <1>8, <2>2, <3>1 DEF FrameOK
      <4>2. b + n = b
        BY <1>3, <3>1
      <4> QED
        BY <1>2, <1>8, <3>1, <4>1, <4>2
    <3>2. CASE n # 0
      <4>1. n \in 1 .. n
        BY <1>3, <3>2
      <4>2. b + n - 1 + 1 = b + n
        BY <1>3
      <4> QED
        BY <1>2, <1>8, <3>2, <4>1, <4>2
    <3> QED
      BY <3>1, <3>2
  <2> QED
    BY <1>2, <2>1, <2>2 DEF FrameOK
<1>10. Drawn(g) = Drawn(f) \o FlattenSeq(Each(ShowsOf(g), new))
  <2>1. Drawn(g) = FlattenSeq(Each(ShowsOf(g), g.draws))
    BY <1>2, <1>8, DrawnIs DEF ShowsOf
  <2>2. FlattenSeq(Each(ShowsOf(g), f.draws \o new)) =
          FlattenSeq(Each(ShowsOf(g), f.draws)) \o FlattenSeq(Each(ShowsOf(g), new))
    BY <1>4, <1>7, FlattenJoin, SMTT(30)
  <2> QED
    BY <1>2, <1>4, <2>1, <2>2
<1>11. FlattenSeq(Each(ShowsOf(g), new)) = MeshQuads(parts, at)
  <2>1. PICK B, w, h : B = ToSet(new) /\ w = [d \in B |-> Shows(g, d)] /\ h = [d \in B |-> Shows(g, d)[1]]
    OBVIOUS
  <2>2. \A k \in 1 .. n : new[k] \in B
    BY <1>5, <2>1 DEF ToSet
  <2>3. \A d \in B : \E k \in 1 .. n : d = new[k]
    BY <1>5, <2>1 DEF ToSet
  <2>4. ASSUME NEW d \in B PROVE Shows(g, d) \in Seq(Quad) /\ Shows(g, d)[1] \in Quad /\ Shows(g, d) = <<Shows(g, d)[1]>>
    <3>1. PICK k \in 1 .. n : d = new[k]
      BY <2>3
    <3>2. PICK q : q = [image |-> parts[k], at |-> at + k - 1]
      OBVIOUS
    <3>3. q \in Quad
      <4>1. parts[k] \in Image \cup {Null}
        BY <1>1
      <4>2. at + k - 1 \in Int
        OBVIOUS
      <4> QED
        BY <3>2, <4>1, <4>2 DEF Quad
    <3>4. Shows(g, d) = <<q>>
      BY <1>2, <3>1, <3>2
    <3>5. <<q>> \in Seq(Quad) /\ <<q>>[1] = q
      BY <3>3
    <3> QED
      BY <3>3, <3>4, <3>5
  <2>5. w \in [B -> Seq(Quad)] /\ h \in [B -> Quad]
    BY <2>1, <2>4
  <2>6. \A d \in ToSet(new) : w[d] = <<h[d]>>
    BY <2>1, <2>4
  <2>7. new \in Seq(B)
    BY <1>2, <2>2, Retyped
  <2>8. FlattenSeq(Each(w, new)) = Each(h, new)
    <3>1. Singles(Quad, B, w, h)
      BY <2>5 DEF Singles
    <3>2. \A l \in Seq(B) : (\A d \in ToSet(l) : w[d] = <<h[d]>>) => FlattenSeq(Each(w, l)) = Each(h, l)
      BY <3>1, FlattenOnes
    <3> QED
      BY <2>6, <2>7, <3>2
  <2>9. Each(w, new) = Each(ShowsOf(g), new)
    <3>1. \A k \in 1 .. n : w[new[k]] = Shows(g, new[k])
      BY <2>1, <2>2
    <3>2. \A k \in 1 .. n : ShowsOf(g)[new[k]] = Shows(g, new[k])
      BY <1>5, <1>6, <2>1, <2>2 DEF ShowsOf
    <3> QED
      BY <1>5, <3>1, <3>2 DEF Each
  <2>10. Each(h, new) = MeshQuads(parts, at)
    <3>1. ASSUME NEW k \in 1 .. n PROVE h[new[k]] = [image |-> parts[k], at |-> at + k - 1]
      <4>1. PICK q : q = [image |-> parts[k], at |-> at + k - 1]
        OBVIOUS
      <4>2. Shows(g, new[k]) = <<q>>
        BY <1>2, <4>1
      <4>3. h[new[k]] = Shows(g, new[k])[1]
        BY <2>1, <2>2
      <4>4. <<q>>[1] = q
        OBVIOUS
      <4> QED
        BY <4>1, <4>2, <4>3, <4>4
    <3> QED
      BY <1>3, <1>5, <3>1 DEF Each, MeshQuads
  <2> QED
    BY <2>8, <2>9, <2>10
<1> QED
  BY <1>9, <1>10, <1>11

-----------------------------------------------------------------------------
(* What is drawn.                                                          *)

(* Trees are at positions.                                                 *)
LEMMA AtType == ASSUME SceneIInv PROVE \A n \in Node : At(n) \in Int
<1>1. Ascending(parent) /\ SceneTypeOK
  BY SceneIInvIs, IntactAscends DEF NodesOK
<1>2. PICK moved : moved = translation
  OBVIOUS
<1>3. moved \in [Tree -> Int]
  BY <1>1, <1>2, GeometryAssumption DEF SceneTypeOK
<1>4. \A t \in Tree : PositionOf(parent, moved)[t] =
         moved[t] + (IF parent[t] = Null THEN 0 ELSE PositionOf(parent, moved)[parent[t]])
  BY <1>1, <1>3, PositionIs
<1> DEFINE P == {t \in Tree : PositionOf(parent, moved)[t] \in Int}
<1>5. ASSUME NEW t \in Tree, parent[t] # Null => parent[t] \in P PROVE t \in P
  <2>1. PICK p, q : p = PositionOf(parent, moved)[t] /\ q = PositionOf(parent, moved)[parent[t]]
    OBVIOUS
  <2>2. p = moved[t] + (IF parent[t] = Null THEN 0 ELSE q) /\ moved[t] \in Int
    BY <1>3, <1>4, <2>1
  <2>3. parent[t] # Null => q \in Int
    BY <1>5, <2>1
  <2>4. p \in Int
    BY <2>2, <2>3
  <2> QED
    BY <2>1, <2>4
<1>6. Tree \subseteq P
  <2> HIDE DEF P
  <2> QED
    BY <1>1, <1>5, UpInduction
<1>7. ASSUME NEW n \in Node PROVE At(n) \in Int
  <2>1. parent[n] \in Tree \cup {Null}
    BY <1>1 DEF SceneTypeOK
  <2>2. parent[n] # Null => PositionOf(parent, moved)[parent[n]] \in Int
    BY <1>6, <2>1
  <2>3. At(n) = IF parent[n] = Null THEN 0 ELSE PositionOf(parent, moved)[parent[n]]
    BY <1>2 DEF At, PositionOf, scene_tree_get_position
  <2> QED
    BY <2>2, <2>3
<1> QED
  BY <1>7

(* Every leaf adds its quads.                                              *)
LEMMA NodeDrawn ==
  ASSUME SceneIInv, NEW f, FrameOK(f), NEW n \in Leaf
  PROVE  FrameOK(draw_node(f, n)) /\ Drawn(draw_node(f, n)) = Drawn(f) \o Quads(n)
<1>1. SceneTypeOK /\ At(n) \in Int
  BY SceneIInvIs, AtType, NodesDiffer
<1>2. CASE n \in Texture
  <2>1. PICK img, at : img = image[n] /\ at = At(n)
    OBVIOUS
  <2>2. img \in Image \cup {Null} /\ at \in Int
    BY <1>1, <1>2, <2>1 DEF SceneTypeOK
  <2>3. PICK draws, f0 : /\ draws = get_draw(f, img, 0)
                         /\ f0 = [vertices |-> f.vertices, indices |-> f.indices, draws |-> get_draw(f, img, 0)]
    OBVIOUS
  <2>4. /\ FrameOK(f0) /\ Drawn(f0) = Drawn(f) /\ f0.draws # <<>>
        /\ Last(f0.draws).image = img /\ Last(f0.draws).position = 0
    <3>1. PICK zero : zero = 0
      OBVIOUS
    <3>2. zero \in Int /\ f0 = [vertices |-> f.vertices, indices |-> f.indices, draws |-> get_draw(f, img, zero)]
      BY <2>3, <3>1
    <3>3. /\ FrameOK(f0) /\ Drawn(f0) = Drawn(f) /\ f0.draws # <<>>
          /\ Last(f0.draws).image = img /\ Last(f0.draws).position = zero
      BY <2>2, <3>2, GetDraw
    <3> QED
      BY <3>1, <3>3
  <2>5. f0.vertices = f.vertices /\ f0.indices = f.indices /\ f0.draws = draws
    BY <2>3
  <2>6. PICK g : g = draw_texture(f, n)
    OBVIOUS
  <2>7. g = [vertices |-> Append(f.vertices, at),
             indices |-> Append(f.indices, Len(f.vertices) - Last(draws).vertex_offset),
             draws |-> [draws EXCEPT ![Len(draws)].index_count = @ + 1]]
    BY <2>1, <2>3, <2>6 DEF draw_texture
  <2>8. /\ g.vertices = Append(f.vertices, at)
        /\ g.indices = Append(f.indices, Len(f.vertices) - Last(draws).vertex_offset)
        /\ g.draws = [draws EXCEPT ![Len(draws)].index_count = @ + 1]
        /\ g = [vertices |-> g.vertices, indices |-> g.indices, draws |-> g.draws]
    BY <2>7
  <2>9. OneMore(f0, g, at)
    BY <2>5, <2>8 DEF OneMore, LastGrew
  <2>10. FrameOK(g) /\ Drawn(g) = Drawn(f0) \o <<[image |-> Last(f0.draws).image, at |-> at]>>
    BY <2>2, <2>4, <2>8, <2>9, TextureDrawn
  <2>11. Quads(n) = <<[image |-> img, at |-> at]>>
    BY <1>2, <2>1 DEF Quads
  <2>12. draw_node(f, n) = g
    BY <1>2, <2>6 DEF draw_node
  <2> QED
    BY <2>4, <2>10, <2>11, <2>12
<1>3. CASE n \notin Texture /\ n \in Mesh
  <2>1. PICK parts, at, g : parts = segments[n] /\ at = At(n) /\ g = draw_mesh(f, n)
    OBVIOUS
  <2>2. parts \in Seq(Image \cup {Null}) /\ at \in Int
    <3>1. parts \in Segments
      BY <1>1, <1>3, <2>1 DEF SceneTypeOK
    <3> QED
      BY <1>1, <2>1, <3>1, GeometryAssumption
  <2>3. WithMesh(f, g, parts, at)
    BY <2>1 DEF WithMesh, draw_mesh, Counts, MeshDraws
  <2>4. FrameOK(g) /\ Drawn(g) = Drawn(f) \o MeshQuads(parts, at)
    BY <2>2, <2>3, MeshDrawn
  <2>5. draw_node(f, n) = g /\ Quads(n) = MeshQuads(parts, at)
    BY <1>3, <2>1 DEF draw_node, Quads, MeshQuads
  <2> QED
    BY <2>4, <2>5
<1>4. CASE n \notin Texture /\ n \notin Mesh
  <2>1. draw_node(f, n) = f /\ Quads(n) = <<>>
    BY <1>4 DEF draw_node, Quads
  <2>2. Drawn(f) \in Seq(Quad)
    <3>1. f \in Frame
      BY DEF FrameOK
    <3>2. f.vertices \in Seq(Int) /\ f.indices \in Seq(Int)
      BY <3>1, FrameParts
    <3>3. Longer(f.vertices, f.vertices) /\ Longer(f.indices, f.indices)
      BY <3>2 DEF Longer
    <3> QED
      BY <3>1, <3>3, DrawnLater
  <2>3. Drawn(f) \o <<>> = Drawn(f)
    BY <2>2, JoinJoin
  <2> QED
    BY <2>1, <2>3
<1> QED
  BY <1>2, <1>3, <1>4

-----------------------------------------------------------------------------
(* The loop of scene_render.                                               *)

Frames == {f \in Frame : FrameOK(f)}

(* The frames after 0, 1, 2 ... of the leaves.                             *)
FrameLoop(h, s) == h = [k \in 0 .. Len(s) |-> IF k = 0 THEN NoFrame ELSE draw_node(h[k - 1], s[k])]
FramesOf(s) == CHOOSE h : FrameLoop(h, s)

(* What every node gives to the picture.                                   *)
QuadsAll == [n \in Node |-> Quads(n)]

(* A frame begins with nothing.                                            *)
LEMMA NoFrameOK == FrameOK(NoFrame) /\ Drawn(NoFrame) = <<>>
<1>1. PICK f : f = NoFrame
  OBVIOUS
<1>2. f.vertices = <<>> /\ f.indices = <<>> /\ f.draws = <<>>
  BY <1>1 DEF NoFrame
<1>3. f \in Frame
  BY <1>1 DEF NoFrame, Frame
<1>4. ToSet(f.draws) = {}
  BY <1>2 DEF ToSet
<1>5. FrameOK(f)
  BY <1>2, <1>3, <1>4 DEF FrameOK
<1>6. Drawn(f) = <<>>
  <2>1. PICK B, w : B = ToSet(f.draws) /\ w = [d \in B |-> Shows(f, d)]
    OBVIOUS
  <2>2. Drawn(f) = FlattenSeq(Each([d \in B |-> Shows(f, d)], f.draws))
    BY <1>3, <2>1, DrawnIs
  <2>3. PICK g : g = f.draws
    OBVIOUS
  <2>4. Drawn(f) = FlattenSeq(Each(w, g)) /\ g = <<>>
    BY <1>2, <2>1, <2>2, <2>3, Zenon
  <2> QED
    BY <2>4, EachNone
<1> QED
  BY <1>1, <1>5, <1>6

(* The loop has a value after every leaf.                                  *)
LEMMA FramesAre ==
  ASSUME SceneIInv, NEW s \in Seq(Leaf)
  PROVE  FrameLoop(FramesOf(s), s)
<1>1. PICK V, base, step : /\ V = Frames /\ base = NoFrame
                           /\ step = [f \in V |-> [n \in Leaf |-> draw_node(f, n)]]
  OBVIOUS
<1>2. ASSUME NEW f \in V, NEW n \in Leaf PROVE draw_node(f, n) \in V
  <2>1. FrameOK(f)
    BY <1>1 DEF Frames
  <2>2. FrameOK(draw_node(f, n))
    BY <2>1, NodeDrawn
  <2> QED
    BY <1>1, <2>2 DEF Frames, FrameOK
<1>3. step \in [V -> [Leaf -> V]]
  <2>1. ASSUME NEW f \in V PROVE [n \in Leaf |-> draw_node(f, n)] \in [Leaf -> V]
    BY <1>2
  <2> QED
    BY <1>1, <2>1
<1>4. base \in V
  BY <1>1, NoFrameOK DEF Frames, FrameOK
<1>5. PICK h \in [0 .. Len(s) -> V] : IsLoop(h, base, step, s, Len(s))
  BY <1>3, <1>4, LoopExists
<1>6. ASSUME NEW k \in 0 .. Len(s) PROVE h[k] = IF k = 0 THEN NoFrame ELSE draw_node(h[k - 1], s[k])
  <2>1. CASE k = 0
    BY <1>1, <1>5, <2>1 DEF IsLoop
  <2>2. CASE k # 0
    <3>1. k \in 1 .. Len(s) /\ k - 1 \in 0 .. Len(s)
      BY <2>2
    <3>2. h[k] = step[h[k - 1]][s[k]]
      BY <1>5, <3>1 DEF IsLoop
    <3>3. h[k - 1] \in V /\ s[k] \in Leaf
      BY <1>5, <3>1
    <3>4. step[h[k - 1]] = [n \in Leaf |-> draw_node(h[k - 1], n)]
      BY <1>1, <3>3
    <3> QED
      BY <2>2, <3>2, <3>3, <3>4
  <2> QED
    BY <2>1, <2>2
<1>7. h = [k \in 0 .. Len(s) |-> h[k]]
  BY <1>5
<1>8. FrameLoop(h, s)
  BY <1>6, <1>7 DEF FrameLoop
<1> QED
  BY <1>8 DEF FramesOf

(* The frame after all of them shows what they look like.                  *)
LEMMA FramesShow ==
  ASSUME SceneIInv, NEW s \in Seq(Leaf), QuadsAll \in [Node -> Seq(Quad)]
  PROVE  /\ FrameOK(FramesOf(s)[Len(s)])
         /\ Drawn(FramesOf(s)[Len(s)]) = FlattenSeq(Each(QuadsAll, s))
<1>1. PICK h, n, q : h = FramesOf(s) /\ n = Len(s) /\ q = QuadsAll
  OBVIOUS
<1>2. n \in Nat /\ DOMAIN s = 1 .. n /\ \A k \in 1 .. n : s[k] \in Leaf /\ s[k] \in Node
  BY <1>1, NodesDiffer
<1>3. h[0] = NoFrame /\ \A k \in 1 .. n : h[k] = draw_node(h[k - 1], s[k])
  <2>1. h = [k \in 0 .. n |-> IF k = 0 THEN NoFrame ELSE draw_node(h[k - 1], s[k])]
    BY <1>1, FramesAre DEF FrameLoop
  <2>2. 0 \in 0 .. n /\ \A k \in 1 .. n : k \in 0 .. n /\ k # 0
    BY <1>2
  <2> QED
    BY <2>1, <2>2
<1> DEFINE Part(k) == [i \in 1 .. k |-> s[i]]
           OK(k) == FrameOK(h[k]) /\ Drawn(h[k]) = FlattenSeq(Each(q, Part(k)))
           Bad == {k \in 0 .. n : ~ OK(k)}
<1>4. OK(0)
  <2>1. Part(0) = <<>>
    OBVIOUS
  <2> HIDE DEF Part
  <2> QED
    BY <1>3, <2>1, NoFrameOK, EachNone
<1>5. ASSUME NEW k \in 1 .. n, OK(k - 1) PROVE OK(k)
  <2>1. PICK l, x : l = Part(k - 1) /\ x = s[k]
    OBVIOUS
  <2>2. l \in Seq(Node) /\ x \in Node /\ x \in Leaf /\ Part(k) = Append(l, x)
    <3>1. k - 1 \in Nat /\ \A i \in 1 .. k - 1 : i \in 1 .. n
      BY <1>2
    <3>2. Part(k - 1) \in [1 .. k - 1 -> Node]
      BY <1>2, <3>1
    <3>3. l \in Seq(Node) /\ Len(l) = k - 1
      BY <2>1, <3>1, <3>2
    <3>4. PICK a : a = Append(l, x)
      OBVIOUS
    <3>5. a \in Seq(Node) /\ Len(a) = k /\ a[k] = x /\ \A i \in 1 .. k - 1 : a[i] = l[i]
      <4>1. x \in Node
        BY <1>2, <2>1
      <4>2. Len(a) = Len(l) + 1 /\ a[Len(l) + 1] = x /\ \A i \in 1 .. Len(l) : a[i] = l[i]
        BY <3>3, <3>4, <4>1
      <4>3. Len(l) + 1 = k
        BY <3>1, <3>3
      <4> QED
        BY <3>3, <3>4, <4>1, <4>2, <4>3
    <3>6. ASSUME NEW i \in 1 .. k PROVE s[i] = a[i]
      <4>1. i # k => i \in 1 .. k - 1
        BY <3>1
      <4> QED
        BY <2>1, <3>5, <4>1
    <3>7. Part(k) = a
      <4>1. a = [i \in 1 .. k |-> a[i]]
        BY <3>5
      <4> QED
        BY <3>6, <4>1
    <3>8. x \in Node /\ x \in Leaf
      BY <1>2, <2>1
    <3> HIDE DEF Part
    <3> QED
      BY <3>3, <3>4, <3>7, <3>8
  <2> HIDE DEF Part
  <2>3. PICK f : f = h[k - 1]
    OBVIOUS
  <2>4. FrameOK(f) /\ Drawn(f) = FlattenSeq(Each(q, l))
    BY <1>5, <2>1, <2>3
  <2>5. FrameOK(draw_node(f, x)) /\ Drawn(draw_node(f, x)) = Drawn(f) \o Quads(x)
    BY <2>2, <2>4, NodeDrawn
  <2>6. q[x] = Quads(x)
    BY <1>1, <2>2 DEF QuadsAll
  <2>7. FlattenSeq(Each(q, Append(l, x))) = FlattenSeq(Each(q, l)) \o q[x]
    <3>1. q \in [Node -> Seq(Quad)]
      BY <1>1
    <3>2. Giving(Quad, Node, q, l)
      BY <2>2, <3>1 DEF Giving
    <3> QED
      BY <2>2, <3>2, EachMoreOf
  <2>8. h[k] = draw_node(f, x)
    BY <1>3, <2>1, <2>3
  <2> QED
    BY <2>2, <2>4, <2>5, <2>6, <2>7, <2>8
<1>6. ASSUME Bad # {} PROVE FALSE
  <2>1. PICK k \in Bad : \A j \in Bad : k <= j
    <3>1. Bad \subseteq Nat
      <4> HIDE DEF OK
      <4> QED
        OBVIOUS
    <3> HIDE DEF Bad
    <3> QED
      BY <1>6, <3>1, LeastNumber
  <2> HIDE DEF OK
  <2>2. k \in 0 .. n /\ ~ OK(k) /\ k # 0
    BY <1>4
  <2>3. k \in 1 .. n /\ k - 1 \in 0 .. n /\ ~ (k <= k - 1)
    BY <1>2, <2>2
  <2>4. k - 1 \notin Bad
    <3> HIDE DEF Bad
    <3> QED
      BY <2>1, <2>3
  <2>5. OK(k - 1)
    BY <2>3, <2>4
  <2> QED
    BY <1>5, <2>2, <2>3, <2>5
<1>7. OK(n)
  <2>1. n \in 0 .. n
    BY <1>2
  <2> HIDE DEF OK
  <2> QED
    BY <1>6, <2>1
<1>8. Part(n) = s
  BY <1>1, <1>2
<1> HIDE DEF Part
<1> QED
  BY <1>1, <1>7, <1>8

(* What nodes give are lists of quads.                                     *)
LEMMA QuadsType == ASSUME SceneIInv PROVE QuadsAll \in [Node -> Seq(Quad)]
<1>1. SceneTypeOK /\ \A n \in Node : At(n) \in Int
  BY SceneIInvIs, AtType
<1>2. ASSUME NEW n \in Node PROVE Quads(n) \in Seq(Quad)
  <2>1. PICK at : at = At(n)
    OBVIOUS
  <2>2. at \in Int
    BY <1>1, <2>1
  <2>3. CASE n \in Texture
    <3>1. PICK q : q = [image |-> image[n], at |-> at]
      OBVIOUS
    <3>2. image[n] \in Image \cup {Null}
      BY <1>1, <2>3 DEF SceneTypeOK
    <3>3. q \in Quad
      BY <2>2, <3>1, <3>2 DEF Quad
    <3>4. Quads(n) = <<q>>
      BY <2>1, <2>3, <3>1 DEF Quads
    <3> QED
      BY <3>3, <3>4
  <2>4. CASE n \notin Texture /\ n \in Mesh
    <3>1. PICK parts, m : parts = segments[n] /\ m = Len(parts)
      OBVIOUS
    <3>2. parts \in Segments
      BY <1>1, <2>4, <3>1 DEF SceneTypeOK
    <3>3. parts \in Seq(Image \cup {Null})
      BY <3>2, GeometryAssumption
    <3>4. m \in Nat /\ DOMAIN parts = 1 .. m /\ \A k \in 1 .. m : parts[k] \in Image \cup {Null}
      BY <3>1, <3>3
    <3>5. Quads(n) = [k \in 1 .. m |-> [image |-> parts[k], at |-> at + k - 1]]
      BY <2>1, <2>4, <3>1, <3>4 DEF Quads
    <3>6. ASSUME NEW k \in 1 .. m PROVE [image |-> parts[k], at |-> at + k - 1] \in Quad
      <4>1. at + k - 1 \in Int
        BY <2>2, <3>4
      <4> QED
        BY <3>4, <4>1 DEF Quad
    <3>7. Quads(n) \in [1 .. m -> Quad]
      BY <3>5, <3>6
    <3> QED
      BY <3>4, <3>7
  <2>5. CASE n \notin Texture /\ n \notin Mesh
    <3>1. Quads(n) = <<>>
      BY <2>5 DEF Quads
    <3> QED
      BY <3>1
  <2> QED
    BY <2>3, <2>4, <2>5
<1> QED
  BY <1>2 DEF QuadsAll

(* The leaves a walk meets, and the picture they give.                     *)
LEMMA VisitedShow ==
  ASSUME SceneIInv
  PROVE  Visited \in Seq(Leaf) /\ Picture = FlattenSeq(Each(QuadsAll, Visited))
<1>1. Forest(children) /\ root \in Node
  BY NodeAssumption DEF SceneIInv, Node
<1>2. PICK gives, q : gives = [n \in Leaf |-> Quads(n)] /\ q = QuadsAll
  OBVIOUS
<1>3. gives = [n \in Leaf |-> q[n]] /\ q \in [Node -> Seq(Quad)]
  BY <1>2, QuadsType, NodesDiffer DEF QuadsAll
<1>4. PICK lists, shown, v : /\ lists = children /\ shown = Shown
                             /\ v = Walk(lists, shown, [n \in Leaf |-> <<n>>])[root]
  OBVIOUS
<1>5. /\ v \in Seq(Leaf)
      /\ Walk(lists, shown, gives)[root] = FlattenSeq(Each(q, v))
  <2>1. PICK n : n = root
    OBVIOUS
  <2>2. Given(Quad, lists, q, gives)
    BY <1>1, <1>3, <1>4 DEF Given
  <2>3. \A m \in Node : /\ Walk(lists, shown, [k \in Leaf |-> <<k>>])[m] \in Seq(Leaf)
                        /\ Walk(lists, shown, gives)[m] =
                             FlattenSeq(Each(q, Walk(lists, shown, [k \in Leaf |-> <<k>>])[m]))
    BY <2>2, WalkOfWalk
  <2> QED
    BY <1>1, <1>4, <2>1, <2>3
<1>6. Visited = v /\ Picture = Walk(lists, shown, gives)[root]
  BY <1>2, <1>4 DEF Visited, Picture, scene_iterate
<1> QED
  BY <1>2, <1>5, <1>6

(* A frame shows the picture, whatever the scene is.                       *)
LEMMA RenderShows == ASSUME SceneIInv PROVE DrawnIsPicture
<1>1. PICK s, f : s = Visited /\ f = scene_render
  OBVIOUS
<1>2. s \in Seq(Leaf) /\ Picture = FlattenSeq(Each(QuadsAll, s))
  BY <1>1, VisitedShow
<1>3. f = FramesOf(s)[Len(s)]
  BY <1>1 DEF scene_render, FramesOf, FrameLoop
<1>4. FrameOK(f) /\ Drawn(f) = Picture
  BY <1>2, <1>3, FramesShow, QuadsType
<1>5. ASSUME NEW d \in ToSet(f.draws), NEW k \in 1 .. d.index_count
      PROVE  /\ d.first_index + k \in DOMAIN f.indices
             /\ VertexOf(f, d, k) \in DOMAIN f.vertices
  <2>1. f \in Frame /\ Reads(f, d)
    BY <1>4 DEF FrameOK
  <2>2. d.first_index + k \in 1 .. Len(f.indices) /\ VertexOf(f, d, k) \in 1 .. Len(f.vertices)
    BY <2>1, ReadsIndex
  <2>3. f.vertices \in Seq(Int) /\ f.indices \in Seq(Int)
    BY <2>1, FrameParts
  <2>4. DOMAIN f.indices = 1 .. Len(f.indices) /\ DOMAIN f.vertices = 1 .. Len(f.vertices)
    BY <2>3
  <2> QED
    BY <2>2, <2>4
<1> QED
  BY <1>1, <1>4, <1>5 DEF DrawnIsPicture

(* scene_render: joining textures into one draw, with meshes in between,   *)
(* changes nothing of what is shown, and no draw reads indices or vertices *)
(* that are not there.                                                     *)
THEOREM DrawnMatches == SceneSpec => []DrawnIsPicture
<1>1. SceneIInv => DrawnIsPicture
  BY RenderShows
<1> QED
  BY <1>1, SceneInvariance, PTL
================================================================================
