----------------------------- MODULE WmInteraction -----------------------------
(***************************************************************************)
(* What the window manager does with input: dragging windows, placing them *)
(* in zones, cycling through them, and the stacking order these change     *)
(* (src/wm/{movesize,zone,focus,hotkeys,window}.cpp).                      *)
(*                                                                         *)
(* Every input event runs through the filters in the order they were       *)
(* added: hotkeys, movesize, zone, focus cycle.  One of them may capture   *)
(* it; otherwise it goes to the client that has the focus, and a press     *)
(* moves the keyboard focus under the pointer.  WmServer::mode says which  *)
(* interaction goes on; each keeps its window in a Weak pointer, None once *)
(* the window is destroyed.                                                *)
(*                                                                         *)
(* Positions are abstracted: what lies under the pointer is any window of  *)
(* the scene's window layer or none, and a request is known by its window. *)
(* The pointer's focus is modelled in SeatFocus; here any window or none   *)
(* may have it when a button goes down.                                    *)
(* Windows are those of Wayland clients that have a wl_seat (so that they  *)
(* are raised when they get the keyboard), and a window goes with its      *)
(* wl_surface.  A popup counts as the window it belongs to.                *)
(***************************************************************************)
EXTENDS Naturals, Lists

CONSTANTS
  Window, \* The windows.
  None,   \* No window.
  MaxButtons \* Bound on the pointer buttons that are down at once.

ASSUME NoneAssumption == None \notin Window
ASSUME ButtonsAssumption == MaxButtons \in Nat

Button == {"left", "right", "middle", "other"}
Mode == {"none", "move", "size", "zone", "focus_cycle"}

(* What a window is asked for: a frame by a drag, a zone or the key that   *)
(* toggles fullscreen, or to close.                                        *)
Kind == {"drag", "zone", "fullscreen", "close"}

VARIABLES
  windows, \* WmServer::windows, the topmost last.
  mapped,  \* Windows that are mapped.
  layer,   \* Children of the scene's window layer, the topmost last.
  faded,   \* Windows drawn with little opacity.
  mode,    \* WmServer::mode
  main_mod, \* Whether the main modifier is down.
  pressed, \* Number of buttons in SeatPointer::pressed.
  focus,   \* The window that contains the SeatKeyboard's focus.
  movesize, \* WmServer::movesize.window, None when no drag goes on: the pointer
            \* stays in the code, but the next drag sets it before it is read.
  zone,    \* WmServer::zone, [window, selecting]
  cycled,  \* WmServer::focus.cycled
  under,   \* History: the window the interaction of the pointer began on.
  late,    \* History: mapped windows that had the keyboard before they were mapped.
  asked    \* History: the events posted to windows in the last step.

stack == <<windows, mapped, layer, faded, late>>
input == <<main_mod, pressed, focus>>
interaction == <<mode, movesize, zone, cycled, under>>
vars == <<stack, input, interaction, asked>>

Event(kind, w) == [kind |-> kind, window |-> w]

Init ==
  /\ windows = <<>> /\ mapped = {} /\ layer = <<>> /\ faded = {}
  /\ mode = "none" /\ main_mod = FALSE /\ pressed = 0
  /\ focus = None /\ movesize = None /\ cycled = None
  /\ zone = [window |-> None, selecting |-> FALSE]
  /\ under = None /\ late = {} /\ asked = {}

-----------------------------------------------------------------------------
(* Stacking.                                                               *)

(* The windows that are mapped, in order; during a focus cycle the cycled  *)
(* one, mapped or not, is on top.                                          *)
Stacking(ws, shown, top) ==
  LET others == Keep(ws, shown \ {top})
  IN  IF top = None THEN others ELSE Append(others, top)

Top == IF mode = "focus_cycle" THEN cycled ELSE None

(* During a focus cycle the windows below the cycled one are faded.        *)
Fading == IF mode' = "focus_cycle" THEN (faded \cup mapped') \ {Top'} ELSE faded \ mapped'

(* Every caller has brought the state this reads up to date before.        *)
wm_arrange_windows ==
  /\ layer' = Stacking(windows', mapped', Top')
  /\ faded' = Fading

(* Mutant: the window is not taken out of the list first.                  *)
RestackTwice(w) ==
  IF w \in mapped' THEN windows' = Append(windows, w) /\ late' = late \ {w}
                   ELSE UNCHANGED <<windows, late>>

(* To the end of the list, if it is mapped.                                *)
Restack(w) ==
  IF w \in mapped' THEN windows' = Append(Without(windows, w), w) /\ late' = late \ {w}
                   ELSE UNCHANGED <<windows, late>>

wm_window_raise(w) ==
  /\ Restack(w)
  /\ IF w \in mapped' THEN wm_arrange_windows ELSE UNCHANGED <<layer, faded>>

(* Mutant: the window that gets the keyboard is not raised.                *)
FocusOnly(w) == focus' = w /\ UNCHANGED <<windows, layer, faded, late>>

(* The client of the window that gets the keyboard has it raised; nothing  *)
(* is posted when the focus does not change.                               *)
seat_keyboard_focus(w) ==
  /\ focus' = w
  /\ IF w \in {None, focus} THEN UNCHANGED <<windows, layer, faded, late>>
                            ELSE wm_window_raise(w)

wm_window_focus(w) == focus' = w /\ wm_window_raise(w)

(* What wm_find_window_at may find.                                        *)
Found == ToSet(layer) \cup {None}

-----------------------------------------------------------------------------
(* The windows come and go.                                                *)

wm_window_create(w) ==
  /\ w \notin ToSet(windows)
  /\ windows' = Append(windows, w)
  /\ asked' = {}
  /\ UNCHANGED <<mapped, layer, faded, late, input, interaction>>

(* way_toplevel_on_map_change: a mapped window gets the keyboard, and its  *)
(* client raises it unless it had the keyboard already.                    *)
wm_window_map(w) ==
  /\ w \in ToSet(windows) \ mapped
  /\ mapped' = mapped \cup {w}
  /\ asked' = {}
  /\ UNCHANGED <<main_mod, pressed, interaction>>
  /\ focus' = w
  /\ IF focus = w
     THEN windows' = windows /\ late' = late \cup {w} /\ wm_arrange_windows
     ELSE wm_window_raise(w)

(* Mutant: the layer keeps the window until the next arrangement.          *)
UnmapOnly(w) ==
  /\ w \in mapped
  /\ mapped' = mapped \ {w}
  /\ late' = late \ {w}
  /\ asked' = {}
  /\ UNCHANGED <<windows, layer, faded, input, interaction>>

wm_window_unmap(w) ==
  /\ w \in mapped
  /\ mapped' = mapped \ {w}
  /\ late' = late \ {w}
  /\ asked' = {}
  /\ UNCHANGED <<windows, input, interaction>>
  /\ wm_arrange_windows

Unless(w, v) == IF v = w THEN None ELSE v

(* ~WmWindow, with the SeatFocus of its surface: it is unmapped and taken  *)
(* out of the list, and its tree leaves the layer.                         *)
WmWindow_destroy(w) ==
  /\ w \in ToSet(windows)
  /\ UNCHANGED <<mode, main_mod, pressed, under>>
  /\ windows' = Without(windows, w)
  /\ mapped' = mapped \ {w}
  /\ late' = late \ {w}
  /\ focus' = Unless(w, focus)
  /\ movesize' = Unless(w, movesize)
  /\ cycled' = Unless(w, cycled)
  /\ zone' = [zone EXCEPT !.window = Unless(w, zone.window)]
  /\ layer' = IF w \in mapped THEN Stacking(windows', mapped', Top') ELSE Without(layer, w)
  /\ faded' = (IF w \in mapped THEN Fading ELSE faded) \ {w}
  /\ asked' = {}

-----------------------------------------------------------------------------
(* The pointer.                                                            *)

(* handle_motion of a drag.                                                *)
motion ==
  /\ mode \in {"move", "size"}
  /\ asked' = IF movesize = None THEN {} ELSE {Event("drag", movesize)}
  /\ UNCHANGED <<stack, input, interaction>>

Press ==
  /\ pressed < MaxButtons
  /\ pressed' = pressed + 1
  /\ UNCHANGED <<mapped, main_mod>>

(* A captured press takes the keyboard away when the pointer has no focus. *)
Captured(hover) ==
  /\ focus' = IF hover = None THEN None ELSE focus
  /\ UNCHANGED <<windows, layer, faded, late>>

close(w) == asked' = IF w = None THEN {} ELSE {Event("close", w)}

close_hotkey(hover) ==
  /\ main_mod
  /\ Press
  /\ Captured(hover)
  /\ close(hover)
  /\ UNCHANGED interaction

(* A drag of w: a size becomes a move when it begins in the middle of the  *)
(* window or when the window is fullscreen, and a fullscreen window is not *)
(* moved either.                                                           *)
begin_interaction(w, initial) ==
  /\ mode' \in IF w = None THEN {mode} ELSE {initial, "move", "none"}
  /\ movesize' = IF mode' = "none" THEN None ELSE w
  /\ under' = IF mode' = "none" THEN None ELSE w
  /\ UNCHANGED <<zone, cycled>>

(* Mutant: a window of an earlier zone is kept.                            *)
BeginZoneOnce(w) ==
  /\ mode' = "zone"
  /\ under' = w
  /\ zone' = [window |-> IF zone.window = None THEN w ELSE zone.window, selecting |-> FALSE]
  /\ UNCHANGED <<movesize, cycled>>

(* Over no window the mode changes all the same.                           *)
begin_zone(w) ==
  /\ mode' = "zone"
  /\ under' = w
  /\ zone' = IF w = None THEN zone ELSE [window |-> w, selecting |-> FALSE]
  /\ UNCHANGED <<movesize, cycled>>

(* With shift the left button moves, without it places; the right resizes. *)
begin(hover) ==
  /\ mode = "none" /\ main_mod
  /\ Press
  /\ Captured(hover)
  /\ asked' = {}
  /\ \E w \in Found :
       \/ begin_interaction(w, "size")
       \/ begin_interaction(w, "move")
       \/ begin_zone(w)

(* Whatever goes on captures the presses of further buttons.               *)
press_during(b, hover) ==
  /\ mode \in {"move", "size", "zone"}
  /\ ~(b = "middle" /\ main_mod)
  /\ Press
  /\ Captured(hover)
  /\ zone' = IF mode = "zone" /\ b = "right"
             THEN [zone EXCEPT !.selecting = ~@] ELSE zone
  /\ asked' = {}
  /\ UNCHANGED <<mode, movesize, cycled, under>>

(* The buttons that filters take with the main modifier; a focus cycle     *)
(* leaves those that begin something alone.                                *)
Wanted == IF mode = "none" THEN Button \ {"other"} ELSE {"middle"}

(* No filter wants it: the window under the pointer gets the keyboard.     *)
press(b, hover) ==
  /\ mode \in {"none", "focus_cycle"}
  /\ main_mod => b \notin Wanted
  /\ Press
  /\ asked' = {}
  /\ UNCHANGED interaction
  /\ seat_keyboard_focus(hover)

end_interaction ==
  /\ mode' = "none"
  /\ movesize' = None
  /\ under' = None
  /\ asked' = {}
  /\ UNCHANGED <<stack, focus, zone, cycled>>

(* Mutant: without a selection the interaction goes on.                    *)
EndZoneSelected ==
  /\ mode' = IF zone.selecting THEN "none" ELSE mode
  /\ under' = None
  /\ UNCHANGED <<mapped, zone, movesize, cycled>>
  /\ IF zone.selecting /\ zone.window # None
     THEN asked' = {Event("zone", zone.window)} /\ wm_window_focus(zone.window)
     ELSE asked' = {} /\ UNCHANGED <<windows, layer, faded, late, focus>>

(* The window is placed only if a zone was selected.                       *)
end_zone ==
  /\ mode' = "none"
  /\ under' = None
  /\ UNCHANGED <<mapped, zone, movesize, cycled>>
  /\ IF zone.selecting /\ zone.window # None
     THEN /\ asked' = {Event("zone", zone.window)}
          /\ wm_window_focus(zone.window)
     ELSE asked' = {} /\ UNCHANGED <<windows, layer, faded, late, focus>>

(* No filter captures a release; with the last one the interaction ends.   *)
release ==
  /\ pressed > 0
  /\ pressed' = pressed - 1
  /\ UNCHANGED main_mod
  /\ IF pressed' = 0 /\ mode \in {"move", "size"} THEN end_interaction
     ELSE IF pressed' = 0 /\ mode = "zone" THEN end_zone
     ELSE asked' = {} /\ UNCHANGED <<stack, focus, interaction>>

-----------------------------------------------------------------------------
(* The keyboard.                                                           *)

(* Mutant: the ends of the list are not joined.                            *)
CycleStopsAtEnd(w, in_cycle, forward) ==
  LET n == Len(windows)
      i == IF w \in ToSet(windows) THEN CHOOSE k \in 1..n : windows[k] = w ELSE n + 1
      j == IF forward THEN i - 1 ELSE i + 1
  IN  IF j \in 1..n THEN windows[j] ELSE w

(* cycle_next_window: the next window of the cycle, down the list if       *)
(* forward, else up, around its ends; w itself comes last.                 *)
cycle_next(w, in_cycle, forward) ==
  LET n == Len(windows)
      At(i, d) == windows[((i - 1 + (IF forward THEN n - d ELSE d)) % n) + 1]
      from == IF w \in ToSet(windows) THEN CHOOSE i \in 1..n : windows[i] = w ELSE 0
      Near(i, D) == {d \in D : At(i, d) \in in_cycle}
      First(i, D) == At(i, CHOOSE d \in Near(i, D) : \A e \in Near(i, D) : d <= e)
  IN  IF ToSet(windows) \cap in_cycle = {} THEN None
      ELSE IF from = 0
      THEN windows[CHOOSE i \in 1..n : /\ windows[i] \in in_cycle
                                      /\ \A j \in (i + 1)..n : windows[j] \notin in_cycle]
      ELSE First(from, 1..n)

(* A new cycle goes on from the top window at once.                        *)
focus_cycle(in_cycle, forward) ==
  /\ main_mod
  /\ mode \in {"none", "focus_cycle"}
  /\ mode' = "focus_cycle"
  /\ cycled' = LET next == cycle_next(cycled, in_cycle, forward)
               IN  IF mode = "focus_cycle" THEN next ELSE cycle_next(next, in_cycle, forward)
  /\ asked' = {}
  /\ UNCHANGED <<windows, mapped, late, input, movesize, zone, under>>
  /\ wm_arrange_windows

(* Tab cycles through all windows, the wheel through those whose frame the *)
(* pointer is in.                                                          *)
tab == \E forward \in BOOLEAN : focus_cycle(Window, forward)
wheel == \E forward \in BOOLEAN, in_cycle \in SUBSET ToSet(windows) :
           focus_cycle(in_cycle, forward)

modifier_press ==
  /\ ~main_mod
  /\ main_mod' = TRUE
  /\ asked' = {}
  /\ UNCHANGED <<stack, pressed, focus, interaction>>

(* Mutant: a cycle whose window was destroyed ends without arranging.      *)
EndCycleEarly ==
  /\ mode' = "none"
  /\ cycled' = None
  /\ UNCHANGED <<mapped, movesize, zone, under>>
  /\ IF cycled # None THEN focus' = cycled /\ Restack(cycled) /\ wm_arrange_windows
                      ELSE UNCHANGED <<focus, windows, layer, faded, late>>

(* focus_cycle_end, when the modifier is released in a cycle.              *)
focus_cycle_end ==
  /\ mode' = "none"
  /\ cycled' = None
  /\ UNCHANGED <<mapped, movesize, zone, under>>
  /\ IF cycled # None THEN focus' = cycled /\ Restack(cycled)
                      ELSE UNCHANGED <<focus, windows, late>>
  /\ wm_arrange_windows

modifier_release ==
  /\ main_mod
  /\ main_mod' = FALSE
  /\ asked' = {}
  /\ UNCHANGED pressed
  /\ IF mode = "focus_cycle" THEN focus_cycle_end
                             ELSE UNCHANGED <<stack, focus, interaction>>

(* The keys Q, S and F; F asks for no modifier.                            *)
close_key ==
  /\ main_mod
  /\ close(focus)
  /\ UNCHANGED <<stack, input, interaction>>

unfocus_key ==
  /\ main_mod
  /\ focus' = None
  /\ asked' = {}
  /\ UNCHANGED <<stack, main_mod, pressed, interaction>>

fullscreen_key ==
  /\ focus # None
  /\ asked' = {Event("fullscreen", focus)}
  /\ UNCHANGED <<stack, input, interaction>>

-----------------------------------------------------------------------------
Next ==
  \/ \E w \in Window :
       \/ wm_window_create(w) \/ wm_window_map(w)
       \/ wm_window_unmap(w)  \/ WmWindow_destroy(w)
  \/ motion
  \/ \E hover \in ToSet(windows) \cup {None} :
       \/ close_hotkey(hover) \/ begin(hover)
       \/ \E b \in Button : press_during(b, hover) \/ press(b, hover)
  \/ tab \/ wheel
  \/ modifier_press \/ modifier_release
  \/ unfocus_key
  \/ release \/ close_key \/ fullscreen_key

Spec == Init /\ [][Next]_vars

-----------------------------------------------------------------------------
(* Each window is in the list at most once, and the state that names       *)
(* windows names live ones.                                                *)
TypeOK ==
  /\ windows \in Seq(Window)
  /\ \A i, j \in DOMAIN windows : windows[i] = windows[j] => i = j
  /\ layer \in Seq(ToSet(windows))
  /\ mapped \subseteq ToSet(windows)
  /\ faded \subseteq ToSet(windows)
  /\ late \subseteq mapped
  /\ mode \in Mode
  /\ main_mod \in BOOLEAN
  /\ pressed \in 0..MaxButtons
  /\ {focus, movesize, zone.window, cycled} \subseteq ToSet(windows) \cup {None}
  /\ zone = [window |-> zone.window, selecting |-> zone.selecting]
  /\ zone.selecting \in BOOLEAN
  /\ under \in Window \cup {None}
  /\ asked \subseteq [kind : Kind, window : ToSet(windows)]

(* What is on screen is what the list says: after any sequence of windows  *)
(* created, mapped, raised, cycled through, unmapped and destroyed, also   *)
(* in the middle of a cycle, the scene's window layer holds the mapped     *)
(* windows in order, with the cycled one on top; and a window is faded     *)
(* only by a focus cycle and only below the cycled one, and none stays     *)
(* faded when the cycle is over.                                           *)
LayerArranged ==
  /\ TypeOK
  /\ layer = Stacking(windows, mapped, Top)
  /\ ToSet(layer) \cap faded =
       IF mode = "focus_cycle" THEN ToSet(layer) \ {cycled} ELSE {}

(* No interaction outlives the button or the modifier that keeps it going. *)
(* The filters see every release, also those of events others captured.    *)
HeldWhileActive ==
  /\ mode \in {"move", "size", "zone"} => pressed # 0
  /\ mode = "focus_cycle" => main_mod
  /\ cycled # None => mode = "focus_cycle"

(* The window that has the keyboard is the topmost one.  The exception is  *)
(* a window that was given the keyboard while it was not mapped, which a   *)
(* focus cycle does: mapping it then does not raise it.                    *)
FocusOnTop ==
  focus \in mapped \ late =>
    \A i \in DOMAIN windows : windows[i] \in mapped =>
      \E j \in DOMAIN windows : windows[j] = focus /\ i <= j

(* In a focus cycle, turning on comes by every window before it comes back *)
(* to the cycled one, in either direction, also when that one was just     *)
(* destroyed (None).  A cycle through some of the windows goes the same    *)
(* way and passes over the others, but over none of its own; without a     *)
(* window to go on from it starts at its topmost, also when it goes up, so *)
(* that only going down passes over none.                                  *)
CycleVisitsAll ==
  mode = "focus_cycle" =>
    \A forward \in BOOLEAN :
      LET visited[k \in 0..Len(windows)] ==
            IF k = 0 THEN cycled ELSE cycle_next(visited[k - 1], Window, forward)
      IN  /\ {visited[k] : k \in 1..Len(windows)} = ToSet(windows)
          /\ cycled # None => visited[Len(windows)] = cycled
          /\ \A in_cycle \in (SUBSET ToSet(windows)) \ {{}} :
               \E k \in 1..Len(windows) :
                 /\ visited[k] = cycle_next(cycled, in_cycle, forward)
                 /\ visited[k] \in in_cycle
                 /\ cycled # None \/ forward =>
                      \A j \in 1..(k - 1) : visited[j] \notin in_cycle

(* A drag or a zone asks for a new frame only for the window it began on,  *)
(* whatever was mapped, raised or destroyed under the pointer meanwhile.   *)
(* (A zone begun over no window keeps the window of the one before.)       *)
AsksOwnWindow ==
  \A e \in asked' : /\ e.kind = "drag" => e.window = under
                    /\ e.kind = "zone" => under \in {e.window, None}

OwnTarget == [][AsksOwnWindow]_vars

=============================================================================
