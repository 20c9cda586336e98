------------------------------- MODULE SeatFocus -------------------------------
(***************************************************************************)
(* Keyboard and pointer focus, from the seat to the clients' wl_keyboard   *)
(* and wl_pointer objects (src/seat/{seat,keyboard,pointer,focus}.cpp and  *)
(* src/way/seat/{seat,keyboard,pointer}.cpp).                              *)
(*                                                                         *)
(* Focus is kept twice.  A SeatKeyboard or SeatPointer points at the       *)
(* SeatFocus of any surface; posting enter and leave events, it tells the  *)
(* SeatClients.  The Wayland layer keeps the surface its clients were told *)
(* of: for the pointer that surface, for the keyboard the toplevel above   *)
(* it.  Events for a client that has no wl_seat are dropped on the way.    *)
(*                                                                         *)
(* There is one seat.  A client that binds wl_seat takes a wl_keyboard and *)
(* a wl_pointer at once.  No filter captures enter or leave events; a      *)
(* button may be captured by any.  A WaySurface goes when its wl_surface   *)
(* goes; what lies under the pointer is any visible surface.               *)
(***************************************************************************)
EXTENDS Naturals, FiniteSets

CONSTANTS
  Client,     \* The Wayland clients.
  Surface,    \* Their toplevels, popups and subsurfaces.
  Null,       \* No surface.
  Owner,      \* Owner[s] is the client of surface s.
  ParentOf,   \* ParentOf[s] is the parent of a popup or subsurface, else Null.
  MaxButtons  \* Bound on the pointer buttons that are down at once.

ASSUME NullAssumption == Null \notin Surface \cup Client
ASSUME TreeAssumption ==
  /\ Owner \in [Surface -> Client]
  /\ ParentOf \in [Surface -> Surface \cup {Null}]
  /\ \A s \in Surface : ParentOf[s] # Null =>
       /\ Owner[ParentOf[s]] = Owner[s]
       /\ ParentOf[ParentOf[s]] = Null
ASSUME ButtonsAssumption == MaxButtons \in Nat

VARIABLES
  alive,    \* Surfaces whose WaySurface, hence SeatFocus, exists.
  role,     \* Toplevels that have their xdg_toplevel role.
  mapped,   \* Toplevels whose window is mapped.
  bound,    \* Clients that have a WayClientSeat.
  keyboard, \* [focus |-> SeatKeyboard::focus, way |-> WaySeat::focus.keyboard]
  pointer,  \* [focus |-> SeatPointer::focus, way |-> WaySeat::focus.pointer]
  buttons,  \* Number of pointer buttons down.
  view,     \* History: [keyboard, pointer |-> the surfaces last entered, not left]
  strays,   \* History: messages of the last step about another client's surface.
  failed,   \* An assertion failed and stopped the compositor.
  kept      \* History: no client released its seat while one of its surfaces
            \* had the keyboard or the pointer.

vars == <<alive, role, mapped, bound, keyboard, pointer, buttons, view, strays, failed,
          kept>>

Toplevel == {s \in Surface : ParentOf[s] = Null}

(* A message to the wl_keyboard or wl_pointer of a client.                 *)
Message(device, kind, c, s) == [device |-> device, kind |-> kind, to |-> c, surface |-> s]

Init ==
  /\ alive = {}
  /\ role = {}
  /\ mapped = {}
  /\ bound = {}
  /\ keyboard = [focus |-> Null, way |-> Null]
  /\ pointer = [focus |-> Null, way |-> Null]
  /\ buttons = 0
  /\ view = [keyboard |-> {}, pointer |-> {}]
  /\ strays = {}
  /\ failed = FALSE
  /\ kept = TRUE

-------------------------------------------------------------------------------
(* The handlers of the Wayland layer.  Each takes the surface that layer   *)
(* holds and gives [way, sent, failed]: the one it holds afterwards, what  *)
(* it sent, and whether an assertion failed.  dying is the surface whose   *)
(* destructor is running, if any: its wl_surface is gone already.          *)

Unchanged(way) == [way |-> way, sent |-> {}, failed |-> FALSE]

(* way_seat_on_keyboard_leave and way_seat_on_pointer_leave.               *)
OnLeave(device, c, way, dying) ==
  IF c \notin bound \/ way = Null THEN Unchanged(way)
  ELSE [way |-> Null,
        sent |-> IF way = dying THEN {} ELSE {Message(device, "leave", c, way)},
        failed |-> FALSE]

(* find_root_toplevel; Null where its assertion on the parent fails.       *)
Root(s) ==
  IF s \in role THEN s
  ELSE IF ParentOf[s] \in alive \cap role THEN ParentOf[s]
  ELSE Null

(* Seeded fault: the old surface is not left when the new one has the same *)
(* client.                                                                 *)
OnKeyboardEnterNoLeave(c, way, s) ==
  IF c \notin bound \/ Root(s) = way THEN Unchanged(way)
  ELSE IF Root(s) = Null THEN [way |-> way, sent |-> {}, failed |-> TRUE]
  ELSE [way |-> Root(s),
        sent |-> {Message("keyboard", "enter", c, Root(s))},
        failed |-> FALSE]

(* way_seat_on_keyboard_enter                                              *)
OnKeyboardEnter(c, way, s) ==
  IF c \notin bound THEN Unchanged(way)
  ELSE IF Root(s) = Null THEN [way |-> way, sent |-> {}, failed |-> TRUE]
  ELSE IF Root(s) = way THEN Unchanged(way)
  ELSE [way |-> Root(s),
        sent |-> OnLeave("keyboard", c, way, Null).sent
                   \cup {Message("keyboard", "enter", c, Root(s))},
        failed |-> FALSE]

(* way_seat_on_pointer_enter                                               *)
OnPointerEnter(c, way, s) ==
  IF c \notin bound THEN Unchanged(way)
  ELSE [way |-> s,
        sent |-> (IF way \in {Null, s} THEN {} ELSE {Message("pointer", "leave", c, way)})
                   \cup {Message("pointer", "enter", c, s)},
        failed |-> FALSE]

-------------------------------------------------------------------------------
(* The seat: seat_keyboard_focus and seat_pointer_focus.  The outcome of a *)
(* change of focus is [focus, way, sent, failed].                          *)

OwnerOf(s) == IF s = Null THEN Null ELSE Owner[s]

(* Seeded fault: leave is not posted when the focus goes to nobody.        *)
FocusForgetsLeave(device, d, new, dying) ==
  LET c == OwnerOf(d.focus)
      left == IF new = Null \/ c \in {Null, OwnerOf(new)} THEN Unchanged(d.way)
              ELSE OnLeave(device, c, d.way, dying)
      entered == IF new = Null THEN Unchanged(left.way)
                 ELSE IF device = "keyboard" THEN OnKeyboardEnter(Owner[new], left.way, new)
                 ELSE OnPointerEnter(Owner[new], left.way, new)
  IN  [focus |-> new, way |-> entered.way, sent |-> left.sent \cup entered.sent,
       failed |-> entered.failed]

Focus(device, d, new, dying) ==
  LET c == OwnerOf(d.focus)
      left == IF c \in {Null, OwnerOf(new)} THEN Unchanged(d.way)
              ELSE OnLeave(device, c, d.way, dying)
      entered == IF new = Null THEN Unchanged(left.way)
                 ELSE IF device = "keyboard" THEN OnKeyboardEnter(Owner[new], left.way, new)
                 ELSE OnPointerEnter(Owner[new], left.way, new)
  IN  [focus |-> new, way |-> entered.way, sent |-> left.sent \cup entered.sent,
       failed |-> entered.failed]

(* Giving a device the focus it has already changes nothing.               *)
FocusOf(device, d, new, dying) ==
  IF d.focus = new
  THEN [focus |-> d.focus, way |-> d.way, sent |-> {}, failed |-> FALSE]
  ELSE Focus(device, d, new, dying)

seat_keyboard_focus(new) == FocusOf("keyboard", keyboard, new, Null)
seat_pointer_focus(new) == FocusOf("pointer", pointer, new, Null)

(* The clients read what was sent to them.                                 *)
Seen(old, sent) ==
  (old \ {m.surface : m \in {n \in sent : n.kind = "leave"}})
    \cup {m.surface : m \in {n \in sent : n.kind = "enter"}}

(* The devices take their new focus.  A Weak<WaySurface> to a surface that *)
(* is gone afterwards is empty, and so are its client's memories of it.    *)
Take(k, p) ==
  LET Held(way) == IF way \in alive' THEN way ELSE Null IN
  /\ keyboard' = [focus |-> k.focus, way |-> Held(k.way)]
  /\ pointer' = [focus |-> p.focus, way |-> Held(p.way)]
  /\ strays' = {m \in k.sent \cup p.sent : m.to # Owner[m.surface]}
  /\ failed' = (k.failed \/ p.failed)
  /\ view' = [keyboard |-> Seen(view.keyboard, k.sent) \cap alive',
              pointer |-> Seen(view.pointer, p.sent) \cap alive']

NoKeyboard == seat_keyboard_focus(keyboard.focus)
NoPointer == seat_pointer_focus(pointer.focus)

-------------------------------------------------------------------------------
(* Clients.                                                                *)

(* bind of wl_seat, get_keyboard and get_pointer: nothing is synchronized  *)
(* with a focus the client may already have.                               *)
BindSeat(c) ==
  /\ ~failed
  /\ c \notin bound
  /\ bound' = bound \cup {c}
  /\ strays' = {}
  /\ UNCHANGED <<alive, role, mapped, keyboard, pointer, buttons, view, failed, kept>>

(* ~WayClientSeat, with the last of the client's seat objects.             *)
ReleaseSeat(c) ==
  /\ ~failed
  /\ c \in bound
  /\ bound' = bound \ {c}
  /\ strays' = {}
  /\ view' = [d \in DOMAIN view |-> {s \in view[d] : Owner[s] # c}]
  /\ kept' = (kept /\ c \notin {OwnerOf(keyboard.way), OwnerOf(pointer.way)})
  /\ UNCHANGED <<alive, role, mapped, keyboard, pointer, buttons, failed>>

(* create_surface, and get_toplevel or a popup or subsurface role.         *)
CreateSurface(s) ==
  /\ ~failed
  /\ s \notin alive
  /\ ParentOf[s] = Null \/ ParentOf[s] \in mapped
  /\ alive' = alive \cup {s}
  /\ role' = role \cup ({s} \cap Toplevel)
  /\ strays' = {}
  /\ UNCHANGED <<mapped, bound, keyboard, pointer, buttons, view, failed, kept>>

(* way_toplevel_on_map_change: a window that appears takes the keyboard;   *)
(* one that disappears keeps what it has.                                  *)
MapToplevel(s) ==
  /\ ~failed
  /\ s \in role \ mapped
  /\ mapped' = mapped \cup {s}
  /\ UNCHANGED <<alive, role, bound, buttons, kept>>
  /\ Take(seat_keyboard_focus(s), NoPointer)

UnmapToplevel(s) ==
  /\ ~failed
  /\ s \in mapped
  /\ mapped' = mapped \ {s}
  /\ strays' = {}
  /\ UNCHANGED <<alive, role, bound, keyboard, pointer, buttons, view, failed, kept>>

(* ~WayToplevel for a surface that lives on.                               *)
DestroyToplevel(s) ==
  /\ ~failed
  /\ s \in role
  /\ role' = role \ {s}
  /\ mapped' = mapped \ {s}
  /\ strays' = {}
  /\ UNCHANGED <<alive, bound, keyboard, pointer, buttons, view, failed, kept>>

(* Seeded fault: only the keyboard is told that the surface is gone.       *)
DestroySurfaceKeepsPointer(s) ==
  /\ ~failed
  /\ s \in alive
  /\ alive' = alive \ {s}
  /\ role' = role \ {s}
  /\ mapped' = mapped \ {s}
  /\ UNCHANGED <<bound, buttons, kept>>
  /\ Take(IF keyboard.focus = s THEN FocusOf("keyboard", keyboard, Null, s) ELSE NoKeyboard,
          NoPointer)

(* ~WaySurface and its ~SeatFocus, which takes the focus from both devices *)
(* where it has it.                                                        *)
DestroySurface(s) ==
  /\ ~failed
  /\ s \in alive
  /\ alive' = alive \ {s}
  /\ role' = role \ {s}
  /\ mapped' = mapped \ {s}
  /\ UNCHANGED <<bound, buttons, kept>>
  /\ Take(IF keyboard.focus = s THEN FocusOf("keyboard", keyboard, Null, s) ELSE NoKeyboard,
          IF pointer.focus = s THEN FocusOf("pointer", pointer, Null, s) ELSE NoPointer)

-------------------------------------------------------------------------------
(* The user and the window manager.                                        *)

(* Surfaces the pointer can be over.                                       *)
Visible == {s \in alive : s \in mapped \/ ParentOf[s] \in mapped}

(* Seeded fault: the pointer focus follows the pointer during a drag.      *)
UpdateIgnoresButtons(held, under) == under

(* update_pointer_focus: the focus stays while any button is held.         *)
update_pointer_focus(held, under) == IF held > 0 THEN pointer.focus ELSE under

(* seat_pointer_move, for motion and, from an idle handler, after a change *)
(* of the scene's input regions.                                           *)
seat_pointer_move(under) ==
  /\ ~failed
  /\ UNCHANGED <<alive, role, mapped, bound, buttons, kept>>
  /\ Take(NoKeyboard, seat_pointer_focus(update_pointer_focus(buttons, under)))

(* seat_pointer_button, a press.  Delivered, it moves the keyboard to the  *)
(* pointer's focus; nobody under the pointer, it takes the keyboard away;  *)
(* captured by a filter over a focus, it does nothing.                     *)
PressButton(captured) ==
  /\ ~failed
  /\ buttons < MaxButtons
  /\ buttons' = buttons + 1
  /\ UNCHANGED <<alive, role, mapped, bound, kept>>
  /\ Take(IF captured /\ pointer.focus # Null THEN NoKeyboard
          ELSE seat_keyboard_focus(pointer.focus), NoPointer)

ReleaseButton(under) ==
  /\ ~failed
  /\ buttons > 0
  /\ buttons' = buttons - 1
  /\ UNCHANGED <<alive, role, mapped, bound, kept>>
  /\ Take(NoKeyboard, seat_pointer_focus(update_pointer_focus(buttons', under)))

(* wm_window_focus at the end of a focus cycle, which any window may take  *)
(* part in, and the hotkey that gives the keyboard to nobody.              *)
wm_window_focus(s) ==
  /\ ~failed
  /\ s \in role \cup {Null}
  /\ UNCHANGED <<alive, role, mapped, bound, buttons, kept>>
  /\ Take(seat_keyboard_focus(s), NoPointer)

Next ==
  \/ \E c \in Client : BindSeat(c) \/ ReleaseSeat(c)
  \/ \E s \in Surface :
       \/ CreateSurface(s)
       \/ MapToplevel(s)
       \/ UnmapToplevel(s)
       \/ DestroyToplevel(s)
       \/ DestroySurface(s)
  \/ \E under \in Visible \cup {Null} : seat_pointer_move(under) \/ ReleaseButton(under)
  \/ \E captured \in BOOLEAN : PressButton(captured)
  \/ \E s \in Surface \cup {Null} : wm_window_focus(s)

Spec == Init /\ [][Next]_vars

-------------------------------------------------------------------------------
(* Properties.                                                             *)

Devices == [focus : alive \cup {Null}, way : alive \cup {Null}]

(* Every variable holds a value of its kind; no device, neither in the     *)
(* seat nor in the Wayland layer, points at a surface that is gone.        *)
TypeOK ==
  /\ alive \subseteq Surface
  /\ role \subseteq alive \cap Toplevel
  /\ mapped \subseteq role
  /\ bound \subseteq Client
  /\ keyboard \in Devices
  /\ pointer \in Devices
  /\ buttons \in 0 .. MaxButtons
  /\ view \in [{"keyboard", "pointer"} -> SUBSET alive]
  /\ strays \subseteq [device : {"keyboard", "pointer"}, kind : {"enter", "leave"},
                     to : Client, surface : Surface]
  /\ {failed, kept} \subseteq BOOLEAN

(* What the clients were told is what the Wayland layer believes: at most  *)
(* one surface of one client has the keyboard, one the pointer, every      *)
(* other that ever had it was told to let go, and no client hears of       *)
(* another client's surface.  This, and the property below, hold as long   *)
(* as no client releases its seat while it has the focus.                  *)
ClientsAgree ==
  /\ TypeOK
  /\ kept =>
       /\ view.keyboard = {keyboard.way} \ {Null}
       /\ view.pointer = {pointer.way} \ {Null}
       /\ strays = {}

(* The two records of the focus agree: the surface the Wayland layer       *)
(* announced is the seat's focus, or for the keyboard the toplevel above   *)
(* it; so input routed by the first is understood by the second.  (Once an *)
(* assertion has failed nothing is routed any more.)                       *)
LayersAgree ==
  kept /\ ~failed =>
    /\ keyboard.way # Null =>
         keyboard.focus # Null /\ keyboard.way \in {keyboard.focus, ParentOf[keyboard.focus]}
    /\ pointer.way # Null => pointer.way = pointer.focus

(* A surface that a button was pressed on keeps the pointer, wherever the  *)
(* pointer goes and whatever other buttons do, until the last button is    *)
(* released or the surface is gone.                                        *)
GrabKept ==
  [][(buttons > 0 /\ buttons' > 0 /\ pointer.focus \in alive')
       => pointer'.focus = pointer.focus]_vars

=============================================================================
