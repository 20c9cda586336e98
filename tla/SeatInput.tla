------------------------------- MODULE SeatInput -------------------------------
(***************************************************************************)
(* Keys and buttons, from the devices to what the clients believe is held  *)
(* (src/io/input.cpp, libinput/events.cpp, wayland/seat.cpp, wm/io.cpp,    *)
(* the hotkeys and focus cycle of src/wm, src/seat/{seat,keyboard,         *)
(* pointer}.cpp and way/seat/keyboard.cpp).                                *)
(*                                                                         *)
(* A device remembers what is pressed on it.  The seat counts how many     *)
(* devices press a code, its keyboard keeps an xkb state, and its event    *)
(* filters may capture a press (never a release) and move the focus in the *)
(* middle of an event.  A client is told of all keys when a surface of it  *)
(* gets the keyboard, and of changes from then on.                         *)
(*                                                                         *)
(* One backend runs: libinput's, whose devices come and go, or that of a   *)
(* host compositor, whose wl_seat keeps its keyboard and pointer.  All     *)
(* clients have bound wl_seat and its keyboard; surfaces do not vanish     *)
(* (SeatFocus is about those cases).  Where the pointer is does not matter *)
(* here: a press may have any surface below it.                            *)
(***************************************************************************)
EXTENDS Integers, FiniteSets, Sequences, SequencesExt

CONSTANTS
  LibinputDevice, \* Devices libinput can announce.
  HostKeyboard,   \* IoWayland::keyboard
  HostPointer,    \* IoWayland::pointer
  Codes,          \* Codes[d] are the keys and buttons device d has.
  Surface,        \* Toplevels that can have the keyboard.
  Owner,          \* Owner[s] is the client of surface s.
  Null,           \* No surface.
  MaxRoundtrips   \* Bound on the roundtrips nested in one another.

Device == LibinputDevice \cup {HostKeyboard, HostPointer}
Client == {Owner[s] : s \in Surface}

ASSUME NullAssumption == Null \notin Surface
ASSUME DeviceAssumption == IsFiniteSet(LibinputDevice)
ASSUME RoundtripsAssumption == MaxRoundtrips \in Nat

\* In the order of their numbers, the order of flat_set.
CodeOrder == <<"tab", "s", "alt", "caps", "meta", "left", "side">>
Code == Range(CodeOrder)
Button == {"left"}
Key == Code \ {"left", "side"}
Modifier == {"alt", "caps", "meta"}

ASSUME CodesAssumption == Codes \in [Device -> SUBSET Code]

VARIABLES
  backend,  \* "libinput" or "wayland"
  attached, \* IoContext::input_devices, and the window manager's.
  pressed,  \* IoInputDeviceBase::pressed of each device.
  waiting,  \* wl_display_roundtrips of keyboard_enter that have not returned.
  in_keyboard_enter, \* IoWayland::in_keyboard_enter
  seat      \* The seat and its clients, see InputInit.

input_vars == <<backend, attached, pressed, waiting, in_keyboard_enter, seat>>

NoView == [keys |-> {}, mods |-> {}]

InputInit ==
  /\ backend \in {"libinput", "wayland"}
  /\ attached = IF backend = "wayland" THEN {HostKeyboard, HostPointer} ELSE {}
  /\ pressed = [d \in Device |-> {}]
  /\ waiting = 0
  /\ in_keyboard_enter = FALSE
  /\ seat = [counts |-> [c \in Code |-> 0],  \* The pressed of SeatKeyboard and SeatPointer.
             base |-> {}, locked |-> {},     \* xkb_state: modifiers held and locked,
             unlocks |-> {},                 \* and those a release will unlock.
             mods |-> {},                    \* SeatKeyboard::depressed
             cycling |-> FALSE,              \* WmInteractionMode::focus_cycle
             focus |-> Null,                 \* SeatKeyboard::focus
             view |-> [c \in Client |-> NoView], \* What each client was told.
             swallowed |-> {},               \* History: pressed keys whose press the
                                             \* client with the keyboard did not see.
             twice |-> FALSE]                \* History: a press of a held key was sent.

-------------------------------------------------------------------------------
(* The keyboard's focus.  The operators below take a seat and return it    *)
(* after the call they are named for.                                      *)

Held(s) == {k \in Key : s.counts[k] > 0}
Effective(s) == s.base \cup s.locked
Told(s, view) == [s EXCEPT !.view[Owner[s.focus]] = view]

(* keyboard_leave: the client forgets keys and modifiers.                  *)
keyboard_leave(s) == IF s.focus = Null THEN s ELSE Told(s, NoView)

(* Seeded fault: the client is not sent the modifiers.                     *)
KeyboardEnterWithoutModifiers(s) == Told(s, [keys |-> Held(s), mods |-> {}])

(* way_seat_on_keyboard_enter: all the pressed keys, and the modifiers.    *)
way_seat_on_keyboard_enter(s) == Told(s, [keys |-> Held(s), mods |-> Effective(s)])

(* seat_keyboard_focus, and the handlers of the events it posts.           *)
seat_keyboard_focus(s, new) ==
  IF new = s.focus THEN s
  ELSE LET left == [keyboard_leave(s) EXCEPT !.focus = new, !.swallowed = {}]
       IN  IF new = Null THEN left ELSE way_seat_on_keyboard_enter(left)

-------------------------------------------------------------------------------
(* Filters.                                                                *)

MainMod == IF backend = "wayland" THEN "alt" ELSE "meta"
HasMainMod(s) == MainMod \in s.mods

(* The hotkeys and the focus cycle see the press of a key: S takes the     *)
(* keyboard away, Tab (and likewise Q and the launcher's D) is captured.   *)
FilterKey(s, k) ==
  IF ~HasMainMod(s) THEN s
  ELSE IF k = "s" THEN seat_keyboard_focus(s, Null)
  ELSE IF k = "tab" THEN [s EXCEPT !.cycling = TRUE]
  ELSE s

Captured(s, k) == k = "tab" /\ HasMainMod(s)

(* filter_event of the focus cycle: with the main modifier gone the window *)
(* it shows, if any, gets the keyboard.                                    *)
FilterModifier(s, cycled) ==
  IF ~s.cycling \/ HasMainMod(s) THEN s
  ELSE LET ended == [s EXCEPT !.cycling = FALSE]
       IN  IF cycled = Null THEN ended ELSE seat_keyboard_focus(ended, cycled)

-------------------------------------------------------------------------------
(* Keys and buttons of the seat.                                           *)

(* Seeded fault: one release is enough, whoever else holds the code.       *)
CountOnce(s, c, down) == [s EXCEPT !.counts[c] = IF down THEN @ + 1 ELSE 0]

Count(s, c, down) == [s EXCEPT !.counts[c] = IF down THEN @ + 1 ELSE @ - 1]

(* CountingSet::inc and dec: whether the code is pressed now, or no more.  *)
First(s, c, down) == s.counts[c] = IF down THEN 0 ELSE 1

(* xkb_state_update_key for plain modifiers and for a lock.  A lock is     *)
(* released by the second release.                                         *)
xkb_state_update_key(s, k, down) ==
  LET mod == {k} \cap Modifier
      lock == {k} \cap {"caps"}
  IN  IF down
      THEN [s EXCEPT !.base = @ \cup mod, !.locked = @ \cup lock,
                     !.unlocks = (@ \ lock) \cup (lock \cap s.locked)]
      ELSE [s EXCEPT !.base = @ \ mod, !.locked = @ \ (lock \cap s.unlocks)]

(* Seeded fault: the hotkeys capture releases too.                         *)
PostKeyCapturesReleases(s, k, down) ==
  LET filtered == IF down THEN FilterKey(s, k) ELSE s
      client == Owner[filtered.focus]
  IN  IF Captured(s, k) THEN [filtered EXCEPT !.swallowed = @ \cup {k}]
      ELSE IF filtered.focus = Null THEN filtered
      ELSE [filtered EXCEPT
              !.view[client].keys = IF down THEN @ \cup {k} ELSE @ \ {k},
              !.twice = @ \/ (down /\ k \in filtered.view[client].keys),
              !.swallowed = @ \ {k}]

(* The key event: filtered, then sent to the client with the keyboard.     *)
PostKey(s, k, down) ==
  LET filtered == IF down THEN FilterKey(s, k) ELSE s
      client == Owner[filtered.focus]
  IN  IF down /\ Captured(s, k) THEN [filtered EXCEPT !.swallowed = @ \cup {k}]
      ELSE IF filtered.focus = Null THEN filtered
      ELSE [filtered EXCEPT
              !.view[client].keys = IF down THEN @ \cup {k} ELSE @ \ {k},
              !.twice = @ \/ (down /\ k \in filtered.view[client].keys),
              !.swallowed = @ \ {k}]

(* handle_xkb_component_updates: the locked modifiers replace the          *)
(* depressed ones, as the code has it.                                     *)
handle_xkb_component_updates(old, s, cycled) ==
  LET mods == IF s.locked # old.locked THEN s.locked
              ELSE IF s.base # old.base THEN s.base
              ELSE s.mods
      updated == [s EXCEPT !.mods = mods]
      filtered == FilterModifier(updated, cycled)
  IN  IF Effective(s) = Effective(old) THEN updated
      ELSE IF filtered.focus = Null THEN filtered
      ELSE [filtered EXCEPT !.view[Owner[filtered.focus]].mods = Effective(filtered)]

(* seat_keyboard_key                                                       *)
seat_keyboard_key(s, k, down, cycled) ==
  LET counted == Count(s, k, down)
      updated == xkb_state_update_key(counted, k, down)
  IN  IF ~First(s, k, down) THEN counted
      ELSE handle_xkb_component_updates([base |-> s.base, locked |-> s.locked],
                                        PostKey(updated, k, down), cycled)

(* seat_pointer_button: a press that is not captured moves the keyboard to *)
(* what is below the pointer, given here as where the keyboard goes.       *)
seat_pointer_button(s, b, down, target) ==
  LET counted == Count(s, b, down)
  IN  IF down /\ First(s, b, down) THEN seat_keyboard_focus(counted, target) ELSE counted

(* handle_key: the side button of a mouse is the left meta key.            *)
SeatCode(c) == IF c = "side" THEN "meta" ELSE c

handle_key(s, c, down, target) ==
  IF SeatCode(c) \in Button THEN seat_pointer_button(s, c, down, target)
  ELSE seat_keyboard_key(s, SeatCode(c), down, target)

(* io_post_event and wm_input_device_push_events: of these codes, one      *)
(* after another, those that changed.                                      *)
Post(codes, changed, down, target) ==
  LET after[n \in 0 .. Len(codes)] ==
        IF n = 0 THEN seat
        ELSE IF codes[n] \in changed THEN handle_key(after[n - 1], codes[n], down, target)
        ELSE after[n - 1]
  IN  seat' = after[Len(codes)]

-------------------------------------------------------------------------------
(* The devices.                                                            *)

io_input_device_key_press(d, c, target) ==
  IF c \in pressed[d] THEN UNCHANGED <<pressed, seat>>
  ELSE /\ pressed' = [pressed EXCEPT ![d] = @ \cup {c}]
       /\ Post(<<c>>, {c}, TRUE, target)

io_input_device_key_release(d, c, target) ==
  IF c \notin pressed[d] THEN UNCHANGED <<pressed, seat>>
  ELSE /\ pressed' = [pressed EXCEPT ![d] = @ \ {c}]
       /\ Post(<<c>>, {c}, FALSE, target)

(* Keys the device has pressed already are not pressed again.              *)
io_input_device_key_enter(d, codes, target) ==
  /\ pressed' = [pressed EXCEPT ![d] = @ \cup Range(codes)]
  /\ Post(codes, Range(codes) \ pressed[d], TRUE, target)

io_input_device_leave(d, target) ==
  /\ Post(CodeOrder, pressed[d], FALSE, target)
  /\ pressed' = [pressed EXCEPT ![d] = {}]

-------------------------------------------------------------------------------
(* libinput: handle_device_added, handle_device_removed (libinput releases *)
(* all keys first), handle_keyboard_key and handle_pointer_button.         *)

DeviceAdded(d) ==
  /\ backend = "libinput"
  /\ d \in LibinputDevice \ attached
  /\ attached' = attached \cup {d}
  /\ UNCHANGED <<backend, pressed, waiting, in_keyboard_enter, seat>>

DeviceRemoved(d) ==
  /\ backend = "libinput"
  /\ d \in attached
  /\ pressed[d] = {}
  /\ attached' = attached \ {d}
  /\ UNCHANGED <<backend, pressed, waiting, in_keyboard_enter, seat>>

LibinputKey(d, c, down, target) ==
  /\ backend = "libinput"
  /\ d \in attached
  /\ IF down THEN io_input_device_key_press(d, c, target)
             ELSE io_input_device_key_release(d, c, target)
  /\ UNCHANGED <<backend, attached, waiting, in_keyboard_enter>>

-------------------------------------------------------------------------------
(* The host compositor's events.  While keyboard_enter waits for its       *)
(* roundtrip nothing but these events is handled.                          *)

keyboard_enter(codes, target) ==
  /\ backend = "wayland"
  /\ waiting < MaxRoundtrips
  /\ io_input_device_key_enter(HostKeyboard, codes, target)
  /\ in_keyboard_enter' = TRUE
  /\ waiting' = waiting + 1
  /\ UNCHANGED <<backend, attached>>

RoundtripDone ==
  /\ waiting > 0
  /\ waiting' = waiting - 1
  /\ in_keyboard_enter' = FALSE
  /\ UNCHANGED <<backend, attached, pressed, seat>>

(* keyboard_leave and pointer_leave.                                       *)
HostLeave(d, target) ==
  /\ backend = "wayland"
  /\ io_input_device_leave(d, target)
  /\ UNCHANGED <<backend, attached, waiting, in_keyboard_enter>>

keyboard_key(c, down, target) ==
  /\ backend = "wayland"
  /\ IF down THEN io_input_device_key_press(HostKeyboard, c, target)
             ELSE io_input_device_key_release(HostKeyboard, c, target)
  /\ UNCHANGED <<backend, attached, waiting, in_keyboard_enter>>

(* The press that gave the host's window the keyboard is ignored.          *)
pointer_button(c, down, target) ==
  /\ backend = "wayland"
  /\ IF ~down THEN io_input_device_key_release(HostPointer, c, target)
     ELSE IF in_keyboard_enter THEN UNCHANGED <<pressed, seat>>
     ELSE io_input_device_key_press(HostPointer, c, target)
  /\ UNCHANGED <<backend, attached, waiting, in_keyboard_enter>>

-------------------------------------------------------------------------------

(* Windows that appear, and the user interface, take the keyboard.         *)
FocusMoves(target) ==
  /\ waiting = 0
  /\ seat' = seat_keyboard_focus(seat, target)
  /\ UNCHANGED <<backend, attached, pressed, waiting, in_keyboard_enter>>

InputNext ==
  \E target \in Surface \cup {Null} :
    \/ FocusMoves(target)
    \/ \E d \in LibinputDevice :
         \/ DeviceAdded(d)
         \/ DeviceRemoved(d)
         \/ \E c \in Codes[d], down \in BOOLEAN : LibinputKey(d, c, down, target)
    \/ \E codes \in UNION {SetToSeqs(keys) : keys \in SUBSET Codes[HostKeyboard]} :
         keyboard_enter(codes, target)
    \/ RoundtripDone
    \/ \E d \in {HostKeyboard, HostPointer} : HostLeave(d, target)
    \/ \E down \in BOOLEAN :
         \/ \E c \in Codes[HostKeyboard] : keyboard_key(c, down, target)
         \/ \E c \in Codes[HostPointer] : pointer_button(c, down, target)

InputSpec == InputInit /\ [][InputNext]_input_vars

-------------------------------------------------------------------------------
(* Properties.                                                             *)

(* Every variable holds a value of its kind.                               *)
InputTypeOK ==
  /\ backend \in {"libinput", "wayland"}
  /\ attached \subseteq Device
  /\ pressed \in [Device -> SUBSET Code]
  /\ waiting \in 0 .. MaxRoundtrips
  /\ in_keyboard_enter \in BOOLEAN
  /\ seat.counts \in [Code -> 0 .. 2 * Cardinality(Device)]
  /\ seat.focus \in Surface \cup {Null}
  /\ seat.view \in [Client -> [keys : SUBSET Key, mods : SUBSET Modifier]]
  /\ {seat.base, seat.locked, seat.unlocks, seat.mods} \subseteq SUBSET Modifier
  /\ seat.swallowed \subseteq Key
  /\ {seat.cycling, seat.twice} \subseteq BOOLEAN

(* The seat counts for every code how many keys and buttons of its devices *)
(* are held: none is stuck after its last release or its device's removal, *)
(* none goes up while another device still holds it, and CountingSet::dec  *)
(* never misses an entry, although a meta key may be a mouse's button.     *)
CountsMatch ==
  /\ InputTypeOK
  /\ \A c \in Code :
       seat.counts[c] =
         Cardinality({h \in attached \X Code : h[2] \in pressed[h[1]] /\ SeatCode(h[2]) = c})

(* The client with the keyboard believes held what is held, except keys    *)
(* whose press a filter captured from it; it is told of no press of a key  *)
(* it has; and other clients believe in no key at all.  So no key repeats  *)
(* for ever in a client after a hotkey or a focus change in mid-chord.     *)
ClientKeys ==
  /\ ~seat.twice
  /\ \A c \in Client :
       seat.view[c].keys =
         IF seat.focus # Null /\ Owner[seat.focus] = c THEN Held(seat) \ seat.swallowed
         ELSE {}

(* The client with the keyboard knows the effective modifiers, others have *)
(* none, whatever moved the focus and whenever.                            *)
ModifiersKnown ==
  \A c \in Client :
    seat.view[c].mods =
      IF seat.focus # Null /\ Owner[seat.focus] = c THEN Effective(seat) ELSE {}

===============================================================================
