---------------------------- MODULE SeatFocusProofs ----------------------------
(***************************************************************************)
(* Proofs about SeatFocus, for any clients, surfaces and numbers of        *)
(* buttons.                                                                *)
(***************************************************************************)
EXTENDS SeatFocus, TLAPS

Kinds == {"keyboard", "pointer"}
Messages ==
  [device : Kinds, kind : {"enter", "leave"}, to : Client, surface : Surface]

(* The Wayland layer's surface w belongs to the seat's focus f.            *)
Belongs(device, f, w) ==
  w # Null => f # Null /\ w \in (IF device = "keyboard" THEN {f, ParentOf[f]} ELSE {f})

(* The clients know of surface w alone, and its client can be told.        *)
Known(seen, w) ==
  /\ seen = {w} \ {Null}
  /\ w # Null => Owner[w] \in bound

IInv ==
  /\ TypeOK
  /\ kept =>
       /\ strays = {}
       /\ Known(view.keyboard, keyboard.way)
       /\ Known(view.pointer, pointer.way)
       /\ ~failed => /\ Belongs("keyboard", keyboard.focus, keyboard.way)
                     /\ Belongs("pointer", pointer.focus, pointer.way)

-------------------------------------------------------------------------------
(* A device given a focus, and what is sent of it, are of their types.     *)
LEMMA FocusType ==
  ASSUME TypeOK, NEW device \in Kinds, NEW d \in Devices,
         NEW new \in alive \cup {Null}, NEW dying
  PROVE  LET r == FocusOf(device, d, new, dying)
         IN  /\ r.focus = new
             /\ r.way \in alive \cup {Null}
             /\ r.failed \in BOOLEAN
             /\ r.sent \subseteq Messages
<1> DEFINE c == OwnerOf(d.focus)
           left == IF c \in {Null, OwnerOf(new)} THEN Unchanged(d.way)
                   ELSE OnLeave(device, c, d.way, dying)
           entered == IF new = Null THEN Unchanged(left.way)
                      ELSE IF device = "keyboard"
                           THEN OnKeyboardEnter(Owner[new], left.way, new)
                           ELSE OnPointerEnter(Owner[new], left.way, new)
           Fine(r) == /\ r.way \in alive \cup {Null}
                      /\ r.failed \in BOOLEAN
                      /\ r.sent \subseteq Messages
<1>1. /\ d.focus \in alive \cup {Null} /\ d.way \in alive \cup {Null}
      /\ alive \subseteq Surface /\ role \subseteq alive
  BY DEF TypeOK, Devices
<1>2. \A s \in Surface : Owner[s] \in Client
  BY TreeAssumption
<1>3. \A k \in {"enter", "leave"}, q \in Client, s \in Surface :
        Message(device, k, q, s) \in Messages
  BY DEF Message, Messages
<1>4. \A w \in alive \cup {Null} : Fine(Unchanged(w))
  BY DEF Unchanged
<1>5. \A dy : \A q \in Client, w \in alive \cup {Null} : Fine(OnLeave(device, q, w, dy))
  BY <1>1, <1>3, <1>4 DEF OnLeave
<1>6. Fine(left)
  BY <1>1, <1>2, <1>4, <1>5 DEF OwnerOf
<1>7. Root(new) \in alive \cup {Null}
  BY <1>1 DEF Root
<1>8. Fine(entered)
  <2>1. CASE new = Null
    BY <2>1, <1>4, <1>6
  <2>2. CASE new # Null /\ device = "keyboard"
    <3>1. Owner[new] \in Client /\ left.way \in alive \cup {Null}
      BY <2>2, <1>1, <1>2, <1>6
    <3>2. Fine(OnLeave("keyboard", Owner[new], left.way, Null))
      BY <2>2, <3>1, <1>5
    <3>3. Root(new) # Null => Message("keyboard", "enter", Owner[new], Root(new)) \in Messages
      BY <2>2, <3>1, <1>1, <1>3, <1>7
    <3>4. Fine(OnKeyboardEnter(Owner[new], left.way, new))
      BY <3>1, <3>2, <3>3, <1>4, <1>7 DEF OnKeyboardEnter
    <3> QED
      BY <2>2, <3>4
  <2>3. CASE new # Null /\ device # "keyboard"
    <3>1. /\ Owner[new] \in Client /\ left.way \in alive \cup {Null}
          /\ device = "pointer" /\ new \in Surface
      BY <2>3, <1>1, <1>2, <1>6 DEF Kinds
    <3>2. /\ Message("pointer", "enter", Owner[new], new) \in Messages
          /\ left.way # Null => Message("pointer", "leave", Owner[new], left.way) \in Messages
      BY <3>1, <1>1, <1>3
    <3> HIDE DEF left
    <3>3. Fine(OnPointerEnter(Owner[new], left.way, new))
      BY <2>3, <3>1, <3>2, <1>4 DEF OnPointerEnter
    <3> QED
      BY <2>3, <3>1, <3>3
  <2> QED
    BY <2>1, <2>2, <2>3
<1>9. Focus(device, d, new, dying) =
        [focus |-> new, way |-> entered.way, sent |-> left.sent \cup entered.sent,
         failed |-> entered.failed]
  BY DEF Focus
<1>10. CASE d.focus = new
  BY <1>10, <1>1 DEF FocusOf
<1>11. CASE d.focus # new
  <2>1. FocusOf(device, d, new, dying) = Focus(device, d, new, dying)
    BY <1>11 DEF FocusOf
  <2> HIDE DEF left, entered
  <2> QED
    BY <2>1, <1>6, <1>8, <1>9
<1> QED
  BY <1>10, <1>11

(* A client that is told to leave what it had and to enter another.        *)
LEMMA SeenSwap ==
  ASSUME NEW device, NEW old, NEW new, NEW c, NEW q, new # old
  PROVE  LET leave == IF old = Null THEN {} ELSE {Message(device, "leave", c, old)}
             enter == {Message(device, "enter", q, new)}
         IN  Seen({old} \ {Null}, leave \cup enter) = {new}
<1> DEFINE leave == IF old = Null THEN {} ELSE {Message(device, "leave", c, old)}
           enter == {Message(device, "enter", q, new)}
           sent == leave \cup enter
<1>1. {n \in sent : n.kind = "leave"} = leave
  BY DEF Message
<1>2. {n \in sent : n.kind = "enter"} = enter
  BY DEF Message
<1>3. {m.surface : m \in leave} = {old} \ {Null}
  <2>1. CASE old = Null
    BY <2>1
  <2>2. CASE old # Null
    <3>1. Message(device, "leave", c, old).surface = old
      BY DEF Message
    <3> QED
      BY <2>2, <3>1
  <2> QED
    BY <2>1, <2>2
<1>4. {m.surface : m \in enter} = {new}
  BY DEF Message
<1>5. Seen({old} \ {Null}, sent) =
        (({old} \ {Null}) \ {m.surface : m \in leave}) \cup {m.surface : m \in enter}
  BY <1>1, <1>2 DEF Seen
<1> QED
  BY <1>3, <1>4, <1>5

(* What the device announced follows its focus: nothing is sent to a       *)
(* client that it does not concern, and afterwards the clients know of the *)
(* new surface alone; a surface that dies while it has the focus is left.  *)
LEMMA FocusAnnounces ==
  ASSUME TypeOK, NEW device \in Kinds, NEW d \in Devices, NEW seen,
         NEW new \in alive \cup {Null}, NEW dying \in Surface \cup {Null},
         dying # Null => new = Null,
         Known(seen, d.way), Belongs(device, d.focus, d.way)
  PROVE  LET r == FocusOf(device, d, new, dying)
         IN  /\ \A m \in r.sent : m.to = Owner[m.surface]
             /\ Seen(seen, r.sent) \ {dying} = {r.way} \ {Null}
             /\ r.way # Null => Owner[r.way] \in bound
             /\ ~r.failed => Belongs(device, new, r.way)
<1> DEFINE c == OwnerOf(d.focus)
           left == IF c \in {Null, OwnerOf(new)} THEN Unchanged(d.way)
                   ELSE OnLeave(device, c, d.way, dying)
           entered == IF new = Null THEN Unchanged(left.way)
                      ELSE IF device = "keyboard"
                           THEN OnKeyboardEnter(Owner[new], left.way, new)
                           ELSE OnPointerEnter(Owner[new], left.way, new)
           r == FocusOf(device, d, new, dying)
<1>1. /\ d.focus \in alive \cup {Null} /\ d.way \in alive \cup {Null}
      /\ alive \subseteq Surface /\ role \subseteq alive
  BY DEF TypeOK, Devices
<1>2. /\ \A s \in Surface : Owner[s] \in Client /\ OwnerOf(s) = Owner[s] /\ Owner[s] # Null
      /\ OwnerOf(Null) = Null
  BY NullAssumption, TreeAssumption DEF OwnerOf
<1>3. d.way # Null => d.focus # Null /\ c = Owner[d.way] /\ c \in bound
  BY <1>1, <1>2, TreeAssumption DEF Belongs, Known
<1>4. CASE d.focus = new
  <2>1. r.way = d.way /\ r.sent = {} /\ r.failed = FALSE
    BY <1>4 DEF FocusOf
  <2>2. Seen(seen, {}) = seen
    BY DEF Seen
  <2>3. dying # Null => d.way = Null
    BY <1>3, <1>4
  <2> QED
    BY <2>1, <2>2, <2>3, <1>4 DEF Known, Belongs
<1>5. CASE d.focus # new
  <2>1. /\ r.way = entered.way /\ r.sent = left.sent \cup entered.sent
        /\ r.failed = entered.failed
    BY <1>5 DEF FocusOf, Focus
  (* The old client was told to let go, unless it is the new one too.      *)
  <2>2. /\ left.way \in {Null, d.way}
        /\ left.way # Null => new # Null /\ c = Owner[new] /\ c \in bound
        /\ left.way # d.way => OwnerOf(new) # c
        /\ left.sent = IF d.way \in {left.way, dying} THEN {}
                       ELSE {Message(device, "leave", Owner[d.way], d.way)}
    <3>1. CASE c \notin {Null, OwnerOf(new)}
      BY <3>1, <1>3 DEF OnLeave, Unchanged
    <3>2. CASE c = Null
      BY <3>2, <1>1, <1>2, <1>3 DEF Unchanged
    <3>3. CASE c # Null /\ c = OwnerOf(new)
      <4>1. left = Unchanged(d.way)
        BY <3>3
      <4>2. new # Null /\ c = Owner[new]
        BY <3>3, <1>1, <1>2
      <4> QED
        BY <4>1, <4>2, <1>3 DEF Unchanged
    <3> QED
      BY <3>1, <3>2, <3>3
  <2> HIDE DEF left
  <2>3. \A m \in left.sent : m.to = Owner[m.surface] /\ m.kind = "leave" /\ m.surface = d.way
    BY <2>2 DEF Message
  <2>4. CASE new = Null
    <3>1. entered.way = Null /\ entered.sent = {} /\ left.way = Null
      BY <2>4, <2>2 DEF Unchanged
    <3>2. Seen(seen, left.sent) \ {dying} = {}
      BY <2>2, <2>3, <3>1 DEF Seen, Known, Message
    <3> QED
      BY <2>1, <2>3, <3>1, <3>2 DEF Belongs
  <2>5. CASE new # Null /\ Owner[new] \notin bound
    <3>1. entered = Unchanged(left.way)
      BY <2>5 DEF OnKeyboardEnter, OnPointerEnter
    <3>2. left.way = Null
      BY <2>2, <2>5
    <3>3. entered.way = Null /\ entered.sent = {}
      BY <3>1, <3>2 DEF Unchanged
    <3>4. Seen(seen, left.sent) \ {dying} = {}
      BY <2>2, <2>3, <3>2 DEF Seen, Known, Message
    <3> QED
      BY <2>1, <2>3, <3>3, <3>4 DEF Belongs
  <2>6. CASE new # Null /\ Owner[new] \in bound /\ device = "keyboard"
    <3>1. entered = OnKeyboardEnter(Owner[new], left.way, new)
      BY <2>6
    <3>2. Root(new) \in {new, ParentOf[new], Null} /\ Root(new) \in alive \cup {Null}
      BY <1>1 DEF Root
    <3>3. dying = Null
      BY <2>6
    <3>4. CASE Root(new) \in {Null, left.way}
      <4>1. entered.way = left.way /\ entered.sent = {}
            /\ entered.failed = (Root(new) = Null)
        BY <3>1, <3>4, <2>6 DEF OnKeyboardEnter, Unchanged
      <4>2. Seen(seen, left.sent) \ {dying} = {left.way} \ {Null}
        BY <2>2, <2>3, <3>3 DEF Seen, Known, Message
      <4>3. left.way # Null => Owner[left.way] \in bound
        BY <2>2 DEF Known
      <4>4. ~entered.failed => Belongs(device, new, left.way)
        BY <2>6, <3>2, <3>4, <4>1 DEF Belongs
      <4> QED
        BY <2>1, <2>3, <4>1, <4>2, <4>3, <4>4
    <3>5. CASE Root(new) \notin {Null, left.way}
      <4> DEFINE enter == Message("keyboard", "enter", Owner[new], Root(new))
                 leave == Message("keyboard", "leave", Owner[d.way], d.way)
      <4>1. /\ entered.way = Root(new)
            /\ entered.sent = (IF left.way = Null THEN {} ELSE {leave}) \cup {enter}
        <5>1. entered = [way |-> Root(new),
                         sent |-> OnLeave("keyboard", Owner[new], left.way, Null).sent
                                    \cup {enter},
                         failed |-> FALSE]
          BY <3>1, <3>5, <2>6 DEF OnKeyboardEnter
        <5>2. OnLeave("keyboard", Owner[new], left.way, Null).sent =
                IF left.way = Null THEN {} ELSE {leave}
          BY <1>3, <2>2, <2>6 DEF OnLeave, Unchanged
        <5> QED
          BY <5>1, <5>2
      <4>2. r.sent = (IF d.way = Null THEN {} ELSE {leave}) \cup {enter}
        BY <2>1, <2>2, <2>6, <3>3, <4>1
      <4>3. Owner[Root(new)] = Owner[new]
        BY <1>1, <3>2, <3>5, <2>6, TreeAssumption
      <4>4. r.way = Root(new) /\ Root(new) # d.way
        <5>1. Root(new) = d.way => left.way # d.way /\ c = Owner[new]
          BY <1>3, <3>5, <4>3
        <5>2. OwnerOf(new) = Owner[new]
          BY <2>6 DEF OwnerOf
        <5> QED
          BY <2>1, <2>2, <4>1, <5>1, <5>2
      <4>5. Seen(seen, r.sent) = {Root(new)}
        BY <4>2, <4>4, SeenSwap DEF Known
      <4>6. Belongs(device, new, Root(new))
        BY <2>6, <3>2, <3>5 DEF Belongs
      <4> QED
        BY <2>6, <3>3, <3>5, <4>2, <4>3, <4>4, <4>5, <4>6 DEF Message
    <3> QED
      BY <3>4, <3>5
  <2>7. CASE new # Null /\ Owner[new] \in bound /\ device # "keyboard"
    <3>1. entered = OnPointerEnter(Owner[new], left.way, new)
      BY <2>7
    <3> DEFINE enter == Message("pointer", "enter", Owner[new], new)
               leave == Message("pointer", "leave", Owner[d.way], d.way)
    <3>2. device = "pointer" /\ dying = Null /\ d.way # new
      BY <1>5, <2>7 DEF Kinds, Belongs
    <3>3. r.way = new
      BY <2>1, <2>7, <3>1 DEF OnPointerEnter
    <3>4. entered.sent = (IF left.way = Null THEN {} ELSE {leave}) \cup {enter}
      BY <2>2, <2>7, <3>1, <3>2, <1>3 DEF OnPointerEnter
    <3>5. r.sent = (IF d.way = Null THEN {} ELSE {leave}) \cup {enter}
      BY <2>1, <2>2, <3>2, <3>4
    <3>6. Seen(seen, r.sent) = {new}
      BY <3>2, <3>5, SeenSwap DEF Known
    <3> QED
      BY <2>7, <3>2, <3>3, <3>5, <3>6 DEF Message, Belongs
  <2> QED
    BY <2>4, <2>5, <2>6, <2>7
<1> QED
  BY <1>4, <1>5

-------------------------------------------------------------------------------
(* The invariant holds initially.                                          *)
LEMMA InitIInv == Init => IInv
<1> SUFFICES ASSUME Init PROVE IInv
  OBVIOUS
<1>1. TypeOK
  <2>1. 0 \in 0 .. MaxButtons
    BY ButtonsAssumption
  <2>2. view \in [{"keyboard", "pointer"} -> SUBSET alive]
    BY DEF Init
  <2>3. keyboard \in Devices /\ pointer \in Devices
    BY DEF Init, Devices
  <2> QED
    BY <2>1, <2>2, <2>3 DEF Init, TypeOK
<1> QED
  BY <1>1 DEF Init, IInv, Known, Belongs

(* Both devices take a focus, while a surface may go.                      *)
LEMMA TakeKeepsIInv ==
  ASSUME IInv, ~failed,
         NEW gone \in Surface \cup {Null}, alive' = alive \ {gone},
         NEW kn \in alive' \cup {Null}, NEW kd \in {Null, gone}, kd # Null => kn = Null,
         NEW pn \in alive' \cup {Null}, NEW pd \in {Null, gone}, pd # Null => pn = Null,
         Take(FocusOf("keyboard", keyboard, kn, kd), FocusOf("pointer", pointer, pn, pd)),
         bound' = bound, kept' = kept, role' \subseteq alive' \cap Toplevel,
         mapped' \subseteq role', buttons' \in 0 .. MaxButtons
  PROVE  IInv'
<1> DEFINE k == FocusOf("keyboard", keyboard, kn, kd)
           p == FocusOf("pointer", pointer, pn, pd)
           Held(way) == IF way \in alive' THEN way ELSE Null
<1>1. /\ TypeOK /\ keyboard \in Devices /\ pointer \in Devices
      /\ alive \subseteq Surface /\ alive' \subseteq Surface /\ Null \notin alive'
      /\ kn \in alive \cup {Null} /\ pn \in alive \cup {Null}
  BY NullAssumption DEF IInv, TypeOK
<1>2. /\ k.focus = kn /\ k.way \in alive \cup {Null} /\ k.failed \in BOOLEAN
      /\ k.sent \subseteq Messages
  BY <1>1, FocusType DEF Kinds
<1>3. /\ p.focus = pn /\ p.way \in alive \cup {Null} /\ p.failed \in BOOLEAN
      /\ p.sent \subseteq Messages
  BY <1>1, FocusType DEF Kinds
<1> HIDE DEF k, p
<1>4. /\ keyboard' = [focus |-> kn, way |-> Held(k.way)]
      /\ pointer' = [focus |-> pn, way |-> Held(p.way)]
      /\ strays' = {m \in k.sent \cup p.sent : m.to # Owner[m.surface]}
      /\ failed' = (k.failed \/ p.failed)
      /\ view' = [keyboard |-> Seen(view.keyboard, k.sent) \cap alive',
                  pointer |-> Seen(view.pointer, p.sent) \cap alive']
  BY <1>2, <1>3 DEF Take, k, p
<1>5. TypeOK'
  <2>1. keyboard' \in Devices' /\ pointer' \in Devices'
    BY <1>4 DEF Devices
  <2>2. strays' \subseteq Messages
    BY <1>2, <1>3, <1>4
  <2>3. view' \in [{"keyboard", "pointer"} -> SUBSET alive']
    BY <1>4
  <2>4. failed' \in BOOLEAN /\ kept' \in BOOLEAN
    BY <1>1, <1>2, <1>3, <1>4 DEF TypeOK
  <2> QED
    BY <1>1, <2>1, <2>2, <2>3, <2>4 DEF TypeOK, Messages, Kinds
<1>6. ASSUME kept
      PROVE  /\ strays' = {}
             /\ Known(view.keyboard, keyboard.way)'
             /\ Known(view.pointer, pointer.way)'
             /\ ~failed' => /\ Belongs("keyboard", keyboard.focus, keyboard.way)'
                            /\ Belongs("pointer", pointer.focus, pointer.way)'
  <2>1. /\ Known(view.keyboard, keyboard.way) /\ Known(view.pointer, pointer.way)
        /\ Belongs("keyboard", keyboard.focus, keyboard.way)
        /\ Belongs("pointer", pointer.focus, pointer.way)
    BY <1>6 DEF IInv
  <2>2. /\ \A m \in k.sent : m.to = Owner[m.surface]
        /\ Seen(view.keyboard, k.sent) \ {kd} = {k.way} \ {Null}
        /\ k.way # Null => Owner[k.way] \in bound
        /\ ~k.failed => Belongs("keyboard", kn, k.way)
    <3>1. "keyboard" \in Kinds /\ kd \in Surface \cup {Null}
      BY DEF Kinds
    <3> QED
      BY <1>1, <2>1, <3>1, FocusAnnounces DEF k
  <2>3. /\ \A m \in p.sent : m.to = Owner[m.surface]
        /\ Seen(view.pointer, p.sent) \ {pd} = {p.way} \ {Null}
        /\ p.way # Null => Owner[p.way] \in bound
        /\ ~p.failed => Belongs("pointer", pn, p.way)
    <3>1. "pointer" \in Kinds /\ pd \in Surface \cup {Null}
      BY DEF Kinds
    <3> QED
      BY <1>1, <2>1, <3>1, FocusAnnounces DEF p
  <2>4. strays' = {}
    BY <1>4, <2>2, <2>3
  <2>5. kd \notin alive' /\ pd \notin alive'
    BY <1>1
  <2>6. /\ Seen(view.keyboard, k.sent) \cap alive' = {Held(k.way)} \ {Null}
        /\ Seen(view.pointer, p.sent) \cap alive' = {Held(p.way)} \ {Null}
    BY <1>1, <2>2, <2>3, <2>5
  <2>7. Known(view.keyboard, keyboard.way)' /\ Known(view.pointer, pointer.way)'
    BY <1>4, <2>2, <2>3, <2>6 DEF Known
  <2>8. ~failed' => /\ Belongs("keyboard", keyboard.focus, keyboard.way)'
                    /\ Belongs("pointer", pointer.focus, pointer.way)'
    BY <1>4, <2>2, <2>3 DEF Belongs
  <2> QED
    BY <2>4, <2>7, <2>8
<1> QED
  BY <1>5, <1>6 DEF IInv

(* Every step keeps the invariant.                                         *)
LEMMA NextKeepsIInv == IInv /\ [Next]_vars => IInv'
<1> SUFFICES ASSUME IInv, [Next]_vars PROVE IInv'
  OBVIOUS
<1>0. /\ TypeOK /\ alive \subseteq Surface /\ role \subseteq alive \cap Toplevel
      /\ mapped \subseteq role /\ buttons \in 0 .. MaxButtons /\ Null \notin Surface
      /\ keyboard.focus \in alive \cup {Null} /\ pointer.focus \in alive \cup {Null}
  BY NullAssumption DEF IInv, TypeOK, Devices
<1>1. ASSUME NEW c \in Client, BindSeat(c) PROVE IInv'
  <2> QED
    BY <1>0, <1>1 DEF BindSeat, IInv, TypeOK, Known, Belongs, Devices
<1>2. ASSUME NEW c \in Client, ReleaseSeat(c) PROVE IInv'
  <2>1. TypeOK'
    BY <1>0, <1>2 DEF ReleaseSeat, TypeOK, Devices
  <2>2. ASSUME kept'
        PROVE  Known(view.keyboard, keyboard.way)' /\ Known(view.pointer, pointer.way)'
    <3>1. /\ kept /\ c # OwnerOf(keyboard.way) /\ c # OwnerOf(pointer.way)
          /\ Known(view.keyboard, keyboard.way) /\ Known(view.pointer, pointer.way)
      BY <1>2, <2>2 DEF ReleaseSeat, IInv
    <3>2. /\ view'.keyboard = {s \in view.keyboard : Owner[s] # c}
          /\ view'.pointer = {s \in view.pointer : Owner[s] # c}
      BY <1>0, <1>2 DEF ReleaseSeat, TypeOK
    <3> QED
      BY <1>2, <3>1, <3>2 DEF ReleaseSeat, Known, OwnerOf
  <2> QED
    BY <1>2, <2>1, <2>2 DEF ReleaseSeat, IInv
<1>3. ASSUME NEW s \in Surface, CreateSurface(s) PROVE IInv'
  <2>1. TypeOK'
    BY <1>0, <1>3 DEF CreateSurface, TypeOK, Devices
  <2> QED
    BY <1>3, <2>1 DEF CreateSurface, IInv, Known, Belongs
<1>4. ASSUME NEW s \in Surface, MapToplevel(s) PROVE IInv'
  <2>1. /\ ~failed /\ alive' = alive \ {Null} /\ s \in alive' /\ role' = role
        /\ mapped' \subseteq role' /\ UNCHANGED <<bound, kept, buttons>>
        /\ Take(FocusOf("keyboard", keyboard, s, Null),
                FocusOf("pointer", pointer, pointer.focus, Null))
    BY <1>0, <1>4 DEF MapToplevel, seat_keyboard_focus, NoPointer, seat_pointer_focus
  <2> QED
    BY <1>0, <2>1, TakeKeepsIInv
<1>5. ASSUME NEW s \in Surface, UnmapToplevel(s) PROVE IInv'
  <2>1. TypeOK'
    BY <1>0, <1>5 DEF UnmapToplevel, TypeOK, Devices
  <2> QED
    BY <1>5, <2>1 DEF UnmapToplevel, IInv, Known, Belongs
<1>6. ASSUME NEW s \in Surface, DestroyToplevel(s) PROVE IInv'
  <2>1. TypeOK'
    BY <1>0, <1>6 DEF DestroyToplevel, TypeOK, Devices
  <2> QED
    BY <1>6, <2>1 DEF DestroyToplevel, IInv, Known, Belongs
<1>7. ASSUME NEW s \in Surface, DestroySurface(s) PROVE IInv'
  <2> DEFINE kn == IF keyboard.focus = s THEN Null ELSE keyboard.focus
             kd == IF keyboard.focus = s THEN s ELSE Null
             pn == IF pointer.focus = s THEN Null ELSE pointer.focus
             pd == IF pointer.focus = s THEN s ELSE Null
  <2>1. /\ ~failed /\ alive' = alive \ {s} /\ role' \subseteq alive' \cap Toplevel
        /\ mapped' \subseteq role' /\ UNCHANGED <<bound, kept, buttons>>
        /\ Take(FocusOf("keyboard", keyboard, kn, kd), FocusOf("pointer", pointer, pn, pd))
    BY <1>0, <1>7 DEF DestroySurface, NoKeyboard, NoPointer, seat_keyboard_focus,
                      seat_pointer_focus
  <2>2. /\ kn \in alive' \cup {Null} /\ kd \in {Null, s} /\ (kd # Null => kn = Null)
        /\ pn \in alive' \cup {Null} /\ pd \in {Null, s} /\ (pd # Null => pn = Null)
    BY <1>0, <2>1
  <2> HIDE DEF kn, kd, pn, pd
  <2> QED
    BY <1>0, <2>1, <2>2, TakeKeepsIInv
<1>8. ASSUME NEW under \in Visible \cup {Null}, seat_pointer_move(under) PROVE IInv'
  <2> DEFINE pn == update_pointer_focus(buttons, under)
  <2>1. pn \in alive \cup {Null}
    BY <1>0 DEF update_pointer_focus, Visible
  <2>2. /\ ~failed /\ alive' = alive \ {Null} /\ role' = role /\ mapped' = mapped
        /\ UNCHANGED <<bound, kept, buttons>>
        /\ Take(FocusOf("keyboard", keyboard, keyboard.focus, Null),
                FocusOf("pointer", pointer, pn, Null))
    BY <1>0, <1>8 DEF seat_pointer_move, NoKeyboard, seat_keyboard_focus, seat_pointer_focus
  <2> HIDE DEF pn
  <2> QED
    BY <1>0, <2>1, <2>2, TakeKeepsIInv
<1>9. ASSUME NEW captured \in BOOLEAN, PressButton(captured) PROVE IInv'
  <2> DEFINE kn == IF captured /\ pointer.focus # Null THEN keyboard.focus ELSE pointer.focus
  <2>1. kn \in alive \cup {Null}
    BY <1>0
  <2>2. /\ ~failed /\ alive' = alive \ {Null} /\ role' = role /\ mapped' = mapped
        /\ UNCHANGED <<bound, kept>> /\ buttons' \in 0 .. MaxButtons
        /\ Take(FocusOf("keyboard", keyboard, kn, Null),
                FocusOf("pointer", pointer, pointer.focus, Null))
    BY <1>0, <1>9, ButtonsAssumption
       DEF PressButton, NoKeyboard, NoPointer, seat_keyboard_focus, seat_pointer_focus
  <2> HIDE DEF kn
  <2> QED
    BY <1>0, <2>1, <2>2, TakeKeepsIInv
<1>10. ASSUME NEW under \in Visible \cup {Null}, ReleaseButton(under) PROVE IInv'
  <2> DEFINE pn == update_pointer_focus(buttons', under)
  <2>1. pn \in alive \cup {Null}
    BY <1>0 DEF update_pointer_focus, Visible
  <2>2. /\ ~failed /\ alive' = alive \ {Null} /\ role' = role /\ mapped' = mapped
        /\ UNCHANGED <<bound, kept>> /\ buttons' \in 0 .. MaxButtons
        /\ Take(FocusOf("keyboard", keyboard, keyboard.focus, Null),
                FocusOf("pointer", pointer, pn, Null))
    BY <1>0, <1>10, ButtonsAssumption
       DEF ReleaseButton, NoKeyboard, seat_keyboard_focus, seat_pointer_focus
  <2> HIDE DEF pn
  <2> QED
    BY <1>0, <2>1, <2>2, TakeKeepsIInv
<1>11. ASSUME NEW s \in Surface \cup {Null}, wm_window_focus(s) PROVE IInv'
  <2>1. /\ ~failed /\ alive' = alive \ {Null} /\ role' = role /\ mapped' = mapped
        /\ UNCHANGED <<bound, kept, buttons>> /\ s \in alive \cup {Null}
        /\ Take(FocusOf("keyboard", keyboard, s, Null),
                FocusOf("pointer", pointer, pointer.focus, Null))
    BY <1>0, <1>11 DEF wm_window_focus, NoPointer, seat_keyboard_focus, seat_pointer_focus
  <2> QED
    BY <1>0, <2>1, TakeKeepsIInv
<1>12. CASE UNCHANGED vars
  BY <1>12 DEF vars, IInv, TypeOK, Known, Belongs, Devices
<1> QED
  BY <1>1, <1>2, <1>3, <1>4, <1>5, <1>6, <1>7, <1>8, <1>9, <1>10, <1>11, <1>12 DEF Next

(* The strengthened invariant holds in every state the seat reaches.       *)
THEOREM Invariance == Spec => []IInv
<1> QED
  BY InitIInv, NextKeepsIInv, PTL DEF Spec

(* What clients were told of the focus is what the Wayland layer believes, *)
(* for any surfaces that come and go (way/seat/keyboard.cpp, pointer.cpp). *)
THEOREM ClientsAlwaysAgree == Spec => []ClientsAgree
<1>1. IInv => ClientsAgree
  BY DEF IInv, ClientsAgree, Known
<1> QED
  BY Invariance, <1>1, PTL

(* The seat's focus and the Wayland layer's are the same surface, or a     *)
(* popup and its toplevel (seat/keyboard.cpp, way/seat/keyboard.cpp).      *)
THEOREM LayersAlwaysAgree == Spec => []LayersAgree
<1>1. IInv => LayersAgree
  BY DEF IInv, LayersAgree, Belongs
<1> QED
  BY Invariance, <1>1, PTL

(* The implicit grab of seat/pointer.cpp holds for any number of buttons   *)
(* and whatever surfaces vanish meanwhile.                                 *)
THEOREM GrabsAreKept == Spec => GrabKept
<1> DEFINE Grab == (buttons > 0 /\ buttons' > 0 /\ pointer.focus \in alive')
                     => pointer'.focus = pointer.focus
<1>1. IInv /\ [Next]_vars => [Grab]_vars
  <2> SUFFICES ASSUME IInv, Next, buttons > 0, buttons' > 0, pointer.focus \in alive'
               PROVE  pointer'.focus = pointer.focus
    BY DEF IInv
  <2>1. /\ \A new, dying : FocusOf("pointer", pointer, new, dying).focus = new
        /\ NoPointer.focus = pointer.focus
    BY DEF FocusOf, Focus, NoPointer, seat_pointer_focus
  <2>2. \A k, p : Take(k, p) => pointer'.focus = p.focus
    BY DEF Take
  <2>3. \A under : \A n \in Nat : n > 0 => update_pointer_focus(n, under) = pointer.focus
    BY DEF update_pointer_focus
  <2>4. buttons \in Nat /\ buttons' \in Nat
    BY NextKeepsIInv, ButtonsAssumption DEF IInv, TypeOK
  <2>5. ASSUME NEW s \in Surface, DestroySurface(s) PROVE pointer'.focus = pointer.focus
    <3>1. pointer.focus # s
      BY <2>5 DEF DestroySurface
    <3> QED
      BY <2>1, <2>2, <2>5, <3>1 DEF DestroySurface
  <2>6. ASSUME NEW under, seat_pointer_move(under) PROVE pointer'.focus = pointer.focus
    BY <2>1, <2>2, <2>3, <2>4, <2>6 DEF seat_pointer_move, seat_pointer_focus
  <2>7. ASSUME NEW under, ReleaseButton(under) PROVE pointer'.focus = pointer.focus
    BY <2>1, <2>2, <2>3, <2>4, <2>7 DEF ReleaseButton, seat_pointer_focus
  <2>8. ASSUME NEW s, MapToplevel(s) \/ wm_window_focus(s) PROVE pointer'.focus = pointer.focus
    BY <2>1, <2>2, <2>8 DEF MapToplevel, wm_window_focus
  <2>9. ASSUME NEW captured, PressButton(captured) PROVE pointer'.focus = pointer.focus
    BY <2>1, <2>2, <2>9 DEF PressButton
  <2> QED
    BY <2>5, <2>6, <2>7, <2>8, <2>9
       DEF Next, BindSeat, ReleaseSeat, CreateSurface, UnmapToplevel, DestroyToplevel
<1> QED
  BY Invariance, <1>1, NextKeepsIInv, PTL DEF Spec, GrabKept

===============================================================================
