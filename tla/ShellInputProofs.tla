--------------------------- MODULE ShellInputProofs ---------------------------
(***************************************************************************)
(* Proofs about what clients are told.  About Toplevel and the popups of   *)
(* Popup, for all origins and sizes and any number of configure events and *)
(* xdg_toplevels: no frame the window manager asks for is lost, and the    *)
(* edge opposite to the one being resized stays put.  For all rules,       *)
(* constraints and outputs: a popup is placed as its rules ask, wherever   *)
(* the toplevel is.  About SeatInput, for any devices, codes, surfaces and *)
(* clients: keys are counted as devices hold them, and clients know the    *)
(* keys and modifiers they should.                                         *)
(***************************************************************************)
EXTENDS Popup, SeatInput, WellFoundedInduction, FiniteSetTheorems, TLAPS

-------------------------------------------------------------------------------
(* The toplevel: types, the inductive invariant and its steps.             *)

(* Sizes are asked for by the window manager or left to the client.        *)
AnchorOK == anchor.extent \in Extent \cup {Own}

(* Only a toplevel whose surface has a buffer is a visible window.         *)
WindowedOK == windowed => toplevel /\ mapped

(* What the client was told last is what was asked for last, unless a      *)
(* resize is noted to be sent.                                             *)
ToldOrQueued == ~queued => told \in {anchor.extent, Own}

(* A resize is only held back from a visible window that owes a commit.    *)
QueuedBehind == windowed /\ queued => pending > applied

(* A visible window that owes no commit stands where it was asked to.      *)
InPlace ==
  windowed /\ ~(pending > applied) => frame = reposition(anchor, gravity, geometry.extent)

(* The surface's tree is where its current window geometry belongs.        *)
TreeOK == windowed => tree = -geometry.origin

(* Settled is not inductive: a commit settles the window only because what *)
(* was told and what is queued agree with the anchor at any time.          *)
IInv ==
  /\ TypeOK
  /\ AnchorOK
  /\ WindowedOK
  /\ ToldOrQueued
  /\ QueuedBehind
  /\ InPlace
  /\ TreeOK

(* A rectangle that takes the place of an anchor is a rectangle, and with  *)
(* gravity -1 it ends where the anchor does.                               *)
LEMMA RepositionProperties ==
  ASSUME NEW a \in Frames, NEW g \in {-1, 1}, NEW e \in Nat
  PROVE  /\ reposition(a, g, e) \in Frames
         /\ g = -1 => End(reposition(a, g, e)) = End(a)
<1>1. a.origin \in Int /\ a.extent \in Nat
  BY DEF Frames
<1>2. CASE g = 1
  BY <1>1, <1>2 DEF reposition, Frames
<1>3. CASE g = -1
  <2>1. reposition(a, g, e) = [origin |-> a.origin - (e - a.extent), extent |-> e]
    BY <1>3 DEF reposition
  <2>2. a.origin - (e - a.extent) \in Int
    BY <1>1
  <2>3. reposition(a, g, e) \in Frames
    BY <2>1, <2>2 DEF Frames
  <2>4. End(reposition(a, g, e)) = (a.origin - (e - a.extent)) + e
    BY <2>1 DEF End
  <2>5. (a.origin - (e - a.extent)) + e = a.origin + a.extent
    BY <1>1
  <2>6. QED
    BY <2>3, <2>4, <2>5 DEF End
<1>4. QED
  BY <1>2, <1>3

(* The invariant holds initially.                                          *)
LEMMA InitHasIInv == Init => IInv
<1> SUFFICES ASSUME Init PROVE IInv
  OBVIOUS
<1>1. [origin |-> 0, extent |-> 0] \in Frames
  BY DEF Frames
<1>2. TypeOK
  <2>1. {toplevel, mapped, windowed, queued} \subseteq BOOLEAN
    BY DEF Init
  <2>2. made \in 0 .. MaxToplevels /\ sent \in 0 .. MaxSerial
    BY BoundsAssumption DEF Init
  <2>3. acked \in 0 .. sent /\ applied \in 0 .. acked /\ pending \in 0 .. sent
    BY DEF Init
  <2>4. anchor \in Frames /\ frame \in Frames /\ gravity \in {-1, 1}
    BY <1>1 DEF Init
  <2>5. /\ geometry \in [origin : Inset \cup {0}, extent : Extent \cup {0}]
        /\ told \in Extent \cup {Own} /\ tree \in Int
    BY DEF Init
  <2>6. QED
    BY <2>1, <2>2, <2>3, <2>4, <2>5 DEF TypeOK
<1>3. AnchorOK
  BY DEF Init, AnchorOK, Own
<1>4. QED
  BY <1>2, <1>3 DEF Init, IInv, WindowedOK, ToldOrQueued, QueuedBehind, InPlace, TreeOK

(* The facts that all the steps below use.                                 *)
LEMMA TypesOfNumbers ==
  ASSUME IInv
  PROVE  /\ sent \in Nat /\ acked \in Nat /\ applied \in Nat /\ pending \in Nat
         /\ applied <= acked /\ acked <= sent /\ pending <= sent /\ sent <= MaxSerial
         /\ geometry.extent \in Nat /\ geometry.origin \in Int /\ tree \in Int
         /\ anchor \in Frames /\ frame \in Frames
         /\ gravity \in {-1, 1}
<1>1. /\ sent \in Nat /\ acked \in Nat /\ applied \in Nat /\ pending \in Nat
      /\ applied <= acked /\ acked <= sent /\ pending <= sent /\ sent <= MaxSerial
  BY BoundsAssumption DEF IInv, TypeOK
<1>2. geometry.extent \in Extent \cup {0} /\ geometry.origin \in Inset \cup {0}
  BY DEF IInv, TypeOK
<1>3. geometry.extent \in Nat /\ geometry.origin \in Int
  <2> DEFINE e == geometry.extent
             o == geometry.origin
  <2> HIDE DEF e, o
  <2>1. e \in Extent \cup {0} /\ o \in Inset \cup {0}
    BY <1>2 DEF e, o
  <2>2. e \in Nat /\ o \in Int
    BY <2>1, FramesAssumption
  <2> QED
    BY <2>2 DEF e, o
<1>4. QED
  BY <1>1, <1>3 DEF IInv, TypeOK

(* Repositioning a toplevel keeps the invariant.                           *)
LEMMA RepositionKeepsIInv ==
  ASSUME IInv, NEW origin \in Origin, NEW extent \in Extent, NEW g \in {-1, 1},
         way_toplevel_on_reposition([origin |-> origin, extent |-> extent], g)
  PROVE  IInv'
<1> DEFINE asked == [origin |-> origin, extent |-> extent]
<1>1. /\ asked \in Frames /\ asked.extent = extent /\ extent \in Extent
      /\ anchor' = asked /\ gravity' = g /\ gravity' \in {-1, 1}
      /\ UNCHANGED <<toplevel, made, mapped, windowed, geometry, acked, applied>>
  BY FramesAssumption DEF Frames, way_toplevel_on_reposition, window
<1>2. CASE anchor.extent = extent
  <2>1. /\ frame' = reposition(asked, g, geometry.extent) /\ tree' = -geometry.origin
        /\ UNCHANGED <<sent, pending, queued, told>>
    BY <1>2 DEF way_toplevel_on_reposition, Reposition
  <2>2. frame' \in Frames /\ tree' \in Int
    <3>1. geometry.extent \in Nat /\ geometry.origin \in Int
      BY TypesOfNumbers
    <3>2. frame' \in Frames
      BY <1>1, <2>1, <3>1, RepositionProperties
    <3> QED
      BY <2>1, <3>1, <3>2
  <2>3. TypeOK'
    BY <1>1, <2>1, <2>2 DEF IInv, TypeOK
  <2> HIDE DEF asked
  <2>4. QED
    BY <1>1, <1>2, <2>1, <2>3
       DEF IInv, AnchorOK, WindowedOK, ToldOrQueued, QueuedBehind, InPlace, TreeOK
<1>3. CASE anchor.extent # extent /\ pending > acked
  <2>1. queued' = TRUE /\ UNCHANGED <<frame, tree, sent, pending, told>>
    BY <1>3 DEF way_toplevel_on_reposition
  <2>2. pending > applied
    BY <1>3, TypesOfNumbers
  <2>3. TypeOK'
    BY <1>1, <2>1 DEF IInv, TypeOK
  <2>4. QED
    BY <1>1, <2>1, <2>2, <2>3
       DEF IInv, AnchorOK, WindowedOK, ToldOrQueued, QueuedBehind, InPlace, TreeOK
<1>4. CASE anchor.extent # extent /\ ~(pending > acked)
  <2>1. /\ sent < MaxSerial /\ sent' = sent + 1 /\ pending' = sent'
        /\ told' = extent /\ UNCHANGED <<frame, tree, queued>>
    BY <1>4 DEF way_toplevel_on_reposition
  <2>2. pending' > applied' /\ sent' \in 0 .. MaxSerial /\ pending' \in 0 .. sent'
        /\ acked' \in 0 .. sent'
    BY <1>1, <2>1, TypesOfNumbers, BoundsAssumption
  <2>3. TypeOK'
    BY <1>1, <2>1, <2>2 DEF IInv, TypeOK
  <2>4. QED
    BY <1>1, <2>1, <2>2, <2>3
       DEF IInv, AnchorOK, WindowedOK, ToldOrQueued, QueuedBehind, InPlace, TreeOK
<1>5. QED
  BY <1>2, <1>3, <1>4

(* A commit of the client keeps the invariant.                             *)
LEMMA CommitKeepsIInv ==
  ASSUME IInv, NEW buffer \in {"attach", "null", "keep"}, NEW inset \in Inset,
         NEW extent \in Extent, commit(buffer, [origin |-> inset, extent |-> extent])
  PROVE  IInv'
<1> DEFINE given == [origin |-> inset, extent |-> extent]
<1>1. /\ mapped' \in BOOLEAN /\ windowed' \in BOOLEAN
      /\ applied' = acked
      /\ geometry' \in [origin : Inset \cup {0}, extent : Extent \cup {0}]
      /\ mapped' => geometry' = given
      /\ windowed' = IF toplevel /\ mapped' # mapped THEN mapped' ELSE windowed
      /\ UNCHANGED <<toplevel, made, acked, anchor, gravity>>
  BY DEF commit, IInv, TypeOK
<1>2. WindowedOK'
  BY <1>1 DEF IInv, WindowedOK
<1>3. extent \in Nat /\ inset \in Int /\ given.extent = extent /\ given.origin = inset
  BY FramesAssumption
<1>4. CASE ~toplevel
  <2>1. UNCHANGED <<sent, pending, queued, frame, tree, told>>
    BY <1>4 DEF commit
  <2>2. ~windowed'
    BY <1>1, <1>2, <1>4 DEF WindowedOK
  <2>3. TypeOK'
    BY <1>1, <2>1, TypesOfNumbers DEF IInv, TypeOK
  <2>4. QED
    BY <1>1, <1>2, <2>1, <2>2, <2>3 DEF IInv, AnchorOK, ToldOrQueued, QueuedBehind, InPlace, TreeOK
<1>5. CASE toplevel /\ ~mapped'
  <2>1. /\ sent < MaxSerial /\ sent' = sent + 1 /\ told' = Own
        /\ UNCHANGED <<pending, queued, frame, tree>>
    BY <1>5 DEF commit, send_premap_configure
  <2>2. ~windowed'
    BY <1>2, <1>5 DEF WindowedOK
  <2>3. /\ sent' \in 0 .. MaxSerial /\ acked' \in 0 .. sent' /\ pending' \in 0 .. sent'
        /\ applied' \in 0 .. acked'
    BY <1>1, <2>1, TypesOfNumbers, BoundsAssumption
  <2>4. TypeOK'
    BY <1>1, <2>1, <2>3 DEF IInv, TypeOK
  <2>5. QED
    BY <1>1, <1>2, <2>1, <2>2, <2>4 DEF IInv, AnchorOK, ToldOrQueued, QueuedBehind, InPlace, TreeOK
<1>6. CASE toplevel /\ mapped'
  <2>1. ApplyMapped(given)
    BY <1>6 DEF commit
  <2> HIDE DEF given
  <2>2. /\ frame' = reposition(anchor', gravity', geometry'.extent) /\ frame' \in Frames
        /\ tree' = -geometry'.origin /\ tree' \in Int
    <3>1. geometry' = given /\ anchor' = anchor /\ gravity' = gravity
      BY <1>1, <1>6
    <3>2. frame' = reposition(anchor, gravity, given.extent) /\ tree' = -given.origin
      BY <2>1 DEF ApplyMapped, Reposition
    <3>3. frame' \in Frames
      BY <1>3, <3>2, TypesOfNumbers, RepositionProperties
    <3> QED
      BY <1>3, <3>1, <3>2, <3>3
  <2>3. CASE queued
    <3>1. /\ sent < MaxSerial /\ sent' = sent + 1 /\ pending' = sent'
          /\ told' = anchor.extent /\ queued' = FALSE
      BY <2>1, <2>3 DEF ApplyMapped
    <3>2. /\ sent' \in 0 .. MaxSerial /\ acked' \in 0 .. sent' /\ pending' \in 0 .. sent'
          /\ applied' \in 0 .. acked'
      BY <1>1, <3>1, TypesOfNumbers, BoundsAssumption
    <3>3. anchor.extent \in Extent \cup {0}
      BY DEF IInv, AnchorOK, Own
    <3>4. TypeOK'
      BY <1>1, <2>2, <3>1, <3>2, <3>3 DEF IInv, TypeOK, Own
    <3>5. QED
      BY <1>1, <1>2, <2>2, <3>1, <3>4 DEF IInv, AnchorOK, ToldOrQueued, QueuedBehind, InPlace, TreeOK
  <2>4. CASE ~queued
    <3>1. UNCHANGED <<sent, pending, queued, told>>
      BY <2>1, <2>4 DEF ApplyMapped
    <3>2. applied' \in 0 .. acked'
      BY <1>1, TypesOfNumbers
    <3>3. TypeOK'
      BY <1>1, <2>2, <3>1, <3>2 DEF IInv, TypeOK
    <3>4. QED
      BY <1>1, <1>2, <2>2, <2>4, <3>1, <3>3
         DEF IInv, AnchorOK, ToldOrQueued, QueuedBehind, InPlace, TreeOK
  <2>5. QED
    BY <2>3, <2>4
<1>7. QED
  BY <1>4, <1>5, <1>6

(* The steps that move neither the frame nor what was asked for.           *)
LEMMA OthersKeepIInv ==
  ASSUME IInv,
         \/ get_toplevel \/ DestroyToplevel \/ way_xdg_surface_configure
         \/ \E serial \in 1 .. MaxSerial : ack_configure(serial)
         \/ UNCHANGED vars
  PROVE  IInv'
<1>1. CASE get_toplevel
  <2>1. [origin |-> 0, extent |-> 0] \in Frames
    BY DEF Frames
  <2>2. made' \in 0 .. MaxToplevels
    BY <1>1, BoundsAssumption DEF get_toplevel, IInv, TypeOK
  <2>3. /\ ~windowed' /\ toplevel' = TRUE /\ queued' = FALSE /\ told' = Own
        /\ UNCHANGED <<mapped, windowed, geometry, sent, acked, applied, tree>>
        /\ anchor' = [origin |-> 0, extent |-> 0]
        /\ frame' = [origin |-> 0, extent |-> 0]
        /\ gravity' = 1 /\ pending' = 0
    BY <1>1 DEF get_toplevel, xdg, IInv, WindowedOK
  <2>4. pending' \in 0 .. sent'
    BY <2>3, TypesOfNumbers
  <2>5. TypeOK'
    BY <2>1, <2>2, <2>3, <2>4 DEF IInv, TypeOK
  <2>6. QED
    BY <2>3, <2>5
       DEF IInv, AnchorOK, WindowedOK, ToldOrQueued, QueuedBehind, InPlace, TreeOK, Own
<1>2. CASE DestroyToplevel
  <2>1. /\ ~windowed' /\ toplevel' = FALSE /\ windowed' \in BOOLEAN
        /\ UNCHANGED <<made, mapped, geometry, sent, acked, applied, anchor, gravity,
                       pending, queued, frame, tree, told>>
    BY <1>2 DEF DestroyToplevel, xdg
  <2>2. TypeOK'
    BY <2>1 DEF IInv, TypeOK
  <2>3. QED
    BY <2>1, <2>2
       DEF IInv, AnchorOK, WindowedOK, ToldOrQueued, QueuedBehind, InPlace, TreeOK
<1>3. CASE way_xdg_surface_configure
  <2>1. /\ sent < MaxSerial /\ sent' = sent + 1
        /\ UNCHANGED <<toplevel, made, mapped, windowed, geometry, acked, applied,
                       anchor, gravity, pending, queued, frame, tree, told>>
    BY <1>3 DEF way_xdg_surface_configure, window
  <2>2. sent' \in 0 .. MaxSerial /\ acked' \in 0 .. sent' /\ pending' \in 0 .. sent'
    BY <2>1, TypesOfNumbers, BoundsAssumption
  <2>3. TypeOK'
    BY <2>1, <2>2 DEF IInv, TypeOK
  <2>4. QED
    BY <2>1, <2>3
       DEF IInv, AnchorOK, WindowedOK, ToldOrQueued, QueuedBehind, InPlace, TreeOK
<1>4. ASSUME NEW serial \in 1 .. MaxSerial, ack_configure(serial)
      PROVE  IInv'
  <2>1. /\ acked < serial /\ serial <= sent /\ acked' = serial
        /\ UNCHANGED <<toplevel, made, mapped, windowed, geometry, sent, applied,
                       anchor, gravity, pending, queued, frame, tree, told>>
    BY <1>4 DEF ack_configure, window
  <2>2. acked' \in 0 .. sent' /\ applied' \in 0 .. acked'
    BY <2>1, TypesOfNumbers, BoundsAssumption
  <2>3. TypeOK'
    BY <2>1, <2>2 DEF IInv, TypeOK
  <2>4. QED
    BY <2>1, <2>3
       DEF IInv, AnchorOK, WindowedOK, ToldOrQueued, QueuedBehind, InPlace, TreeOK
<1>5. CASE UNCHANGED vars
  BY <1>5 DEF vars, window, xdg, IInv, TypeOK, AnchorOK, WindowedOK, ToldOrQueued,
              QueuedBehind, InPlace, TreeOK
<1>6. QED
  BY <1>1, <1>2, <1>3, <1>4, <1>5

(* Every step keeps the invariant.                                         *)
LEMMA StepKeepsIInv == IInv /\ [Next]_vars => IInv'
<1> SUFFICES ASSUME IInv, [Next]_vars PROVE IInv'
  OBVIOUS
<1>1. ASSUME NEW origin \in Origin, NEW extent \in Extent, NEW g \in {-1, 1},
             way_toplevel_on_reposition([origin |-> origin, extent |-> extent], g)
      PROVE  IInv'
  BY <1>1, RepositionKeepsIInv
<1>2. ASSUME NEW buffer \in {"attach", "null", "keep"}, NEW inset \in Inset,
             NEW extent \in Extent, commit(buffer, [origin |-> inset, extent |-> extent])
      PROVE  IInv'
  BY <1>2, CommitKeepsIInv
<1>3. QED
  BY <1>1, <1>2, OthersKeepIInv DEF Next

-------------------------------------------------------------------------------
(* The theorems.                                                           *)

(* The inductive invariant holds in every reachable state.                 *)
THEOREM Invariance == Spec => []IInv
<1>1. Init => IInv
  BY InitHasIInv
<1>2. IInv /\ [Next]_vars => IInv'
  BY StepKeepsIInv
<1>3. QED
  BY <1>1, <1>2, PTL DEF Spec

(* The serials stay in order, asked, answered and applied.                 *)
THEOREM TypeCorrect == Spec => []TypeOK
<1>1. IInv => TypeOK
  BY DEF IInv
<1>2. QED
  BY <1>1, Invariance, PTL

(* No frame the window manager asks for is lost by the throttling of       *)
(* way_toplevel_on_reposition and WayToplevel::apply.                      *)
THEOREM NothingAskedIsLost == Spec => []Settled
<1>1. IInv => Settled
  <2> SUFFICES ASSUME IInv, windowed, ~(pending > applied)
               PROVE  /\ frame = reposition(anchor, gravity, geometry.extent)
                      /\ ~queued
                      /\ told \in {anchor.extent, Own}
    BY DEF Settled
  <2>1. ~queued
    BY DEF IInv, QueuedBehind
  <2>2. QED
    BY <2>1 DEF IInv, InPlace, ToldOrQueued
<1>2. QED
  BY <1>1, Invariance, PTL

(* Resizing the near edge leaves the far edge where it is, although the    *)
(* client answers late and with other sizes than it was told.              *)
THEOREM FarEdgeStays == Spec => FarEdgeKept
<1> DEFINE Holds ==
             /\ toplevel /\ toplevel' /\ mapped /\ mapped'
             /\ gravity = -1 /\ gravity' = -1
             /\ End(anchor) = End(anchor') /\ End(frame) = End(anchor)
<1>1. ASSUME IInv, [Next]_vars, Holds
      PROVE  End(frame') = End(frame)
  <2>1. ASSUME NEW origin \in Origin, NEW extent \in Extent, NEW g \in {-1, 1},
               way_toplevel_on_reposition([origin |-> origin, extent |-> extent], g)
        PROVE  End(frame') = End(frame)
    <3>1. [origin |-> origin, extent |-> extent] \in Frames
      BY FramesAssumption DEF Frames
    <3>2. \/ frame' = frame
          \/ frame' = reposition(anchor', gravity', geometry.extent)
      BY <2>1 DEF way_toplevel_on_reposition, Reposition
    <3>3. anchor' \in Frames
      BY <2>1, <3>1 DEF way_toplevel_on_reposition
    <3>4. CASE frame' = frame
      BY <3>4
    <3>5. CASE frame' = reposition(anchor', gravity', geometry.extent)
      <4>1. gravity' = -1 /\ End(anchor') = End(frame) /\ geometry.extent \in Nat
        BY <1>1, TypesOfNumbers
      <4>2. End(reposition(anchor', -1, geometry.extent)) = End(anchor')
        BY <3>3, <4>1, RepositionProperties
      <4>3. QED
        BY <3>5, <4>1, <4>2
    <3>6. QED
      BY <3>2, <3>4, <3>5
  <2>2. ASSUME NEW buffer \in {"attach", "null", "keep"}, NEW inset \in Inset,
               NEW extent \in Extent, commit(buffer, [origin |-> inset, extent |-> extent])
        PROVE  End(frame') = End(frame)
    <3>1. frame' = reposition(anchor, gravity, extent) /\ extent \in Nat
      BY <1>1, <2>2, FramesAssumption DEF commit, ApplyMapped, Reposition
    <3>2. QED
      BY <1>1, <3>1, TypesOfNumbers, RepositionProperties
  <2>3. CASE \/ DestroyToplevel \/ way_xdg_surface_configure
             \/ \E serial \in 1 .. MaxSerial : ack_configure(serial)
             \/ UNCHANGED vars
    BY <2>3 DEF DestroyToplevel, way_xdg_surface_configure, ack_configure, vars
  <2>4. CASE get_toplevel
    BY <1>1, <2>4 DEF get_toplevel
  <2>5. QED
    BY <1>1, <2>1, <2>2, <2>3, <2>4 DEF Next
<1>2. IInv /\ [Next]_vars => [Holds => End(frame') = End(frame)]_vars
  BY <1>1
<1>3. QED
  BY <1>2, Invariance, PTL DEF Spec, FarEdgeKept

-------------------------------------------------------------------------------
(* The placement of one region, for all rules and constraints.             *)

(* A popup that may slide and is not too large ends inside, at its size,   *)
(* as near as can be to where it wants to be.                              *)
LEMMA SlideFits ==
  ASSUME NEW rules \in AxisRules, NEW r \in Region, NEW c \in Region,
         r.size <= c.size, ~Inside(r, c)
  PROVE  LET s == Slide(rules, r, c)
         IN  /\ s \in Region
             /\ s.size = r.size
             /\ Inside(s, c)
             /\ \A p \in c.pos .. c.pos + c.size - s.size :
                  Gap(s.pos, r.pos) <= Gap(p, r.pos)
<1> DEFINE s == Slide(rules, r, c)
<1>1. r.pos \in Int /\ r.size \in Nat /\ c.pos \in Int /\ c.size \in Nat
  BY DEF Region
<1>2. CASE r.pos < c.pos
  <2>1. s = [r EXCEPT !.pos = c.pos]
    BY <1>1, <1>2 DEF Slide, StartOverlap, EndOverlap, Lesser, Region
  <2> QED
    BY <1>1, <1>2, <2>1 DEF Inside, Gap, Region
<1>3. CASE r.pos >= c.pos
  <2>1. r.pos + r.size > c.pos + c.size
    BY <1>1, <1>3 DEF Inside
  <2>2. s = [r EXCEPT !.pos = c.pos + c.size - r.size]
    BY <1>1, <1>3, <2>1 DEF Slide, StartOverlap, EndOverlap, Lesser, Region
  <2> QED
    BY <1>1, <1>3, <2>1, <2>2 DEF Inside, Gap, Region
<1> QED
  BY <1>1, <1>2, <1>3

(* Resizing gives the part inside the constraint, if there is one, and     *)
(* never enlarges a popup.                                                 *)
LEMMA ResizeClips ==
  ASSUME NEW r \in Region, NEW c \in Region
  PROVE  /\ Meets(r, c) /\ ~Inside(r, c) => IsMeet(Resize(r, c), r, c)
         /\ Resize(r, c).size <= r.size
<1>1. r.pos \in Int /\ r.size \in Nat /\ c.pos \in Int /\ c.size \in Nat
  BY DEF Region
<1> QED
  BY <1>1 DEF Resize, StartOverlap, EndOverlap, Meets, Inside, IsMeet, Lesser, Region

(* The wanted position is a region of the wanted size.                     *)
LEMMA WantedType ==
  ASSUME NEW rules \in AxisRules
  PROVE  /\ get_position(rules) \in Region
         /\ get_position(rules).size = rules.size
         /\ get_position(Flipped(rules)).size = rules.size
<1>1. /\ rules.anchor \in Region /\ rules.gravity \in Int /\ rules.size \in Nat
      /\ rules.anchor.pos \in Int
  BY DEF AxisRules, Region
<1>2. Flipped(rules).size = rules.size
  BY DEF Flipped, AxisRules
<1> QED
  BY <1>1, <1>2 DEF get_position, Region

(* The test of the code is that the region is inside.                      *)
LEMMA UnconstrainedIsInside ==
  ASSUME NEW r, NEW c, r.pos \in Int, r.size \in Int, c.pos \in Int, c.size \in Int
  PROVE  is_unconstrained(r, c) <=> Inside(r, c)
BY DEF is_unconstrained, Inside, StartOverlap, EndOverlap

(* For every positioner and every constraint, positioner_apply_axis        *)
(* returns what the rules ask for (IsBest).                                *)
THEOREM BestPlace ==
  ASSUME NEW rules \in AxisRules, NEW c \in Region
  PROVE  IsBest(rules, c, positioner_apply_axis(rules, c))
<1> DEFINE wanted == get_position(rules)
           flipped == get_position(Flipped(rules))
           r == positioner_apply_axis(rules, c)
           both == StartOverlap(wanted, c) > 0 /\ EndOverlap(wanted, c) > 0
           slid == IF rules.slide THEN Slide(rules, wanted, c) ELSE wanted
<1>1. /\ c.pos \in Int /\ c.size \in Nat /\ rules.size \in Nat
      /\ wanted \in Region /\ wanted.pos \in Int /\ wanted.size = rules.size
      /\ flipped.size = rules.size /\ flipped.pos \in Int
  <2>1. rules.anchor.pos \in Int /\ rules.anchor.size \in Nat /\ rules.gravity \in Int
        /\ rules.size \in Nat
    BY DEF AxisRules, Region
  <2>2. flipped.pos \in Int
    BY <2>1 DEF get_position, Flipped, AxisRules, Region
  <2> QED
    BY <2>1, <2>2, WantedType DEF Region
<1>2. is_unconstrained(wanted, c) <=> Inside(wanted, c)
  BY <1>1, UnconstrainedIsInside
<1>3. is_unconstrained(flipped, c) <=> Inside(flipped, c)
  BY <1>1, UnconstrainedIsInside
<1> DEFINE flips == rules.flip /\ Inside(flipped, c)
<1>4. CASE Inside(wanted, c)
  <2>1. r = wanted
    BY <1>2, <1>4 DEF positioner_apply_axis
  <2> QED
    BY <1>1, <1>4, <2>1 DEF IsBest
<1>5. CASE ~Inside(wanted, c) /\ flips
  <2>1. r = flipped
    BY <1>2, <1>3, <1>5 DEF positioner_apply_axis
  <2> QED
    BY <1>1, <1>5, <2>1 DEF IsBest
<1>6. CASE ~Inside(wanted, c) /\ ~flips /\ rules.slide
  <2>1. r = IF ~both THEN slid ELSE IF rules.resize THEN Resize(slid, c) ELSE slid
    BY <1>2, <1>3, <1>6 DEF positioner_apply_axis
  <2>2. CASE rules.size <= c.size
    <3>1. ~both
      BY <1>1, <2>2 DEF StartOverlap, EndOverlap
    <3>2. r = Slide(rules, wanted, c)
      BY <1>6, <2>1, <3>1
    <3>3. /\ r.size = rules.size
          /\ Inside(r, c)
          /\ \A p \in c.pos .. c.pos + c.size - r.size :
               Gap(r.pos, wanted.pos) <= Gap(p, wanted.pos)
      BY <1>1, <1>6, <2>2, <3>2, SlideFits
    <3> QED
      BY <1>1, <1>6, <3>3 DEF IsBest
  <2>3. CASE ~(rules.size <= c.size)
    <3>1. slid \in Region /\ slid.size = rules.size
      <4>1. slid = Slide(rules, wanted, c)
        BY <1>6
      <4>2. rules.gravity \in Int
        BY DEF AxisRules
      <4> QED
        BY <1>1, <4>1, <4>2 DEF Slide, StartOverlap, EndOverlap, Lesser, Region
    <3>2. Resize(slid, c).size <= rules.size
      BY <3>1, ResizeClips
    <3>3. r.size <= rules.size
      BY <1>1, <2>1, <3>1, <3>2
    <3> QED
      BY <1>6, <2>3, <3>3 DEF IsBest
  <2> QED
    BY <2>2, <2>3
<1>7. CASE ~Inside(wanted, c) /\ ~flips /\ ~rules.slide
  <2>1. r = IF rules.resize THEN Resize(wanted, c) ELSE wanted
    BY <1>2, <1>3, <1>7 DEF positioner_apply_axis
  <2>2. /\ Meets(wanted, c) => IsMeet(Resize(wanted, c), wanted, c)
        /\ Resize(wanted, c).size <= rules.size
    BY <1>1, <1>7, ResizeClips
  <2> QED
    BY <1>1, <1>7, <2>1, <2>2 DEF IsBest
<1> QED
  BY <1>4, <1>5, <1>6, <1>7

-------------------------------------------------------------------------------
(* Popups, for any outputs and anywhere the toplevel can be.               *)

(* The rules of a positioner, on one axis.                                 *)
LEMMA AxisRulesAreTyped ==
  ASSUME NEW rules \in WayPositionerRules
  PROVE  axis_rules(rules) \in AxisRules
<1>1. ASSUME NEW edge \in Edge, NEW extent \in Nat PROVE edge_to_rel(edge, extent) \in Nat
  <2>1. extent \div 2 \in Nat
    OBVIOUS
  <2>2. edge \in {"near", "middle", "far"}
    BY DEF Edge
  <2> QED
    BY <2>1, <2>2 DEF edge_to_rel
<1>2. /\ rules.anchor_rect.size \in Nat /\ rules.size \in Nat
      /\ rules.anchor \in Edge /\ rules.gravity \in Edge
      /\ rules.flip \in BOOLEAN /\ rules.slide \in BOOLEAN /\ rules.resize \in BOOLEAN
  <2>1. rules.anchor_rect \in Region
    BY DEF WayPositionerRules
  <2> QED
    BY <2>1 DEF WayPositionerRules, Region
<1>3. /\ edge_to_rel(rules.anchor, rules.anchor_rect.size) \in Nat
      /\ edge_to_rel(rules.gravity, rules.size) \in Nat
  BY <1>1, <1>2
<1> QED
  BY <1>2, <1>3 DEF axis_rules, AxisRules, Region

(* The place that is found is a region.                                    *)
LEMMA PlaceIsTyped ==
  ASSUME NEW rules \in AxisRules, NEW c \in Region
  PROVE  positioner_apply_axis(rules, c) \in [pos : Int, size : Int]
<1> DEFINE wanted == get_position(rules)
           flipped == get_position(Flipped(rules))
           Pair == [pos : Int, size : Int]
<1>1. /\ rules.anchor \in Region /\ rules.anchor.pos \in Int /\ rules.anchor.size \in Nat
      /\ rules.gravity \in Int /\ rules.size \in Nat /\ c \in Pair
  BY DEF AxisRules, Region
<1>2. wanted \in Pair
  BY <1>1 DEF get_position
<1>3. flipped \in Pair
  BY <1>1 DEF get_position, Flipped, AxisRules, Region
<1>4. ASSUME NEW r \in Pair PROVE Slide(rules, r, c) \in Pair /\ Resize(r, c) \in Pair
  <2>1. r.pos \in Int /\ r.size \in Int /\ c.pos \in Int /\ c.size \in Int
    BY <1>1
  <2>2. Slide(rules, r, c) \in Pair
    BY <1>1, <2>1 DEF Slide, StartOverlap, EndOverlap, Lesser
  <2>3. Resize(r, c) \in Pair
    BY <1>1, <2>1 DEF Resize, StartOverlap, EndOverlap
  <2> QED
    BY <2>2, <2>3
<1>5. Slide(rules, wanted, c) \in Pair /\ Resize(wanted, c) \in Pair
  BY <1>2, <1>4
<1>6. Resize(Slide(rules, wanted, c), c) \in Pair
  BY <1>4, <1>5
<1> HIDE DEF wanted, flipped, Pair
<1>7. positioner_apply_axis(rules, c) \in {wanted, flipped, Slide(rules, wanted, c),
        Resize(wanted, c), Resize(Slide(rules, wanted, c), c)}
  BY DEF positioner_apply_axis, wanted, flipped
<1> QED
  BY <1>2, <1>3, <1>5, <1>6, <1>7 DEF Pair

(* Any set of numbers has a least one.                                     *)
LEMMA LeastNumber ==
  ASSUME NEW S, S \subseteq Nat, S # {}
  PROVE  \E m \in S : \A k \in S : m <= k
<1> DEFINE R == {p \in Nat \X Nat : p[1] < p[2]}
<1>1. IsWellFoundedOn(R, Nat)
  <2>1. R = OpToRel(<, Nat)
    BY DEF OpToRel
  <2> QED
    BY <2>1, NatLessThanWellFounded
<1>2. \A a, b \in Nat : a < b => <<a, b>> \in R
  OBVIOUS
<1> HIDE DEF R
<1>3. PICK m \in S : \A k \in S : ~ (<<k, m>> \in R)
  BY <1>1, WFMin
<1>4. ASSUME NEW k \in S PROVE m <= k
  <2>1. k \in Nat /\ m \in Nat
    OBVIOUS
  <2>2. ~ (k < m)
    BY <1>2, <1>3, <2>1
  <2> QED
    BY <2>1, <2>2
<1> QED
  BY <1>4

(* wm_find_output_at finds one of the outputs, the first of the nearest.   *)
LEMMA FindsAnOutput ==
  ASSUME NEW viewports \in Seq(Region), viewports # <<>>, NEW twice \in Int
  PROVE  /\ wm_find_output_at(viewports, twice) \in {viewports[m] : m \in DOMAIN viewports}
         /\ \A n \in DOMAIN viewports :
              Distance(wm_find_output_at(viewports, twice), twice) <= Distance(viewports[n], twice)
<1> DEFINE D(m) == Distance(viewports[m], twice)
           Before(m, n) == D(m) < D(n) \/ (D(m) = D(n) /\ m <= n)
<1>1. DOMAIN viewports \subseteq Nat /\ DOMAIN viewports # {}
  <2>1. Len(viewports) \in Nat /\ Len(viewports) # 0 /\ DOMAIN viewports = 1 .. Len(viewports)
    OBVIOUS
  <2>2. 1 \in DOMAIN viewports
    BY <2>1
  <2> QED
    BY <2>1, <2>2
<1>2. \A m \in DOMAIN viewports : D(m) \in Nat
  <2> SUFFICES ASSUME NEW m \in DOMAIN viewports PROVE D(m) \in Nat
    OBVIOUS
  <2>1. viewports[m] \in Region
    OBVIOUS
  <2>2. viewports[m].pos \in Int /\ viewports[m].size \in Nat
    BY <2>1 DEF Region
  <2> QED
    BY <2>2 DEF Distance
<1> HIDE DEF D
<1>3. PICK d \in {D(m) : m \in DOMAIN viewports} : \A k \in {D(m) : m \in DOMAIN viewports} : d <= k
  <2>1. {D(m) : m \in DOMAIN viewports} \subseteq Nat /\ {D(m) : m \in DOMAIN viewports} # {}
    BY <1>1, <1>2
  <2> HIDE DEF D
  <2> QED
    BY <2>1, LeastNumber
<1>4. PICK m \in {k \in DOMAIN viewports : D(k) = d} :
        \A k \in {j \in DOMAIN viewports : D(j) = d} : m <= k
  <2>1. {k \in DOMAIN viewports : D(k) = d} \subseteq Nat /\ {k \in DOMAIN viewports : D(k) = d} # {}
    BY <1>1, <1>3
  <2> QED
    BY <2>1, LeastNumber
<1>5. m \in DOMAIN viewports /\ \A n \in DOMAIN viewports : Before(m, n)
  <2> SUFFICES ASSUME NEW n \in DOMAIN viewports PROVE Before(m, n)
    BY <1>4
  <2>1. D(m) = d /\ d <= D(n) /\ D(n) \in Nat /\ D(m) \in Nat
    BY <1>2, <1>3, <1>4
  <2>2. D(n) = d => m <= n
    BY <1>4
  <2> QED
    BY <2>1, <2>2
<1>6. PICK k \in DOMAIN viewports : /\ wm_find_output_at(viewports, twice) = viewports[k]
                                    /\ \A n \in DOMAIN viewports : Before(k, n)
  BY <1>5 DEF wm_find_output_at, D
<1>7. \A n \in DOMAIN viewports : D(k) <= D(n)
  BY <1>2, <1>6
<1> QED
  BY <1>6, <1>7 DEF D

(* The place by the rules in the parent's coordinates, wherever the parent's*)
(* surface is.                                                             *)
LEMMA PlacedAsAsked ==
  ASSUME NEW rules \in PopupRules, NEW translation \in Int
  PROVE  LET offset == rules.anchor_rect.pos + rules.offset
             seen == constraint_of(rules, Viewports, translation)
             popup == position(rules, Viewports, translation)
         IN  /\ offset \in Int
             /\ seen \in Region
             /\ popup \in [pos : Int, size : Int]
             /\ IsBest(axis_rules(rules), [seen EXCEPT !.pos = @ - offset],
                       [popup EXCEPT !.pos = @ - offset])
<1> DEFINE offset == rules.anchor_rect.pos + rules.offset
           Local(r) == [r EXCEPT !.pos = @ - offset]
           c == constraint_of(rules, Viewports, translation)
           p == positioner_apply_axis(axis_rules(rules), Local(c))
<1>1. /\ rules \in WayPositionerRules /\ axis_rules(rules) \in AxisRules
      /\ rules.anchor_rect.pos \in Int /\ rules.anchor_rect.size \in Nat /\ offset \in Int
  <2>1. rules \in WayPositionerRules
    BY RulesAssumption
  <2>2. rules.anchor_rect \in Region /\ rules.offset \in Int
    BY <2>1 DEF WayPositionerRules
  <2> QED
    BY <2>1, <2>2, AxisRulesAreTyped DEF Region
<1>2. c \in Region
  <2> DEFINE found == wm_find_output_at(Viewports, AnchorPoint(rules))
  <2>1. AnchorPoint(rules) \in Int
    BY <1>1 DEF AnchorPoint
  <2>2. found \in Region
    BY <2>1, ViewportsAssumption, FindsAnOutput
  <2> HIDE DEF found
  <2>3. [found EXCEPT !.pos = @ - translation] \in Region
    BY <2>2 DEF Region
  <2> QED
    BY <2>3 DEF constraint_of, found
<1> HIDE DEF c, offset
<1>3. Local(c) \in Region
  BY <1>1, <1>2 DEF Region
<1>4. p \in [pos : Int, size : Int] /\ IsBest(axis_rules(rules), Local(c), p)
  BY <1>1, <1>3, PlaceIsTyped, BestPlace
<1>5. position(rules, Viewports, translation) = [p EXCEPT !.pos = @ + offset]
  BY DEF position, positioner_apply, c, offset
<1> HIDE DEF p
<1>6. /\ Local([p EXCEPT !.pos = @ + offset]) = p
      /\ [p EXCEPT !.pos = @ + offset] \in [pos : Int, size : Int]
  <2>1. PICK x \in Int, y \in Int : p = [pos |-> x, size |-> y]
    BY <1>4
  <2>2. [p EXCEPT !.pos = @ + offset] = [pos |-> x + offset, size |-> y]
    BY <2>1
  <2>3. Local([pos |-> x + offset, size |-> y]) = [pos |-> (x + offset) - offset, size |-> y]
    OBVIOUS
  <2>4. (x + offset) - offset = x /\ x + offset \in Int
    BY <1>1
  <2> QED
    BY <2>1, <2>2, <2>3, <2>4
<1> QED
  BY <1>1, <1>2, <1>4, <1>5, <1>6 DEF c, offset

(* Every popup of a visible window is shown where its rules ask it to be,  *)
(* in every state of the window, for whatever outputs there are, up to the *)
(* width of the shadow its client has drawn around the window by then.     *)
THEOREM PopupsInPlace == Spec => []PopupPlaced
<1>1. ASSUME frame.origin \in Int, geometry.origin \in Int, tree = -geometry.origin,
             NEW rules \in PopupRules
      PROVE  LET start == frame.origin + rules.anchor_rect.pos + rules.offset
                 Local(r) == [r EXCEPT !.pos = @ - start]
                 output == wm_find_output_at(Viewports, AnchorPoint(rules))
                 moved == [output EXCEPT !.pos = @ + geometry.origin]
             IN  IsBest(axis_rules(rules), Local(moved), Local(Shown(rules)))
  <2> DEFINE offset == rules.anchor_rect.pos + rules.offset
             start == frame.origin + rules.anchor_rect.pos + rules.offset
             Local(r) == [r EXCEPT !.pos = @ - start]
             output == wm_find_output_at(Viewports, AnchorPoint(rules))
             moved == [output EXCEPT !.pos = @ + geometry.origin]
             seen == constraint_of(rules, Viewports, SurfacePlace)
             popup == position(rules, Viewports, SurfacePlace)
  <2>1. SurfacePlace \in Int /\ SurfacePlace = frame.origin - geometry.origin
    BY <1>1 DEF SurfacePlace
  <2>2. /\ offset \in Int /\ seen \in Region /\ popup \in [pos : Int, size : Int]
        /\ IsBest(axis_rules(rules), [seen EXCEPT !.pos = @ - offset],
                  [popup EXCEPT !.pos = @ - offset])
    BY <2>1, PlacedAsAsked
  <2>3. rules.anchor_rect.pos \in Int /\ rules.anchor_rect.size \in Nat /\ rules.offset \in Int
    BY RulesAssumption DEF WayPositionerRules, Region
  <2>4. output \in Region
    <3>1. AnchorPoint(rules) \in Int
      BY <2>3 DEF AnchorPoint
    <3> QED
      BY <3>1, ViewportsAssumption, FindsAnOutput
  <2>5. seen = [output EXCEPT !.pos = @ - SurfacePlace]
    BY DEF constraint_of
  <2> HIDE DEF output, seen, popup
  <2>6. Local(moved) = [seen EXCEPT !.pos = @ - offset]
    <3>1. PICK x \in Int, y \in Nat : output = [pos |-> x, size |-> y]
      BY <2>4 DEF Region
    <3>2. seen = [pos |-> x - SurfacePlace, size |-> y]
      BY <2>5, <3>1
    <3>3. moved = [pos |-> x + geometry.origin, size |-> y]
      BY <3>1
    <3>4. Local([pos |-> x + geometry.origin, size |-> y]) =
            [pos |-> (x + geometry.origin) - start, size |-> y]
      OBVIOUS
    <3>5. [seen EXCEPT !.pos = @ - offset] = [pos |-> (x - SurfacePlace) - offset, size |-> y]
      BY <3>2
    <3>6. (x + geometry.origin) - start = (x - SurfacePlace) - offset
      BY <1>1, <2>1, <2>3
    <3> QED
      BY <3>3, <3>4, <3>5, <3>6
  <2>7. Local(Shown(rules)) = [popup EXCEPT !.pos = @ - offset]
    <3>1. PICK x \in Int, y \in Int : popup = [pos |-> x, size |-> y]
      BY <2>2
    <3>2. Shown(rules) = [pos |-> (x + SurfacePlace) + geometry.origin, size |-> y]
      BY <3>1 DEF Shown, popup
    <3>3. Local(Shown(rules)) = [pos |-> ((x + SurfacePlace) + geometry.origin) - start, size |-> y]
      BY <3>2
    <3>4. ((x + SurfacePlace) + geometry.origin) - start = x - offset
      BY <1>1, <2>1, <2>3
    <3>5. [popup EXCEPT !.pos = @ - offset] = [pos |-> x - offset, size |-> y]
      BY <3>1
    <3> QED
      BY <3>3, <3>4, <3>5
  <2> QED
    BY <2>2, <2>6, <2>7 DEF output
<1>2. IInv => PopupPlaced
  <2> SUFFICES ASSUME IInv, windowed PROVE PopupPlaced
    BY DEF PopupPlaced
  <2>1. frame.origin \in Int /\ geometry.origin \in Int
    BY TypesOfNumbers DEF Frames
  <2>2. tree = -geometry.origin
    BY DEF IInv, TreeOK
  <2> QED
    BY <1>1, <2>1, <2>2 DEF PopupPlaced
<1> QED
  BY <1>2, Invariance, PTL

-------------------------------------------------------------------------------
(* Keys and buttons.                                                       *)

(* The seats there can be: what each of the record's fields may hold.      *)
SeatRecord ==
  [counts : [Code -> Nat], base : SUBSET Modifier, locked : SUBSET Modifier,
   unlocks : SUBSET Modifier, mods : SUBSET Modifier, cycling : BOOLEAN,
   focus : Surface \cup {Null}, view : [Client -> [keys : SUBSET Key, mods : SUBSET Modifier]],
   swallowed : SUBSET Key, twice : BOOLEAN]

(* Whether client c has the keyboard.                                      *)
HasKeyboard(s, c) == s.focus # Null /\ Owner[s.focus] = c

(* The client with the keyboard believes in these keys, others in none.    *)
KeysAre(s, keys) ==
  \A c \in Client : s.view[c].keys = IF HasKeyboard(s, c) THEN keys ELSE {}

(* The client with the keyboard has these modifiers, others have none.     *)
ModsAre(s, mods) ==
  \A c \in Client : s.view[c].mods = IF HasKeyboard(s, c) THEN mods ELSE {}

(* No press was sent twice, and clients were told these keys and modifiers. *)
ToldAre(s, keys, mods) ==
  s \in SeatRecord /\ ~s.twice /\ KeysAre(s, keys) /\ ModsAre(s, mods)

(* Clients know what there is to know.                                     *)
SeatKnown(s) == ToldAre(s, Held(s) \ s.swallowed, Effective(s))

(* Two seats have the same keys pressed and the same xkb state.            *)
SameKeys(s, t) ==
  t.counts = s.counts /\ t.base = s.base /\ t.locked = s.locked /\ t.unlocks = s.unlocks

(* The codes, written out.                                                 *)
LEMMA CodeFacts ==
  /\ CodeOrder \in Seq(Code) /\ Len(CodeOrder) = 7 /\ Range(CodeOrder) = Code
  /\ Code = {"tab", "s", "alt", "caps", "meta", "left", "side"}
  /\ \A i, j \in 1 .. Len(CodeOrder) : CodeOrder[i] = CodeOrder[j] => i = j
  /\ Key \subseteq Code /\ Modifier \subseteq Key /\ Button \subseteq Code
  /\ \A c \in Code : /\ SeatCode(c) \in Code
                     /\ SeatCode(c) \in Button => SeatCode(c) = c /\ c \notin Key
                     /\ SeatCode(c) \notin Button => SeatCode(c) \in Key
<1>1. Code = {"tab", "s", "alt", "caps", "meta", "left", "side"}
  <2>1. DOMAIN CodeOrder = 1 .. 7
    BY DEF CodeOrder
  <2>2. Code = {CodeOrder[i] : i \in 1 .. 7}
    BY <2>1 DEF Code, Range
  <2>3. 1 .. 7 = {1, 2, 3, 4, 5, 6, 7}
    OBVIOUS
  <2> QED
    BY <2>2, <2>3 DEF CodeOrder
<1>2. Key = {"tab", "s", "alt", "caps", "meta"}
  BY <1>1 DEF Key
<1>3. CodeOrder \in Seq(Code) /\ Len(CodeOrder) = 7
  BY <1>1 DEF CodeOrder
<1>4. \A i, j \in 1 .. Len(CodeOrder) : CodeOrder[i] = CodeOrder[j] => i = j
  <2>1. Len(CodeOrder) = 7
    BY <1>3
  <2>2. 1 .. 7 = {1, 2, 3, 4, 5, 6, 7}
    OBVIOUS
  <2> QED
    BY <2>1, <2>2 DEF CodeOrder
<1>5. Key \subseteq Code /\ Modifier \subseteq Key /\ Button \subseteq Code
  BY <1>1, <1>2 DEF Modifier, Button
<1>6. ASSUME NEW c \in Code
      PROVE  /\ SeatCode(c) \in Code
             /\ SeatCode(c) \in Button => SeatCode(c) = c /\ c \notin Key
             /\ SeatCode(c) \notin Button => SeatCode(c) \in Key
  BY <1>1, <1>2 DEF SeatCode, Button
<1> QED
  BY <1>1, <1>3, <1>4, <1>5, <1>6 DEF Code

(* A client is told something: its view changes and nothing else does.     *)
LEMMA ToldOne ==
  ASSUME NEW s \in SeatRecord, s.focus # Null,
         NEW keys \in SUBSET Key, NEW mods \in SUBSET Modifier,
         NEW t, t = Told(s, [keys |-> keys, mods |-> mods])
  PROVE  /\ t \in SeatRecord
         /\ SameKeys(s, t) /\ t.mods = s.mods /\ t.cycling = s.cycling /\ t.focus = s.focus
         /\ t.swallowed = s.swallowed /\ t.twice = s.twice
         /\ \A c \in Client : t.view[c] = IF HasKeyboard(s, c) THEN [keys |-> keys, mods |-> mods]
                                          ELSE s.view[c]
<1>1. s.focus \in Surface /\ Owner[s.focus] \in Client
  BY DEF SeatRecord, Client
<1>2. PICK w : w = [keys |-> keys, mods |-> mods]
  OBVIOUS
<1>3. w \in [keys : SUBSET Key, mods : SUBSET Modifier]
  BY <1>2
<1>4. s.view \in [Client -> [keys : SUBSET Key, mods : SUBSET Modifier]]
  BY DEF SeatRecord
<1>5. PICK v : v = [s.view EXCEPT ![Owner[s.focus]] = w]
  OBVIOUS
<1>6. /\ v \in [Client -> [keys : SUBSET Key, mods : SUBSET Modifier]]
      /\ \A c \in Client : v[c] = IF HasKeyboard(s, c) THEN w ELSE s.view[c]
  BY <1>1, <1>3, <1>4, <1>5 DEF HasKeyboard
<1>7. t = [s EXCEPT !.view = v]
  BY <1>2, <1>5 DEF Told
<1>8. t \in SeatRecord /\ t.view = v
  BY <1>6, <1>7 DEF SeatRecord
<1>9. /\ SameKeys(s, t) /\ t.mods = s.mods /\ t.cycling = s.cycling /\ t.focus = s.focus
      /\ t.swallowed = s.swallowed /\ t.twice = s.twice
  BY <1>7 DEF SeatRecord, SameKeys
<1> QED
  BY <1>2, <1>6, <1>8, <1>9

(* When the keyboard's focus is set to what it was, nothing happens; when  *)
(* it moves, the new client is told all there is to know.                  *)
LEMMA FocusTells ==
  ASSUME NEW s, NEW keys, NEW mods, ToldAre(s, keys, mods),
         NEW new \in Surface \cup {Null}, NEW t, t = seat_keyboard_focus(s, new)
  PROVE  /\ SameKeys(s, t) /\ t.mods = s.mods /\ t.cycling = s.cycling /\ t.focus = new
         /\ IF new = s.focus THEN t = s
            ELSE t.swallowed = {} /\ ToldAre(t, Held(s), Effective(s))
<1>1. CASE new = s.focus
  BY <1>1 DEF seat_keyboard_focus, SameKeys
<1>2. CASE new # s.focus
  <2>1. s \in SeatRecord /\ ~s.twice /\ KeysAre(s, keys) /\ ModsAre(s, mods)
    BY DEF ToldAre
  <2>2. PICK l : l = keyboard_leave(s)
    OBVIOUS
  <2>3. /\ l \in SeatRecord
        /\ SameKeys(s, l) /\ l.mods = s.mods /\ l.cycling = s.cycling /\ l.focus = s.focus
        /\ l.twice = s.twice
        /\ \A c \in Client : l.view[c].keys = {} /\ l.view[c].mods = {}
    <3>1. CASE s.focus = Null
      <4>1. l = s
        BY <2>2, <3>1 DEF keyboard_leave
      <4> QED
        BY <2>1, <3>1, <4>1 DEF KeysAre, ModsAre, HasKeyboard, SameKeys
    <3>2. CASE s.focus # Null
      <4>1. l = Told(s, [keys |-> {}, mods |-> {}])
        BY <2>2, <3>2 DEF keyboard_leave, NoView
      <4>2. \A c \in Client : l.view[c] = IF HasKeyboard(s, c) THEN [keys |-> {}, mods |-> {}]
                                          ELSE s.view[c]
        BY <2>1, <3>2, <4>1, ToldOne
      <4>3. \A c \in Client : l.view[c].keys = {} /\ l.view[c].mods = {}
        BY <2>1, <4>2 DEF KeysAre, ModsAre
      <4> QED
        BY <2>1, <3>2, <4>1, <4>3, ToldOne
    <3> QED
      BY <3>1, <3>2
  <2>4. PICK m : m = [l EXCEPT !.focus = new, !.swallowed = {}]
    OBVIOUS
  <2>5. /\ m \in SeatRecord /\ m.focus = new /\ m.swallowed = {}
        /\ SameKeys(s, m) /\ m.mods = s.mods /\ m.cycling = s.cycling
        /\ m.twice = s.twice /\ m.view = l.view
    BY <2>3, <2>4 DEF SeatRecord, SameKeys
  <2>6. Held(m) = Held(s) /\ Effective(m) = Effective(s)
    BY <2>5 DEF Held, Effective, SameKeys
  <2>7. CASE new = Null
    <3>1. t = m
      BY <1>2, <2>2, <2>4, <2>7 DEF seat_keyboard_focus
    <3>2. KeysAre(m, Held(s)) /\ ModsAre(m, Effective(s))
      BY <2>3, <2>5, <2>7 DEF KeysAre, ModsAre, HasKeyboard
    <3> QED
      BY <1>2, <2>1, <2>5, <3>1, <3>2 DEF ToldAre
  <2>8. CASE new # Null
    <3>1. t = Told(m, [keys |-> Held(m), mods |-> Effective(m)])
      BY <1>2, <2>2, <2>4, <2>8 DEF seat_keyboard_focus, way_seat_on_keyboard_enter
    <3>2. Held(m) \in SUBSET Key /\ Effective(m) \in SUBSET Modifier
      BY <2>5 DEF Held, Effective, SeatRecord
    <3>3. m.focus # Null
      BY <2>5, <2>8
    <3>4. /\ t \in SeatRecord
          /\ SameKeys(m, t) /\ t.mods = m.mods /\ t.cycling = m.cycling /\ t.focus = m.focus
          /\ t.swallowed = m.swallowed /\ t.twice = m.twice
          /\ \A c \in Client : t.view[c] =
               IF HasKeyboard(m, c) THEN [keys |-> Held(m), mods |-> Effective(m)] ELSE m.view[c]
      BY <2>5, <3>1, <3>2, <3>3, ToldOne
    <3>5. \A c \in Client : HasKeyboard(t, c) <=> HasKeyboard(m, c)
      BY <3>4 DEF HasKeyboard
    <3>6. KeysAre(t, Held(s)) /\ ModsAre(t, Effective(s))
      <4>1. ASSUME NEW c \in Client
            PROVE  /\ t.view[c].keys = IF HasKeyboard(t, c) THEN Held(s) ELSE {}
                   /\ t.view[c].mods = IF HasKeyboard(t, c) THEN Effective(s) ELSE {}
        <5>1. CASE HasKeyboard(m, c)
          <6>1. t.view[c] = [keys |-> Held(m), mods |-> Effective(m)]
            BY <3>4, <5>1
          <6> QED
            BY <2>6, <3>5, <5>1, <6>1
        <5>2. CASE ~HasKeyboard(m, c)
          <6>1. t.view[c] = l.view[c]
            BY <2>5, <3>4, <5>2
          <6> QED
            BY <2>3, <3>5, <5>2, <6>1
        <5> QED
          BY <5>1, <5>2
      <4> QED
        BY <4>1 DEF KeysAre, ModsAre
    <3>7. ~t.twice
      BY <2>1, <2>5, <3>4, Zenon
    <3>8. ToldAre(t, Held(s), Effective(s))
      BY <3>4, <3>6, <3>7 DEF ToldAre
    <3>9. SameKeys(s, t)
      BY <2>5, <3>4 DEF SameKeys
    <3> QED
      BY <1>2, <2>5, <3>4, <3>8, <3>9
  <2> QED
    BY <2>7, <2>8
<1> QED
  BY <1>1, <1>2

(* Without a focus, clients may be said to have been told anything.        *)
LEMMA NoneTold ==
  ASSUME NEW s, NEW keys, NEW mods, ToldAre(s, keys, mods), s.focus = Null, NEW others, NEW held
  PROVE  ToldAre(s, others, held)
BY DEF ToldAre, KeysAre, ModsAre, HasKeyboard

(* What the clients were told does not depend on other fields.             *)
LEMMA ToldSame ==
  ASSUME NEW s, NEW keys, NEW mods, ToldAre(s, keys, mods),
         NEW t \in SeatRecord, t.view = s.view, t.focus = s.focus, t.twice = s.twice
  PROVE  ToldAre(t, keys, mods)
BY DEF ToldAre, KeysAre, ModsAre, HasKeyboard

(* A count goes up or down.                                                *)
LEMMA CountTells ==
  ASSUME NEW s \in SeatRecord, NEW k \in Code, NEW down \in BOOLEAN, down \/ s.counts[k] # 0,
         NEW t, t = Count(s, k, down)
  PROVE  /\ t \in SeatRecord
         /\ t.counts = [s.counts EXCEPT ![k] = IF down THEN s.counts[k] + 1 ELSE s.counts[k] - 1]
         /\ t.base = s.base /\ t.locked = s.locked /\ t.unlocks = s.unlocks /\ t.mods = s.mods
         /\ t.cycling = s.cycling /\ t.focus = s.focus /\ t.view = s.view
         /\ t.swallowed = s.swallowed /\ t.twice = s.twice
<1>1. PICK n : n = IF down THEN s.counts[k] + 1 ELSE s.counts[k] - 1
  OBVIOUS
<1>2. s.counts \in [Code -> Nat] /\ s.counts[k] \in Nat
  BY DEF SeatRecord
<1>3. n \in Nat
  BY <1>1, <1>2
<1>4. PICK c : c = [s.counts EXCEPT ![k] = n]
  OBVIOUS
<1>5. c \in [Code -> Nat]
  BY <1>2, <1>3, <1>4
<1>6. t = [s EXCEPT !.counts = c]
  BY <1>1, <1>4 DEF Count
<1>7. t \in SeatRecord /\ t.counts = c
  BY <1>5, <1>6 DEF SeatRecord
<1>8. /\ t.base = s.base /\ t.locked = s.locked /\ t.unlocks = s.unlocks /\ t.mods = s.mods
      /\ t.cycling = s.cycling /\ t.focus = s.focus /\ t.view = s.view
      /\ t.swallowed = s.swallowed /\ t.twice = s.twice
  BY <1>6 DEF SeatRecord
<1> QED
  BY <1>1, <1>4, <1>7, <1>8

(* The xkb state changes, whatever it does with its modifiers.             *)
LEMMA XkbTells ==
  ASSUME NEW s \in SeatRecord, NEW k \in Key, NEW down \in BOOLEAN,
         NEW t, t = xkb_state_update_key(s, k, down)
  PROVE  /\ t \in SeatRecord /\ t.counts = s.counts /\ t.mods = s.mods
         /\ t.cycling = s.cycling /\ t.focus = s.focus /\ t.view = s.view
         /\ t.swallowed = s.swallowed /\ t.twice = s.twice
<1>1. PICK base, locked, unlocks :
        /\ base \in SUBSET Modifier /\ locked \in SUBSET Modifier /\ unlocks \in SUBSET Modifier
        /\ t = [s EXCEPT !.base = base, !.locked = locked, !.unlocks = unlocks]
  <2>1. {k} \cap Modifier \subseteq Modifier /\ {k} \cap {"caps"} \subseteq Modifier
    BY DEF Modifier
  <2>2. s.base \subseteq Modifier /\ s.locked \subseteq Modifier /\ s.unlocks \subseteq Modifier
    BY DEF SeatRecord
  <2> DEFINE mod == {k} \cap Modifier
             lock == {k} \cap {"caps"}
  <2> HIDE DEF mod, lock
  <2>3. CASE down
    <3>1. t = [s EXCEPT !.base = s.base \cup mod, !.locked = s.locked \cup lock,
                        !.unlocks = (s.unlocks \ lock) \cup (lock \cap s.locked)]
      BY <2>3 DEF xkb_state_update_key, mod, lock, SeatRecord
    <3>2. /\ s.base \cup mod \in SUBSET Modifier /\ s.locked \cup lock \in SUBSET Modifier
          /\ (s.unlocks \ lock) \cup (lock \cap s.locked) \in SUBSET Modifier
      BY <2>1, <2>2 DEF mod, lock
    <3> QED
      BY <3>1, <3>2
  <2>4. CASE ~down
    <3>1. t = [s EXCEPT !.base = s.base \ mod, !.locked = s.locked \ (lock \cap s.unlocks)]
      BY <2>4 DEF xkb_state_update_key, mod, lock, SeatRecord
    <3>2. t = [s EXCEPT !.base = s.base \ mod, !.locked = s.locked \ (lock \cap s.unlocks),
                        !.unlocks = s.unlocks]
      BY <3>1 DEF SeatRecord
    <3>3. s.base \ mod \in SUBSET Modifier /\ s.locked \ (lock \cap s.unlocks) \in SUBSET Modifier
      BY <2>2
    <3> QED
      BY <2>2, <3>2, <3>3
  <2> QED
    BY <2>3, <2>4
<1> QED
  BY <1>1 DEF SeatRecord

(* The filters that see the press of a key leave what clients know alone,  *)
(* or take the keyboard away.                                              *)
LEMMA FilterTells ==
  ASSUME NEW s, NEW keys, NEW mods, ToldAre(s, keys, mods), NEW k \in Key,
         NEW t, t = FilterKey(s, k)
  PROVE  /\ ToldAre(t, keys, mods) /\ SameKeys(s, t)
         /\ t.focus # Null => t.swallowed = s.swallowed
<1>1. s \in SeatRecord
  BY DEF ToldAre
<1>2. CASE HasMainMod(s) /\ k = "s"
  <2>1. t = seat_keyboard_focus(s, Null)
    BY <1>2 DEF FilterKey
  <2>2. /\ SameKeys(s, t) /\ t.focus = Null
        /\ t = s \/ ToldAre(t, Held(s), Effective(s))
    BY <2>1, FocusTells
  <2> QED
    BY <2>2, NoneTold
<1>3. CASE HasMainMod(s) /\ k = "tab"
  <2>1. t = [s EXCEPT !.cycling = TRUE]
    BY <1>3 DEF FilterKey
  <2>2. /\ t \in SeatRecord /\ t.view = s.view /\ t.focus = s.focus /\ t.twice = s.twice
        /\ t.swallowed = s.swallowed /\ SameKeys(s, t)
    BY <1>1, <2>1 DEF SeatRecord, SameKeys
  <2> QED
    BY <2>2, ToldSame
<1>4. CASE ~HasMainMod(s) \/ k \notin {"s", "tab"}
  <2>1. t = s
    BY <1>4 DEF FilterKey
  <2> QED
    BY <2>1 DEF SameKeys
<1> QED
  BY <1>2, <1>3, <1>4

(* A key that was counted is posted: the client with the keyboard is told, *)
(* unless a filter captured the press.                                     *)
LEMMA PostTells ==
  ASSUME NEW s, NEW before \in SUBSET Key, NEW mods, ToldAre(s, before \ s.swallowed, mods),
         NEW k \in Key, NEW down \in BOOLEAN, down => k \notin before,
         Held(s) = IF down THEN before \cup {k} ELSE before \ {k},
         NEW t, t = PostKey(s, k, down)
  PROVE  ToldAre(t, Held(t) \ t.swallowed, mods) /\ SameKeys(s, t)
<1>1. PICK f : f = IF down THEN FilterKey(s, k) ELSE s
  OBVIOUS
<1>2. /\ ToldAre(f, before \ s.swallowed, mods) /\ SameKeys(s, f)
      /\ f.focus # Null => f.swallowed = s.swallowed
  <2>1. CASE down
    <3>1. f = FilterKey(s, k)
      BY <1>1, <2>1
    <3> QED
      BY <3>1, FilterTells
  <2>2. CASE ~down
    BY <1>1, <2>2 DEF SameKeys
  <2> QED
    BY <2>1, <2>2
<1>3. f \in SeatRecord /\ Held(f) = Held(s)
  BY <1>2 DEF ToldAre, SameKeys, Held
<1>4. CASE down /\ Captured(s, k)
  <2>1. t = [f EXCEPT !.swallowed = @ \cup {k}]
    BY <1>1, <1>4 DEF PostKey
  <2>2. /\ t \in SeatRecord /\ t.view = f.view /\ t.focus = f.focus /\ t.twice = f.twice
        /\ t.swallowed = f.swallowed \cup {k} /\ SameKeys(f, t)
    BY <1>3, <2>1 DEF SeatRecord, SameKeys
  <2>3. Held(t) = Held(s) /\ SameKeys(s, t)
    BY <1>2, <2>2 DEF SameKeys, Held
  <2>4. ToldAre(t, before \ s.swallowed, mods)
    BY <1>2, <2>2, ToldSame
  <2>5. CASE t.focus = Null
    BY <2>3, <2>4, <2>5, NoneTold
  <2>6. CASE t.focus # Null
    <3>1. t.swallowed = s.swallowed \cup {k}
      BY <1>2, <2>2, <2>6
    <3>2. Held(t) \ t.swallowed = before \ s.swallowed
      BY <1>4, <2>3, <3>1
    <3> QED
      BY <2>3, <2>4, <3>2
  <2> QED
    BY <2>5, <2>6
<1>5. CASE ~(down /\ Captured(s, k)) /\ f.focus = Null
  <2>1. t = f
    BY <1>1, <1>5 DEF PostKey
  <2> QED
    BY <1>2, <1>5, <2>1, NoneTold
<1>6. CASE ~(down /\ Captured(s, k)) /\ f.focus # Null
  <2>1. PICK o : o = Owner[f.focus]
    OBVIOUS
  <2>2. o \in Client /\ HasKeyboard(f, o)
    BY <1>3, <1>6, <2>1 DEF SeatRecord, Client, HasKeyboard
  <2>3. f.view[o].keys = before \ s.swallowed
    BY <1>2, <2>2 DEF ToldAre, KeysAre
  <2>4. PICK keys : keys = IF down THEN f.view[o].keys \cup {k} ELSE f.view[o].keys \ {k}
    OBVIOUS
  <2>5. f.swallowed = s.swallowed /\ ~f.twice
    BY <1>2, <1>6 DEF ToldAre
  <2>6. keys = Held(s) \ (s.swallowed \ {k}) /\ keys \in SUBSET Key
    BY <2>3, <2>4
  <2>7. t = [f EXCEPT !.view[o].keys = keys, !.twice = @ \/ (down /\ k \in f.view[o].keys),
                      !.swallowed = @ \ {k}]
    <3>1. t = [f EXCEPT
                 !.view[o].keys = IF down THEN f.view[o].keys \cup {k} ELSE f.view[o].keys \ {k},
                 !.twice = @ \/ (down /\ k \in f.view[o].keys), !.swallowed = @ \ {k}]
      BY <1>1, <1>3, <1>6, <2>1, <2>2 DEF PostKey, SeatRecord
    <3> QED
      BY <2>4, <3>1
  <2>8. ~(down /\ k \in f.view[o].keys)
    BY <2>3
  <2>9. /\ t \in SeatRecord /\ t.focus = f.focus /\ ~t.twice /\ SameKeys(f, t)
        /\ t.swallowed = s.swallowed \ {k}
        /\ \A c \in Client : t.view[c] = IF c = o THEN [f.view[c] EXCEPT !.keys = keys] ELSE f.view[c]
    <3>1. PICK v : v = [f.view EXCEPT ![o].keys = keys]
      OBVIOUS
    <3>2. f.view \in [Client -> [keys : SUBSET Key, mods : SUBSET Modifier]]
      BY <1>3 DEF SeatRecord
    <3>3. /\ v \in [Client -> [keys : SUBSET Key, mods : SUBSET Modifier]]
          /\ \A c \in Client : v[c] = IF c = o THEN [f.view[c] EXCEPT !.keys = keys] ELSE f.view[c]
      BY <2>2, <2>6, <3>1, <3>2
    <3>4. PICK w : w = (f.twice \/ (down /\ k \in f.view[o].keys))
      OBVIOUS
    <3>5. w = FALSE
      BY <2>5, <2>8, <3>4
    <3>6. t = [f EXCEPT !.view = v, !.twice = w, !.swallowed = s.swallowed \ {k}]
      BY <1>3, <2>5, <2>7, <3>1, <3>4 DEF SeatRecord
    <3>7. s.swallowed \ {k} \in SUBSET Key
      BY <1>3, <2>5 DEF SeatRecord
    <3>8. t \in SeatRecord /\ t.view = v /\ t.twice = w /\ t.swallowed = s.swallowed \ {k}
      BY <1>3, <3>3, <3>5, <3>6, <3>7 DEF SeatRecord
    <3>9. t.focus = f.focus /\ SameKeys(f, t)
      BY <1>3, <3>6 DEF SeatRecord, SameKeys
    <3> QED
      BY <3>3, <3>5, <3>8, <3>9
  <2>10. Held(t) = Held(s) /\ SameKeys(s, t)
    BY <1>2, <2>9 DEF SameKeys, Held
  <2>11. \A c \in Client : HasKeyboard(t, c) <=> c = o
    BY <1>6, <2>1, <2>9 DEF HasKeyboard
  <2>12. \A c \in Client : HasKeyboard(f, c) <=> c = o
    BY <1>6, <2>1 DEF HasKeyboard
  <2>13. KeysAre(t, keys)
    <3>1. ASSUME NEW c \in Client PROVE t.view[c].keys = IF HasKeyboard(t, c) THEN keys ELSE {}
      <4>1. f.view[c] \in [keys : SUBSET Key, mods : SUBSET Modifier]
        BY <1>3 DEF SeatRecord
      <4>2. CASE c = o
        BY <2>9, <2>11, <4>1, <4>2
      <4>3. CASE c # o
        BY <1>2, <2>9, <2>11, <2>12, <4>3 DEF ToldAre, KeysAre
      <4> QED
        BY <4>2, <4>3
    <3> QED
      BY <3>1 DEF KeysAre
  <2>14. ModsAre(t, mods)
    <3>1. ASSUME NEW c \in Client PROVE t.view[c].mods = IF HasKeyboard(t, c) THEN mods ELSE {}
      <4>1. f.view[c] \in [keys : SUBSET Key, mods : SUBSET Modifier]
        BY <1>3 DEF SeatRecord
      <4>2. t.view[c].mods = f.view[c].mods
        BY <2>9, <4>1
      <4> QED
        BY <1>2, <2>11, <2>12, <4>2 DEF ToldAre, ModsAre
    <3> QED
      BY <3>1 DEF ModsAre
  <2>15. keys = Held(t) \ t.swallowed
    BY <2>6, <2>9, <2>10
  <2> QED
    BY <2>9, <2>10, <2>13, <2>14, <2>15 DEF ToldAre
<1> QED
  BY <1>4, <1>5, <1>6

(* Clients that know all know all after the focus moved.                   *)
LEMMA FocusKnown ==
  ASSUME NEW s, SeatKnown(s), NEW new \in Surface \cup {Null},
         NEW t, t = seat_keyboard_focus(s, new)
  PROVE  SeatKnown(t) /\ SameKeys(s, t)
<1>1. ToldAre(s, Held(s) \ s.swallowed, Effective(s))
  BY DEF SeatKnown
<1>2. /\ SameKeys(s, t)
      /\ t = s \/ (t.swallowed = {} /\ ToldAre(t, Held(s), Effective(s)))
  BY <1>1, FocusTells
<1>3. Held(t) = Held(s) /\ Effective(t) = Effective(s)
  BY <1>2 DEF SameKeys, Held, Effective
<1>4. CASE t = s
  BY <1>2, <1>4
<1>5. CASE t.swallowed = {} /\ ToldAre(t, Held(s), Effective(s))
  <2>1. Held(t) \ t.swallowed = Held(s)
    BY <1>3, <1>5
  <2> QED
    BY <1>2, <1>3, <1>5, <2>1 DEF SeatKnown
<1> QED
  BY <1>2, <1>4, <1>5

(* The end of a focus cycle leaves alone what clients know, or the client  *)
(* that gets the keyboard is told all.                                     *)
LEMMA ModifierFilterTells ==
  ASSUME NEW s, NEW mods, ToldAre(s, Held(s) \ s.swallowed, mods),
         NEW cycled \in Surface \cup {Null}, NEW t, t = FilterModifier(s, cycled)
  PROVE  /\ SameKeys(s, t)
         /\ SeatKnown(t) \/ ToldAre(t, Held(t) \ t.swallowed, mods)
<1>1. s \in SeatRecord
  BY DEF ToldAre
<1>2. PICK e : e = [s EXCEPT !.cycling = FALSE]
  OBVIOUS
<1>3. /\ e \in SeatRecord /\ e.view = s.view /\ e.focus = s.focus /\ e.twice = s.twice
      /\ e.swallowed = s.swallowed /\ SameKeys(s, e)
  BY <1>1, <1>2 DEF SeatRecord, SameKeys
<1>4. Held(e) = Held(s)
  BY <1>3 DEF SameKeys, Held
<1>5. ToldAre(e, Held(e) \ e.swallowed, mods)
  <2>1. ToldAre(e, Held(s) \ s.swallowed, mods)
    BY <1>3, ToldSame
  <2> QED
    BY <1>3, <1>4, <2>1
<1>6. t \in {s, e, seat_keyboard_focus(e, cycled)}
  BY <1>2 DEF FilterModifier
<1>7. CASE t = s
  BY <1>7 DEF SameKeys
<1>8. CASE t = e
  BY <1>3, <1>5, <1>8
<1>9. CASE t = seat_keyboard_focus(e, cycled)
  <2>1. /\ SameKeys(e, t)
        /\ t = e \/ (t.swallowed = {} /\ ToldAre(t, Held(e), Effective(e)))
    BY <1>5, <1>9, FocusTells
  <2>2. SameKeys(s, t) /\ Held(t) = Held(e) /\ Effective(t) = Effective(e)
    BY <1>3, <2>1 DEF SameKeys, Held, Effective
  <2>3. CASE t = e
    BY <1>3, <1>5, <2>3
  <2>4. CASE t.swallowed = {} /\ ToldAre(t, Held(e), Effective(e))
    <3>1. Held(t) \ t.swallowed = Held(e)
      BY <2>2, <2>4
    <3> QED
      BY <2>2, <2>4, <3>1 DEF SeatKnown
  <2> QED
    BY <2>1, <2>3, <2>4
<1> QED
  BY <1>6, <1>7, <1>8, <1>9

(* After the xkb state changed, the client with the keyboard is sent the   *)
(* new modifiers, so that clients know all again.                          *)
LEMMA UpdatesTell ==
  ASSUME NEW old, old.base \in SUBSET Modifier, old.locked \in SUBSET Modifier,
         NEW s, ToldAre(s, Held(s) \ s.swallowed, Effective(old)),
         NEW cycled \in Surface \cup {Null},
         NEW t, t = handle_xkb_component_updates(old, s, cycled)
  PROVE  SeatKnown(t) /\ SameKeys(s, t)
<1>1. s \in SeatRecord
  BY DEF ToldAre
<1>2. PICK mods : mods = IF s.locked # old.locked THEN s.locked
                         ELSE IF s.base # old.base THEN s.base ELSE s.mods
  OBVIOUS
<1>3. mods \in SUBSET Modifier
  BY <1>1, <1>2 DEF SeatRecord
<1>4. PICK u : u = [s EXCEPT !.mods = mods]
  OBVIOUS
<1>5. /\ u \in SeatRecord /\ u.view = s.view /\ u.focus = s.focus /\ u.twice = s.twice
      /\ u.swallowed = s.swallowed /\ SameKeys(s, u)
  BY <1>1, <1>3, <1>4 DEF SeatRecord, SameKeys
<1>6. Held(u) = Held(s) /\ Effective(u) = Effective(s)
  BY <1>5 DEF SameKeys, Held, Effective
<1>7. ToldAre(u, Held(u) \ u.swallowed, Effective(old))
  <2>1. ToldAre(u, Held(s) \ s.swallowed, Effective(old))
    BY <1>5, ToldSame
  <2> QED
    BY <1>5, <1>6, <2>1
<1>8. PICK f : f = FilterModifier(u, cycled)
  OBVIOUS
<1>9. SameKeys(u, f) /\ (SeatKnown(f) \/ ToldAre(f, Held(f) \ f.swallowed, Effective(old)))
  BY <1>7, <1>8, ModifierFilterTells
<1>10. t = IF Effective(s) = Effective(old) THEN u
           ELSE IF f.focus = Null THEN f
           ELSE [f EXCEPT !.view[Owner[f.focus]].mods = Effective(f)]
  BY <1>2, <1>4, <1>8 DEF handle_xkb_component_updates
<1>11. CASE Effective(s) = Effective(old)
  <2>1. t = u
    BY <1>10, <1>11
  <2>2. ToldAre(u, Held(u) \ u.swallowed, Effective(u))
    BY <1>6, <1>7, <1>11
  <2> QED
    BY <1>5, <2>1, <2>2 DEF SeatKnown
<1>12. SameKeys(s, f) /\ f \in SeatRecord
  BY <1>5, <1>9 DEF SameKeys, SeatKnown, ToldAre
<1>13. CASE Effective(s) # Effective(old) /\ f.focus = Null
  <2>1. t = f
    BY <1>10, <1>13
  <2>2. ToldAre(f, Held(f) \ f.swallowed, Effective(f))
    BY <1>9, <1>13, NoneTold DEF SeatKnown
  <2> QED
    BY <1>12, <2>1, <2>2 DEF SeatKnown
<1>14. CASE Effective(s) # Effective(old) /\ f.focus # Null
  <2>1. PICK o : o = Owner[f.focus]
    OBVIOUS
  <2>2. o \in Client
    BY <1>12, <1>14, <2>1 DEF SeatRecord, Client
  <2>3. PICK e : e = Effective(f)
    OBVIOUS
  <2>4. e \in SUBSET Modifier
    BY <1>12, <2>3 DEF Effective, SeatRecord
  <2>5. PICK v : v = [f.view EXCEPT ![o].mods = e]
    OBVIOUS
  <2>6. f.view \in [Client -> [keys : SUBSET Key, mods : SUBSET Modifier]]
    BY <1>12 DEF SeatRecord
  <2>7. /\ v \in [Client -> [keys : SUBSET Key, mods : SUBSET Modifier]]
        /\ \A c \in Client : v[c] = IF c = o THEN [f.view[c] EXCEPT !.mods = e] ELSE f.view[c]
    BY <2>2, <2>4, <2>5, <2>6
  <2>8. t = [f EXCEPT !.view = v]
    <3>1. t = [f EXCEPT !.view[o].mods = e]
      BY <1>10, <1>14, <2>1, <2>3
    <3> QED
      BY <1>12, <2>5, <3>1 DEF SeatRecord
  <2>9. /\ t \in SeatRecord /\ t.view = v /\ t.focus = f.focus /\ t.twice = f.twice
        /\ t.swallowed = f.swallowed /\ SameKeys(f, t)
    BY <1>12, <2>7, <2>8 DEF SeatRecord, SameKeys
  <2>10. Held(t) = Held(f) /\ Effective(t) = e /\ SameKeys(s, t)
    BY <1>12, <2>3, <2>9 DEF SameKeys, Held, Effective
  <2>11. ~f.twice /\ KeysAre(f, Held(f) \ f.swallowed) /\ (\E m : ModsAre(f, m))
    BY <1>9 DEF SeatKnown, ToldAre
  <2>12. \A c \in Client : (HasKeyboard(t, c) <=> c = o) /\ (HasKeyboard(f, c) <=> c = o)
    BY <1>14, <2>1, <2>9 DEF HasKeyboard
  <2>13. ASSUME NEW c \in Client
         PROVE  /\ t.view[c].keys = f.view[c].keys
                /\ t.view[c].mods = IF c = o THEN e ELSE {}
    <3>1. f.view[c] \in [keys : SUBSET Key, mods : SUBSET Modifier]
      BY <2>6
    <3>2. CASE c = o
      <4>1. t.view[c] = [f.view[c] EXCEPT !.mods = e]
        BY <2>7, <2>9, <3>2
      <4> QED
        BY <3>1, <3>2, <4>1
    <3>3. CASE c # o
      BY <2>7, <2>9, <2>11, <2>12, <3>3 DEF ModsAre
    <3> QED
      BY <3>2, <3>3
  <2>14. KeysAre(t, Held(t) \ t.swallowed)
    BY <2>9, <2>10, <2>11, <2>12, <2>13 DEF KeysAre
  <2>15. ModsAre(t, Effective(t))
    BY <2>10, <2>12, <2>13 DEF ModsAre
  <2>16. ~t.twice
    BY <2>9, <2>11
  <2> QED
    BY <2>9, <2>10, <2>14, <2>15, <2>16 DEF SeatKnown, ToldAre
<1> QED
  BY <1>11, <1>13, <1>14

(* The count of one code of the seat moved by one.                         *)
CountMoved(s, t, k, down) ==
  t.counts = [s.counts EXCEPT ![k] = IF down THEN s.counts[k] + 1 ELSE s.counts[k] - 1]

(* What is held after a count moved.                                       *)
LEMMA HeldMoves ==
  ASSUME NEW s \in SeatRecord, NEW k \in Code, NEW down \in BOOLEAN, down \/ s.counts[k] # 0,
         NEW t, CountMoved(s, t, k, down)
  PROVE  /\ First(s, k, down) /\ k \in Key =>
              IF down THEN k \notin Held(s) /\ Held(t) = Held(s) \cup {k}
                      ELSE Held(t) = Held(s) \ {k}
         /\ ~First(s, k, down) \/ k \notin Key => Held(t) = Held(s)
<1>1. s.counts \in [Code -> Nat] /\ s.counts[k] \in Nat /\ Key \subseteq Code
  BY CodeFacts DEF SeatRecord
<1>2. \A c \in Code : t.counts[c] = IF c # k THEN s.counts[c]
                                    ELSE IF down THEN s.counts[k] + 1 ELSE s.counts[k] - 1
  BY <1>1 DEF CountMoved
<1>3. \A c \in Key : c # k => (c \in Held(t) <=> c \in Held(s))
  BY <1>1, <1>2 DEF Held
<1>4. Held(s) \subseteq Key /\ Held(t) \subseteq Key
  BY DEF Held
<1>5. ASSUME k \in Key, First(s, k, down)
      PROVE  IF down THEN k \notin Held(s) /\ k \in Held(t) ELSE k \notin Held(t)
  <2>1. s.counts[k] = IF down THEN 0 ELSE 1
    BY <1>5 DEF First
  <2>2. t.counts[k] = IF down THEN 1 ELSE 0
    BY <1>2, <2>1
  <2>3. CASE down
    <3>1. ~(s.counts[k] > 0) /\ t.counts[k] > 0
      BY <2>1, <2>2, <2>3
    <3> QED
      BY <1>5, <2>3, <3>1 DEF Held
  <2>4. CASE ~down
    <3>1. ~(t.counts[k] > 0)
      BY <2>2, <2>4
    <3> QED
      BY <2>4, <3>1 DEF Held
  <2> QED
    BY <2>3, <2>4
<1>6. ASSUME k \in Key, ~First(s, k, down) PROVE k \in Held(s) /\ k \in Held(t)
  <2>1. s.counts[k] # IF down THEN 0 ELSE 1
    BY <1>6 DEF First
  <2>2. s.counts[k] > 0 /\ t.counts[k] > 0
    BY <1>1, <1>2, <2>1
  <2> QED
    BY <1>6, <2>2 DEF Held
<1> QED
  BY <1>3, <1>4, <1>5, <1>6

(* A key of the seat goes down or up, once more or for the first time.     *)
LEMMA KeyTells ==
  ASSUME NEW s, SeatKnown(s), NEW k \in Key, NEW down \in BOOLEAN, down \/ s.counts[k] # 0,
         NEW cycled \in Surface \cup {Null}, NEW t, t = seat_keyboard_key(s, k, down, cycled)
  PROVE  SeatKnown(t) /\ CountMoved(s, t, k, down)
<1>1. s \in SeatRecord /\ k \in Code /\ ToldAre(s, Held(s) \ s.swallowed, Effective(s))
  BY CodeFacts DEF SeatKnown, ToldAre
<1>2. PICK c : c = Count(s, k, down)
  OBVIOUS
<1>3. /\ c \in SeatRecord /\ CountMoved(s, c, k, down)
      /\ c.base = s.base /\ c.locked = s.locked /\ c.unlocks = s.unlocks /\ c.mods = s.mods
      /\ c.cycling = s.cycling /\ c.focus = s.focus /\ c.view = s.view
      /\ c.swallowed = s.swallowed /\ c.twice = s.twice
  BY <1>1, <1>2, CountTells DEF CountMoved
<1>4. CASE ~First(s, k, down)
  <2>1. t = c
    BY <1>2, <1>4 DEF seat_keyboard_key
  <2>2. Held(c) = Held(s) /\ Effective(c) = Effective(s)
    BY <1>1, <1>3, <1>4, HeldMoves DEF Effective
  <2>3. ToldAre(c, Held(s) \ s.swallowed, Effective(s))
    BY <1>1, <1>3, ToldSame
  <2> QED
    BY <1>3, <2>1, <2>2, <2>3 DEF SeatKnown
<1>5. CASE First(s, k, down)
  <2>1. PICK u : u = xkb_state_update_key(c, k, down)
    OBVIOUS
  <2>2. /\ u \in SeatRecord /\ u.counts = c.counts
        /\ u.focus = c.focus /\ u.view = c.view /\ u.swallowed = c.swallowed /\ u.twice = c.twice
    BY <1>3, <2>1, XkbTells
  <2>3. CountMoved(s, u, k, down)
    BY <1>3, <2>2 DEF CountMoved
  <2>4. IF down THEN k \notin Held(s) /\ Held(u) = Held(s) \cup {k} ELSE Held(u) = Held(s) \ {k}
    BY <1>1, <1>5, <2>3, HeldMoves
  <2>5. ToldAre(u, Held(s) \ u.swallowed, Effective(s))
    <3>1. /\ u.view = s.view /\ u.focus = s.focus /\ u.twice = s.twice
          /\ u.swallowed = s.swallowed
      BY <1>3, <2>2
    <3>2. ToldAre(u, Held(s) \ s.swallowed, Effective(s))
      BY <1>1, <2>2, <3>1, ToldSame
    <3> QED
      BY <3>1, <3>2
  <2>6. PICK p : p = PostKey(u, k, down)
    OBVIOUS
  <2>7. ToldAre(p, Held(p) \ p.swallowed, Effective(s)) /\ SameKeys(u, p)
    <3>1. Held(s) \in SUBSET Key
      BY DEF Held
    <3>2. /\ down => k \notin Held(s)
          /\ Held(u) = IF down THEN Held(s) \cup {k} ELSE Held(s) \ {k}
      BY <2>4
    <3> QED
      BY <2>5, <2>6, <3>1, <3>2, PostTells
  <2>8. PICK old : old = [base |-> s.base, locked |-> s.locked]
    OBVIOUS
  <2>9. /\ old.base \in SUBSET Modifier /\ old.locked \in SUBSET Modifier
        /\ Effective(old) = Effective(s)
    BY <1>1, <2>8 DEF SeatRecord, Effective
  <2>10. t = handle_xkb_component_updates(old, p, cycled)
    BY <1>2, <1>5, <2>1, <2>6, <2>8 DEF seat_keyboard_key
  <2>11. SeatKnown(t) /\ SameKeys(p, t)
    BY <2>7, <2>9, <2>10, UpdatesTell
  <2>12. CountMoved(s, t, k, down)
    BY <2>3, <2>7, <2>11 DEF CountMoved, SameKeys
  <2> QED
    BY <2>11, <2>12
<1> QED
  BY <1>4, <1>5

(* A button goes down or up, and a first press may move the keyboard.      *)
LEMMA ButtonTells ==
  ASSUME NEW s, SeatKnown(s), NEW b \in Code \ Key, NEW down \in BOOLEAN, down \/ s.counts[b] # 0,
         NEW target \in Surface \cup {Null}, NEW t, t = seat_pointer_button(s, b, down, target)
  PROVE  SeatKnown(t) /\ CountMoved(s, t, b, down)
<1>1. s \in SeatRecord /\ ToldAre(s, Held(s) \ s.swallowed, Effective(s))
  BY DEF SeatKnown, ToldAre
<1>2. PICK c : c = Count(s, b, down)
  OBVIOUS
<1>3. /\ c \in SeatRecord /\ CountMoved(s, c, b, down)
      /\ c.base = s.base /\ c.locked = s.locked
      /\ c.focus = s.focus /\ c.view = s.view /\ c.swallowed = s.swallowed /\ c.twice = s.twice
  BY <1>1, <1>2, CountTells DEF CountMoved
<1>4. Held(c) = Held(s) /\ Effective(c) = Effective(s)
  BY <1>1, <1>3, HeldMoves DEF Effective
<1>5. ToldAre(c, Held(c) \ c.swallowed, Effective(c))
  <2>1. ToldAre(c, Held(s) \ s.swallowed, Effective(s))
    BY <1>1, <1>3, ToldSame
  <2> QED
    BY <1>3, <1>4, <2>1
<1>6. t \in {c, seat_keyboard_focus(c, target)}
  BY <1>2 DEF seat_pointer_button
<1>7. SeatKnown(t) /\ SameKeys(c, t)
  BY <1>5, <1>6, FocusKnown DEF SeatKnown, SameKeys
<1> QED
  BY <1>3, <1>7 DEF CountMoved, SameKeys

-------------------------------------------------------------------------------
(* Who holds what.                                                         *)

(* The keys and buttons that hold a code of the seat, when the devices     *)
(* have these pressed.                                                     *)
Holders(p, c) == {h \in Device \X Code : h[2] \in p[h[1]] /\ SeatCode(h[2]) = c}

(* The seat counts them all.                                               *)
Counts(s, p) == \A c \in Code : s.counts[c] = Cardinality(Holders(p, c))

(* What the seat must be when the devices have these pressed.              *)
SeatFits(s, p) == SeatKnown(s) /\ Counts(s, p)

(* What the devices have pressed after a code of one changed.              *)
Changes(p, d, c, down) == [p EXCEPT ![d] = IF down THEN p[d] \cup {c} ELSE p[d] \ {c}]

(* There are finitely many devices.                                        *)
LEMMA DeviceIsFinite == IsFiniteSet(Device)
<1>1. IsFiniteSet(LibinputDevice \cup {HostKeyboard})
  BY DeviceAssumption, FS_AddElement
<1>2. IsFiniteSet((LibinputDevice \cup {HostKeyboard}) \cup {HostPointer})
  BY <1>1, FS_AddElement
<1>3. Device = (LibinputDevice \cup {HostKeyboard}) \cup {HostPointer}
  BY DEF Device
<1> QED
  BY <1>2, <1>3

(* There are finitely many codes.                                          *)
LEMMA CodeIsFinite == IsFiniteSet(Code)
<1>1. IsFiniteSet({}) /\ IsFiniteSet({"tab"})
  BY FS_EmptySet, FS_Singleton
<1>2. IsFiniteSet({"tab"} \cup {"s"})
  BY <1>1, FS_AddElement
<1>3. IsFiniteSet({"tab", "s"} \cup {"alt"})
  <2>1. {"tab"} \cup {"s"} = {"tab", "s"}
    OBVIOUS
  <2> QED
    BY <1>2, <2>1, FS_AddElement
<1>4. IsFiniteSet({"tab", "s", "alt"} \cup {"caps"})
  <2>1. {"tab", "s"} \cup {"alt"} = {"tab", "s", "alt"}
    OBVIOUS
  <2> QED
    BY <1>3, <2>1, FS_AddElement
<1>5. IsFiniteSet({"tab", "s", "alt", "caps"} \cup {"meta"})
  <2>1. {"tab", "s", "alt"} \cup {"caps"} = {"tab", "s", "alt", "caps"}
    OBVIOUS
  <2> QED
    BY <1>4, <2>1, FS_AddElement
<1>6. IsFiniteSet({"tab", "s", "alt", "caps", "meta"} \cup {"left"})
  <2>1. {"tab", "s", "alt", "caps"} \cup {"meta"} = {"tab", "s", "alt", "caps", "meta"}
    OBVIOUS
  <2> QED
    BY <1>5, <2>1, FS_AddElement
<1>7. IsFiniteSet({"tab", "s", "alt", "caps", "meta", "left"} \cup {"side"})
  <2>1. {"tab", "s", "alt", "caps", "meta"} \cup {"left"}
          = {"tab", "s", "alt", "caps", "meta", "left"}
    OBVIOUS
  <2> QED
    BY <1>6, <2>1, FS_AddElement
<1>8. Code = {"tab", "s", "alt", "caps", "meta", "left"} \cup {"side"}
  BY CodeFacts
<1> QED
  BY <1>7, <1>8

(* There are finitely many holders.                                        *)
LEMMA HoldersFinite ==
  ASSUME NEW p, NEW c
  PROVE  IsFiniteSet(Holders(p, c))
<1>1. IsFiniteSet(Device \X Code)
  BY DeviceIsFinite, CodeIsFinite, FS_Product
<1>2. Holders(p, c) \in SUBSET (Device \X Code)
  BY DEF Holders
<1> QED
  BY <1>1, <1>2, FS_Subset

(* One change of a device is one holder more or less of one code.          *)
LEMMA HoldersMove ==
  ASSUME NEW p \in [Device -> SUBSET Code], NEW d \in Device, NEW c \in Code,
         NEW down \in BOOLEAN, down <=> c \notin p[d],
         NEW s \in SeatRecord, Counts(s, p),
         NEW t, CountMoved(s, t, SeatCode(c), down)
  PROVE  /\ down \/ s.counts[SeatCode(c)] # 0
         /\ Counts(t, Changes(p, d, c, down))
<1> DEFINE k == SeatCode(c)
           q == Changes(p, d, c, down)
<1>1. k \in Code
  BY CodeFacts
<1>2. /\ q \in [Device -> SUBSET Code]
      /\ \A e \in Device, x \in Code :
           x \in q[e] <=> IF e = d /\ x = c THEN down ELSE x \in p[e]
  BY DEF Changes
<1>3. ASSUME NEW x \in Code, x # k PROVE Holders(q, x) = Holders(p, x)
  <2> HIDE DEF q
  <2>1. \A h \in Device \X Code : SeatCode(h[2]) = x => (h[2] \in q[h[1]] <=> h[2] \in p[h[1]])
    BY <1>2, <1>3
  <2> QED
    BY <2>1 DEF Holders
<1>4. <<d, c>> \in Device \X Code /\ <<d, c>>[1] = d /\ <<d, c>>[2] = c
  OBVIOUS
<1>5. IF down THEN Holders(q, k) = Holders(p, k) \cup {<<d, c>>} /\ <<d, c>> \notin Holders(p, k)
      ELSE Holders(q, k) = Holders(p, k) \ {<<d, c>>} /\ <<d, c>> \in Holders(p, k)
  <2> HIDE DEF q
  <2>1. \A h \in Device \X Code :
          h[2] \in q[h[1]] <=> IF h = <<d, c>> THEN down ELSE h[2] \in p[h[1]]
    <3>1. ASSUME NEW h \in Device \X Code
          PROVE  h[2] \in q[h[1]] <=> IF h = <<d, c>> THEN down ELSE h[2] \in p[h[1]]
      <4>1. h[1] \in Device /\ h[2] \in Code /\ (h = <<d, c>> <=> h[1] = d /\ h[2] = c)
        OBVIOUS
      <4> QED
        BY <1>2, <4>1
    <3> QED
      BY <3>1
  <2>2. CASE down
    <3>1. <<d, c>> \notin Holders(p, k)
      BY <1>4, <2>2 DEF Holders
    <3>2. Holders(q, k) = Holders(p, k) \cup {<<d, c>>}
      BY <1>4, <2>1, <2>2 DEF Holders
    <3> QED
      BY <2>2, <3>1, <3>2
  <2>3. CASE ~down
    <3>1. <<d, c>> \in Holders(p, k)
      BY <1>4, <2>3 DEF Holders
    <3>2. Holders(q, k) = Holders(p, k) \ {<<d, c>>}
      BY <1>4, <2>1, <2>3 DEF Holders
    <3> QED
      BY <2>3, <3>1, <3>2
  <2> QED
    BY <2>2, <2>3
<1>6. IsFiniteSet(Holders(p, k)) /\ Cardinality(Holders(p, k)) \in Nat
  BY HoldersFinite, FS_CardinalityType
<1>7. s.counts \in [Code -> Nat] /\ s.counts[k] = Cardinality(Holders(p, k))
  BY <1>1 DEF Counts, SeatRecord
<1>8. down \/ s.counts[k] # 0
  <2>1. CASE ~down
    <3>1. Holders(p, k) # {}
      BY <1>5, <2>1
    <3> QED
      BY <1>6, <1>7, <3>1, FS_EmptySet
  <2> QED
    BY <2>1
<1>9. Cardinality(Holders(q, k)) = IF down THEN s.counts[k] + 1 ELSE s.counts[k] - 1
  <2> HIDE DEF q, k
  <2>1. CASE down
    BY <1>5, <1>6, <1>7, <2>1, FS_AddElement
  <2>2. CASE ~down
    BY <1>5, <1>6, <1>7, <2>2, FS_RemoveElement
  <2> QED
    BY <2>1, <2>2
<1>10. ASSUME NEW x \in Code PROVE t.counts[x] = Cardinality(Holders(q, x))
  <2>1. t.counts[x] = IF x # k THEN s.counts[x]
                      ELSE IF down THEN s.counts[k] + 1 ELSE s.counts[k] - 1
    BY <1>1, <1>7 DEF CountMoved
  <2>2. CASE x = k
    BY <1>9, <2>1, <2>2
  <2>3. CASE x # k
    <3>1. Holders(q, x) = Holders(p, x)
      BY <1>3, <2>3
    <3> QED
      BY <2>1, <2>3, <3>1 DEF Counts
  <2> QED
    BY <2>2, <2>3
<1> QED
  BY <1>8, <1>10 DEF Counts

(* A change of one code of one device is handled.                          *)
LEMMA HandleKeyFits ==
  ASSUME NEW p \in [Device -> SUBSET Code], NEW d \in Device, NEW c \in Code,
         NEW down \in BOOLEAN, down <=> c \notin p[d],
         NEW s, SeatFits(s, p), NEW target \in Surface \cup {Null},
         NEW t, t = handle_key(s, c, down, target)
  PROVE  SeatFits(t, Changes(p, d, c, down))
<1>1. SeatKnown(s) /\ Counts(s, p) /\ s \in SeatRecord
  BY DEF SeatFits, SeatKnown, ToldAre
<1>2. down \/ s.counts[SeatCode(c)] # 0
  <2>1. PICK u : u = [counts |-> [s.counts EXCEPT ![SeatCode(c)] =
                        IF down THEN s.counts[SeatCode(c)] + 1 ELSE s.counts[SeatCode(c)] - 1]]
    OBVIOUS
  <2>2. CountMoved(s, u, SeatCode(c), down)
    BY <2>1 DEF CountMoved
  <2> QED
    BY <1>1, <2>2, HoldersMove
<1>3. SeatKnown(t) /\ CountMoved(s, t, SeatCode(c), down)
  <2>1. CASE SeatCode(c) \in Button
    <3>1. SeatCode(c) = c /\ c \in Code \ Key
      BY <2>1, CodeFacts
    <3>2. t = seat_pointer_button(s, c, down, target)
      BY <2>1 DEF handle_key
    <3> QED
      BY <1>1, <1>2, <3>1, <3>2, ButtonTells
  <2>2. CASE SeatCode(c) \notin Button
    <3>1. SeatCode(c) \in Key
      BY <2>2, CodeFacts
    <3>2. t = seat_keyboard_key(s, SeatCode(c), down, target)
      BY <2>2 DEF handle_key
    <3> QED
      BY <1>1, <1>2, <3>1, <3>2, KeyTells
  <2> QED
    BY <2>1, <2>2
<1> QED
  BY <1>1, <1>3, HoldersMove DEF SeatFits

-------------------------------------------------------------------------------
(* Several codes at once.                                                  *)

(* What the seat was after each of the codes, see Post.                    *)
Handled(after, s, codes, changed, down, target, m) ==
  after = [n \in 0 .. m |->
             IF n = 0 THEN s
             ELSE IF codes[n] \in changed THEN handle_key(after[n - 1], codes[n], down, target)
             ELSE after[n - 1]]

(* There is such a function for any number of codes.                       *)
LEMMA HandledExists ==
  ASSUME NEW s, NEW codes, NEW changed, NEW down, NEW target, NEW m \in Nat
  PROVE  \E f : Handled(f, s, codes, changed, down, target, m)
<1> DEFINE Bad == {n \in Nat : ~ \E f : Handled(f, s, codes, changed, down, target, n)}
<1>1. SUFFICES ASSUME Bad # {} PROVE FALSE
  OBVIOUS
<1>2. PICK n \in Bad : \A k \in Bad : n <= k
  <2>1. Bad \subseteq Nat
    OBVIOUS
  <2> HIDE DEF Bad
  <2> QED
    BY <1>1, <2>1, LeastNumber
<1>3. n \in Nat /\ ~ \E f : Handled(f, s, codes, changed, down, target, n)
  OBVIOUS
<1>4. n # 0
  <2>1. Handled([k \in 0 .. 0 |-> s], s, codes, changed, down, target, 0)
    BY DEF Handled
  <2> QED
    BY <1>3, <2>1
<1>5. n - 1 \in Nat /\ n - 1 \notin Bad
  <2>1. n - 1 \in Nat /\ ~(n <= n - 1)
    BY <1>3, <1>4
  <2> HIDE DEF Bad
  <2> QED
    BY <1>2, <2>1
<1>6. PICK f : Handled(f, s, codes, changed, down, target, n - 1)
  BY <1>5
<1> HIDE DEF Bad
<1>7. PICK last : last = IF codes[n] \in changed THEN handle_key(f[n - 1], codes[n], down, target)
                         ELSE f[n - 1]
  OBVIOUS
<1>8. PICK g : g = [k \in 0 .. n |-> IF k = n THEN last ELSE f[k]]
  OBVIOUS
<1>9. \A k \in 0 .. n - 1 : f[k] =
        IF k = 0 THEN s
        ELSE IF codes[k] \in changed THEN handle_key(f[k - 1], codes[k], down, target)
        ELSE f[k - 1]
  BY <1>6 DEF Handled
<1>10. ASSUME NEW k \in 0 .. n
       PROVE  g[k] = IF k = 0 THEN s
                     ELSE IF codes[k] \in changed THEN handle_key(g[k - 1], codes[k], down, target)
                     ELSE g[k - 1]
  <2>1. CASE k = n
    <3>1. g[k] = last /\ g[k - 1] = f[n - 1] /\ k # 0
      BY <1>3, <1>4, <1>8, <2>1
    <3> QED
      BY <1>7, <2>1, <3>1
  <2>2. CASE k # n
    <3>1. k \in 0 .. n - 1 /\ g[k] = f[k] /\ (k # 0 => g[k - 1] = f[k - 1])
      BY <1>3, <1>8, <2>2
    <3> QED
      BY <1>9, <3>1
  <2> QED
    BY <2>1, <2>2
<1>11. Handled(g, s, codes, changed, down, target, n)
  <2>1. g = [k \in 0 .. n |-> g[k]]
    BY <1>8
  <2> QED
    BY <1>10, <2>1 DEF Handled
<1> QED
  BY <1>3, <1>11

(* Post is therefore the last value of such a function.                    *)
LEMMA PostIsHandled ==
  ASSUME NEW codes \in Seq(Code), NEW changed, NEW down, NEW target,
         Post(codes, changed, down, target)
  PROVE  \E f : /\ Handled(f, seat, codes, changed, down, target, Len(codes))
                /\ seat' = f[Len(codes)]
<1> DEFINE f == CHOOSE after : Handled(after, seat, codes, changed, down, target, Len(codes))
<1>1. Len(codes) \in Nat
  OBVIOUS
<1>2. Handled(f, seat, codes, changed, down, target, Len(codes))
  BY <1>1, HandledExists
<1>3. seat' = f[Len(codes)]
  BY DEF Post, Handled
<1> QED
  BY <1>2, <1>3

(* What the devices have pressed after several codes of one changed.       *)
ChangesAll(p, d, set, down) == [p EXCEPT ![d] = IF down THEN p[d] \cup set ELSE p[d] \ set]

(* The seat fits what is pressed after every one of the codes.             *)
LEMMA HandledFits ==
  ASSUME NEW p \in [Device -> SUBSET Code], NEW d \in Device, NEW down \in BOOLEAN,
         NEW target \in Surface \cup {Null}, NEW s, SeatFits(s, p),
         NEW codes \in Seq(Code), \A i, j \in 1 .. Len(codes) : codes[i] = codes[j] => i = j,
         NEW changed, \A c \in changed : down <=> c \notin p[d],
         NEW f, Handled(f, s, codes, changed, down, target, Len(codes))
  PROVE  SeatFits(f[Len(codes)],
                  ChangesAll(p, d, {codes[i] : i \in 1 .. Len(codes)} \cap changed, down))
<1> DEFINE m == Len(codes)
           Done(n) == {codes[i] : i \in 1 .. n} \cap changed
           Bad == {n \in 0 .. m : ~ SeatFits(f[n], ChangesAll(p, d, Done(n), down))}
<1>1. m \in Nat /\ \A i \in 1 .. m : codes[i] \in Code
  OBVIOUS
<1>2. SUFFICES ASSUME Bad # {} PROVE FALSE
  <2>1. m \in 0 .. m
    BY <1>1
  <2> QED
    BY <2>1
<1>3. PICK n \in Bad : \A k \in Bad : n <= k
  <2>1. Bad \subseteq Nat
    OBVIOUS
  <2> HIDE DEF Bad
  <2> QED
    BY <1>2, <2>1, LeastNumber
<1>4. n \in 0 .. m /\ ~ SeatFits(f[n], ChangesAll(p, d, Done(n), down))
  OBVIOUS
<1>5. \A k \in 0 .. m : f[k] =
        IF k = 0 THEN s
        ELSE IF codes[k] \in changed THEN handle_key(f[k - 1], codes[k], down, target)
        ELSE f[k - 1]
  BY DEF Handled
<1>6. n # 0
  <2>1. ASSUME n = 0 PROVE FALSE
    <3>1. Done(0) = {}
      <4>1. 1 .. 0 = {}
        OBVIOUS
      <4> QED
        BY <4>1
    <3>2. ChangesAll(p, d, {}, down) = p
      BY DEF ChangesAll
    <3>3. f[0] = s
      BY <1>1, <1>5
    <3> QED
      BY <1>4, <2>1, <3>1, <3>2, <3>3
  <2> QED
    BY <2>1
<1>7. n - 1 \in 0 .. m /\ n \in 1 .. m /\ n - 1 \notin Bad
  <2>1. n - 1 \in 0 .. m /\ n \in 1 .. m /\ ~(n <= n - 1)
    BY <1>1, <1>4, <1>6
  <2> HIDE DEF Bad
  <2> QED
    BY <1>3, <2>1
<1>8. PICK q : q = ChangesAll(p, d, Done(n - 1), down)
  OBVIOUS
<1>9. SeatFits(f[n - 1], q)
  BY <1>7, <1>8
<1>10. PICK c : c = codes[n]
  OBVIOUS
<1>11. c \in Code /\ Done(n - 1) \subseteq Code /\ c \notin Done(n - 1)
  <2>1. \A i \in 1 .. n - 1 : i \in 1 .. m /\ i # n
    BY <1>1, <1>7
  <2>2. \A i \in 1 .. n - 1 : codes[i] \in Code /\ codes[i] # c
    BY <1>1, <1>7, <1>10, <2>1
  <2> QED
    BY <1>1, <1>7, <1>10, <2>2
<1>12. q \in [Device -> SUBSET Code]
  BY <1>8, <1>11 DEF ChangesAll
<1>13. Done(n) = IF c \in changed THEN Done(n - 1) \cup {c} ELSE Done(n - 1)
  <2>1. 1 .. n = (1 .. n - 1) \cup {n}
    BY <1>7
  <2>2. {codes[i] : i \in 1 .. n} = {codes[i] : i \in 1 .. n - 1} \cup {c}
    BY <1>10, <2>1
  <2> QED
    BY <2>2
<1> HIDE DEF Bad, Done
<1>14. CASE c \notin changed
  <2>1. f[n] = f[n - 1] /\ Done(n) = Done(n - 1)
    BY <1>5, <1>6, <1>7, <1>10, <1>13, <1>14
  <2> QED
    BY <1>4, <1>8, <1>9, <2>1
<1>15. CASE c \in changed
  <2>1. f[n] = handle_key(f[n - 1], c, down, target)
    BY <1>5, <1>6, <1>7, <1>10, <1>15
  <2>2. down <=> c \notin q[d]
    BY <1>8, <1>11, <1>15 DEF ChangesAll
  <2>3. SeatFits(f[n], Changes(q, d, c, down))
    BY <1>9, <1>11, <1>12, <2>1, <2>2, HandleKeyFits
  <2>4. Changes(q, d, c, down) = ChangesAll(p, d, Done(n), down)
    <3>1. q[d] = IF down THEN p[d] \cup Done(n - 1) ELSE p[d] \ Done(n - 1)
      BY <1>8 DEF ChangesAll
    <3>2. PICK x : x = IF down THEN q[d] \cup {c} ELSE q[d] \ {c}
      OBVIOUS
    <3>3. x = IF down THEN p[d] \cup Done(n) ELSE p[d] \ Done(n)
      <4>1. Done(n) = Done(n - 1) \cup {c}
        BY <1>13, <1>15
      <4> QED
        BY <3>1, <3>2, <4>1
    <3>4. Changes(q, d, c, down) = [q EXCEPT ![d] = x]
      BY <3>2 DEF Changes
    <3>5. ChangesAll(p, d, Done(n), down) = [p EXCEPT ![d] = x]
      BY <3>3 DEF ChangesAll
    <3>6. \E y : q = [p EXCEPT ![d] = y]
      BY <1>8 DEF ChangesAll
    <3>7. [q EXCEPT ![d] = x] = [p EXCEPT ![d] = x]
      BY <3>6
    <3> QED
      BY <3>4, <3>5, <3>7
  <2> QED
    BY <1>4, <2>3, <2>4
<1> QED
  BY <1>14, <1>15

(* A device's codes change, and the seat follows.                          *)
LEMMA PostFits ==
  ASSUME pressed \in [Device -> SUBSET Code], NEW d \in Device, NEW down \in BOOLEAN,
         NEW target \in Surface \cup {Null}, SeatFits(seat, pressed),
         NEW codes \in Seq(Code), \A i, j \in 1 .. Len(codes) : codes[i] = codes[j] => i = j,
         NEW changed, \A c \in changed : down <=> c \notin pressed[d],
         changed \subseteq {codes[i] : i \in 1 .. Len(codes)},
         Post(codes, changed, down, target)
  PROVE  SeatFits(seat', ChangesAll(pressed, d, changed, down))
<1>1. PICK f : /\ Handled(f, seat, codes, changed, down, target, Len(codes))
               /\ seat' = f[Len(codes)]
  BY PostIsHandled
<1>2. {codes[i] : i \in 1 .. Len(codes)} \cap changed = changed
  OBVIOUS
<1>3. PICK p, s : p = pressed /\ s = seat
  OBVIOUS
<1>4. SeatFits(f[Len(codes)],
               ChangesAll(p, d, {codes[i] : i \in 1 .. Len(codes)} \cap changed, down))
  BY <1>1, <1>3, HandledFits
<1> QED
  BY <1>1, <1>2, <1>3, <1>4

-------------------------------------------------------------------------------
(* The steps.                                                              *)

(* What the devices remember, and which are there: no device that is not   *)
(* has anything pressed, and a host's two are.                             *)
DevicesOK ==
  /\ backend \in {"libinput", "wayland"}
  /\ attached \subseteq Device
  /\ pressed \in [Device -> SUBSET Code]
  /\ waiting \in 0 .. MaxRoundtrips
  /\ in_keyboard_enter \in BOOLEAN
  /\ \A d \in Device \ attached : pressed[d] = {}
  /\ backend = "wayland" => {HostKeyboard, HostPointer} \subseteq attached

(* The inductive invariant.                                                *)
InputIInv == DevicesOK /\ SeatFits(seat, pressed)

(* A key or a button of a device is pressed.                               *)
LEMMA PressFits ==
  ASSUME InputIInv, NEW d \in Device, NEW c \in Code, NEW target \in Surface \cup {Null},
         io_input_device_key_press(d, c, target)
  PROVE  /\ SeatFits(seat', pressed') /\ pressed' \in [Device -> SUBSET Code]
         /\ \A e \in Device : e # d => pressed'[e] = pressed[e]
<1>1. pressed \in [Device -> SUBSET Code] /\ SeatFits(seat, pressed)
  BY DEF InputIInv, DevicesOK
<1>2. CASE c \in pressed[d]
  <2>1. pressed' = pressed /\ seat' = seat
    BY <1>2 DEF io_input_device_key_press
  <2> QED
    BY <1>1, <2>1
<1>3. CASE c \notin pressed[d]
  <2>1. pressed' = [pressed EXCEPT ![d] = pressed[d] \cup {c}] /\ Post(<<c>>, {c}, TRUE, target)
    BY <1>3 DEF io_input_device_key_press
  <2>2. /\ <<c>> \in Seq(Code) /\ \A i, j \in 1 .. Len(<<c>>) : <<c>>[i] = <<c>>[j] => i = j
        /\ {c} \subseteq {<<c>>[i] : i \in 1 .. Len(<<c>>)}
    OBVIOUS
  <2>3. \A x \in {c} : TRUE <=> x \notin pressed[d]
    BY <1>3
  <2>4. SeatFits(seat', ChangesAll(pressed, d, {c}, TRUE))
    BY <1>1, <2>1, <2>2, <2>3, PostFits
  <2>5. pressed' = ChangesAll(pressed, d, {c}, TRUE)
    BY <2>1 DEF ChangesAll
  <2> QED
    BY <1>1, <2>1, <2>4, <2>5
<1> QED
  BY <1>2, <1>3

(* A key or a button of a device is released.                              *)
LEMMA ReleaseFits ==
  ASSUME InputIInv, NEW d \in Device, NEW c \in Code, NEW target \in Surface \cup {Null},
         io_input_device_key_release(d, c, target)
  PROVE  /\ SeatFits(seat', pressed') /\ pressed' \in [Device -> SUBSET Code]
         /\ \A e \in Device : e # d => pressed'[e] = pressed[e]
<1>1. pressed \in [Device -> SUBSET Code] /\ SeatFits(seat, pressed)
  BY DEF InputIInv, DevicesOK
<1>2. CASE c \notin pressed[d]
  <2>1. pressed' = pressed /\ seat' = seat
    BY <1>2 DEF io_input_device_key_release
  <2> QED
    BY <1>1, <2>1
<1>3. CASE c \in pressed[d]
  <2>1. pressed' = [pressed EXCEPT ![d] = pressed[d] \ {c}] /\ Post(<<c>>, {c}, FALSE, target)
    BY <1>3 DEF io_input_device_key_release
  <2>2. /\ <<c>> \in Seq(Code) /\ \A i, j \in 1 .. Len(<<c>>) : <<c>>[i] = <<c>>[j] => i = j
        /\ {c} \subseteq {<<c>>[i] : i \in 1 .. Len(<<c>>)}
    OBVIOUS
  <2>3. \A x \in {c} : FALSE <=> x \notin pressed[d]
    BY <1>3
  <2>4. SeatFits(seat', ChangesAll(pressed, d, {c}, FALSE))
    BY <1>1, <2>1, <2>2, <2>3, PostFits
  <2>5. pressed' = ChangesAll(pressed, d, {c}, FALSE)
    BY <2>1 DEF ChangesAll
  <2> QED
    BY <1>1, <2>1, <2>4, <2>5
<1> QED
  BY <1>2, <1>3

(* The host says which keys are pressed.                                   *)
LEMMA EnterFits ==
  ASSUME InputIInv, NEW d \in Device, NEW target \in Surface \cup {Null},
         NEW codes \in Seq(Code), \A i, j \in 1 .. Len(codes) : codes[i] = codes[j] => i = j,
         io_input_device_key_enter(d, codes, target)
  PROVE  /\ SeatFits(seat', pressed') /\ pressed' \in [Device -> SUBSET Code]
         /\ \A e \in Device : e # d => pressed'[e] = pressed[e]
<1>1. pressed \in [Device -> SUBSET Code] /\ SeatFits(seat, pressed)
  BY DEF InputIInv, DevicesOK
<1>2. Range(codes) = {codes[i] : i \in 1 .. Len(codes)} /\ Range(codes) \subseteq Code
  BY DEF Range
<1>3. /\ pressed' = [pressed EXCEPT ![d] = pressed[d] \cup Range(codes)]
      /\ Post(codes, Range(codes) \ pressed[d], TRUE, target)
  BY DEF io_input_device_key_enter
<1>4. \A c \in Range(codes) \ pressed[d] : TRUE <=> c \notin pressed[d]
  OBVIOUS
<1>5. SeatFits(seat', ChangesAll(pressed, d, Range(codes) \ pressed[d], TRUE))
  BY <1>1, <1>2, <1>3, <1>4, PostFits
<1>6. pressed' = ChangesAll(pressed, d, Range(codes) \ pressed[d], TRUE)
  <2>1. pressed[d] \cup Range(codes) = pressed[d] \cup (Range(codes) \ pressed[d])
    OBVIOUS
  <2> QED
    BY <1>3, <2>1 DEF ChangesAll
<1> QED
  BY <1>1, <1>2, <1>3, <1>5, <1>6

(* The host takes the keyboard or the pointer away.                        *)
LEMMA LeaveFits ==
  ASSUME InputIInv, NEW d \in Device, NEW target \in Surface \cup {Null},
         io_input_device_leave(d, target)
  PROVE  /\ SeatFits(seat', pressed') /\ pressed' \in [Device -> SUBSET Code]
         /\ \A e \in Device : e # d => pressed'[e] = pressed[e]
<1>1. pressed \in [Device -> SUBSET Code] /\ SeatFits(seat, pressed)
  BY DEF InputIInv, DevicesOK
<1>2. /\ CodeOrder \in Seq(Code)
      /\ \A i, j \in 1 .. Len(CodeOrder) : CodeOrder[i] = CodeOrder[j] => i = j
      /\ {CodeOrder[i] : i \in 1 .. Len(CodeOrder)} = Code
  BY CodeFacts DEF Range
<1>3. pressed' = [pressed EXCEPT ![d] = {}] /\ Post(CodeOrder, pressed[d], FALSE, target)
  BY DEF io_input_device_leave
<1>4. /\ \A c \in pressed[d] : FALSE <=> c \notin pressed[d]
      /\ pressed[d] \subseteq {CodeOrder[i] : i \in 1 .. Len(CodeOrder)}
  BY <1>1, <1>2
<1>5. SeatFits(seat', ChangesAll(pressed, d, pressed[d], FALSE))
  BY <1>1, <1>2, <1>3, <1>4, PostFits
<1>6. pressed' = ChangesAll(pressed, d, pressed[d], FALSE)
  BY <1>3 DEF ChangesAll
<1> QED
  BY <1>1, <1>3, <1>5, <1>6

(* Nothing is held at first and nobody was told anything.                  *)
LEMMA InitHasInputIInv == InputInit => InputIInv
<1> SUFFICES ASSUME InputInit PROVE InputIInv
  OBVIOUS
<1>1. DevicesOK
  <2>1. attached \subseteq Device /\ (backend = "wayland" => {HostKeyboard, HostPointer} \subseteq attached)
    BY DEF InputInit, Device
  <2>2. pressed \in [Device -> SUBSET Code] /\ \A d \in Device : pressed[d] = {}
    BY DEF InputInit
  <2>3. waiting \in 0 .. MaxRoundtrips
    <3>1. waiting = 0
      BY DEF InputInit
    <3> QED
      BY <3>1, RoundtripsAssumption
  <2>4. backend \in {"libinput", "wayland"} /\ in_keyboard_enter \in BOOLEAN
    BY DEF InputInit
  <2> QED
    BY <2>1, <2>2, <2>3, <2>4 DEF DevicesOK
<1>2. seat = [counts |-> [c \in Code |-> 0], base |-> {}, locked |-> {}, unlocks |-> {},
              mods |-> {}, cycling |-> FALSE, focus |-> Null, view |-> [c \in Client |-> NoView],
              swallowed |-> {}, twice |-> FALSE]
  BY DEF InputInit
<1>3. seat \in SeatRecord
  BY <1>2 DEF SeatRecord, NoView
<1>4. SeatKnown(seat)
  BY <1>2, <1>3 DEF SeatKnown, ToldAre, KeysAre, ModsAre, HasKeyboard, NoView
<1>5. Counts(seat, pressed)
  <2>1. \A c \in Code : Holders(pressed, c) = {}
    BY DEF InputInit, Holders
  <2> QED
    BY <1>2, <2>1, FS_EmptySet DEF Counts
<1> QED
  BY <1>1, <1>4, <1>5 DEF InputIInv, SeatFits

(* Devices are announced and go, and roundtrips end.                       *)
LEMMA DevicesKeepInputIInv ==
  ASSUME InputIInv,
         (\E d \in LibinputDevice : DeviceAdded(d) \/ DeviceRemoved(d)) \/ RoundtripDone
  PROVE  InputIInv'
<1>1. pressed' = pressed /\ seat' = seat
  BY DEF DeviceAdded, DeviceRemoved, RoundtripDone
<1>2. SeatFits(seat', pressed')
  BY <1>1 DEF InputIInv
<1>3. DevicesOK'
  <2>1. DevicesOK
    BY DEF InputIInv
  <2>2. ASSUME NEW d \in LibinputDevice, DeviceAdded(d) PROVE DevicesOK'
    BY <2>1, <2>2 DEF DevicesOK, DeviceAdded, Device
  <2>3. ASSUME NEW d \in LibinputDevice, DeviceRemoved(d) PROVE DevicesOK'
    <3>1. backend' = "libinput" /\ attached' = attached \ {d} /\ pressed[d] = {}
      BY <2>3 DEF DeviceRemoved
    <3> QED
      BY <1>1, <2>1, <2>3, <3>1 DEF DevicesOK, DeviceRemoved
  <2>4. CASE RoundtripDone
    <3>1. waiting \in 0 .. MaxRoundtrips /\ waiting > 0 /\ waiting' = waiting - 1
      BY <2>1, <2>4 DEF DevicesOK, RoundtripDone
    <3>2. waiting' \in 0 .. MaxRoundtrips
      BY <3>1, RoundtripsAssumption
    <3> QED
      BY <1>1, <2>1, <2>4, <3>2 DEF DevicesOK, RoundtripDone
  <2> QED
    BY <2>2, <2>3, <2>4
<1> QED
  BY <1>2, <1>3 DEF InputIInv

(* Keys and buttons of a device that is there.                             *)
LEMMA KeysKeepInputIInv ==
  ASSUME InputIInv, NEW d \in attached, NEW waits \in 0 .. MaxRoundtrips,
         NEW entered \in BOOLEAN,
         backend' = backend, attached' = attached, waiting' = waits, in_keyboard_enter' = entered,
         SeatFits(seat', pressed') /\ pressed' \in [Device -> SUBSET Code],
         \A e \in Device : e # d => pressed'[e] = pressed[e]
  PROVE  InputIInv'
BY DEF InputIInv, DevicesOK

(* Every step keeps the invariant.                                         *)
LEMMA StepKeepsInputIInv == InputIInv /\ [InputNext]_input_vars => InputIInv'
<1> SUFFICES ASSUME InputIInv, [InputNext]_input_vars PROVE InputIInv'
  OBVIOUS
<1>1. /\ DevicesOK /\ SeatFits(seat, pressed)
      /\ pressed \in [Device -> SUBSET Code] /\ attached \subseteq Device
      /\ waiting \in 0 .. MaxRoundtrips /\ in_keyboard_enter \in BOOLEAN
  BY DEF InputIInv, DevicesOK
<1>2. CASE UNCHANGED input_vars
  BY <1>1, <1>2 DEF InputIInv, DevicesOK, input_vars
<1>3. ASSUME NEW target \in Surface \cup {Null}, FocusMoves(target) PROVE InputIInv'
  <2>1. SeatKnown(seat) /\ Counts(seat, pressed)
    BY <1>1 DEF SeatFits
  <2>2. SeatKnown(seat') /\ SameKeys(seat, seat')
    <3>1. PICK s, t : s = seat /\ t = seat'
      OBVIOUS
    <3>2. t = seat_keyboard_focus(s, target)
      BY <1>3, <3>1 DEF FocusMoves
    <3> QED
      BY <2>1, <3>1, <3>2, FocusKnown
  <2>3. pressed' = pressed /\ Counts(seat', pressed')
    BY <1>3, <2>1, <2>2 DEF FocusMoves, Counts, SameKeys
  <2>4. DevicesOK'
    BY <1>1, <1>3 DEF FocusMoves, DevicesOK
  <2> QED
    BY <2>2, <2>3, <2>4 DEF InputIInv, SeatFits
<1>4. ASSUME NEW target \in Surface \cup {Null}, NEW d \in LibinputDevice,
             DeviceAdded(d) \/ DeviceRemoved(d)
      PROVE  InputIInv'
  BY <1>4, DevicesKeepInputIInv
<1>5. CASE RoundtripDone
  BY <1>5, DevicesKeepInputIInv
<1>6. ASSUME NEW target \in Surface \cup {Null}, NEW d \in LibinputDevice, NEW c \in Codes[d],
             NEW down \in BOOLEAN, LibinputKey(d, c, down, target)
      PROVE  InputIInv'
  <2>1. d \in attached /\ d \in Device /\ c \in Code
    BY <1>6, CodesAssumption DEF LibinputKey, Device
  <2>2. SeatFits(seat', pressed') /\ pressed' \in [Device -> SUBSET Code]
        /\ \A e \in Device : e # d => pressed'[e] = pressed[e]
    BY <1>6, <2>1, PressFits, ReleaseFits DEF LibinputKey
  <2>3. /\ backend' = backend /\ attached' = attached /\ waiting' = waiting
        /\ in_keyboard_enter' = in_keyboard_enter
    BY <1>6 DEF LibinputKey
  <2> QED
    BY <1>1, <2>1, <2>2, <2>3, KeysKeepInputIInv
<1>7. ASSUME NEW target \in Surface \cup {Null}, NEW keys \in SUBSET Codes[HostKeyboard],
             NEW codes \in SetToSeqs(keys), keyboard_enter(codes, target)
      PROVE  InputIInv'
  <2>1. HostKeyboard \in attached /\ HostKeyboard \in Device
    BY <1>1, <1>7 DEF keyboard_enter, Device, DevicesOK
  <2>2. codes \in Seq(Code) /\ \A i, j \in 1 .. Len(codes) : codes[i] = codes[j] => i = j
    <3>1. keys \in SUBSET Code
      BY <2>1, CodesAssumption
    <3>2. Cardinality(keys) \in Nat
      BY <3>1, CodeIsFinite, FS_Subset, FS_CardinalityType
    <3>3. /\ codes \in [1 .. Cardinality(keys) -> keys]
          /\ \A i, j \in 1 .. Cardinality(keys) : i # j => codes[i] # codes[j]
      BY DEF SetToSeqs
    <3>4. codes \in Seq(Code) /\ Len(codes) = Cardinality(keys)
      BY <3>1, <3>2, <3>3
    <3> QED
      BY <3>3, <3>4
  <2>3. SeatFits(seat', pressed') /\ pressed' \in [Device -> SUBSET Code]
        /\ \A e \in Device : e # HostKeyboard => pressed'[e] = pressed[e]
    BY <1>7, <2>1, <2>2, EnterFits DEF keyboard_enter
  <2>4. /\ backend' = backend /\ attached' = attached /\ in_keyboard_enter' = TRUE
        /\ waiting' = waiting + 1 /\ waiting + 1 \in 0 .. MaxRoundtrips
    BY <1>1, <1>7, RoundtripsAssumption DEF keyboard_enter
  <2> QED
    BY <2>1, <2>3, <2>4, KeysKeepInputIInv
<1>8. ASSUME NEW target \in Surface \cup {Null}, NEW d \in {HostKeyboard, HostPointer},
             HostLeave(d, target)
      PROVE  InputIInv'
  <2>1. d \in attached /\ d \in Device
    BY <1>1, <1>8 DEF HostLeave, Device, DevicesOK
  <2>2. SeatFits(seat', pressed') /\ pressed' \in [Device -> SUBSET Code]
        /\ \A e \in Device : e # d => pressed'[e] = pressed[e]
    BY <1>8, <2>1, LeaveFits DEF HostLeave
  <2>3. /\ backend' = backend /\ attached' = attached /\ waiting' = waiting
        /\ in_keyboard_enter' = in_keyboard_enter
    BY <1>8 DEF HostLeave
  <2> QED
    BY <1>1, <2>1, <2>2, <2>3, KeysKeepInputIInv
<1>9. ASSUME NEW target \in Surface \cup {Null}, NEW down \in BOOLEAN,
             NEW c \in Codes[HostKeyboard], keyboard_key(c, down, target)
      PROVE  InputIInv'
  <2>1. HostKeyboard \in attached /\ HostKeyboard \in Device
    BY <1>1, <1>9 DEF keyboard_key, Device, DevicesOK
  <2>2. c \in Code
    BY <2>1, CodesAssumption
  <2>3. SeatFits(seat', pressed') /\ pressed' \in [Device -> SUBSET Code]
        /\ \A e \in Device : e # HostKeyboard => pressed'[e] = pressed[e]
    BY <1>9, <2>1, <2>2, PressFits, ReleaseFits DEF keyboard_key
  <2>4. /\ backend' = backend /\ attached' = attached /\ waiting' = waiting
        /\ in_keyboard_enter' = in_keyboard_enter
    BY <1>9 DEF keyboard_key
  <2> QED
    BY <1>1, <2>1, <2>3, <2>4, KeysKeepInputIInv
<1>10. ASSUME NEW target \in Surface \cup {Null}, NEW down \in BOOLEAN,
              NEW c \in Codes[HostPointer], pointer_button(c, down, target)
       PROVE  InputIInv'
  <2>1. HostPointer \in attached /\ HostPointer \in Device
    BY <1>1, <1>10 DEF pointer_button, Device, DevicesOK
  <2>2. c \in Code
    BY <2>1, CodesAssumption
  <2>3. SeatFits(seat', pressed') /\ pressed' \in [Device -> SUBSET Code]
        /\ \A e \in Device : e # HostPointer => pressed'[e] = pressed[e]
    <3>1. CASE down /\ in_keyboard_enter
      <4>1. pressed' = pressed /\ seat' = seat
        BY <1>10, <3>1 DEF pointer_button
      <4> QED
        BY <1>1, <4>1
    <3>2. CASE ~(down /\ in_keyboard_enter)
      <4>1. \/ io_input_device_key_press(HostPointer, c, target)
            \/ io_input_device_key_release(HostPointer, c, target)
        BY <1>10, <3>2 DEF pointer_button
      <4> QED
        BY <2>1, <2>2, <4>1, PressFits, ReleaseFits
    <3> QED
      BY <3>1, <3>2
  <2>4. /\ backend' = backend /\ attached' = attached /\ waiting' = waiting
        /\ in_keyboard_enter' = in_keyboard_enter
    BY <1>10 DEF pointer_button
  <2> QED
    BY <1>1, <2>1, <2>3, <2>4, KeysKeepInputIInv
<1> QED
  BY <1>2, <1>3, <1>4, <1>5, <1>6, <1>7, <1>8, <1>9, <1>10 DEF InputNext

(* The invariant holds for any devices, surfaces and depth of roundtrips.  *)
THEOREM InputInvariance == InputSpec => []InputIInv
  BY InitHasInputIInv, StepKeepsInputIInv, PTL DEF InputSpec

(* No code of the seat is held more than twice by each device.             *)
LEMMA CountsAreBounded ==
  ASSUME InputIInv, NEW c \in Code
  PROVE  seat.counts[c] \in 0 .. 2 * Cardinality(Device)
<1> DEFINE H == Holders(pressed, c)
           D == Device
<1>1. IsFiniteSet(D) /\ Cardinality(D) \in Nat
  BY DeviceIsFinite, FS_CardinalityType
<1>2. IsFiniteSet({c, "side"}) /\ Cardinality({c, "side"}) \in {1, 2}
  <2>1. {c} \cup {"side"} = {c, "side"}
    OBVIOUS
  <2>2. IsFiniteSet({c}) /\ Cardinality({c}) = 1
    BY FS_Singleton
  <2>3. /\ IsFiniteSet({c} \cup {"side"})
        /\ Cardinality({c} \cup {"side"}) = IF "side" \in {c} THEN 1 ELSE 2
    BY <2>2, FS_AddElement
  <2> QED
    BY <2>1, <2>3
<1>3. H \in SUBSET (D \X {c, "side"})
  BY DEF Holders, SeatCode
<1>4. /\ IsFiniteSet(D \X {c, "side"})
      /\ Cardinality(D \X {c, "side"}) = Cardinality(D) * Cardinality({c, "side"})
  BY <1>1, <1>2, FS_Product
<1>5. Cardinality(H) <= Cardinality(D \X {c, "side"}) /\ Cardinality(H) \in Nat
  <2> HIDE DEF H, D
  <2> QED
    BY <1>3, <1>4, FS_Subset, FS_CardinalityType
<1>6. Cardinality(D \X {c, "side"}) <= 2 * Cardinality(D)
  <2> HIDE DEF D
  <2>1. CASE Cardinality({c, "side"}) = 1
    BY <1>1, <1>4, <2>1
  <2>2. CASE Cardinality({c, "side"}) = 2
    BY <1>1, <1>4, <2>2
  <2> QED
    BY <1>2, <2>1, <2>2
<1>7. Cardinality(D \X {c, "side"}) \in Nat
  BY <1>4, FS_CardinalityType
<1>8. seat.counts[c] = Cardinality(H)
  BY DEF InputIInv, SeatFits, Counts
<1> HIDE DEF H, D
<1>9. seat.counts[c] \in 0 .. 2 * Cardinality(D)
  BY <1>1, <1>5, <1>6, <1>7, <1>8
<1> QED
  BY <1>9 DEF D

(* The seat counts for every code how many keys and buttons of its devices *)
(* are held, and every variable holds a value of its kind.                 *)
THEOREM HeldAreCounted == InputSpec => []CountsMatch
<1>1. InputIInv => CountsMatch
  <2> SUFFICES ASSUME InputIInv PROVE CountsMatch
    OBVIOUS
  <2>1. seat \in SeatRecord /\ Counts(seat, pressed) /\ DevicesOK
    BY DEF InputIInv, SeatFits, SeatKnown, ToldAre
  <2>2. seat.counts \in [Code -> 0 .. 2 * Cardinality(Device)]
    BY <2>1, CountsAreBounded DEF SeatRecord
  <2>3. InputTypeOK
    BY <2>1, <2>2 DEF InputTypeOK, DevicesOK, SeatRecord
  <2>4. ASSUME NEW c \in Code
        PROVE  {h \in attached \X Code : h[2] \in pressed[h[1]] /\ SeatCode(h[2]) = c}
                 = Holders(pressed, c)
    <3>1. \A h \in Device \X Code : h[2] \in pressed[h[1]] => h \in attached \X Code
      BY <2>1 DEF DevicesOK
    <3> QED
      BY <2>1, <3>1 DEF Holders, DevicesOK
  <2> QED
    BY <2>1, <2>3, <2>4 DEF CountsMatch, Counts
<1> QED
  BY <1>1, InputInvariance, PTL

(* The client with the keyboard believes held what is held, except what a  *)
(* filter captured from it, and others nothing.                            *)
THEOREM ClientsKnowKeys == InputSpec => []ClientKeys
<1>1. InputIInv => ClientKeys
  BY DEF InputIInv, SeatFits, SeatKnown, ToldAre, KeysAre, HasKeyboard, ClientKeys
<1> QED
  BY <1>1, InputInvariance, PTL

(* The client with the keyboard knows the effective modifiers.             *)
THEOREM ClientsKnowModifiers == InputSpec => []ModifiersKnown
<1>1. InputIInv => ModifiersKnown
  BY DEF InputIInv, SeatFits, SeatKnown, ToldAre, ModsAre, HasKeyboard, ModifiersKnown
<1> QED
  BY <1>1, InputInvariance, PTL
===============================================================================
