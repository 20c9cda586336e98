------------------------------- MODULE Toplevel -------------------------------
(***************************************************************************)
(* The configure handshake of an xdg_toplevel (src/way/shell/shell.cpp).   *)
(*                                                                         *)
(* The window manager asks for frames at any time (drags, zones,           *)
(* fullscreen); the client answers configure events at its own pace, with  *)
(* an ack_configure and later a commit, and may choose another size.       *)
(* WayToplevel keeps the last frame asked for (anchor) and throttles:      *)
(* while a resize waits for its answer (pending), further resizes are only *)
(* noted (queued) and told to the client after its next commit.            *)
(*                                                                         *)
(* One axis of the frame is modelled, the one being resized; the other     *)
(* axis follows the same equations.  The wire needs no queue: a client     *)
(* that has read only some of the configure events acks an older serial.   *)
(* Commits of a toplevel are never held back, so they are applied at once. *)
(***************************************************************************)
EXTENDS Integers, FiniteSets

CONSTANTS
  Origin,      \* Where the window manager may ask a frame to begin.
  Extent,      \* The sizes it may ask for and the client may choose.
  Inset,       \* Where in its surface the client's window may begin, behind a shadow.
  MaxSerial,   \* Bound on the configure serials.
  MaxToplevels \* Bound on the xdg_toplevels made for the xdg_surface.

ASSUME FramesAssumption ==
  Origin \subseteq Int /\ Extent \subseteq Nat \ {0} /\ Inset \subseteq Int
ASSUME BoundsAssumption == MaxSerial \in Nat /\ MaxToplevels \in Nat

(* The extent of a configure event that leaves the size to the client.     *)
Own == 0

VARIABLES
  toplevel,   \* Whether the WaySurface has a WayToplevel.
  made,       \* Counts the calls bounded by MaxToplevels.
  mapped,     \* WaySurface::mapped
  windowed,   \* WmWindow::mapped
  geometry,   \* WayXdgSurface::current.geometry
  sent,       \* WayXdgSurface::sent_serial
  acked,      \* WayXdgSurface::acked_serial
  applied,    \* WayXdgSurface::current.acked_serial
  anchor,     \* WayToplevel::anchor
  gravity,    \* WayToplevel::gravity
  pending,    \* WayToplevel::pending
  queued,     \* WayToplevel::queued
  frame,      \* The WmWindow's frame, and the place of its scene tree.
  tree,       \* WaySurface::scene.tree's translation in that tree.
  told        \* History: the extent of the last toplevel configure event.

xdg == <<sent, acked, applied>>
window == <<toplevel, made, mapped, windowed>>
vars == <<window, xdg, geometry, anchor, gravity, pending, queued, frame, tree, told>>

Init ==
  /\ toplevel = FALSE
  /\ made = 0
  /\ mapped = FALSE
  /\ windowed = FALSE
  /\ geometry = [origin |-> 0, extent |-> 0]
  /\ sent = 0
  /\ acked = 0
  /\ applied = 0
  /\ anchor = [origin |-> 0, extent |-> 0]
  /\ gravity = 1
  /\ pending = 0
  /\ queued = FALSE
  /\ frame = [origin |-> 0, extent |-> 0]
  /\ tree = 0
  /\ told = Own

End(r) == r.origin + r.extent

(* Seeded fault: the gravity's two sides are swapped.                      *)
RepositionSwapped(a, g, extent) ==
  [origin |-> IF g = 1 THEN a.origin - (extent - a.extent) ELSE a.origin,
   extent |-> extent]

(* reposition: a client that chose another size than the anchor's keeps    *)
(* the near edge where it was asked to be (gravity 1) or the far edge (-1).*)
reposition(a, g, extent) ==
  [origin |-> IF g = 1 THEN a.origin ELSE a.origin - (extent - a.extent),
   extent |-> extent]

(* The surface's tree is moved so that its window geometry fills the frame.*)
Reposition(a, g, window_geometry) ==
  /\ frame' = reposition(a, g, window_geometry.extent)
  /\ tree' = -window_geometry.origin

-------------------------------------------------------------------------------
get_toplevel ==
  /\ ~toplevel
  /\ made < MaxToplevels
  /\ made' = made + 1
  /\ toplevel' = TRUE
  /\ anchor' = [origin |-> 0, extent |-> 0]
  /\ gravity' = 1
  /\ pending' = 0
  /\ queued' = FALSE
  /\ frame' = [origin |-> 0, extent |-> 0]
  /\ told' = Own
  /\ UNCHANGED <<mapped, windowed, geometry, xdg, tree>>

(* ~WayToplevel, and ~WmWindow which unmaps the window.                    *)
DestroyToplevel ==
  /\ toplevel
  /\ toplevel' = FALSE
  /\ windowed' = FALSE
  /\ UNCHANGED <<made, mapped, geometry, xdg, anchor, gravity, pending, queued,
                 frame, tree, told>>

(* Seeded fault: a resize asked for during another one is dropped.         *)
OnRepositionForgets(asked, g) ==
  /\ toplevel
  /\ anchor' = asked
  /\ gravity' = g
  /\ IF anchor.extent = asked.extent
     THEN /\ Reposition(asked, g, geometry)
          /\ UNCHANGED <<sent, pending, queued, told>>
     ELSE /\ UNCHANGED <<frame, tree, queued>>
          /\ IF pending > acked
             THEN UNCHANGED <<sent, pending, told>>
             ELSE /\ sent < MaxSerial
                  /\ sent' = sent + 1
                  /\ pending' = sent'
                  /\ told' = asked.extent
  /\ UNCHANGED <<window, geometry, acked, applied>>

(* A window_reposition_requested event.                                    *)
way_toplevel_on_reposition(asked, g) ==
  /\ toplevel
  /\ anchor' = asked
  /\ gravity' = g
  /\ IF anchor.extent = asked.extent
     THEN /\ Reposition(asked, g, geometry)
          /\ UNCHANGED <<sent, pending, queued, told>>
     ELSE /\ UNCHANGED <<frame, tree>>
          /\ IF pending > acked
             THEN queued' = TRUE /\ UNCHANGED <<sent, pending, told>>
             ELSE /\ sent < MaxSerial
                  /\ sent' = sent + 1
                  /\ pending' = sent'
                  /\ told' = asked.extent
                  /\ UNCHANGED queued
  /\ UNCHANGED <<window, geometry, acked, applied>>

(* set_maximized, unset_maximized and the decoration modes: a configure    *)
(* event of the xdg_surface alone.                                         *)
way_xdg_surface_configure ==
  /\ toplevel
  /\ sent < MaxSerial
  /\ sent' = sent + 1
  /\ UNCHANGED <<window, acked, applied, geometry, anchor, gravity, pending, queued,
                 frame, tree, told>>

(* Seeded fault: a serial that was never sent is accepted.                 *)
AckUnchecked(serial) ==
  /\ acked < serial
  /\ acked' = serial
  /\ UNCHANGED <<window, sent, applied, geometry, anchor, gravity, pending, queued,
                 frame, tree, told>>

(* Older serials are ignored; one that was never sent is a protocol error. *)
ack_configure(serial) ==
  /\ acked < serial
  /\ serial <= sent
  /\ acked' = serial
  /\ UNCHANGED <<window, sent, applied, geometry, anchor, gravity, pending, queued,
                 frame, tree, told>>

-------------------------------------------------------------------------------
(* wl_surface.commit as this toplevel sees it.                             *)

(* WayToplevel::apply for a mapped surface.                                *)
ApplyMapped(window_geometry) ==
  /\ Reposition(anchor, gravity, window_geometry)
  /\ IF queued
     THEN /\ sent < MaxSerial
          /\ sent' = sent + 1
          /\ told' = anchor.extent
          /\ pending' = sent'
          /\ queued' = FALSE
     ELSE UNCHANGED <<sent, pending, queued, told>>

send_premap_configure ==
  /\ sent < MaxSerial
  /\ sent' = sent + 1
  /\ told' = Own
  /\ UNCHANGED <<pending, queued, frame, tree>>

(* The packet attaches a buffer, attaches none, or keeps what is there;    *)
(* window_geometry is the one it results in, set by the client or that of  *)
(* the whole buffer.  What was acked since the last commit is part of it.  *)
(* A client attaches its first buffer after it acked a configure event,    *)
(* and none without a role.                                                *)
commit(buffer, window_geometry) ==
  /\ buffer = "attach" => toplevel /\ acked > 0
  /\ mapped' = CASE buffer = "attach" -> TRUE
                 [] buffer = "null" -> FALSE
                 [] OTHER -> mapped
  /\ windowed' = IF toplevel /\ mapped' # mapped THEN mapped' ELSE windowed
  /\ applied' = acked
  /\ geometry' = IF mapped' THEN window_geometry ELSE geometry
  /\ CASE ~toplevel -> UNCHANGED <<sent, pending, queued, frame, tree, told>>
       [] toplevel /\ mapped' -> ApplyMapped(window_geometry)
       [] toplevel /\ ~mapped' -> send_premap_configure
  /\ UNCHANGED <<toplevel, made, acked, anchor, gravity>>

Next ==
  \/ get_toplevel
  \/ DestroyToplevel
  \/ \E origin \in Origin, extent \in Extent, g \in {-1, 1} :
       way_toplevel_on_reposition([origin |-> origin, extent |-> extent], g)
  \/ way_xdg_surface_configure
  \/ \E serial \in 1 .. MaxSerial : ack_configure(serial)
  \/ \E buffer \in {"attach", "null", "keep"}, inset \in Inset, extent \in Extent :
       commit(buffer, [origin |-> inset, extent |-> extent])

Spec == Init /\ [][Next]_vars

-------------------------------------------------------------------------------
(* Properties.                                                             *)

Frames == [origin : Int, extent : Nat]

(* Every variable holds a value of its kind; no serial is acked before it  *)
(* was sent, applied before it was acked, or awaited without being sent.   *)
TypeOK ==
  /\ {toplevel, mapped, windowed, queued} \subseteq BOOLEAN
  /\ made \in 0 .. MaxToplevels
  /\ geometry \in [origin : Inset \cup {0}, extent : Extent \cup {0}]
  /\ tree \in Int
  /\ sent \in 0 .. MaxSerial
  /\ acked \in 0 .. sent
  /\ applied \in 0 .. acked
  /\ pending \in 0 .. sent
  /\ anchor \in Frames
  /\ gravity \in {-1, 1}
  /\ frame \in Frames
  /\ told \in Extent \cup {Own}

(* Nothing the window manager asked for gets lost: a visible window is     *)
(* aligned with the last frame asked for and the client was told that      *)
(* size (or to choose its own), unless the client still owes the commit    *)
(* that answers the last resize.  Then that commit repairs both.           *)
Settled ==
  (toplevel /\ windowed) =>
    \/ pending > applied
    \/ /\ frame = reposition(anchor, gravity, geometry.extent)
       /\ ~queued
       /\ told \in {anchor.extent, Own}

(* A window that is resized from its near edge keeps its far edge: as long *)
(* as the requests agree on where that is, neither late commits, nor sizes *)
(* the client chose itself, nor queued resizes move it.                    *)
FarEdgeKept ==
  [][(/\ toplevel /\ toplevel'
      /\ mapped /\ mapped'
      /\ gravity = -1 /\ gravity' = -1
      /\ End(anchor) = End(anchor')
      /\ End(frame) = End(anchor)) => End(frame') = End(frame)]_vars

=============================================================================
