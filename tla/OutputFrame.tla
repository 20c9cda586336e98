------------------------------ MODULE OutputFrame ------------------------------
(***************************************************************************)
(* Frames of outputs: from a change of the scene to an image on screen     *)
(* (src/io/output.cpp, src/shell/io.cpp, src/wm/io.cpp, the DRM and the    *)
(* nested Wayland backend, src/gpu/image-pool.cpp).                        *)
(*                                                                         *)
(* Changes only request a frame; the frame is drawn from an idle listener  *)
(* or when the backend reports that the previous commit is on screen.      *)
(* Target images are leased from a pool, and every holder of a lease keeps *)
(* the image from being drawn into again: the output, the commands that    *)
(* draw it and, nested, the release slot of the host compositor.           *)
(*                                                                         *)
(* Only one dimension of an output is modelled; outputs are laid out side  *)
(* by side along it.  Shutting down is left out, so the last output of the *)
(* nested backend is never closed.                                         *)
(***************************************************************************)
EXTENDS Integers, FiniteSets, Sequences, SequencesExt

CONSTANTS
  Output, \* The outputs: connectors, or windows of the host compositor.
  Image,  \* The images the pool may create; bounds the number that exist.
  Null,   \* No image.
  Size,   \* The sizes an output may have.
  Backend \* Backends that may be found at startup: "drm", "wayland" (nested).

ASSUME SizeAssumption == Size \subseteq Nat \ {0}
ASSUME NullAssumption == Null \notin Image
ASSUME BackendAssumption == Backend \subseteq {"drm", "wayland"}

VARIABLES
  backend,  \* Which of IoContext's drm and wayland there is.
  outputs,  \* WmServer::io.outputs, in the order of creation.
  out,      \* The fields of each IoOutput and its WmOutput.
  pool,     \* GpuImagePattern::images of all patterns, and images' extents.
  commands, \* Targets of commands that were submitted and not yet freed.
  running,  \* Targets the GPU still draws.
  device,   \* What the kernel or the host compositor does with each output.
  owed,     \* Whether a client waits for a committed wl_surface.frame.
  pumps,    \* UiClient::frames_requested
  shown     \* History: whether an output's last frame shows the scene as it is.

vars == <<backend, outputs, out, pool, commands, running, device, owed, pumps, shown>>

Live == Range(outputs)

(* A new IoOutput; current_image and pending_image are DRM's, frame_callback *)
(* and release_slots (the images in them) the nested backend's.            *)
Fresh(size) ==
  [size |-> size, viewport |-> [x |-> 0, extent |-> 0],
   frame_requested |-> FALSE, commit_available |-> TRUE, try_redraw |-> FALSE,
   current_image |-> Null, pending_image |-> Null,
   frame_callback |-> FALSE, release_slots |-> {}]

(* scanout is on screen, queued follows it; flipped is the unread page flip *)
(* event.  hosted are the images the host may still read, released those   *)
(* whose release point it signalled.                                       *)
Blank ==
  [scanout |-> Null, queued |-> Null, flipped |-> FALSE,
   hosted |-> {}, released |-> {}]

Init ==
  /\ backend \in Backend
  /\ outputs = <<>>
  /\ out = [o \in Output |-> Fresh(0)]
  /\ pool = [images |-> {}, extent |-> [i \in Image |-> 0]]
  /\ commands = {}
  /\ running = {}
  /\ device = [o \in Output |-> Blank]
  /\ owed = FALSE
  /\ pumps = 0
  /\ shown = [o \in Output |-> FALSE]

-------------------------------------------------------------------------------
(* The image pool.                                                         *)

(* The images that outputs and commands keep a lease of.                   *)
Held(f, c) ==
  (c \cup UNION {{f[o].current_image, f[o].pending_image} \cup f[o].release_slots
                   : o \in Output}) \ {Null}

(* Leases not in held have ended: their images are back in their pattern.  *)
(* A pattern lives as long as a lease of it and takes its images along.    *)
Returned(p, held) ==
  LET alive == {p.extent[i] : i \in held}
      kept == {i \in Image : p.extent[i] \in alive}
  IN  [images |-> kept \ held,
       extent |-> [i \in Image |-> IF i \in kept THEN p.extent[i] ELSE 0]]

(* An image of the pattern if it has one, else a new image.                *)
Acquirable(p, size) ==
  LET ready == {i \in p.images : p.extent[i] = size}
  IN  IF ready # {} THEN ready ELSE {i \in Image : p.extent[i] = 0}

acquire(p, i, size) ==
  [images |-> p.images \ {i}, extent |-> [p.extent EXCEPT ![i] = size]]

-------------------------------------------------------------------------------
(* Requests.                                                               *)

(* wm_request_frame: request_frame of each output in live; an output that  *)
(* was not asked yet listens for the loop's next idle moment.              *)
wm_request_frame(f, live) ==
  [o \in Output |->
     IF o \in live
     THEN [f[o] EXCEPT !.frame_requested = TRUE,
                       !.try_redraw = f[o].try_redraw \/ ~f[o].frame_requested]
     ELSE f[o]]

(* Where outputs stand: the first at 0, each further one left of the last. *)
Viewport(f, order, o) ==
  LET at[k \in DOMAIN order] == IF k = 1 THEN 0 ELSE at[k - 1] - f[order[k]].size
  IN  [x |-> at[CHOOSE k \in DOMAIN order : order[k] = o], extent |-> f[o].size]

(* Lays the outputs out; if that changed anything, the UI is told (and     *)
(* asks for two frames) and every output is drawn again.                   *)
reflow_outputs(f, order, any_changed) ==
  LET live == ToSet(order)
      laid == [o \in Output |-> IF o \in live
                 THEN [f[o] EXCEPT !.viewport = Viewport(f, order, o)] ELSE f[o]]
      moved == {o \in live : laid[o].viewport # f[o].viewport}
      changed == any_changed \/ moved # {}
  IN  /\ out' = IF changed THEN wm_request_frame(laid, live) ELSE laid
      /\ shown' = [o \in Output |-> shown[o] /\ o \notin moved]
      /\ pumps' = IF changed THEN 2 ELSE pumps

(* The scene changes: a client's commit, a window that moves or closes.    *)
handle_damage ==
  /\ shown' = [o \in Output |-> FALSE]
  /\ out' = wm_request_frame(out, Live)
  /\ UNCHANGED <<backend, outputs, pool, commands, running, device, owed, pumps>>

(* A commit with frame callbacks that changes nothing else.                *)
commit_frame_callbacks ==
  /\ owed' = TRUE
  /\ out' = wm_request_frame(out, Live)
  /\ UNCHANGED <<backend, outputs, pool, commands, running, device, pumps, shown>>

(* Input for the compositor's own windows.                                 *)
ui_request_frame ==
  /\ pumps' = 2
  /\ out' = wm_request_frame(out, Live)
  /\ UNCHANGED <<backend, outputs, pool, commands, running, device, owed, shown>>

-------------------------------------------------------------------------------
(* Drawing.                                                                *)

(* Seeded fault: the image is taken for shown when it is committed.        *)
DrmCommitShowsAtOnce(f, d, o, i) ==
  /\ out' = [f EXCEPT ![o].commit_available = FALSE, ![o].current_image = i,
                      ![o].pending_image = i]
  /\ device' = [d EXCEPT ![o].queued = i]

IoDrmOutput_commit(f, d, o, i) ==
  /\ out' = [f EXCEPT ![o].commit_available = FALSE, ![o].pending_image = i]
  /\ device' = [d EXCEPT ![o].queued = i]

(* With the vsync flag, as the only caller has it.                         *)
IoWaylandOutput_commit(f, d, o, i) ==
  /\ out' = [f EXCEPT ![o].commit_available = FALSE, ![o].frame_callback = TRUE,
                      ![o].release_slots = @ \cup {i}]
  /\ device' = [d EXCEPT ![o].hosted = @ \cup {i}]

commit(f, d, o, i) ==
  IF backend = "drm" THEN IoDrmOutput_commit(f, d, o, i)
  ELSE IoWaylandOutput_commit(f, d, o, i)

(* Seeded fault: the second of the two frames is not asked for.            *)
UiFrameOnce(f, damage) == IF damage THEN wm_request_frame(f, Live) ELSE f

(* The compositor's windows draw when a frame was asked for, which may     *)
(* damage the scene; the first of two frames asks for the second.          *)
UiFrame(f, damage) ==
  IF pumps = 2 \/ damage THEN wm_request_frame(f, Live) ELSE f

(* The frame callbacks of every surface, of applied and of cached commits. *)
way_surface_on_redraw == owed' = FALSE

(* The handler of output_frame.  Every client's frame callbacks are done,  *)
(* the compositor's windows are drawn, the scene is rendered and flushed   *)
(* and its image committed.                                                *)
output_frame(o, f, d) ==
  \E damage \in IF pumps > 0 THEN BOOLEAN ELSE {FALSE} :
    LET drawn == UiFrame([f EXCEPT ![o].frame_requested = FALSE], damage)
        ended == Returned(pool, Held(f, commands))
    IN  \E i \in Acquirable(ended, f[o].size) :
          /\ way_surface_on_redraw
          /\ pumps' = IF pumps > 0 THEN pumps - 1 ELSE 0
          /\ shown' = [q \in Output |-> q = o \/ (shown[q] /\ ~damage)]
          /\ commands' = commands \cup {i}
          /\ running' = running \cup {i}
          /\ commit(drawn, d, o, i)
          /\ pool' = Returned(acquire(ended, i, f[o].size), Held(out', commands'))

NoFrame(f, d) ==
  /\ out' = f
  /\ device' = d
  /\ pool' = Returned(pool, Held(f, commands))
  /\ UNCHANGED <<commands, running, owed, pumps, shown>>

(* Seeded fault: a commit that is out does not hold the next frame back.   *)
TryRedrawAnyway(o, f, d) ==
  IF f[o].frame_requested /\ f[o].size # 0 THEN output_frame(o, f, d) ELSE NoFrame(f, d)

io_output_try_redraw(o, f, d) ==
  IF f[o].frame_requested /\ f[o].commit_available /\ f[o].size # 0
  THEN output_frame(o, f, d)
  ELSE NoFrame(f, d)

(* The idle listener of io_output_try_redraw_later.                        *)
try_redraw(o) ==
  /\ o \in Live
  /\ out[o].try_redraw
  /\ io_output_try_redraw(o, [out EXCEPT ![o].try_redraw = FALSE], device)
  /\ UNCHANGED <<backend, outputs>>

-------------------------------------------------------------------------------
(* The backends.                                                           *)

(* Seeded fault: the flip makes room for a commit but draws nothing.       *)
PageFlipOnly(o) ==
  /\ device[o].flipped
  /\ NoFrame([out EXCEPT ![o].current_image = out[o].pending_image,
                         ![o].commit_available = TRUE],
             [device EXCEPT ![o].flipped = FALSE])
  /\ UNCHANGED <<backend, outputs>>

(* DRM: the committed image is on screen, the one before it no longer.     *)
on_page_flip(o) ==
  /\ device[o].flipped
  /\ io_output_try_redraw(o,
       [out EXCEPT ![o].current_image = out[o].pending_image,
                   ![o].commit_available = TRUE],
       [device EXCEPT ![o].flipped = FALSE])
  /\ UNCHANGED <<backend, outputs>>

(* Nested: the host wants the next frame of this window.                   *)
on_present_frame(o) ==
  /\ o \in Live
  /\ out[o].frame_callback
  /\ io_output_try_redraw(o,
       [out EXCEPT ![o].frame_callback = FALSE, ![o].commit_available = TRUE], device)
  /\ UNCHANGED <<backend, outputs>>

(* Nested: the event of a release point the host signalled.                *)
release_image(o, i) ==
  /\ i \in device[o].released
  /\ out' = [out EXCEPT ![o].release_slots = @ \ {i}]
  /\ device' = [device EXCEPT ![o].released = @ \ {i}]
  /\ pool' = Returned(pool, Held(out', commands))
  /\ UNCHANGED <<backend, outputs, commands, running, owed, pumps, shown>>

(* Seeded fault: the new size waits for the next frame that is asked for.  *)
ConfigureLater(o, size) ==
  /\ backend = "wayland"
  /\ o \in Live
  /\ reflow_outputs([out EXCEPT ![o].size = size], outputs, FALSE)
  /\ UNCHANGED <<backend, outputs, pool, commands, running, device, owed>>

(* Nested: the host resizes the window, or shows it for the first time.    *)
configure(o, size) ==
  /\ backend = "wayland"
  /\ o \in Live
  /\ LET sized == [out EXCEPT ![o].size = size, ![o].try_redraw = TRUE]
     IN  IF size = out[o].size
         THEN out' = sized /\ UNCHANGED <<pumps, shown>>
         ELSE reflow_outputs(sized, outputs, FALSE)
  /\ UNCHANGED <<backend, outputs, pool, commands, running, device, owed>>

(* output_added: a WmOutput is created and all outputs are laid out.       *)
io_output_add(o, size) ==
  /\ o \notin Live
  /\ outputs' = Append(outputs, o)
  /\ reflow_outputs([out EXCEPT ![o] = Fresh(size)], outputs', TRUE)
  /\ UNCHANGED <<backend, pool, commands, running, device, owed>>

(* DRM: a connector that is in use; its mode is known.                     *)
add_output(o, size) == backend = "drm" /\ io_output_add(o, size)

(* Nested: a new window, which the host has yet to configure.              *)
create_output(o) == backend = "wayland" /\ io_output_add(o, 0)

(* std::erase; an output is in the list only once.                         *)
erase(order, o) == RemoveAt(order, CHOOSE k \in DOMAIN order : order[k] = o)

(* Seeded fault: the outputs that remain keep their places.                *)
CloseLeavesGap(o) ==
  /\ backend = "wayland"
  /\ o \in Live
  /\ Len(outputs) > 1
  /\ outputs' = erase(outputs, o)
  /\ out' = wm_request_frame([out EXCEPT ![o] = Fresh(0)], ToSet(outputs'))
  /\ shown' = [shown EXCEPT ![o] = FALSE]
  /\ device' = [device EXCEPT ![o] = Blank]
  /\ pool' = Returned(pool, Held(out', commands))
  /\ UNCHANGED <<backend, commands, running, owed, pumps>>

(* Nested: the host closes a window.  The output's listener, its callback  *)
(* and its release slots go with it; what the host still reads of a window *)
(* that is gone is not shown.                                              *)
toplevel_close(o) ==
  /\ backend = "wayland"
  /\ o \in Live
  /\ Len(outputs) > 1
  /\ outputs' = erase(outputs, o)
  /\ reflow_outputs([out EXCEPT ![o] = Fresh(0)], outputs', TRUE)
  /\ device' = [device EXCEPT ![o] = Blank]
  /\ pool' = Returned(pool, Held(out', commands))
  /\ UNCHANGED <<backend, commands, running, owed>>

-------------------------------------------------------------------------------
(* The devices, concurrent with the event loop.                            *)

(* The GPU finishes drawing i.                                             *)
GpuFinish(i) ==
  /\ i \in running
  /\ running' = running \ {i}
  /\ UNCHANGED <<backend, outputs, out, pool, commands, device, owed, pumps, shown>>

(* Seeded fault: the commands are freed once they are submitted.           *)
CommandsFreedEarly(i) ==
  /\ i \in commands
  /\ commands' = commands \ {i}
  /\ pool' = Returned(pool, Held(out, commands'))
  /\ UNCHANGED <<backend, outputs, out, running, device, owed, pumps, shown>>

(* The event of the queue's syncobj: the commands and their leases go.     *)
commands_done(i) ==
  /\ i \in commands \ running
  /\ commands' = commands \ {i}
  /\ pool' = Returned(pool, Held(out, commands'))
  /\ UNCHANGED <<backend, outputs, out, running, device, owed, pumps, shown>>

(* The kernel shows the queued image once its fence has signalled.         *)
Flip(o) ==
  /\ device[o].queued # Null
  /\ device[o].queued \notin running
  /\ device' = [device EXCEPT ![o].scanout = device[o].queued,
                              ![o].queued = Null, ![o].flipped = TRUE]
  /\ UNCHANGED <<backend, outputs, out, pool, commands, running, owed, pumps, shown>>

(* The host is done with an image that was drawn.                          *)
HostRelease(o, i) ==
  /\ i \in device[o].hosted \ running
  /\ device' = [device EXCEPT ![o].hosted = @ \ {i}, ![o].released = @ \cup {i}]
  /\ UNCHANGED <<backend, outputs, out, pool, commands, running, owed, pumps, shown>>

Next ==
  \/ handle_damage
  \/ commit_frame_callbacks
  \/ ui_request_frame
  \/ \E o \in Output :
       \/ try_redraw(o)
       \/ on_page_flip(o)
       \/ on_present_frame(o)
       \/ \E size \in Size : configure(o, size) \/ add_output(o, size)
       \/ create_output(o)
       \/ toplevel_close(o)
       \/ Flip(o)
       \/ \E i \in Image : release_image(o, i) \/ HostRelease(o, i)
  \/ \E i \in Image : GpuFinish(i) \/ commands_done(i)

SafeSpec == Init /\ [][Next]_vars

(* The loop runs its idle listeners and the handlers of events; the GPU    *)
(* finishes, the kernel flips, and the host asks for frames and releases   *)
(* what it no longer shows.  Strong fairness where an image is acquired:   *)
(* the program would create one more than the model has.                   *)
Fairness ==
  /\ \A o \in Output :
       /\ SF_vars(try_redraw(o))
       /\ SF_vars(on_page_flip(o))
       /\ SF_vars(on_present_frame(o))
       /\ WF_vars(Flip(o))
       /\ \A i \in Image : WF_vars(release_image(o, i)) /\ WF_vars(HostRelease(o, i))
  /\ \A i \in Image : WF_vars(GpuFinish(i)) /\ WF_vars(commands_done(i))

Spec == SafeSpec /\ Fairness

-------------------------------------------------------------------------------
(* Properties.                                                             *)

Outputs ==
  [size : Size \cup {0}, viewport : [x : Int, extent : Size \cup {0}],
   frame_requested : BOOLEAN, commit_available : BOOLEAN, try_redraw : BOOLEAN,
   current_image : Image \cup {Null}, pending_image : Image \cup {Null},
   frame_callback : BOOLEAN, release_slots : SUBSET Image]

Devices ==
  [scanout : Image \cup {Null}, queued : Image \cup {Null}, flipped : BOOLEAN,
   hosted : SUBSET Image, released : SUBSET Image]

(* Every variable stays in its domain, and a target the GPU draws belongs  *)
(* to commands that are still there.                                       *)
TypeOK ==
  /\ backend \in Backend
  /\ Live \subseteq Output /\ Len(outputs) = Cardinality(Live)
  /\ out \in [Output -> Outputs]
  /\ pool.images \subseteq Image
  /\ pool.extent \in [Image -> Size \cup {0}]
  /\ running \subseteq commands /\ commands \subseteq Image
  /\ device \in [Output -> Devices]
  /\ owed \in BOOLEAN /\ pumps \in 0 .. 2
  /\ shown \in [Output -> BOOLEAN]

(* No image is free to be drawn into, or was freed altogether, while the   *)
(* GPU draws it, the kernel shows or is about to show it, or the host may  *)
(* read it.                                                                *)
FreeIsIdle ==
  /\ TypeOK
  /\ \A i \in Image : (i \in pool.images \/ pool.extent[i] = 0) =>
       /\ i \notin running
       /\ \A o \in Live : /\ i \notin {device[o].scanout, device[o].queued}
                          /\ i \notin device[o].hosted

(* An output that does not show the scene as it is, or that stands between *)
(* a client or the compositor's windows and their next frame, was asked    *)
(* for a frame.                                                            *)
StaleIsRequested ==
  \A o \in Live : (~shown[o] \/ owed \/ pumps > 0) => out[o].frame_requested

(* A request that was noted will be looked at: in the next idle moment,    *)
(* when the commit that is out comes back, or with the first size.         *)
RequestNotForgotten ==
  \A o \in Live : out[o].frame_requested =>
    \/ out[o].try_redraw
    \/ IF backend = "drm" THEN device[o].queued # Null \/ device[o].flipped
       ELSE out[o].frame_callback
    \/ out[o].size = 0

(* The TODO in IoDrmOutput::commit, FAILED TO COMMIT: the kernel refuses a *)
(* commit while an earlier one waits to be shown.                          *)
NeverBusy ==
  [][\A o \in Output :
       (device'[o].queued # Null /\ device'[o].queued # device[o].queued)
         => device[o].queued = Null]_vars

(* The outputs stand in a row without gaps or overlaps, each as large as   *)
(* its image.                                                              *)
LayoutTight ==
  \A k \in DOMAIN outputs :
    LET here == out[outputs[k]].viewport
    IN  /\ here.extent = out[outputs[k]].size
        /\ IF k = 1 THEN here.x = 0
           ELSE here.x + here.extent = out[outputs[k - 1]].viewport.x

(* Whatever changes, and whichever handler changes it, every output is     *)
(* where the row has room for it, and one that is not up to date has asked *)
(* for a frame and will not be forgotten.                                  *)
OutputsFollow ==
  /\ LayoutTight
  /\ StaleIsRequested
  /\ RequestNotForgotten

(* A change reaches the screen: every output that has a size draws the     *)
(* scene again after it changed.                                           *)
StaleIsDrawn ==
  \A o \in Output : (o \in Live /\ out[o].size # 0 /\ ~shown[o])
                      ~> (shown[o] \/ o \notin Live)

(* Clients that wait for a frame callback get it, and the compositor's own *)
(* windows are drawn both times, as soon as some output draws.             *)
CallbacksAreDone ==
  \A o \in Output :
    /\ (o \in Live /\ out[o].size # 0 /\ owed) ~> (~owed \/ o \notin Live)
    /\ \A p \in {1, 2} :
         (o \in Live /\ out[o].size # 0 /\ pumps = p) ~> (pumps # p \/ o \notin Live)
================================================================================
