# Roc: a verification development

Roc is a Wayland compositor in C++.  Everything it does happens in one thread:
an event loop (`core/exec`) polls file descriptors and runs the handler of each
readable one to completion, then its idle listeners.  What makes it hard is not
threads but *order*: clients send requests and answer events whenever they
like, the kernel reports GPU work and page flips late, objects are reference
counted and die in the middle of somebody else's handler, and most protocol
state is kept twice, once by the compositor and once by a client.

The models below are translated from the source.  A variable or action bears
the name of the field or function it stands for wherever TLA+ allows;
`PROJECT.json` maps every definition to the lines it stands for.

## Inventory

| Component | State it keeps | Operations | Talks to | What is hard |
|---|---|---|---|---|
| **core** event loop, `Signal`, `Ref`/`Weak` registry | fd listeners, idle listeners, object versions, free bins | `fd_listen`, `exec_run`, `listen`, `ref_create` | everything | one epoll batch outlives listeners; listeners that unlink while a signal runs; `Weak`s that are read during a destructor |
| **gpu** syncobjs, commands, image pools, descriptors | `wait.list`, `wait.skips`, leases, descriptor ids | `gpu_syncobj_wait`, `gpu_wait`, submit, acquire | kernel, io, way | completion events that only count; objects alive until the GPU is done; ids at their limit |
| **io** outputs (DRM, nested Wayland), input devices, session | `frame_requested`, `commit_available`, current and pending image; pressed keys | `request_frame`, commit, `on_page_flip`, device added/removed | kernel, shell | frame pacing: no lost request, no commit while one is out; keys held on a device that disappears |
| **scene** | tree of nodes, damage | place, reparent, damage, render | way, wm, seat | stacking order and damage under re-placement |
| **seat** keyboards, pointers, foci, selection | `focus`, `pressed`, event filters | `seat_keyboard_focus`, `seat_pointer_focus`, button, motion | io → seat → clients, wm filters | enter/leave pairing, implicit grabs, foci that die |
| **wm** windows, outputs, interaction modes | stacking, frame, mode, zone, cycle | move/size, zones, focus cycle, output layout | seat filters, way | modes interrupted by windows that close |
| **way** surfaces, subsurfaces | pending state, `cached` packets, addon queues | attach, commit, `flush`, `get_subsurface` | scene, seat, shell | synchronized trees: atomic, ordered, complete application |
| **way** xdg shell, popups | serials, `anchor`, `gravity`, `pending`, `queued` | configure, ack, commit | wm, surfaces | configure handshake with throttling |
| **way** wl_seat, data, buffers, outputs | client-side focus, offers, leases | events to clients | seat, gpu | second copies of seat state |
| **ui**, **shell** | windows of the compositor itself | menu, launcher, log viewer | all | double-pumped frames |

Properties that make each of them right:

* *syncobjs*: a callback runs once, not before its point is reached, in the
  order of the points, and eventually.
* *surfaces*: each commit is applied once and in order; a synchronized commit
  appears together with the right commit of every ancestor and never stays
  behind; a subsurface appears in its place.
* *xdg shell*: no frame the window manager asks for is lost; the edge that is
  not being dragged stays put.
* *seat*: what clients were told about the focus is what the compositor
  believes; a pressed button holds the pointer.
* *outputs*: one commit out at a time, no image shown and drawn at once, no
  requested frame forgotten.
* *wm*: an interaction ends where it began to, and only touches its window.
* *registry, signals, loop*: a `Weak` never sees another object; a listener
  that was removed is not called; every ready descriptor has its turn.
* *input*: no key sticks; the client with the keyboard knows what is held.
* *popups*: moved, flipped and clipped only as far as necessary.
* *buffers*: given back when, and only when, nobody uses them any more.
* *gpu objects*: nothing is destroyed or reused under a pending draw.
* *scene*: the frame and the pointer see what the tree says.

## The modules

In the order of what would hurt most if it were wrong and how hard it is to test.

| # | Module | Of | State |
|---|---|---|---|
| 1 | `SyncobjAbs`, `Syncobj`, `SyncBufferProofs` | completion callbacks, implementing the abstract promise | checked, refinement checked and proved |
| 2 | `SurfaceCommit`, `SurfaceCommitProofs` | surfaces and synchronized subsurfaces | checked, proved (places for subsurfaces that keep their parent) |
| 3 | `Toplevel`, `ShellInputProofs` | the configure handshake with throttled resizes | checked, proved |
| 4 | `Positioner`, `Popup`, `ShellInputProofs` | where popups go, in every state of `Toplevel` | checked, proved |
| 5 | `SeatFocus`, `SeatFocusProofs` | seat and Wayland layer together: keyboard and pointer focus | checked, proved |
| 6 | `SeatInput`, `ShellInputProofs` | keys and buttons from devices to clients, through hotkeys and focus changes | checked, proved |
| 7 | `OutputFrame`, `OutputFrameProofs` | shell, outputs, both backends and the image pool together: frames | checked, also for liveness; safety proved |
| 8 | `WmInteraction`, `WmSceneProofs` | moves, sizes, zones and focus cycles as filters of the seat, and windows that go meanwhile | checked, proved |
| 9 | `EventLoop`, `EventLoopProofs` | `exec_run`, signals and the memory of listeners | checked, also for liveness; safety proved |
| 10 | `Buffers`, `SyncBufferProofs` | shared memory buffers and dmabufs from the client to the GPU and back | checked, also for liveness; safety proved |
| 11 | `GpuResources`, `GpuResourcesProofs` | images, samplers, descriptor ids and the commands that use them | checked, proved |
| 12 | `Scene`, `WmSceneProofs` | the tree, damage, picking and the list of draws | checked, proved |

`Lists` has the two operators on lists that several of them use: taking out one element, and
keeping those that pass.  A module of proofs is about two components where the name says so;
`SeatInput`, `Buffers` and `Scene` therefore name their initial states, next-state relations and
specifications after themselves (`InputSpec`, `BufferSpec`, `SceneSpec`).

Compositions: `SeatFocus`, `SeatInput` and `OutputFrame` are compositions of layers,
because their properties are about two copies of the same state.  `Popup` puts
`Positioner` into every state of `Toplevel`.  `SyncobjAbs` is what the others take
for granted of the GPU: commands finish, one after the other, and are noticed
late (`commands_done` in `OutputFrame`, `Finished` in `Buffers`).

## How the models correspond to the code

The event loop is single threaded, so a handler that calls no handler that
could interleave with it is one action.  Where the code gives control away
inside a handler (a callback, a recursion, a blocking wait), the handler is
several actions.

### Syncobj (`gpu/semaphore.cpp`)

`list`, `skips` are `wait.list` and `wait.skips`; `eventfd` is the count of the
kernel's eventfd, `armed` the events it still owes.  `gpu_syncobj_wait` inserts
by point; `handle_waits` reads the count, and the pops that follow it are
separate actions (`handle_waits_next`), since a callback may register further
waits; `gpu_wait` blocks (`mode = "block"`) and then runs the callbacks up to
its point (`gpu_wait_step`), leaving their events to `skips`.  `SignalEvent` is
the kernel, late and in any order.  `DestroySyncobj` is the destructor at any moment
the loop is free.  `SyncobjAbs` says what users of the class rely on.

### SurfaceCommit (`way/surface/surface.cpp`, `subsurface.cpp`, `state.hpp`)

`cached` holds commit numbers only.  `WaySubsurface` and `WaySurfaceTree` are the
two addons with a queue of their own (`subq`, `treeq`); their packets are kept
under the surface's commit numbers as in `WayStateQueue`.  `flush` is recursive and
runs in the middle of other handlers, so its calls are a stack `work`, and it is
several actions: the packets it applies, and the recursion into the children *in
the scene tree* (`above`), which the code fills from committed placements and
which is not `parent`.  A wl_surface may be destroyed while a placement still
holds a `Ref` to it: `life` is `"orphan"` until the last is gone.

### Toplevel (`way/shell/shell.cpp`)

One axis of a frame; the other follows the same equations.  `anchor`, `gravity`,
`pending`, `queued` are the fields of `WayToplevel`; `sent`, `acked`, `applied` the
serials.  `way_toplevel_on_reposition`, `ack_configure` and `commit` are the three
parties' handlers, in any order.  `told` is what a client knows.  `geometry` is the window
geometry, which may begin inside the surface (a shadow drawn by the client); `tree` is where
`Reposition` then puts the surface's tree in the window's.

### SeatFocus (`seat/*.cpp`, `way/seat/*.cpp`)

`keyboard.focus`, `pointer.focus` belong to the seat, `.way` to the Wayland layer,
`view` to the clients.  `OnKeyboardEnter` and the other handlers of the Wayland
layer are operators that return what they keep and what they send, so that an
action of the seat composes a leave and an enter in the order of the code.  Also
here: a button's implicit grab, focus cycling, and the destructors (`~SeatFocus`
during `~WaySurface`).

### OutputFrame (`io/`, `shell/io.cpp`, `wm/io.cpp`, `gpu/image-pool.cpp`)

`backend` is the one found at startup.  `out[o]` has the fields of `IoOutput` and `WmOutput`;
`pool`, `commands` and `running` are the image pool, the submissions and what the GPU draws. 
`device` is the kernel (`scanout`, `queued`) or the host compositor (`hosted`). `try_redraw` is
the idle listener; with `on_page_flip` and `on_present_frame` it is one of the three places that
draw.  `owed` and `pumps` stand for those who wait for a frame: clients' `wl_surface.frame` and
the compositor's own windows, which are drawn twice per request.

### WmInteraction (`wm/focus.cpp`, `movesize.cpp`, `zone.cpp`, `hotkeys.cpp`, `window.cpp`)

`windows` is `WmServer::windows`, `layer` the children of the scene's window layer,
which `wm_arrange_windows` writes; the two are compared.  `mode` and the three `Weak`
pointers are those of `WmServer`; a `Weak` becomes `None` when its window goes.  Each
input event is one action, whichever filter takes it: a press may be captured by
the hotkeys (`close_hotkey`), begin something (`begin`), be swallowed by what goes on
(`press_during`) or reach a client (`press`).  Where the pointer is, is left open: a
press finds any window of the layer or none; so the motion of a drag, which only
asks for frames, is one action.  `under` remembers where an
interaction began, `late` which windows were focused before they were mapped.

### Popup (`way/shell/popup.cpp`)

`Positioner` is a pure algorithm, axis by axis: `get_position`, the flip, `Slide` and
`Resize` are the cases of `positioner_apply_axis` with its early returns, `constraint_of`
the constraint of the output found at the anchor.  `IsBest` says what a positioner
promises without saying how.  `Popup` composes it with `Toplevel`: wherever the
handshake put the window and the tree of its surface (`SurfacePlace`), it compares where a
popup made now, by any rules, is on the desktop (`Shown`) with what the rules ask of the output
that was found.  With a shadow that output is moved by the shadow's width, as the code computes the
constraint from the surface and the popup from the window geometry (see "Known deviations").

### SeatInput (`io/input.cpp`, `io/libinput`, `io/wayland/seat.cpp`, `wm/io.cpp`, `seat`, `way/seat/keyboard.cpp`)

`pressed[d]` is what device d remembers; `seat.counts` are the `CountingSet`s of keyboard
and pointer; `base`, `locked`, `unlocks` are xkb's state, `mods` the field the window
manager reads; `view` is what each client was told.  One action is the handling of one
device event, with the filters (`FilterKey`, `FilterModifier`) that run in the middle
of it and may move the focus.  `keyboard_enter` of the nested backend does a roundtrip
in which further events are handled: `waiting` counts those that have not returned.

### EventLoop (`core/exec.cpp`, `signal.hpp`, `object.hpp`, `object.cpp`)

`stack` holds what runs: `main`, handlers of descriptors and dispatches of signals,
with the listener each is in (`cur`, a `Ref`) and those still to come (`stored`, `Weak`s).
A callback is not one action: it does any of `listen`, `unlink`, `Emit`, `fd_listen`,
`fd_unlisten`, `exec_stop`, one at a time, and returns.  `heap` are versions, counts and
the bin of free blocks, which is small so that blocks are used again at once.
`epoll` is the kernel: which descriptors are readable, the order of its ready list,
`EPOLLONESHOT`.  `Wait` takes any number of events up to `MaxEvents`: in the code the bound is 64,
and with more ready descriptors a report is cut short; here it is with few.  What a `batch`
event was reported for is remembered by `fresh`.

### Buffers (`way/buffer/*.cpp`, the buffer part of `way/surface/*.cpp`, leases of `gpu`)

`current` and `texture` hold images, as surfaces and scene nodes do; `protected` holds
those of each frame on the GPU; a dmabuf whose last holder goes is `Released`.
`ShmAcquire` copies what is damaged, into the old image (`try_steal`) if there is one;
`pixels` are what the copy then holds.  `Scaled` is what the code makes of surface
damage.  The client is the environment: it keeps to the protocol, see the module.

### GpuResources (`gpu/image.cpp`, `buffer.cpp`, `descriptors.cpp`, `commands.cpp`, `formats.cpp`, `~Gpu`)

`allocators`, `set`: the id allocators and the descriptor set; `commands`, `submitted`:
what is recorded and what the GPU runs, each with the objects it protects (`objects`)
and with the reads it was recorded with (`reads`).  `owned` are references outside of
commands; `Freed` is what a destructor gives back.  The set has elements 0 to `max_id` - 1 while ids
run from 1 to `max_id`: what is written for the last id changes nothing.  `Shutdown` drops what is owned and
protected; the GPU may go on with what is `submitted`.  `format_props` is the cache of
`gpu_get_format_properties`.

### Scene (`scene/*.cpp`, `wm/io.cpp`, `seat/pointer.cpp`)

`children` and `parent` are kept as the code keeps them, twice.  Geometry is one row of
cells.  `scene_post_damage` is what every mutation calls before or after it, and
`handle_input_region_damage` the idle listener that looks again at what is under the
resting pointer.  `Walk` is what an iteration of the tree gives, for any choice of trees to go
into and of what leaves give: damage, picking, drawing and `Picture` are instances of it.
`scene_render` builds vertices, indices and draws as the code does;
`DrawnIsPicture` reads them back and compares with `Picture`, the reference.

## The runs

Twelve runs, each one instance that TLC explores in full.

| Run | Question | Bounds, and why they are enough |
|---|---|---|
| `syncobj` | Is popping as many callbacks as there were events right (`IInv`)? Is every reached wait called (`ReachedIsHandled`)? Does it implement `SyncobjAbs` (`AbsSpec`)? | three waits, three points: two waits on one point or one behind the other, one skipped, popped or registered in a callback; an event is swallowed with two |
| `surface_commit` | Do queues and packets keep in step and synchronized trees show complete and in order (`Synced`), does none stay behind (`ReadyCommitsApplied`), does each show in place (`PlacedBeforeShown`)? | three surfaces (a chain of two levels, or siblings), two commits each, two changes of roles: what was cached before a change meets what is committed after it |
| `toplevel` | Is a request lost (`Settled`), the far edge moved (`FarEdgeKept`), a popup misplaced (`PopupPlaced`)? | five serials: a resize that waits, one behind it, a remap; two origins and sizes make every comparison come out both ways; a shadow or none; popups smaller, as large as and larger than an output, at both its ends |
| `seat_focus` | Do the layers and the clients agree (`ClientsAgree`, `LayersAgree`)? Is a grab kept (`GrabKept`)? | two clients, one with a popup and two toplevels: focus moves within a client, between clients and to nobody; two buttons, so that one is released while another is held |
| `seat_input` | Does a key stick (`CountsMatch`)? Does a client know which keys and modifiers are held (`ClientKeys`, `ModifiersKnown`)? | two keyboards and a mouse that share a modifier, or a host's seat; two windows of one client and one of another; a roundtrip within a roundtrip |
| `output` | Is an image drawn and shown at once (`FreeIsIdle`)? Is a change or request forgotten, or the row of outputs torn (`OutputsFollow`)? Is the kernel busy (`NeverBusy`)? | two outputs of either backend, three images: each output holds up to two and both want the third; a nested output starts without a size |
| `output_live` | Is every change drawn (`StaleIsDrawn`) and every callback done (`CallbacksAreDone`)? | one output (outputs only share the pool), two sizes, two images: one on screen, one on its way |
| `wm` | Is the scene what the list says (`LayerArranged`)? Does an interaction end (`HeldWhileActive`) and keep to its window (`OwnTarget`)? Is the focused window on top (`FocusOnTop`), does a cycle reach every window it should (`CycleVisitsAll`)? | three windows (one above and one below the cycled one, or two in a row to pass over), two buttons; destruction and mapping at any moment of a drag, zone or cycle |
| `event_loop` | Is memory safe whatever callbacks unlink (`MemorySafe`)? Is only what is registered called (`CalledIsRegistered`)? Does everyone have a turn (`ReadyHandled`, `IdleListenersRun`)? | two blocks, so that one is used again while a weak reference to it exists; two descriptors in one batch, or one at a time from a wait that is cut short; with one descriptor, an idle listener keeps the loop from sleeping (both at once, in a longer run with three blocks and waits cut to one, show the same); three operations: unlink in a nested dispatch and link again; versions wrap after four |
| `buffers` | Is a buffer in use given back (`UsedIsBusy`), or never (`ReleasedAtLast`)? Do partial copies add up (`ShmShown`)? Are planes mixed (`PlanesAgree`)? | one surface, two shared memory buffers that take over each other's image, one dmabuf with explicit points, two planes and modifiers, two frames in flight, a scale |
| `gpu_resources` | Is an id lost or shared (`IdsPartitioned`)? Is anything in flight destroyed (`InFlightIntact`)? Is a layout unusable (`LayoutUsable`)? | two images for two ids, of which the set has an element for the first only, and a sampler, so that ids run out and are used again; two submissions in flight behind one that is recorded |
| `scene` | Do trees stay trees (`TreeIntact`)? Does the pointer see what is under it (`HitIsFresh`)? Is the frame the scene (`DrawnIsPicture`), and asked for (`ChangeIsRequested`)? | two trees, two regions, two textures and a mesh of two quads with one image: draws that join and that must not; three nodes at once, so a tree with two leaves or three leaves (four, in a longer run, show the same) |

`scene` and `seat_input` are checked for deadlock.  The others are not, because there
the system may rest: the numbers of waits, commits, serials or versions of an instance
are bounded and run out, the compositor without input or registered descriptors waits
for ever, or the program ends (`gpu_resources`).

Some instances leave out what is known to go wrong (see "Known deviations"), so that
the rest can be said:

* `SurfaceCommit`: `Reparenting = FALSE`, no move between live parents;
* `Buffers`: `Sticky = FALSE`, surface damage is not given in a scale set before;
* `Toplevel`: `MaxToplevels = 1`, one xdg_toplevel per surface;
* `SeatFocus`: the history variable `kept`, no client released its seat while it had the
  focus; `failed`, an assertion that stops the compositor;
* `WmInteraction`: `FocusOnTop` excepts windows that got the keyboard before they were
  mapped, and `OwnTarget` zones begun over the bare desktop;
* `SeatInput`: the host's seat keeps its keyboard and pointer;
* `Toplevel`: `PopupPlaced` is about the output moved by the shadow's width;
* `GpuResources`: `InFlightIntact` is about the time until the program ends, and ids past the end
  of the set are excepted from what `IdsPartitioned` and `InFlightIntact` say of the set's elements;
* `SurfaceCommit`: a `wl_subsurface` whose surface is gone is not placed (which crashes);
* `EventLoop`: a number is not given to a new descriptor while an event for the closed one
  waits in the same batch.

With the constants set otherwise, or an antecedent or that guard dropped, TLC shows each.

Every property has a mutant: a definition whose name and comment say that it is a
seeded fault (or mutant) of the one below it, such as a dropped guard, and for which
TLC finds the property violated.  They are not part of any specification.

## Known deviations

What was found on the way in which the code does something else than its own words, or
than one would expect.  The passing properties are worded so that they do not claim the contrary:
where one comes close, the list above says what it leaves out.

*Protocol state.*

* `way/shell/shell.cpp:274`: `surface->mapped` outlives the xdg_toplevel, so a second one
  for a surface that kept its buffer is neither configured nor mapped, although
  "toplevel surface committed but not mapped, sending configure".
* `way/surface/surface.cpp:284`, "Flush subsurface state recursively": a subsurface given to
  another parent while a placement by the first is cached ends in the first's scene tree;
  the new parent's flush no longer reaches it and its commits stay cached.
* `way/seat/keyboard.cpp:124`, "Leave previous window": after a client released its seat
  while focused, the next client is sent the leave of a surface that is not its own.
* `way/seat/keyboard.cpp:91`, `debug_assert(surface->parent)` fails for a button pressed on
  a popup whose toplevel is gone.
* `io/io.hpp:113`: "The `quiet` flag denotes that actions should not be taken in response
  to this event", but no filter reads it (`wm/hotkeys.cpp:21`), so a key that is already
  down when the nested compositor is entered acts as a hotkey.
* `seat/data.cpp:35`: the selection event has no seat, so no client is told of a new
  selection before it gets the keyboard again.
* `seat/keyboard.cpp:84`: latched and locked modifiers are written to `depressed`.
* `way/seat/pointer-constraints.cpp:131`: every toplevel of the client is told.
* `way/surface/subsurface.cpp:69`: the surface of a `wl_subsurface` may be gone when it is placed,
  and its weak pointer is not looked at before it is used.
* `seat/seat.cpp:87`: a filter that captures a press does not capture the release, which the
  client with the keyboard gets without having the key down.
* `way/shell/popup.cpp:258`: the constraint is what the output is from the tree of the parent's
  surface, which `shell.cpp:193` moves by the origin of the window geometry, while positions count
  from that geometry: with a shadow, popups keep to the output moved by the shadow's width.
* `way/shell/popup.cpp:255`: the output is looked up with a point relative to the popup's
  parent; `popup.cpp:321`: a popup does not follow its parent's geometry.
* `io/wayland/seat.cpp:193`: a host seat that loses a capability frees the device without
  the removal event, and the window manager keeps a pointer to it.

*Buffers and GPU.*

* `way/buffer/buffer.cpp:23`: surface damage is scaled by the scale of this commit, which
  is 1 if the commit sets none, not by the surface's.
* `buffer.cpp:40`: the release point belongs to the buffer, so a second commit of it
  replaces the point of the first, which is then never signalled.
* `way/buffer/dmabuf.cpp:206`, "Deduplicate file descriptors as we receive them": compares
  with planes that have none, and `core/fd.cpp:12` compares a descriptor with itself.
* `dmabuf.cpp:308`: a commit of a buffer whose import failed crashes (`crashed` in
  `Buffers`).
* `gpu/semaphore.cpp:165`: the eventfd is blocking, so an event in a batch that belongs to
  an earlier descriptor of the same number would block the loop.
* `gpu/gpu.cpp:17`, "Unflushed commands": a transfer recorded and not submitted when the
  program ends fails the assertion (`Shutdown` finds `commands.begun`).
* `gpu/gpu.cpp:14`: `~Gpu` destroys the queue's syncobj first, and `gpu/semaphore.cpp:110` frees the
  commands that still wait and what they protect, without waiting for the GPU.
* `gpu/descriptors.cpp:95`: ids run from one to the array's size where elements run from zero to one
  less, so the last id is past the end.
* `scene/render.cpp:185`: images are protected, their samplers are not.
* `gpu/formats.cpp:212`: the `continue` belongs to the inner loop, so nothing is
  intersected; `gpu/gpu.hpp:161`: `GpuFormatSet::empty` is inverted.
* `core/region.hpp:95`: a subtraction that leaves fewer boxes erases one of the holes only.

*Windows and outputs.*

* `scene/node/texture.cpp:26`: an image that replaces another posts no damage; the caller
  does (so in `Scene` only images that come or go count).
* `wm/zone.cpp:68`: without any output the zone has no workarea to read; a zone begun over
  no window keeps the window of the one before.
* `wm/window.cpp:126`: a window that a focus cycle gives the keyboard before it is mapped is not
  raised, and not when it is mapped either, as it has the keyboard by then.
* `wm/movesize.cpp:53`: a drag goes on after its window became fullscreen.
* `io/wayland/output.cpp:303`: a closed nested output drops its release slots, so an image
  the host still reads may be drawn into (the window is gone; `Live` in `FreeIsIdle`).

## Fairness

* `Syncobj`: weak fairness of devices and kernel (they do finish), of the pops and
  of the steps of a blocking wait (a loop in the code).  `handle_waits` is strongly
  fair: `epoll` reports the eventfd in every round and the loop calls each
  listener of a round, so other handlers cannot starve it by blocking again and
  again.  Nobody has to register, block or destroy.
* `OutputFrame`: weak fairness of the GPU, of page flips and of the host's
  releases.  The steps that take an image are strongly fair, because in the model
  the images may be used up for a while where the program would allocate another.
  A host compositor is assumed to send the frame callbacks it was asked for; one
  that hides a window may not, and then that window is not drawn.
* `EventLoop`: weak fairness of the loop as a whole (`Loop`): the thread runs and its
  callbacks return.  No descriptor and no listener is given fairness of its own: that each
  has its turn is what `ReadyHandled` and `IdleListenersRun` show, from the order of the
  kernel's ready list and of the loop.  What callbacks do in one round is bounded.
* `Buffers`: the GPU finishes its frames in order.  Clients owe nothing.

The other modules state no liveness: what happens next is the client's or the user's
choice, so their "nothing stays behind" is an invariant of the states in which no
handler runs.

## What is proved

The theorems hold for every value of the constants, under the assumptions named
in the modules.

**SyncBufferProofs** is about syncobjs, from `MaxPointAssumption` (a positive number of points), for any
set of waits, and about buffers (below).  `IInv` is inductive.  That what was handled was reached alone is not: a
state where the list is sorted and everything handled was reached says nothing about whom
the next event is for.  The strengthening counts: `EventsBalance` says that the
unread and the still armed events are as many as the listed waits plus the
skipped ones; `UnreachedArmed` that an unreached wait's event is still armed.  So if the
n-th popped wait were not reached, neither would be any after it, as the list is
sorted, and their armed events alone would be more than the balance leaves.
From it follow `TypeCorrect` (the unsigned counters do not wrap),
`OnlyReachedAreHandled`, `PopsAreCovered` (the assertion in `handle_waits`) and
`Refinement`: every step is a step of `SyncobjAbs` or a stutter.

**ShellInputProofs** is about windows and popups, from `FramesAssumption` (origins are integers, sizes positive),
`BoundsAssumption`, `ViewportsAssumption` (there is an output) and `RulesAssumption`, for any such
sets and any number of serials, and about input (below).  `Settled` is not inductive: the commit that settles a window does
so only because what was told and what is queued agree with the anchor at any time
(`ToldOrQueued`), and the window stays settled because a resize is queued only behind one that is
owed (`QueuedBehind`).  From it follow `TypeCorrect`, `NothingAskedIsLost` and, with the lemma on
`reposition`, the action property `FarEdgeStays`.  `BestPlace` says that what
`positioner_apply_axis` returns `IsBest` for all rules and all constraints, on one axis, as the
code treats them one by one; its lemmas say what `Slide` and `Resize` do to a region that sticks out.
`PopupsInPlace` is the same promise on the desktop, for the rules and the constraint that the popup's
code derives from a positioner, the outputs and the window.  It needs of the invariant that the
surface's tree is always moved by the origin of the geometry the window is drawn with (`TreeOK`):
then the constraint and the popup's place are off from each other by the shadow's width and nothing
else (`PlacedAsAsked`).  That the output found is one of the outputs is by
a least distance.

**WmSceneProofs** is about windows, from `NoneAssumption` and `ButtonsAssumption`, for any
windows and any number of buttons, and about the scene (below).  `OwnTarget` speaks of the window an interaction began on, which
the code does not keep: `IInv` says that the drag's and the zone's Weak pointers hold that
window or nothing (`DragTarget`, `ZoneTarget`), also when it was destroyed under the
pointer.  `HeldWhileActive` belongs to it because a cycle must not still be
named when a drag begins.  From it follow `InteractionsEnd` and
`RequestsKeepToTheirWindow`.  A second invariant, `Order` with `Names`, is about the list of
windows: it has none twice, the layer is what `wm_arrange_windows` makes of it now, and the
focused window is the last mapped one, unless its focus came before its mapping.
`ArrangeKeepsOrder` and the lemmas on raising, appending and removing serve every action; then
`LayerFollowsList` and `FocusedWindowIsOnTop` are instances.  `CyclesComeRound` is arithmetic on top of it, as the next
window of a cycle is the first in it on the way round (`CycleNextIsFirst`):
turning k times from place i of n windows is at place (i + k) mod n, or (i - k) mod n backwards.

**SeatFocusProofs**, from `NullAssumption`, `TreeAssumption` and `ButtonsAssumption`, for any surfaces, clients and buttons.  That clients and
layers agree is not inductive, as it does not say what the Wayland layer knows of a
surface that is about to go.  `IInv` has two facts for each device: `Known`, that its
clients know of the surface the Wayland layer announced alone, and that this surface's client
has a seat to be told to leave; and `Belongs`, that the announced surface is the seat's focus
or its toplevel.  One lemma on taking a focus (`FocusAnnounces`) serves every action, as every
change of focus passes through `Focus`.
From it follow `ClientsAlwaysAgree`, `LayersAlwaysAgree` and `GrabsAreKept`.

**OutputFrameProofs**, from `NullAssumption`, `SizeAssumption` and `BackendAssumption`, for any
outputs, images and sizes.  `StaleIsRequested` alone is not inductive, nor does it follow that a request comes to
anything.  `IInv` adds `Noticed`, that a request has an idle listener, a commit that is out or no
size yet, and `Paced`, that a commit is out exactly as long as the kernel has it or has not
told (nested: only while the host owes a frame callback).  `Noticed` is broken inside a
handler, which takes the idle listener away or makes room before it looks at the request:
`RedrawKeeps` is the lemma about such a handler, with the output it is for excepted.  From it
follow `RequestsAreKept` (`StaleIsRequested` and `RequestNotForgotten`) and `KernelIsNeverBusy`.
Images need a second invariant: `Leases` says that each image the kernel shows or is about to show,
the host may read or commands draw is one of which somebody keeps a lease (`Seen`), and that leased
images are outside the pool with their pattern alive (`InUse`).  `PoolImagesAreIdle`
follows, as the free ones are those nobody holds.  `Leases` also has where outputs stand (`Placed`): each begins
where the next one in the list ends.  With `RequestsAreKept` that is `OutputsAlwaysFollow`.

**GpuResourcesProofs**, from `ObjectAssumption` and `IdAssumption`, for
any objects, ids, formats and any length of the queue.  `InFlightIntact` is not inductive: it
says nothing about why an object outlives its owner.  `IInv` adds that all that commands
read is among what they protect, that what is protected or owned is what lives, that
ids of live objects are theirs alone and are what the descriptor set has (where it has an
element), and that every
cached answer is the driver's.  From it follow `IdsArePartitioned`,
`InFlightStaysIntact` (until the program ends) and `LayoutsAreUsable`: all three invariants of the run.

**SurfaceCommitProofs**, from `SurfaceAssumption` (finitely many surfaces) and the assumptions that
name constants apart, for any number of commits.  The assertion in
`WayCommitQueue::peek` compares the number of a packet with that of an addon's part.  `IInv`
says why it cannot fail: the numbers that wait are those after `current` without a gap; a
`WaySurfaceTree`, which queues a part for every commit since it was there, holds those of the
latest packets; a `WaySubsurface`, which queues one only while it is synchronized with a parent that is there,
holds some of them, in order.  Adding a part at a commit and taking the first when its packet is applied keep
each of the three: the lemmas on queues.  `QueuesStayAligned` follows, also with moves between live
parents (which the run leaves out).

`CommitsAreSynced` holds with such moves, too.  A promise speaks of an ancestor at any distance,
while the code compares with the direct parent.  The invariant `Waits` gives the reason as a
chain: a set of surfaces from the child up to below the ancestor, and for each the number of the
commit (`need`) that is still to come or waits, in its turn, for that of its parent.  Each action
either keeps a chain or makes its promise void; a commit of a surface on it adds a link.  That
chains end needs that the tree of surfaces has no cycle (`Acyclic`, part of `Roles`), from the
check in `get_subsurface`.  `RolesAndPromises` is this invariant.

Places are only right where subsurfaces are not moved between live parents (see "Known
deviations"), so these theorems have `~ Reparenting` as a hypothesis.  `InPlace` says that the
parent's next commit, and the one a packet waits for, carry the placement if none was applied;
`Flushed` that every packet that may be applied is the business of a flush that is under way, or
that is about to look at the children of the surface it is in.  `NoCommitLeftBehind` and
`FirstShownInPlace` follow.

**Input** (in ShellInputProofs), from `NullAssumption`, `DeviceAssumption` (finitely many devices,
as counts are numbers), `RoundtripsAssumption` and `CodesAssumption`: surfaces, clients and devices are any, the
seven keys and buttons are those of the module.  `InputIInv` says that devices that are gone hold
nothing (`DevicesOK`) and that the seat fits what devices hold (`SeatFits`): its counts are the
numbers of devices (`Counts`), and clients were told what there is to tell of keys and modifiers
(`SeatKnown`).  A device event is a loop over codes in which hotkeys capture
keys and move the focus; the invariant holds of the seat after each of them with what devices hold
by then, as a fact about values rather than states, so that the loops over codes, the roundtrips
and removed devices are all the same argument.  That a count changes by one when one device's set
does is a lemma on cardinalities.  From it follow `HeldAreCounted`, `ClientsKnowKeys` and
`ClientsKnowModifiers`: all three invariants of the run.

**Buffers** (in SyncBufferProofs), from `BufferAssumption`, `WidthAssumption` and
`CopyAssumption` (a surface's copy is none of the buffers), for any buffers, surfaces, planes, width,
scales and frames in flight.  `UsedIsBusy` is not inductive, as what keeps a dmabuf from its
client is the lease, and the GPU draws what it does not itself hold.  `BufferIInv` says that
a frame protects what it draws (`ProtectedOK`), that a dmabuf any surface, texture or frame holds is
busy as long as its client can be told (`HeldIsBusy`), and that all planes that were added have the
modifier that is kept (`ParamsOK`); one lemma on releases serves every step that drops a
reference.  `PlanesAlwaysAgree` and `UsedAreNeverReleased` follow.  `CommitsAreShown` is the action
property of shared memory: what is copied contains what changed.  It needs that rounding a damaged
range to the buffer's scale and back loses nothing (`ScaledContains`, `DamageContains`), and has
`~ Sticky` as a hypothesis, as the run does (see "Known deviations").

**Scene** (in WmSceneProofs), from `NodeAssumption` and `GeometryAssumption`, for any trees, leaves,
images, areas, translations and contents of meshes.  The properties compare walks of trees, which
are recursive functions over nodes, so first of all trees must be trees: `SceneIInv` adds to
`TreeIntact` that the nodes can be numbered so that everything in a tree is less than the tree
(`Forest`), and that the root is in nothing.  `tree_place` keeps this because nothing is placed into
what is below it.  By the least node where something fails (`RankInduction`) walks exist and are
unique, and so do ways up (`Ascending`), which give positions and roots.  `TreesStayIntact` follows.

`HitStaysFresh` and `ChangesAreRequested` are one argument.  A step moves or changes one node with
what is below it; everything in the scene that is not below it (`Elsewhere`) stays where it is
and looks as it did.  Either the damage that the step posts has nothing that gives something
(a region under the pointer, a quad), and then walks before and after give the same, or what it posts has
such a leaf, and then the idle listener or the frame is asked for.  `Moves` says for what lists the
damage was computed: `tree_place` posts while a node is in both its old and its new tree,
others post before or after.  Every action is shown to be such a `Change`; one lemma on walks does
the rest.

`DrawnMatches` is true of every state with trees: `FrameOK` is the invariant of the loop of
`scene_render` (each draw reads indices and vertices that are there, the last draw ends where the
indices end), and each leaf adds its quads to what a frame shows (`NodeDrawn`): a texture by one
index more in the last draw, which is a new one if it looks different (`get_draw`), a mesh by
draws of its own.  `WalkOfWalk` turns the
quads of the leaves that a walk visits, one after the other, into the walk that gives quads, which
is `Picture`.

**EventLoopProofs**, from `NullAssumption`, `MaxEventsAssumption` and `VersionAssumption`, for any
blocks, descriptors, nested dispatches and operations per round.  `MemoryIsSafe` rests on two
counts.  A block's references are its owners: at most one home (a signal's list or the table of
descriptors) and the frames that run it.  And a weak reference knows how often its block was freed
since (`WeakFine`): that often its version moved on, and each time but the first took an operation
that allocated the block again.  So with fewer operations in a round than there are versions
(`VersionAssumption`: 2^32 in the code) the version does not come round while a dispatch is under
way, as all dispatches end before the loop polls again.  `Core` is these facts as a predicate of
the heap, the lists, the table, the stack and the number of operations, so that steps that change
several of them are proved one change at a time.  `OnlyRegisteredAreCalled` follows from `Core` (a
listener that is found and has no home is one that runs), from `FreshOrForgotten` (a report of an
earlier registration finds none) and from `NothingStays` (after `exec_stop` nothing is
registered).

Recursive functions (`Keep` and `FlattenSeq`, `Viewport`, the turns of a cycle, walks and positions
in the scene, the loop of `scene_render`) are unfolded in these proofs: that such a function exists
is shown by induction over a set of sequences, numbers or nodes (`SequenceInduction`, `LoopExists`, `RankInduction`), which needs no
operator as a parameter, from the fact that a set of numbers has a least one (`LeastNumber`).
`Lineage`, a recursion in the code, is the least set that contains the parent of each of its
subsurfaces, which says the same and can be reasoned about.

Every invariant and every action property of the runs is stated by a theorem.  Only model-checked
is liveness (`ReachedIsHandled`, `StaleIsDrawn`, `CallbacksAreDone`, `ReadyHandled`,
`IdleListenersRun`, `ReleasedAtLast`): it rests on fairness and `ENABLED`, which are outside the
prover's reach.

## What is not modelled

`PROJECT.json` lists every component with its reason.  In short: Vulkan calls, pipelines,
shaders, cursors, logging and the user interface are I/O or calls into libraries;
libwayland's, libseat's and libudev's own state is theirs; selection data, pointer
constraints, gestures and the small protocols are one request and one assignment each.
Within the modelled components:

* contents of surface packets but buffers and damage, stacking order among sibling
  subsurfaces, opaque and input regions of surfaces;
* the second dimension: frames, popups, outputs and the scene have one axis each, which
  the code treats alike;
* the blocking wait for a client's acquire point while a frame is drawn: a client
  that never signals it stops the loop, and no property could promise otherwise;
* axes, motion, gestures, keymaps and LEDs; multiple seats; the geometry of zones;
* the life of a popup's own surface, and popups of popups;
* readbacks, image views, the import and export of timelines;
* shutting down (but `~Gpu`), and the session being switched away;
* failing allocations and failing kernel calls, which the code answers by
  aborting (a dmabuf's import may fail).
