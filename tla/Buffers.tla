-------------------------------- MODULE Buffers --------------------------------
(***************************************************************************)
(* Client buffers on their way to the screen and back                      *)
(* (src/way/buffer, the buffer part of src/way/surface/surface.cpp and     *)
(* viewport.cpp, leases and imports of src/gpu).                           *)
(*                                                                         *)
(* A buffer of shared memory is copied when it is committed and given back *)
(* at once; the copy overwrites the surface's previous image where it can. *)
(* A dmabuf is sampled in place: every commit of it leases its image, and  *)
(* it is given back when the last holder of the lease is gone.             *)
(*                                                                         *)
(* Commits apply at once here (SurfaceCommit models those that wait).  The *)
(* client keeps to the protocol: it writes or commits a buffer only when   *)
(* it was given back, it damages all that it changed, and it uses explicit *)
(* synchronization for a buffer always or never.                           *)
(***************************************************************************)
EXTENDS Integers, FiniteSets, Sequences, SequencesExt

CONSTANTS
  Surface,  \* The surfaces of the client.
  Shm,      \* Its buffers in shared memory, all of one format and extent.
  Dma,      \* Its dmabufs.
  Explicit, \* Buffers with points on a timeline instead of wl_buffer.release.
  Modifier, \* Modifiers of dmabuf planes.
  Null,     \* No buffer, no image, nothing set.
  Width,    \* The extent of shared memory buffers, in one dimension.
  Scales,   \* The buffer scales a surface may set.
  Sticky,   \* May surface damage count in a scale that an earlier commit set?
  gpu_dma_max_planes, \* 4 in the code.
  MaxFrames \* Bound: frames the GPU works on at once.

Buffer == Shm \cup Dma

ASSUME BufferAssumption == Shm \cap Dma = {} /\ Explicit \subseteq Buffer /\ Null \notin Buffer
ASSUME WidthAssumption == Width \in Nat \ {0} /\ Scales \subseteq Nat \ {0}

VARIABLES
  wl_buffer, \* The buffers whose wl_buffer exists.
  mixed,     \* Dmabufs made of planes with gaps or of several modifiers.
  imported,  \* The dmabufs whose import succeeded.
  params,    \* The zwp_linux_buffer_params_v1 the client fills in.
  current,   \* WaySurface::current of each surface.
  texture,   \* SceneTexture::image of each surface.
  protected, \* Of each frame the GPU works on: the images it keeps alive.
  memory,    \* What is in each shared memory buffer: a value for each pixel.
  busy,      \* Buffers the client committed and was not given back.
  crashed    \* The compositor used an image that is not there.

buffer_vars == <<wl_buffer, mixed, imported, params, current, texture, protected, memory, busy, crashed>>

Pixel == 0 .. Width - 1
Empty == {}          \* WayDamageRegion::Empty
NoParams == [planes |-> <<>>, modifier |-> Null, poisoned |-> FALSE]

(* An image is Null, the dmabuf that is leased, or the copy of a surface:  *)
(* a dmabuf is leased once at a time, as the client waits for it.          *)
Copy(s) == <<s, "copy">>

ASSUME CopyAssumption == \A s \in Surface : Copy(s) \notin Buffer \cup {Null}

NoState ==
  [buffer |-> Null, image |-> Null, pixels |-> [x \in Pixel |-> Null], scale |-> 1]

BufferInit ==
  /\ wl_buffer = Shm
  /\ mixed = {}
  /\ imported = {}
  /\ params = NoParams
  /\ current = [s \in Surface |-> NoState]
  /\ texture = [s \in Surface |-> Null]
  /\ protected = <<>>
  /\ memory = [b \in Shm |-> [x \in Pixel |-> 0]]
  /\ busy = {}
  /\ crashed = FALSE

-------------------------------------------------------------------------------
(* Damage: only outer bounds are kept.                                     *)

Bounds(region) == IF region = {} THEN Empty ELSE Min(region) .. Max(region)

(* Mutant: the last pixel is scaled, not the end.                          *)
ScaledLast(region, scale) ==
  IF region = {} THEN Empty ELSE (Min(region) * scale) .. (Max(region) * scale)

(* Damage in surface coordinates, in the coordinates of the buffer.        *)
Scaled(region, scale) ==
  IF region = {} THEN Empty ELSE (Min(region) * scale) .. ((Max(region) + 1) * scale - 1)

(* WayBuffer::acquire joins both kinds of damage; surface damage counts in *)
(* the pending state's buffer scale, which is 1 unless this commit set it. *)
BufferDamage(surface_damage, buffer_damage, pending_scale) ==
  Bounds(buffer_damage \cup Scaled(surface_damage, pending_scale))

-------------------------------------------------------------------------------
(* Leases.                                                                 *)

Held(cur, tex, prot) ==
  {cur[s].image : s \in Surface} \cup {tex[s] : s \in Surface}
    \cup UNION {frame.objects : frame \in Range(prot)}

(* WayBuffer objects: kept by their wl_buffer and by surfaces.             *)
Objects(cur, resources) == resources \cup ({cur[s].buffer : s \in Surface} \ {Null})

(* A lease that ended releases its buffer if that still exists; that sends *)
(* wl_buffer.release, if there is a wl_buffer, or signals the point.       *)
Released(cur, tex, prot, resources) ==
  {b \in Dma : /\ b \in Held(current, texture, protected)
               /\ b \notin Held(cur, tex, prot)
               /\ b \in Objects(cur, resources)
               /\ b \in resources \cup Explicit}

-------------------------------------------------------------------------------
(* Creating and destroying buffers.                                        *)

(* The planes with plane idx set.                                          *)
WithPlane(idx, modifier) ==
  [i \in DOMAIN params.planes \cup {idx} |-> IF i = idx THEN modifier ELSE params.planes[i]]

(* Mutant: the modifier of the last plane counts.                          *)
AddAnyModifier(idx, modifier) ==
  /\ ~params.poisoned /\ idx \notin DOMAIN params.planes
  /\ params' = [params EXCEPT !.planes = WithPlane(idx, modifier), !.modifier = modifier]
  /\ UNCHANGED <<wl_buffer, mixed, imported, current, texture, protected, memory, busy, crashed>>

(* Planes are added in any order, each once, all with the first modifier;  *)
(* the index error and the second setting of a plane end the client, a     *)
(* second modifier also poisons the parameters.                            *)
params_add(idx, modifier) ==
  /\ idx < gpu_dma_max_planes
  /\ ~params.poisoned /\ idx \notin DOMAIN params.planes
  /\ params' = IF params.planes # <<>> /\ params.modifier # modifier
               THEN [NoParams EXCEPT !.poisoned = TRUE]
               ELSE [params EXCEPT !.planes = WithPlane(idx, modifier), !.modifier = modifier]
  /\ UNCHANGED <<wl_buffer, mixed, imported, current, texture, protected, memory, busy, crashed>>

(* popcount(planes_set + 1) = 1: the bits from 0 on without a gap.         *)
Complete(set) == set # {} /\ \A idx \in set : 0 .. idx \subseteq set

(* create and create_immed; the import may fail, and gives no image then.  *)
create_dmabuf(b) ==
  /\ b \in Dma \ (Objects(current, wl_buffer) \cup Held(current, texture, protected))
  /\ ~params.poisoned /\ Complete(DOMAIN params.planes)
  /\ wl_buffer' = wl_buffer \cup {b}
  /\ mixed' = IF Complete(DOMAIN params.planes) /\ Cardinality(Range(params.planes)) = 1
              THEN mixed ELSE mixed \cup {b}
  /\ imported' \in {imported \cup {b}, imported \ {b}}
  /\ params' = NoParams
  /\ busy' = busy \ {b}
  /\ UNCHANGED <<current, texture, protected, memory, crashed>>

(* The resource is gone at once, the WayBuffer when no surface has it; the *)
(* client goes on to wait for a point, but for no event of the wl_buffer.  *)
destroy_buffer(b) ==
  /\ b \in wl_buffer
  /\ wl_buffer' = wl_buffer \ {b}
  /\ busy' = IF b \in Explicit THEN busy ELSE busy \ {b}
  /\ imported' = imported \ {b}
  /\ UNCHANGED <<mixed, params, current, texture, protected, memory, crashed>>

create_shm_buffer(b) ==
  /\ b \in Shm \ Objects(current, wl_buffer)
  /\ wl_buffer' = wl_buffer \cup {b}
  /\ busy' = busy \ {b}
  /\ UNCHANGED <<mixed, imported, params, current, texture, protected, memory, crashed>>

(* The client draws into a buffer of shared memory that is its own.        *)
Write(b, x) ==
  /\ b \in wl_buffer \ busy
  /\ memory' = [memory EXCEPT ![b][x] = 1 - @]
  /\ UNCHANGED <<wl_buffer, mixed, imported, params, current, texture, protected, busy, crashed>>

-------------------------------------------------------------------------------
(* Commits.                                                                *)

(* The copy can go over the previous image if that was a copy, too; all    *)
(* buffers in shared memory have one extent and format here.               *)
try_steal(s) == current[s].buffer \in Shm

(* The pixels of the image after the copy of what is damaged.              *)
Copied(s, b, damage) ==
  [x \in Pixel |-> IF x \in damage \/ ~try_steal(s) THEN memory[b][x] ELSE current[s].pixels[x]]

(* Mutant: a buffer of shared memory waits for a lease of its image.       *)
ShmAcquireKeeps(s, b, damage, scale) ==
  /\ current' = [current EXCEPT ![s] =
       [buffer |-> b, image |-> Copy(s), pixels |-> Copied(s, b, damage), scale |-> scale]]
  /\ texture' = [texture EXCEPT ![s] = Copy(s)]
  /\ busy' = (busy \cup {b}) \ Released(current', texture', protected, wl_buffer)
  /\ UNCHANGED crashed

ShmAcquire(s, b, damage, scale) ==
  /\ current' = [current EXCEPT ![s] =
       [buffer |-> b, image |-> Copy(s), pixels |-> Copied(s, b, damage), scale |-> scale]]
  /\ texture' = [texture EXCEPT ![s] = Copy(s)]
  /\ busy' = busy \ Released(current', texture', protected, wl_buffer)
  /\ UNCHANGED crashed

(* A dmabuf that was not imported has no image to lease.                   *)
DmaAcquire(s, b, scale) ==
  /\ current' = [current EXCEPT ![s] =
       [buffer |-> b, image |-> b, pixels |-> NoState.pixels, scale |-> scale]]
  /\ texture' = [texture EXCEPT ![s] = b]
  /\ busy' = (busy \cup {b}) \ Released(current', texture', protected, wl_buffer)
  /\ crashed' = (b \notin imported)

(* What the client changed since the surface showed its last commit.       *)
Changed(s, b) ==
  {x \in Pixel : current[s].buffer \notin Shm \/ current[s].pixels[x] # memory[b][x]}

(* Attach, damage and commit.  A commit may set a scale; the damage covers *)
(* all that changed, in the coordinates of the buffer or of the surface.   *)
Commit(s, b, in_surface, set_scale) ==
  LET pending_scale == IF set_scale = Null THEN 1 ELSE set_scale
      scale == IF set_scale = Null THEN current[s].scale ELSE set_scale
      surface_damage == IF in_surface THEN {x \div scale : x \in Changed(s, b)} ELSE Empty
      buffer_damage == IF in_surface THEN Empty ELSE Changed(s, b)
  IN  /\ b \in wl_buffer \ busy
      /\ in_surface /\ ~Sticky => scale = pending_scale
      /\ IF b \in Shm
         THEN ShmAcquire(s, b, BufferDamage(surface_damage, buffer_damage, pending_scale), scale)
         ELSE DmaAcquire(s, b, scale)
      /\ UNCHANGED <<wl_buffer, mixed, imported, params, protected, memory>>

(* Attach of no buffer: the texture is cleared, the image stays.           *)
CommitNull(s) ==
  /\ current' = [current EXCEPT ![s].buffer = Null]
  /\ texture' = [texture EXCEPT ![s] = Null]
  /\ busy' = busy \ Released(current', texture', protected, wl_buffer)
  /\ UNCHANGED <<wl_buffer, mixed, imported, params, protected, memory, crashed>>

-------------------------------------------------------------------------------
(* Frames.                                                                 *)

Drawn == {texture[s] : s \in {t \in Surface : current[t].buffer # Null}} \cap Dma

(* Mutant: the images of the draws are not protected.                      *)
RenderUnprotected ==
  /\ Len(protected) < MaxFrames
  /\ protected' = Append(protected, [draws |-> Drawn, objects |-> {}])
  /\ UNCHANGED <<wl_buffer, mixed, imported, params, current, texture, memory, busy, crashed>>

(* scene_render protects the image of every texture it draws; surfaces     *)
(* without a buffer are not mapped.  Nobody waits for copies to be free.   *)
scene_render ==
  /\ Len(protected) < MaxFrames
  /\ protected' = Append(protected, [draws |-> Drawn, objects |-> Drawn])
  /\ UNCHANGED <<wl_buffer, mixed, imported, params, current, texture, memory, busy, crashed>>

(* The oldest commands finished, and their objects are let go.             *)
Finished ==
  /\ protected # <<>>
  /\ protected' = Tail(protected)
  /\ busy' = busy \ Released(current, texture, protected', wl_buffer)
  /\ UNCHANGED <<wl_buffer, mixed, imported, params, current, texture, memory, crashed>>

-------------------------------------------------------------------------------
Request ==
  \/ \E idx \in 0 .. gpu_dma_max_planes, modifier \in Modifier : params_add(idx, modifier)
  \/ \E b \in Dma : create_dmabuf(b)
  \/ \E b \in Shm : create_shm_buffer(b)
  \/ \E b \in Buffer : destroy_buffer(b)
  \/ \E s \in Surface, b \in Buffer, in_surface \in BOOLEAN, set_scale \in Scales \cup {Null} :
       Commit(s, b, in_surface, set_scale)
  \/ \E s \in Surface : CommitNull(s)

BufferNext ==
  \/ ~crashed /\ Request
  \/ ~crashed /\ \E b \in Shm, x \in Pixel : Write(b, x)
  \/ ~crashed /\ scene_render
  \/ Finished

(* The GPU finishes what it was given.                                     *)
BufferSpec == BufferInit /\ [][BufferNext]_buffer_vars /\ WF_buffer_vars(Finished)

-------------------------------------------------------------------------------
(* Properties.                                                             *)

BufferTypeOK ==
  /\ wl_buffer \subseteq Buffer /\ busy \subseteq Buffer /\ imported \subseteq Dma
  /\ current \in [Surface -> [buffer : Buffer \cup {Null},
                              image : Dma \cup {Copy(s) : s \in Surface} \cup {Null},
                              pixels : [Pixel -> {0, 1, Null}], scale : Scales \cup {1}]]
  /\ texture \in [Surface -> Dma \cup {Copy(s) : s \in Surface} \cup {Null}]
  /\ memory \in [Shm -> [Pixel -> {0, 1}]]
  /\ crashed \in BOOLEAN

(* Whatever planes a client adds in whatever order, a dmabuf is only made  *)
(* of planes 0, 1, .. without a gap that were all sent with one modifier   *)
(* (params_add, create_buffer), and the types of all variables hold.       *)
PlanesAgree ==
  /\ BufferTypeOK
  /\ mixed = {}

(* No dmabuf is given back to its client while a surface, a texture or a   *)
(* frame the GPU works on uses its image (the lease of WayDmaBuffer).      *)
UsedIsBusy ==
  \A b \in Dma \cap (wl_buffer \cup Explicit) :
    (\/ \E s \in Surface : b \in {current[s].image, texture[s]}
     \/ \E frame \in Range(protected) : b \in frame.draws) => b \in busy

(* After a commit of shared memory the surface's image is the buffer, with *)
(* all its pixels, although only what is damaged was copied, and over an   *)
(* image that an earlier commit of another buffer left.                    *)
ShmShown ==
  [][\A s \in Surface :
       current'[s] # current[s] /\ current'[s].buffer \in Shm
         => current'[s].pixels = memory[current'[s].buffer]]_buffer_vars

(* A buffer that its surface no longer has is given back at last.          *)
ReleasedAtLast ==
  \A b \in Buffer :
    (b \in busy /\ b \in wl_buffer)
      ~> (b \notin busy \/ b \notin wl_buffer \/ crashed
            \/ \E s \in Surface : current[s].image = b)
===============================================================================
