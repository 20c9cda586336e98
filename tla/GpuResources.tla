----------------------------- MODULE GpuResources -----------------------------
(***************************************************************************)
(* Images, buffers, samplers and descriptors (src/gpu/image.cpp,           *)
(* buffer.cpp, formats.cpp, descriptors.cpp, commands.cpp, ~Gpu).          *)
(*                                                                         *)
(* All shaders read from one descriptor set that is updated in place: an   *)
(* image or a sampler takes an id when it is created and gives it back     *)
(* when its last reference goes, and the next one created gets that id.    *)
(* Draws name ids, so nothing may be destroyed before the commands that    *)
(* use it have finished; gpu_protect gives the commands a reference.       *)
(*                                                                         *)
(* Syncobj models how finished commands are found out, Buffers the leases  *)
(* of images, OutputFrame the pool.  There is one format; an import that   *)
(* fails half way leaves nothing behind and is left out.                   *)
(***************************************************************************)
EXTENDS Integers, FiniteSets, Sequences

CONSTANTS
  Image,    \* Images that may be created.
  Sampler,  \* Samplers that may be created.
  Buffer,   \* Buffers that may be created.
  Null,     \* No object, no modifier.
  max_id,   \* num_image_descriptors_each, num_sampler_descriptors.
  Modifier, \* Layouts of the format.
  Features, \* The driver: the usages each modifier allows.
  Display,  \* Modifiers that outputs can show.
  MaxQueue  \* Bound: commands that are submitted and not finished.

Pool == {"image", "sampler"}
Usages == (SUBSET {"texture", "render"}) \ {{}}
Object == Image \cup Sampler \cup Buffer

ASSUME ObjectAssumption ==
  /\ Image \cap Sampler = {} /\ Image \cap Buffer = {} /\ Sampler \cap Buffer = {}
  /\ Null \notin Object \cup Modifier
ASSUME IdAssumption == max_id \in [Pool -> Nat]
ASSUME FeatureAssumption == Features \in [Modifier -> SUBSET {"texture", "render"}]

VARIABLES
  live,         \* Objects that exist.
  id,           \* Their descriptors; 0 for none.
  layout,       \* Modifiers of images made for other devices or by them.
  usage_of,     \* Usages of images.
  allocators,   \* GpuDescriptorIdAllocator of images and of samplers.
  set,          \* The descriptor set: what was written last in each array.
  owned,        \* Objects with references outside of commands.
  commands,     \* gpu->queue.commands, with whether they were begun.
  submitted,    \* Commands the GPU works on, in order.
  format_props, \* Modifiers found usable, by usages that were asked for.
  ended         \* Whether the program is at its end, ~Gpu.

vars == <<live, id, layout, usage_of, allocators, set, owned, commands, submitted,
          format_props, ended>>

NoCommands == [begun |-> FALSE, objects |-> {}, reads |-> {}]

Init ==
  /\ live = {}
  /\ id = [o \in Object |-> 0]
  /\ layout = [i \in Image |-> Null]
  /\ usage_of = [i \in Image |-> {}]
  /\ allocators = [p \in Pool |-> [freelist |-> {}, last_id |-> 0]]
  /\ set = [p \in Pool |-> [n \in 0 .. max_id[p] - 1 |-> Null]]
  /\ owned = {}
  /\ commands = NoCommands
  /\ submitted = <<>>
  /\ format_props = [usage \in {} |-> {}]
  /\ ended = FALSE

-------------------------------------------------------------------------------
(* Descriptor ids.                                                         *)

\* Which of the free ids was freed last is left out: any of them is taken.
FreeIds(p) ==
  IF allocators[p].freelist # {} THEN allocators[p].freelist
  ELSE {n \in {allocators[p].last_id + 1} : n <= max_id[p]}

(* allocate; debug_assert(last_id < max_id) ends the program otherwise.    *)
Allocate(p, n) ==
  /\ n \in FreeIds(p)
  /\ IF allocators[p].freelist # {}
     THEN allocators' = [allocators EXCEPT ![p].freelist = @ \ {n}]
     ELSE allocators' = [allocators EXCEPT ![p].last_id = n]

(* gpu_allocate_image_descriptor and gpu_allocate_sampler_descriptor: the  *)
(* arrays' elements begin at 0 and the ids at 1, so the last id is past    *)
(* the end, and writing its descriptor changes none of the elements.       *)
gpu_allocate_descriptor(p, o, n) ==
  /\ Allocate(p, n)
  /\ id' = [id EXCEPT ![o] = n]
  /\ set' = IF n \in DOMAIN set[p] THEN [set EXCEPT ![p][n] = o] ELSE set

\* Mutant: objects without a descriptor free theirs, too.
FreedAny(p, objects) == {id[o] : o \in objects \cap (IF p = "image" THEN Image ELSE Sampler)}

Freed(p, objects) ==
  {id[o] : o \in objects \cap (IF p = "image" THEN Image ELSE Sampler)} \ {0}

-------------------------------------------------------------------------------
(* References.                                                             *)

InCommands(cmds, subs) ==
  cmds.objects \cup UNION {subs[k].objects : k \in DOMAIN subs}

(* What nobody refers to any more is destroyed and gives its id back.      *)
Destroy(own, cmds, subs) ==
  LET dead == live \ (own \cup InCommands(cmds, subs))
  IN  /\ live' = live \ dead
      /\ id' = [o \in Object |-> IF o \in dead THEN 0 ELSE id[o]]
      /\ allocators' = [p \in Pool |->
           [allocators[p] EXCEPT !.freelist = @ \cup Freed(p, dead)]]
      /\ UNCHANGED <<layout, usage_of, set, format_props>>

\* gpu_get_commands begins commands if there are none.
gpu_protect(cmds, objects) == [cmds EXCEPT !.begun = TRUE, !.objects = @ \cup objects]

\* Commands read descriptors and write to images without naming them.
Reading(cmds, objects) ==
  [cmds EXCEPT !.reads = @ \cup {[object |-> o, id |-> id[o]] : o \in objects}]

-------------------------------------------------------------------------------
(* Formats.                                                                *)

Supported(usage) == {mod \in Modifier : usage \subseteq Features[mod]}

(* Mutant: what was found for another usage is taken.                      *)
PropertiesOfAny(usage) ==
  IF format_props # <<>> THEN format_props[CHOOSE u \in DOMAIN format_props : TRUE]
  ELSE Supported(usage)

(* gpu_get_format_properties: modifiers with all features the usage needs, *)
(* asked from the driver once for each format and usage.                   *)
gpu_get_format_properties(usage) ==
  IF usage \in DOMAIN format_props THEN format_props[usage] ELSE Supported(usage)

(* GpuFormatSet::get and gpu_intersect_format_modifiers, whose "continue"  *)
(* leaves the inner loop's round only: the first set is not narrowed.      *)
gpu_intersect_format_modifiers(first, rest) == first

-------------------------------------------------------------------------------
(* Creating.                                                               *)

(* gpu_image_init: only images that shaders read get a descriptor; the     *)
(* layout transition is recorded.                                          *)
gpu_image_init(i, usage) ==
  /\ IF "texture" \in usage
     THEN \E n \in FreeIds("image") : gpu_allocate_descriptor("image", i, n)
     ELSE UNCHANGED <<allocators, set, id>>
  /\ commands' = gpu_protect(commands, {i})

CreateImage(i, usage, modifier) ==
  /\ i \in Image \ live
  /\ live' = live \cup {i}
  /\ owned' = owned \cup {i}
  /\ layout' = [layout EXCEPT ![i] = modifier]
  /\ usage_of' = [usage_of EXCEPT ![i] = usage]
  /\ gpu_image_init(i, usage)
  /\ UNCHANGED <<submitted, ended>>

gpu_image_create(i, usage) == CreateImage(i, usage, Null) /\ UNCHANGED format_props

Known(usage) ==
  format_props' = [u \in DOMAIN format_props \cup {usage} |-> gpu_get_format_properties(u)]

(* A target of an output: the GPU picks one of the modifiers given.        *)
gpu_image_create_dmabuf(i) ==
  \E modifier \in gpu_intersect_format_modifiers(gpu_get_format_properties({"render"}), Display) :
    CreateImage(i, {"render"}, modifier) /\ Known({"render"})

(* A client's buffer; refused (no image) unless the modifier can be used.  *)
gpu_image_import(i, modifier, usage) ==
  /\ modifier \in gpu_get_format_properties(usage)
  /\ CreateImage(i, usage, modifier)
  /\ Known(usage)

gpu_sampler_create(s) ==
  /\ s \in Sampler \ live
  /\ live' = live \cup {s}
  /\ owned' = owned \cup {s}
  /\ \E n \in FreeIds("sampler") : gpu_allocate_descriptor("sampler", s, n)
  /\ UNCHANGED <<layout, usage_of, commands, submitted, format_props, ended>>

-------------------------------------------------------------------------------
(* Using.                                                                  *)

(* The last reference that is not held by commands goes.                   *)
release(o) ==
  /\ o \in owned
  /\ owned' = owned \ {o}
  /\ Destroy(owned', commands, submitted)
  /\ UNCHANGED <<commands, submitted, ended>>

(* gpu_copy_memory_to_image: once the function is left, the commands alone *)
(* hold the staging buffer.                                                *)
gpu_copy_memory_to_image(i, b) ==
  /\ i \in owned \cap Image /\ b \in Buffer \ live
  /\ live' = live \cup {b}
  /\ commands' = Reading(gpu_protect(commands, {i, b}), {i, b})
  /\ UNCHANGED <<id, layout, usage_of, allocators, set, owned, submitted, format_props, ended>>

\* Mutant: the target is protected, the images that are drawn are not.
RenderUnprotected(target, images) ==
  /\ target \in owned \cap Image /\ usage_of[target] = {"render"}
  /\ images \subseteq {i \in owned \cap Image : id[i] # 0}
  /\ commands' = Reading(gpu_protect(commands, {target}), {target} \cup images)
  /\ UNCHANGED <<live, id, layout, usage_of, allocators, set, owned, submitted, format_props, ended>>

(* gpu_render with the draws of scene_render; samplers are not protected,  *)
(* their owners live longer than any frame.                                *)
gpu_render(target, images) ==
  /\ target \in owned \cap Image /\ usage_of[target] = {"render"}
  /\ images \subseteq {i \in owned \cap Image : id[i] # 0}
  /\ commands' = Reading(gpu_protect(commands, {target} \cup images), {target} \cup images)
  /\ UNCHANGED <<live, id, layout, usage_of, allocators, set, owned, submitted, format_props, ended>>

gpu_flush ==
  /\ commands.begun /\ Len(submitted) < MaxQueue
  /\ submitted' = Append(submitted, commands)
  /\ commands' = NoCommands
  /\ UNCHANGED <<live, id, layout, usage_of, allocators, set, owned, format_props, ended>>

(* The oldest commands have finished; the callback with them is destroyed. *)
Finished ==
  /\ submitted # <<>>
  /\ submitted' = Tail(submitted)
  /\ Destroy(owned, commands, submitted')
  /\ UNCHANGED <<owned, commands, ended>>

(* The shell lets everything go.  The queue's syncobj drops its callbacks, *)
(* and with them the commands and what they hold, without waiting for the  *)
(* GPU, which still works on them; commands that are recorded stay.        *)
Shutdown ==
  /\ ~ended
  /\ ended' = TRUE
  /\ owned' = {}
  /\ Destroy({}, commands, <<>>)
  /\ UNCHANGED <<commands, submitted>>

-------------------------------------------------------------------------------
Create ==
  \/ \E i \in Image, usage \in Usages : gpu_image_create(i, usage)
  \/ \E i \in Image : gpu_image_create_dmabuf(i)
  \/ \E i \in Image, modifier \in Modifier, usage \in Usages : gpu_image_import(i, modifier, usage)
  \/ \E s \in Sampler : gpu_sampler_create(s)

Use ==
  \/ \E o \in Object : release(o)
  \/ \E i \in Image, b \in Buffer : gpu_copy_memory_to_image(i, b)
  \/ \E target \in Image, images \in SUBSET Image : gpu_render(target, images)
  \/ gpu_flush

Next ==
  \/ ~ended /\ (Create \/ Use \/ Finished)
  \/ Shutdown

Spec == Init /\ [][Next]_vars

-------------------------------------------------------------------------------
(* Properties.                                                             *)

Commands ==
  [begun : BOOLEAN, objects : SUBSET Object, reads : SUBSET [object : Object, id : Nat]]

TypeOK ==
  /\ live \subseteq Object /\ owned \subseteq Object
  /\ id \in [Object -> Nat]
  /\ layout \in [Image -> Modifier \cup {Null}]
  /\ usage_of \in [Image -> SUBSET {"texture", "render"}]
  /\ allocators \in [Pool -> [freelist : SUBSET Nat, last_id : Nat]]
  /\ set = [p \in Pool |-> set[p]]
  /\ \A p \in Pool : set[p] \in [0 .. max_id[p] - 1 -> Object \cup {Null}]
  /\ commands \in Commands
  /\ submitted \in Seq(Commands)
  /\ DOMAIN format_props \subseteq Usages
  /\ \A u \in DOMAIN format_props : format_props[u] \subseteq Modifier
  /\ ended \in BOOLEAN

PoolOf(o) == IF o \in Image THEN "image" ELSE "sampler"

\* Objects with a descriptor of the pool.
WithId(p) == {o \in live : PoolOf(o) = p /\ id[o] # 0}

(* Every id given out so far is either free or the descriptor of one       *)
(* object that exists, and none is lost (GpuDescriptorIdAllocator with the *)
(* constructors and destructors that use it); at the ids of objects the    *)
(* set has these objects, except at the last id, max_id, for which it has  *)
(* no element (a deviation that the README lists); and all types hold.     *)
IdsPartitioned ==
  /\ TypeOK
  /\ \A p \in Pool :
       /\ allocators[p].last_id <= max_id[p]
       /\ {id[o] : o \in WithId(p)} \cup allocators[p].freelist = 1 .. allocators[p].last_id
       /\ {id[o] : o \in WithId(p)} \cap allocators[p].freelist = {}
       /\ \A o1, o2 \in WithId(p) : id[o1] = id[o2] => o1 = o2
       /\ \A o \in WithId(p) : id[o] = max_id[p] \/ set[p][id[o]] = o

Pending == {submitted[k] : k \in DOMAIN submitted} \cup {commands}

(* Until the program ends, whatever recorded or submitted commands read    *)
(* exists, and under the id the draw was recorded with the descriptor set  *)
(* still has it, if it has an element for that id: nothing reuses an id or *)
(* memory the GPU reads (gpu_protect).  At the end ~Gpu does not wait for  *)
(* the GPU, a deviation that the README lists.                             *)
InFlightIntact ==
  ~ended => \A cmds \in Pending : \A read \in cmds.reads :
    /\ read.object \in live
    /\ id[read.object] = read.id
    /\ LET array == set[PoolOf(read.object)]
       IN  read.id \in DOMAIN array \ {0} => array[read.id] = read.object

(* Images for or from other devices have a modifier with all features that *)
(* their usage needs, also when the answer was cached for another usage.   *)
LayoutUsable ==
  \A i \in live \cap Image : layout[i] # Null => usage_of[i] \subseteq Features[layout[i]]
===============================================================================
