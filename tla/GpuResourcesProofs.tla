-------------------------- MODULE GpuResourcesProofs --------------------------
(***************************************************************************)
(* Proofs about GpuResources, for any numbers of objects and descriptors,  *)
(* any driver and queues of any length.                                    *)
(***************************************************************************)
EXTENDS GpuResources, TLAPS

(* Only what exists has an id; each pool's ids up to the last one are free *)
(* or that of one object, which the descriptor set has at that id, if it   *)
(* has an element for it: max_id is one past the end.                      *)
Ids ==
  /\ \A o \in Object : id[o] # 0 => o \in live /\ o \notin Buffer
  /\ \A p \in Pool :
       /\ allocators[p].last_id <= max_id[p]
       /\ allocators[p].freelist \subseteq 1 .. allocators[p].last_id
       /\ \A o \in WithId(p) :
            /\ id[o] \in 1 .. allocators[p].last_id
            /\ id[o] \notin allocators[p].freelist
            /\ id[o] # max_id[p] => set[p][id[o]] = o
       /\ \A n \in 1 .. allocators[p].last_id :
            n \in allocators[p].freelist \/ \E o \in WithId(p) : id[o] = n
       /\ \A o1, o2 \in WithId(p) : id[o1] = id[o2] => o1 = o2

(* Commands hold objects that exist, among them all that they read; those  *)
(* the GPU works on do so until the program ends.                          *)
Held(cmds, objects, ids) ==
  /\ cmds \in Commands
  /\ cmds.objects \subseteq objects
  /\ \A read \in cmds.reads : read.object \in cmds.objects /\ ids[read.object] = read.id

References ==
  /\ owned \subseteq live
  /\ Held(commands, live, id)
  /\ ~ended => \A k \in DOMAIN submitted : Held(submitted[k], live, id)

(* The cache answers as the driver would.                                  *)
Formats ==
  /\ \A u \in DOMAIN format_props : format_props[u] = Supported(u)
  /\ \A i \in Image : layout[i] # Null => usage_of[i] \subseteq Features[layout[i]]

IInv == TypeOK /\ Ids /\ References /\ Formats

-------------------------------------------------------------------------------
(* The invariant holds initially.                                          *)
LEMMA InitIInv == Init => IInv
<1> SUFFICES ASSUME Init PROVE IInv
  OBVIOUS
<1> USE DEF Init
<1>1. TypeOK
  <2>1. NoCommands \in Commands
    BY DEF NoCommands, Commands
  <2>2. allocators \in [Pool -> [freelist : SUBSET Nat, last_id : Nat]]
    OBVIOUS
  <2>3. \A p \in Pool : set[p] \in [0 .. max_id[p] - 1 -> Object \cup {Null}]
    BY IdAssumption
  <2>4. DOMAIN format_props = {}
    OBVIOUS
  <2>5. submitted \in Seq(Commands)
    OBVIOUS
  <2>6. QED
    BY <2>1, <2>2, <2>3, <2>4, <2>5 DEF TypeOK
<1>2. Ids
  BY IdAssumption DEF Ids, WithId, Pool
<1>3. References
  <2>1. NoCommands \in Commands
    BY DEF NoCommands, Commands
  <2>2. QED
    BY <2>1 DEF References, Held, NoCommands
<1>4. Formats
  BY DEF Formats
<1>5. QED
  BY <1>1, <1>2, <1>3, <1>4 DEF IInv

(* Allocating takes an id that nobody has.                                 *)
LEMMA AllocateKeepsIds ==
  ASSUME IInv, NEW p \in Pool, NEW o \in (Image \cup Sampler) \ live, PoolOf(o) = p,
         NEW n, gpu_allocate_descriptor(p, o, n), live' = live \cup {o}
  PROVE  /\ Ids'
         /\ id' \in [Object -> Nat]
         /\ allocators' \in [Pool -> [freelist : SUBSET Nat, last_id : Nat]]
         /\ set' = [q \in Pool |-> set'[q]]
         /\ \A q \in Pool : set'[q] \in [0 .. max_id[q] - 1 -> Object \cup {Null}]
         /\ \A x \in live : id'[x] = id[x]
<1> DEFINE a == allocators[p]
<1> USE ObjectAssumption, IdAssumption
<1>1. o \in Object /\ o \notin Buffer /\ id[o] = 0
  BY DEF Object, Ids, IInv
<1>2. a \in [freelist : SUBSET Nat, last_id : Nat] /\ max_id[p] \in Nat
  BY DEF IInv, TypeOK
<1>3. n \in FreeIds(p) /\ n \in 1 .. max_id[p] /\ n \in Nat
  <2>1. CASE a.freelist # {}
    BY <1>2, <2>1 DEF gpu_allocate_descriptor, Allocate, FreeIds, Ids, IInv
  <2>2. CASE a.freelist = {}
    BY <1>2, <2>2 DEF gpu_allocate_descriptor, Allocate, FreeIds, Ids, IInv
  <2>3. QED
    BY <2>1, <2>2
<1>4. /\ id' = [id EXCEPT ![o] = n]
      /\ id' \in [Object -> Nat]
      /\ id'[o] = n
      /\ \A x \in Object : x # o => id'[x] = id[x]
  BY <1>1, <1>3 DEF gpu_allocate_descriptor, IInv, TypeOK
<1>5. /\ set' = [q \in Pool |-> set'[q]]
      /\ \A q \in Pool : set'[q] \in [0 .. max_id[q] - 1 -> Object \cup {Null}]
      /\ n # max_id[p] => set'[p][n] = o
      /\ \A k \in 1 .. max_id[p] : k # n => set'[p][k] = set[p][k]
      /\ \A q \in Pool : q # p => set'[q] = set[q]
  <2>1. /\ set = [q \in Pool |-> set[q]]
        /\ \A q \in Pool : set[q] \in [0 .. max_id[q] - 1 -> Object \cup {Null}]
        /\ max_id[p] \in Nat
    BY DEF IInv, TypeOK
  <2>2. CASE n \in DOMAIN set[p]
    <3>1. set' = [set EXCEPT ![p] = [set[p] EXCEPT ![n] = o]]
      BY <2>2 DEF gpu_allocate_descriptor
    <3>2. [set[p] EXCEPT ![n] = o] \in [0 .. max_id[p] - 1 -> Object \cup {Null}]
      BY <1>1, <2>1
    <3>3. set' = [q \in Pool |-> set'[q]] /\ set'[p] = [set[p] EXCEPT ![n] = o]
          /\ \A q \in Pool : q # p => set'[q] = set[q]
      BY <2>1, <3>1
    <3>4. set[p][n] = set[p][n] /\ set'[p][n] = o
      BY <2>2, <3>3
    <3>5. \A k \in 1 .. max_id[p] : k # n => set'[p][k] = set[p][k]
      BY <2>1, <3>3
    <3>6. QED
      BY <2>1, <3>2, <3>3, <3>4, <3>5
  <2>3. CASE n \notin DOMAIN set[p]
    <3>1. set' = set
      BY <2>3 DEF gpu_allocate_descriptor
    <3>2. n = max_id[p]
      BY <1>3, <2>1, <2>3
    <3>3. QED
      BY <2>1, <3>1, <3>2
  <2>4. QED
    BY <2>2, <2>3
<1>6. /\ allocators' \in [Pool -> [freelist : SUBSET Nat, last_id : Nat]]
      /\ \A q \in Pool : q # p => allocators'[q] = allocators[q]
      /\ \/ /\ n \in a.freelist
            /\ allocators'[p].freelist = a.freelist \ {n}
            /\ allocators'[p].last_id = a.last_id
         \/ /\ a.freelist = {} /\ n = a.last_id + 1
            /\ allocators'[p].freelist = {}
            /\ allocators'[p].last_id = n
  <2>1. CASE a.freelist # {}
    <3>1. allocators' = [allocators EXCEPT ![p] = [a EXCEPT !.freelist = a.freelist \ {n}]]
      BY <2>1 DEF gpu_allocate_descriptor, Allocate
    <3>2. [a EXCEPT !.freelist = a.freelist \ {n}] \in [freelist : SUBSET Nat, last_id : Nat]
      BY <1>2
    <3>3. QED
      BY <1>2, <1>3, <2>1, <3>1, <3>2 DEF FreeIds, IInv, TypeOK
  <2>2. CASE a.freelist = {}
    <3>1. allocators' = [allocators EXCEPT ![p] = [a EXCEPT !.last_id = n]]
      BY <2>2 DEF gpu_allocate_descriptor, Allocate
    <3>2. [a EXCEPT !.last_id = n] \in [freelist : SUBSET Nat, last_id : Nat]
      BY <1>2, <1>3
    <3>3. QED
      BY <1>2, <1>3, <2>2, <3>1, <3>2 DEF FreeIds, IInv, TypeOK
  <2>3. QED
    BY <2>1, <2>2
<1>7. WithId(p)' = WithId(p) \cup {o} /\ \A q \in Pool : q # p => WithId(q)' = WithId(q)
  BY <1>1, <1>3, <1>4 DEF WithId, PoolOf, Object
<1>8. \A x \in WithId(p) : id[x] # n
  BY <1>2, <1>6 DEF Ids, IInv
<1>9. Ids'
  <2>1. \A x \in Object : id'[x] # 0 => x \in live' /\ x \notin Buffer
    BY <1>1, <1>4 DEF Ids, IInv
  <2>2. ASSUME NEW q \in Pool, q # p
        PROVE  /\ allocators'[q].last_id <= max_id[q]
               /\ allocators'[q].freelist \subseteq 1 .. allocators'[q].last_id
               /\ \A x \in WithId(q)' :
                    /\ id'[x] \in 1 .. allocators'[q].last_id
                    /\ id'[x] \notin allocators'[q].freelist
                    /\ id'[x] # max_id[q] => set'[q][id'[x]] = x
               /\ \A k \in 1 .. allocators'[q].last_id :
                    k \in allocators'[q].freelist \/ \E x \in WithId(q)' : id'[x] = k
               /\ \A x, y \in WithId(q)' : id'[x] = id'[y] => x = y
    <3>1. o \notin WithId(q)
      BY <2>2 DEF WithId
    <3>2. \A x \in WithId(q) : id'[x] = id[x]
      BY <1>4, <3>1 DEF WithId
    <3>3. WithId(q)' = WithId(q) /\ allocators'[q] = allocators[q] /\ set'[q] = set[q]
      BY <1>5, <1>6, <1>7, <2>2
    <3>4. QED
      BY <3>2, <3>3 DEF Ids, IInv
  <2>3. /\ allocators'[p].last_id <= max_id[p]
        /\ allocators'[p].freelist \subseteq 1 .. allocators'[p].last_id
    BY <1>2, <1>3, <1>6 DEF Ids, IInv
  <2>4. ASSUME NEW x \in WithId(p)'
        PROVE  /\ id'[x] \in 1 .. allocators'[p].last_id
               /\ id'[x] \notin allocators'[p].freelist
               /\ id'[x] # max_id[p] => set'[p][id'[x]] = x
    <3>1. CASE x = o
      BY <1>2, <1>3, <1>4, <1>5, <1>6, <3>1 DEF Ids, IInv
    <3>2. CASE x # o
      <4>1. x \in WithId(p) /\ id'[x] = id[x] /\ id[x] # n
        BY <1>4, <1>7, <1>8, <3>2 DEF WithId
      <4>2. /\ id[x] \in 1 .. a.last_id /\ id[x] \notin a.freelist
            /\ id[x] \in 1 .. max_id[p] /\ (id[x] # max_id[p] => set[p][id[x]] = x)
        BY <1>2, <4>1 DEF Ids, IInv
      <4>3. QED
        BY <1>2, <1>5, <1>6, <4>1, <4>2
    <3>3. QED
      BY <3>1, <3>2
  <2>5. ASSUME NEW k \in 1 .. allocators'[p].last_id, k \notin allocators'[p].freelist
        PROVE  \E x \in WithId(p)' : id'[x] = k
    <3>1. CASE k = n
      BY <1>4, <1>7, <3>1
    <3>2. CASE k # n
      <4>1. k \in 1 .. a.last_id /\ k \notin a.freelist
        BY <1>2, <1>6, <2>5, <3>2
      <4>2. PICK x \in WithId(p) : id[x] = k
        BY <4>1 DEF Ids, IInv
      <4>3. x # o /\ x \in Object
        BY <4>2 DEF WithId, IInv, TypeOK
      <4>4. QED
        BY <1>4, <1>7, <4>2, <4>3
    <3>3. QED
      BY <3>1, <3>2
  <2>6. ASSUME NEW x \in WithId(p)', NEW y \in WithId(p)', id'[x] = id'[y]
        PROVE  x = y
    <3>1. \A z \in WithId(p) : z # o /\ z \in Object /\ id'[z] = id[z] /\ id[z] # n
      BY <1>1, <1>4, <1>8 DEF WithId, IInv, TypeOK
    <3>2. id'[o] = n
      BY <1>4
    <3>3. x \in WithId(p) \cup {o} /\ y \in WithId(p) \cup {o}
      BY <1>7
    <3>4. CASE x \in WithId(p) /\ y \in WithId(p)
      BY <2>6, <3>1, <3>4 DEF Ids, IInv
    <3>5. QED
      BY <2>6, <3>1, <3>2, <3>3, <3>4
  <2>7. QED
    BY <2>1, <2>2, <2>3, <2>4, <2>5, <2>6 DEF Ids
<1>10. QED
  BY <1>4, <1>5, <1>6, <1>9 DEF Object

(* A new object without an id changes no id.                               *)
LEMMA AddKeepsIds ==
  ASSUME IInv, NEW o \in Object \ live, live' = live \cup {o}, UNCHANGED <<id, allocators, set>>
  PROVE  Ids'
<1>1. id[o] = 0
  BY DEF IInv, Ids
<1>2. \A p \in Pool : WithId(p)' = WithId(p)
  BY <1>1 DEF WithId, PoolOf
<1>3. \A x \in Object : id'[x] # 0 => x \in live' /\ x \notin Buffer
  BY DEF IInv, Ids
<1>4. ASSUME NEW p \in Pool
      PROVE  /\ allocators'[p].last_id <= max_id[p]
             /\ allocators'[p].freelist \subseteq 1 .. allocators'[p].last_id
             /\ \A x \in WithId(p)' :
                  /\ id'[x] \in 1 .. allocators'[p].last_id
                  /\ id'[x] \notin allocators'[p].freelist
                  /\ id'[x] # max_id[p] => set'[p][id'[x]] = x
             /\ \A n \in 1 .. allocators'[p].last_id :
                  n \in allocators'[p].freelist \/ \E x \in WithId(p)' : id'[x] = n
             /\ \A x, y \in WithId(p)' : id'[x] = id'[y] => x = y
  BY <1>2 DEF IInv, Ids
<1>5. QED
  BY <1>3, <1>4 DEF Ids

(* What is destroyed has no references left, and gives back its own id.    *)
LEMMA DestroyKeepsIInv ==
  ASSUME IInv, NEW own \in SUBSET owned, NEW subs \in Seq(Commands),
         \A k \in DOMAIN subs : \E j \in DOMAIN submitted : subs[k] = submitted[j],
         Destroy(own, commands, subs), ~ended,
         owned' = own, commands' = commands, submitted' \in Seq(Commands),
         ended' \in BOOLEAN, ~ended' => submitted' = subs
  PROVE  IInv'
<1> DEFINE dead == live \ (own \cup InCommands(commands, subs))
<1> USE ObjectAssumption, IdAssumption
<1>1. /\ live' = live \ dead
      /\ id' = [o \in Object |-> IF o \in dead THEN 0 ELSE id[o]]
      /\ allocators' = [p \in Pool |->
           [allocators[p] EXCEPT !.freelist = allocators[p].freelist \cup Freed(p, dead)]]
      /\ UNCHANGED <<layout, usage_of, set, format_props>>
      /\ dead \subseteq live
      /\ dead \cap own = {} /\ dead \cap InCommands(commands, subs) = {}
  BY DEF Destroy
<1> HIDE DEF dead
<1>2. live \subseteq Object /\ id \in [Object -> Nat] /\ id' \in [Object -> Nat]
  BY <1>1 DEF IInv, TypeOK
<1>3. \A o \in live' : o \in live /\ o \notin dead /\ id'[o] = id[o]
  BY <1>1, <1>2
<1>4. ASSUME NEW p \in Pool
      PROVE  /\ WithId(p)' = WithId(p) \ dead
             /\ \A n : n \in Freed(p, dead) <=> \E o \in WithId(p) \cap dead : id[o] = n
             /\ Freed(p, dead) \subseteq Nat
  <2>1. \A o \in Object : id[o] # 0 => o \in live /\ o \notin Buffer
    BY DEF IInv, Ids
  <2>2. WithId(p)' = WithId(p) \ dead
    BY <1>1, <1>2, <1>3 DEF WithId, PoolOf
  <2>3. ASSUME NEW o \in dead, id[o] # 0
        PROVE  o \in WithId(p) <=> o \in (IF p = "image" THEN Image ELSE Sampler)
    BY <1>2, <2>1, <2>3 DEF WithId, PoolOf, Pool, Object
  <2>4. \A o \in WithId(p) : id[o] # 0
    BY DEF WithId
  <2>5. ASSUME NEW n
        PROVE  n \in Freed(p, dead) <=> \E o \in WithId(p) \cap dead : id[o] = n
    BY <2>3, <2>4 DEF Freed
  <2>6. WithId(p) \subseteq Object
    BY <1>2 DEF WithId
  <2>7. Freed(p, dead) \subseteq Nat
    BY <1>2, <2>5, <2>6
  <2>8. QED
    BY <2>2, <2>5, <2>7
<1>5. \A p \in Pool :
        /\ allocators'[p] \in [freelist : SUBSET Nat, last_id : Nat]
        /\ allocators'[p].last_id = allocators[p].last_id
        /\ allocators'[p].freelist = allocators[p].freelist \cup Freed(p, dead)
  BY <1>1, <1>4 DEF IInv, TypeOK
<1>6. TypeOK'
  <2>1. allocators' \in [Pool -> [freelist : SUBSET Nat, last_id : Nat]]
    BY <1>1, <1>5
  <2>2. live' \subseteq Object /\ owned' \subseteq Object
    BY <1>1, <1>2 DEF IInv, TypeOK
  <2>3. QED
    BY <1>1, <1>2, <2>1, <2>2 DEF IInv, TypeOK
<1>7. Ids'
  <2>1. \A x \in Object : id'[x] # 0 => x \in live' /\ x \notin Buffer
    BY <1>1, <1>2 DEF IInv, Ids
  <2>2. ASSUME NEW p \in Pool
        PROVE  /\ allocators'[p].last_id <= max_id[p]
               /\ allocators'[p].freelist \subseteq 1 .. allocators'[p].last_id
    <3>1. \A n \in Freed(p, dead) : n \in 1 .. allocators[p].last_id
      BY <1>4 DEF IInv, Ids
    <3>2. QED
      BY <1>5, <3>1 DEF IInv, Ids
  <2>3. ASSUME NEW p \in Pool, NEW x \in WithId(p)'
        PROVE  /\ id'[x] \in 1 .. allocators'[p].last_id
               /\ id'[x] \notin allocators'[p].freelist
               /\ id'[x] # max_id[p] => set'[p][id'[x]] = x
    <3>1. x \in WithId(p) /\ x \notin dead /\ id'[x] = id[x]
      BY <1>3, <1>4, <2>3 DEF WithId
    <3>2. \A y, z \in WithId(p) : id[y] = id[z] => y = z
      BY DEF IInv, Ids
    <3>3. id[x] \notin Freed(p, dead)
      BY <1>4, <3>1, <3>2
    <3>4. /\ id[x] \in 1 .. allocators[p].last_id
          /\ id[x] \notin allocators[p].freelist
          /\ id[x] # max_id[p] => set[p][id[x]] = x
      BY <3>1 DEF IInv, Ids
    <3>5. QED
      BY <1>1, <1>5, <3>1, <3>3, <3>4
  <2>4. ASSUME NEW p \in Pool, NEW n \in 1 .. allocators'[p].last_id,
               n \notin allocators'[p].freelist
        PROVE  \E x \in WithId(p)' : id'[x] = n
    <3>1. n \notin allocators[p].freelist /\ n \notin Freed(p, dead)
      BY <1>5, <2>4
    <3>2. PICK x \in WithId(p) : id[x] = n
      BY <1>5, <3>1 DEF IInv, Ids
    <3>3. x \in WithId(p)' /\ x \in live'
      BY <1>4, <3>1, <3>2 DEF WithId
    <3>4. QED
      BY <1>3, <3>2, <3>3
  <2>5. ASSUME NEW p \in Pool, NEW x \in WithId(p)', NEW y \in WithId(p)', id'[x] = id'[y]
        PROVE  x = y
    <3>1. x \in WithId(p) /\ y \in WithId(p) /\ id'[x] = id[x] /\ id'[y] = id[y]
      BY <1>3, <1>4, <2>5 DEF WithId
    <3>2. QED
      BY <2>5, <3>1 DEF IInv, Ids
  <2>6. QED
    BY <2>1, <2>2, <2>3, <2>4, <2>5 DEF Ids
<1>8. References'
  <2>1. own \subseteq live'
    BY <1>1 DEF IInv, References
  <2>2. ASSUME NEW cmds, Held(cmds, live, id), cmds.objects \subseteq InCommands(commands, subs)
        PROVE  Held(cmds, live', id')
    <3>1. cmds.objects \subseteq live'
      BY <1>1, <2>2 DEF Held
    <3>2. QED
      BY <1>3, <2>2, <3>1 DEF Held
  <2>3. Held(commands, live', id')
    BY <2>2 DEF InCommands, IInv, References
  <2>4. ASSUME NEW k \in DOMAIN subs
        PROVE  Held(subs[k], live', id')
    <3>1. Held(subs[k], live, id)
      BY DEF IInv, References
    <3>2. subs[k].objects \subseteq InCommands(commands, subs)
      BY DEF InCommands
    <3>3. QED
      BY <2>2, <3>1, <3>2
  <2>5. QED
    BY <2>1, <2>3, <2>4 DEF References
<1>9. Formats'
  BY <1>1 DEF IInv, Formats, Supported
<1>10. QED
  BY <1>6, <1>7, <1>8, <1>9 DEF IInv

(* Held commands stay so while objects are added and others get ids.       *)
LEMMA GrowKeepsHeld ==
  ASSUME NEW cmds, NEW objects, NEW ids, NEW objects2, NEW ids2,
         Held(cmds, objects, ids), objects \subseteq objects2,
         \A x \in objects : ids2[x] = ids[x]
  PROVE  Held(cmds, objects2, ids2)
BY DEF Held

(* Commands that protect more objects hold them.                           *)
LEMMA ProtectKeepsHeld ==
  ASSUME NEW cmds, NEW objects \in SUBSET Object, NEW ids, Held(cmds, objects, ids),
         NEW added \in SUBSET objects
  PROVE  /\ Held(gpu_protect(cmds, added), objects, ids)
         /\ gpu_protect(cmds, added).objects = cmds.objects \cup added
<1> DEFINE more == gpu_protect(cmds, added)
<1>1. cmds \in Commands
  BY DEF Held
<1>2. /\ more \in Commands
      /\ more.objects = cmds.objects \cup added
      /\ more.reads = cmds.reads
  BY <1>1 DEF gpu_protect, Commands
<1> HIDE DEF more
<1>3. Held(more, objects, ids)
  BY <1>2 DEF Held
<1>4. QED
  BY <1>2, <1>3 DEF more

(* Commands may read what they hold.                                       *)
LEMMA ReadingKeepsHeld ==
  ASSUME IInv, NEW cmds, NEW objects, objects \subseteq Object, Held(cmds, objects, id),
         NEW added \in SUBSET cmds.objects
  PROVE  Held(Reading(cmds, added), objects, id)
<1> DEFINE more == Reading(cmds, added)
           new == {[object |-> o, id |-> id[o]] : o \in added}
<1>1. cmds \in Commands /\ added \subseteq Object /\ id \in [Object -> Nat]
  BY DEF Held, IInv, TypeOK
<1>2. new \subseteq [object : Object, id : Nat]
  BY <1>1
<1>3. \A read \in new : read.object \in added /\ read.id = id[read.object]
  OBVIOUS
<1>4. more = [cmds EXCEPT !.reads = cmds.reads \cup new]
  BY DEF Reading
<1> HIDE DEF more, new
<1>5. /\ more \in Commands
      /\ more.objects = cmds.objects
      /\ more.reads = cmds.reads \cup new
  BY <1>1, <1>2, <1>4 DEF Commands
<1>6. \A read \in more.reads : read.object \in more.objects /\ id[read.object] = read.id
  BY <1>3, <1>5 DEF Held
<1>7. Held(more, objects, id)
  BY <1>5, <1>6 DEF Held
<1>8. QED
  BY <1>7 DEF more

-------------------------------------------------------------------------------
(* The steps.                                                              *)

(* Creating an image keeps the invariant.                                  *)
LEMMA CreateImageKeepsIInv ==
  ASSUME IInv, NEW i \in Image, NEW usage \in Usages, NEW modifier \in Modifier \cup {Null},
         modifier # Null => usage \subseteq Features[modifier],
         CreateImage(i, usage, modifier),
         DOMAIN format_props' \subseteq Usages,
         \A u \in DOMAIN format_props' :
           format_props'[u] \subseteq Modifier /\ format_props'[u] = Supported(u)
  PROVE  IInv'
<1> USE ObjectAssumption, IdAssumption
<1>1. i \in Object \ live /\ live' = live \cup {i} /\ live' \subseteq Object
  BY DEF CreateImage, Object, IInv, TypeOK
<1>2. /\ Ids'
      /\ id' \in [Object -> Nat]
      /\ allocators' \in [Pool -> [freelist : SUBSET Nat, last_id : Nat]]
      /\ set' = [q \in Pool |-> set'[q]]
      /\ \A q \in Pool : set'[q] \in [0 .. max_id[q] - 1 -> Object \cup {Null}]
      /\ \A x \in live : id'[x] = id[x]
  <2>1. CASE "texture" \in usage
    <3>1. PICK n \in FreeIds("image") : gpu_allocate_descriptor("image", i, n)
      BY <2>1 DEF CreateImage, gpu_image_init
    <3>2. "image" \in Pool /\ PoolOf(i) = "image"
      BY DEF Pool, PoolOf
    <3>3. QED
      BY <1>1, <3>1, <3>2, AllocateKeepsIds
  <2>2. CASE "texture" \notin usage
    <3>1. UNCHANGED <<allocators, set, id>>
      BY <2>2 DEF CreateImage, gpu_image_init
    <3>2. Ids'
      BY <1>1, <3>1, AddKeepsIds
    <3>3. QED
      BY <3>1, <3>2 DEF IInv, TypeOK
  <2>3. QED
    BY <2>1, <2>2
<1>3. References'
  <2>1. /\ Held(commands, live', id')
        /\ ~ended => \A k \in DOMAIN submitted : Held(submitted[k], live', id')
    <3>1. live \subseteq live'
      BY <1>1
    <3>2. /\ Held(commands, live, id)
          /\ ~ended => \A k \in DOMAIN submitted : Held(submitted[k], live, id)
      BY DEF IInv, References
    <3>3. ASSUME NEW cmds, Held(cmds, live, id)
          PROVE  Held(cmds, live', id')
      BY <1>2, <3>1, <3>3, GrowKeepsHeld
    <3>4. QED
      BY <3>2, <3>3
  <2>2. commands' = gpu_protect(commands, {i}) /\ submitted' = submitted /\ ended' = ended
    BY DEF CreateImage, gpu_image_init
  <2>3. Held(commands', live', id')
    BY <1>1, <2>1, <2>2, ProtectKeepsHeld
  <2>4. owned' \subseteq live'
    BY <1>1 DEF CreateImage, IInv, References
  <2>5. QED
    BY <2>1, <2>2, <2>3, <2>4 DEF References
<1>4. TypeOK'
  <2>1. commands' \in Commands
    BY <1>3 DEF References, Held
  <2>2. /\ layout' \in [Image -> Modifier \cup {Null}]
        /\ usage_of' \in [Image -> SUBSET {"texture", "render"}]
    BY DEF CreateImage, Usages, IInv, TypeOK
  <2>3. owned' \subseteq Object /\ submitted' \in Seq(Commands) /\ ended' \in BOOLEAN
    BY <1>1 DEF CreateImage, IInv, TypeOK
  <2>4. QED
    BY <1>1, <1>2, <2>1, <2>2, <2>3 DEF TypeOK
<1>5. Formats'
  <2>1. \A u : Supported(u)' = Supported(u)
    BY DEF Supported
  <2>2. layout'[i] = modifier /\ usage_of'[i] = usage
    BY DEF CreateImage, IInv, TypeOK
  <2>3. \A x \in Image : x # i => layout'[x] = layout[x] /\ usage_of'[x] = usage_of[x]
    BY DEF CreateImage, IInv, TypeOK
  <2>4. QED
    BY <2>1, <2>2, <2>3 DEF IInv, Formats
<1>6. QED
  BY <1>2, <1>3, <1>4, <1>5 DEF IInv

(* What the cache answers is what the driver would.                        *)
LEMMA AnswersAreSupported ==
  ASSUME IInv, NEW usage
  PROVE  gpu_get_format_properties(usage) = Supported(usage)
BY DEF gpu_get_format_properties, IInv, Formats

(* Asking for the properties of a format remembers them.                   *)
LEMMA KnownKeepsFormats ==
  ASSUME IInv, NEW usage \in Usages, Known(usage)
  PROVE  /\ DOMAIN format_props' \subseteq Usages
         /\ \A u \in DOMAIN format_props' :
              format_props'[u] \subseteq Modifier /\ format_props'[u] = Supported(u)
<1>1. \A u : Supported(u) \subseteq Modifier
  BY DEF Supported
<1>2. QED
  BY <1>1, AnswersAreSupported DEF Known, IInv, TypeOK

(* Creating objects keeps the invariant.                                   *)
LEMMA CreateKeepsIInv == IInv /\ Create => IInv'
<1> SUFFICES ASSUME IInv, Create PROVE IInv'
  OBVIOUS
<1> USE ObjectAssumption
<1>1. {"render"} \in Usages
  BY DEF Usages
<1>2. \A usage \in Usages : \A modifier \in Supported(usage) :
        modifier \in Modifier /\ usage \subseteq Features[modifier]
  BY DEF Supported
<1>3. CASE \E i \in Image, usage \in Usages : gpu_image_create(i, usage)
  <2>1. PICK i \in Image, usage \in Usages : gpu_image_create(i, usage)
    BY <1>3
  <2>2. \A u \in DOMAIN format_props : format_props[u] \subseteq Modifier /\ format_props[u] = Supported(u)
    BY DEF IInv, TypeOK, Formats
  <2>3. QED
    BY <2>1, <2>2, CreateImageKeepsIInv DEF gpu_image_create, IInv, TypeOK
<1>4. CASE \E i \in Image : gpu_image_create_dmabuf(i)
  <2>1. PICK i \in Image, modifier \in Supported({"render"}) :
          CreateImage(i, {"render"}, modifier) /\ Known({"render"})
    BY <1>4, AnswersAreSupported DEF gpu_image_create_dmabuf, gpu_intersect_format_modifiers
  <2>2. QED
    BY <1>1, <1>2, <2>1, KnownKeepsFormats, CreateImageKeepsIInv
<1>5. CASE \E i \in Image, modifier \in Modifier, usage \in Usages :
             gpu_image_import(i, modifier, usage)
  <2>1. PICK i \in Image, modifier \in Modifier, usage \in Usages :
          gpu_image_import(i, modifier, usage)
    BY <1>5
  <2>2. usage \subseteq Features[modifier]
    BY <1>2, <2>1, AnswersAreSupported DEF gpu_image_import
  <2>3. QED
    BY <2>1, <2>2, KnownKeepsFormats, CreateImageKeepsIInv DEF gpu_image_import
<1>6. CASE \E s \in Sampler : gpu_sampler_create(s)
  <2>1. PICK s \in Sampler : gpu_sampler_create(s)
    BY <1>6
  <2>2. PICK n \in FreeIds("sampler") : gpu_allocate_descriptor("sampler", s, n)
    BY <2>1 DEF gpu_sampler_create
  <2>3. "sampler" \in Pool /\ PoolOf(s) = "sampler" /\ s \in Object \ live
    BY <2>1 DEF Pool, PoolOf, gpu_sampler_create, Object
  <2>4. live' = live \cup {s} /\ owned' = owned \cup {s}
    BY <2>1 DEF gpu_sampler_create
  <2>5. /\ Ids'
        /\ id' \in [Object -> Nat]
        /\ allocators' \in [Pool -> [freelist : SUBSET Nat, last_id : Nat]]
        /\ set' = [q \in Pool |-> set'[q]]
        /\ \A q \in Pool : set'[q] \in [0 .. max_id[q] - 1 -> Object \cup {Null}]
        /\ \A x \in live : id'[x] = id[x]
    BY <2>2, <2>3, <2>4, AllocateKeepsIds
  <2>6. UNCHANGED <<layout, usage_of, commands, submitted, format_props, ended>>
    BY <2>1 DEF gpu_sampler_create
  <2>7. References'
    <3>1. /\ Held(commands, live', id')
          /\ ~ended => \A k \in DOMAIN submitted : Held(submitted[k], live', id')
      BY <2>4, <2>5, GrowKeepsHeld DEF IInv, References
    <3>2. QED
      BY <2>4, <2>6, <3>1 DEF IInv, References
  <2>8. TypeOK'
    BY <2>3, <2>4, <2>5, <2>6 DEF IInv, TypeOK
  <2>9. Formats'
    BY <2>6 DEF IInv, Formats, Supported
  <2>10. QED
    BY <2>5, <2>7, <2>8, <2>9 DEF IInv
<1>7. QED
  BY <1>3, <1>4, <1>5, <1>6 DEF Create

(* Steps that only record commands, or hand them over.                     *)
LEMMA RecordKeepsIInv ==
  ASSUME IInv, UNCHANGED <<id, layout, usage_of, allocators, set, owned, format_props, ended>>,
         Ids', live \subseteq live', live' \subseteq Object,
         Held(commands', live', id), submitted' \in Seq(Commands),
         ~ended => \A k \in DOMAIN submitted' : Held(submitted'[k], live', id)
  PROVE  IInv'
<1>1. TypeOK'
  BY DEF IInv, TypeOK, Held
<1>2. References'
  BY DEF IInv, References
<1>3. Formats'
  BY DEF IInv, Formats, Supported
<1>4. QED
  BY <1>1, <1>2, <1>3 DEF IInv

(* gpu_copy_memory_to_image keeps the invariant.                           *)
LEMMA CopyKeepsIInv ==
  ASSUME IInv, NEW i \in Image, NEW b \in Buffer, gpu_copy_memory_to_image(i, b)
  PROVE  IInv'
<1>1. /\ b \in Object \ live /\ i \in live
      /\ live' = live \cup {b} /\ live' \subseteq Object
      /\ UNCHANGED <<id, layout, usage_of, allocators, set, owned, submitted, format_props, ended>>
  BY DEF gpu_copy_memory_to_image, Object, IInv, TypeOK, References
<1>2. Ids'
  BY <1>1, AddKeepsIds
<1>3. /\ Held(commands, live', id)
      /\ ~ended => \A k \in DOMAIN submitted : Held(submitted[k], live', id)
  BY <1>1, GrowKeepsHeld DEF IInv, References
<1>4. /\ Held(gpu_protect(commands, {i, b}), live', id)
      /\ {i, b} \subseteq gpu_protect(commands, {i, b}).objects
  <2>1. {i, b} \in SUBSET live' /\ live' \in SUBSET Object
    BY <1>1
  <2>2. /\ Held(gpu_protect(commands, {i, b}), live', id)
        /\ gpu_protect(commands, {i, b}).objects = commands.objects \cup {i, b}
    BY <1>3, <2>1, ProtectKeepsHeld
  <2>3. QED
    BY <2>2
<1>5. Held(commands', live', id)
  BY <1>1, <1>4, ReadingKeepsHeld DEF gpu_copy_memory_to_image
<1>6. QED
  BY <1>1, <1>2, <1>3, <1>5, RecordKeepsIInv DEF IInv, TypeOK

(* Rendering keeps the invariant.                                          *)
LEMMA RenderKeepsIInv ==
  ASSUME IInv, NEW target \in Image, NEW images \in SUBSET Image, gpu_render(target, images)
  PROVE  IInv'
<1> DEFINE used == {target} \cup images
<1>1. /\ used \subseteq live /\ live \subseteq Object
      /\ UNCHANGED <<live, id, layout, usage_of, allocators, set, owned, submitted,
                     format_props, ended>>
      /\ commands' = Reading(gpu_protect(commands, used), used)
  BY DEF gpu_render, IInv, TypeOK, References
<1> HIDE DEF used
<1>2. Held(gpu_protect(commands, used), live, id) /\ used \subseteq gpu_protect(commands, used).objects
  BY <1>1, ProtectKeepsHeld DEF IInv, References
<1>3. Held(commands', live, id)
  BY <1>1, <1>2, ReadingKeepsHeld
<1>4. Ids'
  BY <1>1 DEF IInv, Ids, WithId, PoolOf
<1>5. ~ended => \A k \in DOMAIN submitted : Held(submitted[k], live, id)
  BY DEF IInv, References
<1>6. QED
  BY <1>1, <1>3, <1>4, <1>5, RecordKeepsIInv DEF IInv, TypeOK

(* gpu_flush keeps the invariant.                                          *)
LEMMA FlushKeepsIInv == IInv /\ gpu_flush => IInv'
<1> SUFFICES ASSUME IInv, gpu_flush PROVE IInv'
  OBVIOUS
<1>1. /\ UNCHANGED <<live, id, layout, usage_of, allocators, set, owned, format_props, ended>>
      /\ commands' = NoCommands
      /\ submitted' = Append(submitted, commands)
      /\ commands \in Commands /\ submitted \in Seq(Commands) /\ live \subseteq Object
  BY DEF gpu_flush, IInv, TypeOK
<1>2. Held(NoCommands, live, id)
  <2>1. NoCommands \in Commands
    BY DEF NoCommands, Commands
  <2>2. QED
    BY <2>1 DEF Held, NoCommands
<1>3. submitted' \in Seq(Commands)
  BY <1>1
<1>4. ASSUME NEW k \in DOMAIN submitted', ~ended
      PROVE  Held(submitted'[k], live, id)
  <2>1. submitted'[k] = commands \/ \E j \in DOMAIN submitted : submitted'[k] = submitted[j]
    BY <1>1, <1>4
  <2>2. QED
    BY <1>4, <2>1 DEF IInv, References
<1>5. Ids'
  BY <1>1 DEF IInv, Ids, WithId, PoolOf
<1>6. QED
  BY <1>1, <1>2, <1>3, <1>4, <1>5, RecordKeepsIInv

(* Every step keeps the invariant.                                         *)
LEMMA NextKeepsIInv == IInv /\ [Next]_vars => IInv'
<1> SUFFICES ASSUME IInv, [Next]_vars PROVE IInv'
  OBVIOUS
<1>1. submitted \in Seq(Commands) /\ ended \in BOOLEAN
  BY DEF IInv, TypeOK
<1>2. CASE Create
  BY <1>2, CreateKeepsIInv
<1>3. CASE ~ended /\ \E o \in Object : release(o)
  <2>1. PICK o \in Object : release(o)
    BY <1>3
  <2>2. QED
    BY <1>1, <1>3, <2>1, DestroyKeepsIInv DEF release
<1>4. CASE \E i \in Image, b \in Buffer : gpu_copy_memory_to_image(i, b)
  BY <1>4, CopyKeepsIInv
<1>5. CASE \E target \in Image, images \in SUBSET Image : gpu_render(target, images)
  BY <1>5, RenderKeepsIInv
<1>6. CASE gpu_flush
  BY <1>6, FlushKeepsIInv
<1>7. CASE ~ended /\ Finished
  <2>1. Tail(submitted) \in Seq(Commands)
    BY <1>1, <1>7 DEF Finished
  <2>2. \A k \in DOMAIN Tail(submitted) : \E j \in DOMAIN submitted : Tail(submitted)[k] = submitted[j]
    BY <1>1, <1>7 DEF Finished
  <2>3. QED
    BY <1>1, <1>7, <2>1, <2>2, DestroyKeepsIInv DEF Finished
<1>8. CASE Shutdown
  <2>1. /\ Destroy({}, commands, <<>>) /\ ~ended /\ ended' = TRUE
        /\ owned' = {} /\ commands' = commands /\ submitted' = submitted
    BY <1>8 DEF Shutdown
  <2>2. /\ <<>> \in Seq(Commands) /\ {} \in SUBSET owned
        /\ ended' \in BOOLEAN /\ submitted' \in Seq(Commands)
    BY <1>1, <2>1
  <2>3. \A k \in DOMAIN <<>> : \E j \in DOMAIN submitted : <<>>[k] = submitted[j]
    OBVIOUS
  <2>4. QED
    BY <2>1, <2>2, <2>3, DestroyKeepsIInv
<1>9. CASE UNCHANGED vars
  <2>1. TypeOK'
    BY <1>9 DEF vars, IInv, TypeOK
  <2>2. Ids'
    BY <1>9 DEF vars, IInv, Ids, WithId, PoolOf
  <2>3. References'
    BY <1>9 DEF vars, IInv, References
  <2>4. Formats'
    BY <1>9 DEF vars, IInv, Formats, Supported
  <2>5. QED
    BY <2>1, <2>2, <2>3, <2>4 DEF IInv
<1>10. QED
  BY <1>2, <1>3, <1>4, <1>5, <1>6, <1>7, <1>8, <1>9 DEF Next, Use

-------------------------------------------------------------------------------
(* The inductive invariant: who has which id, and who holds whom.          *)
THEOREM Invariance == Spec => []IInv
<1>1. IInv /\ [Next]_vars => IInv'
  BY NextKeepsIInv
<1>2. QED
  BY InitIInv, <1>1, PTL DEF Spec

(* For any numbers of objects and ids: an id is free or one object's, and  *)
(* none is lost by the allocators of descriptors.cpp and their users.      *)
THEOREM IdsArePartitioned == Spec => []IdsPartitioned
<1>1. IInv => IdsPartitioned
  <2> SUFFICES ASSUME IInv PROVE IdsPartitioned
    OBVIOUS
  <2>1. ASSUME NEW p \in Pool
        PROVE  /\ {id[o] : o \in WithId(p)} \cup allocators[p].freelist = 1 .. allocators[p].last_id
               /\ {id[o] : o \in WithId(p)} \cap allocators[p].freelist = {}
               /\ \A o1, o2 \in WithId(p) : id[o1] = id[o2] => o1 = o2
               /\ \A o \in WithId(p) : id[o] = max_id[p] \/ set[p][id[o]] = o
               /\ allocators[p].last_id <= max_id[p]
    <3>1. /\ allocators[p].last_id <= max_id[p]
          /\ allocators[p].freelist \subseteq 1 .. allocators[p].last_id
          /\ \A o \in WithId(p) : /\ id[o] \in 1 .. allocators[p].last_id
                                  /\ id[o] \notin allocators[p].freelist
                                  /\ id[o] = max_id[p] \/ set[p][id[o]] = o
          /\ \A o1, o2 \in WithId(p) : id[o1] = id[o2] => o1 = o2
          /\ \A n \in 1 .. allocators[p].last_id :
               n \in allocators[p].freelist \/ \E o \in WithId(p) : id[o] = n
      BY DEF IInv, Ids
    <3>2. {id[o] : o \in WithId(p)} \cup allocators[p].freelist = 1 .. allocators[p].last_id
      BY <3>1
    <3>3. QED
      BY <3>1, <3>2
  <2>2. QED
    BY <2>1 DEF IdsPartitioned, IInv
<1>2. QED
  BY Invariance, <1>1, PTL

(* Until the program ends, nothing that recorded or submitted commands     *)
(* read is destroyed or has its descriptor reused (gpu_protect), for queues*)
(* of any length.                                                          *)
THEOREM InFlightStaysIntact == Spec => []InFlightIntact
<1>1. IInv => InFlightIntact
  <2> SUFFICES ASSUME IInv, ~ended, NEW cmds \in Pending, NEW read \in cmds.reads
               PROVE  /\ read.object \in live
                      /\ id[read.object] = read.id
                      /\ read.id \in DOMAIN set[PoolOf(read.object)] \ {0} =>
                           set[PoolOf(read.object)][read.id] = read.object
    BY DEF InFlightIntact
  <2>1. Held(cmds, live, id)
    BY DEF Pending, IInv, References
  <2>2. read.object \in live /\ id[read.object] = read.id
    BY <2>1 DEF Held
  <2>3. PoolOf(read.object) \in Pool
    BY DEF PoolOf, Pool
  <2>4. ASSUME read.id \in DOMAIN set[PoolOf(read.object)] \ {0}
        PROVE  set[PoolOf(read.object)][read.id] = read.object
    <3> DEFINE p == PoolOf(read.object)
    <3>1. max_id[p] \in Nat /\ set[p] \in [0 .. max_id[p] - 1 -> Object \cup {Null}]
      BY <2>3, IdAssumption DEF IInv, TypeOK
    <3>2. read.id # 0 /\ read.id # max_id[p]
      BY <2>4, <3>1
    <3>3. read.object \in WithId(p)
      BY <2>2, <3>2 DEF WithId
    <3>4. QED
      BY <2>2, <2>3, <3>2, <3>3 DEF IInv, Ids
  <2>5. QED
    BY <2>2, <2>4
<1>2. QED
  BY Invariance, <1>1, PTL

(* No image ever has a layout that its usage cannot have, whichever usage  *)
(* the cached format properties were asked for first.                      *)
THEOREM LayoutsAreUsable == Spec => []LayoutUsable
<1>1. IInv => LayoutUsable
  BY DEF IInv, Formats, LayoutUsable
<1>2. QED
  BY Invariance, <1>1, PTL

===============================================================================
