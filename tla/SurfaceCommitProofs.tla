-------------------------- MODULE SurfaceCommitProofs --------------------------
(***************************************************************************)
(* Proofs about SurfaceCommit, for any surfaces, numbers of commits and    *)
(* changes: packets and the addons' parts of them stay aligned, and a      *)
(* synchronized commit waits for each ancestor's next one, also when       *)
(* subsurfaces move between parents; and, where they do not, a subsurface  *)
(* shows in its place and none of its commits is left behind.              *)
(***************************************************************************)
EXTENDS SurfaceCommit, SequenceTheorems, FiniteSetTheorems, TLAPS

TreePart == [commit : Nat, places : SUBSET Surface]
SubPart == [commit : Nat, parent : Surface, parent_commit : Nat]

(* The packets q that wait when c was applied and l committed last.        *)
Packets(q, c, l) ==
  /\ c <= l
  /\ Len(q) = l - c
  /\ \A i \in 1 .. Len(q) : q[i] = c + i

(* Parts of a WaySurfaceTree, which queues one for every commit since it   *)
(* was there: those of the latest packets.                                 *)
TreeParts(q, c, l) ==
  /\ Len(q) <= l - c
  /\ \A i \in 1 .. Len(q) : q[i].commit = (l - Len(q)) + i

(* Parts of a WaySubsurface, of some of the packets and in their order.    *)
SubParts(q, c, l) ==
  /\ \A i \in 1 .. Len(q) : c < q[i].commit /\ q[i].commit <= l
  /\ \A i, j \in 1 .. Len(q) : i < j => q[i].commit < q[j].commit

Types ==
  /\ life \in [Surface -> {"none", "live", "orphan", "dead"}]
  /\ places \in [Surface -> SUBSET Surface]
  /\ treeq \in [Surface -> Seq(TreePart)]
  /\ subq \in [Surface -> Seq(SubPart)]
  /\ cached \in [Surface -> Seq(Nat)]
  /\ last \in [Surface -> Nat]
  /\ current \in [Surface -> Nat]

(* What holds of a surface until it is gone; its numbers stay behind.      *)
Aligned(s) ==
  /\ Packets(cached[s], current[s], last[s])
  /\ TreeParts(treeq[s], current[s], last[s])
  /\ treeq[s] # <<>> => s \in tree
  /\ SubParts(subq[s], current[s], last[s])

IInv ==
  /\ Types
  /\ \A s \in Surface : life[s] # "dead" => Aligned(s)

-------------------------------------------------------------------------------
(* Queues, when a packet is added and when the first one is applied.       *)
LEMMA CommitPackets ==
  ASSUME NEW q \in Seq(Nat), NEW c \in Nat, NEW l \in Nat, Packets(q, c, l)
  PROVE  Append(q, l + 1) \in Seq(Nat) /\ Packets(Append(q, l + 1), c, l + 1)
<1>1. /\ Append(q, l + 1) \in Seq(Nat) /\ Len(Append(q, l + 1)) = Len(q) + 1
      /\ \A i \in 1 .. Len(q) : Append(q, l + 1)[i] = q[i]
      /\ Append(q, l + 1)[Len(q) + 1] = l + 1
  BY AppendProperties
<1>2. Len(q) \in Nat
  OBVIOUS
<1> QED
  BY <1>1, <1>2 DEF Packets

(* Applying the first packet leaves consecutive ones.                      *)
LEMMA ApplyPackets ==
  ASSUME NEW q \in Seq(Nat), NEW c \in Nat, NEW l \in Nat, Packets(q, c, l), q # <<>>
  PROVE  /\ Head(q) = c + 1 /\ c < l
         /\ Tail(q) \in Seq(Nat) /\ Packets(Tail(q), c + 1, l)
<1>1. /\ Len(q) \in Nat \ {0} /\ Tail(q) \in Seq(Nat) /\ Len(Tail(q)) = Len(q) - 1
      /\ Head(q) = q[1] /\ \A i \in 1 .. Len(q) - 1 : Tail(q)[i] = q[i + 1]
  BY HeadTailProperties
<1>2. Head(q) = c + 1 /\ c < l
  BY <1>1 DEF Packets
<1>3. Packets(Tail(q), c + 1, l)
  BY <1>1, <1>2 DEF Packets
<1> QED
  BY <1>1, <1>2, <1>3

(* A commit appends its part of the tree's queue.                          *)
LEMMA CommitTreePart ==
  ASSUME NEW q \in Seq(TreePart), NEW c \in Nat, NEW l \in Nat, c <= l,
         TreeParts(q, c, l), NEW e \in TreePart, e.commit = l + 1
  PROVE  /\ Append(q, e) \in Seq(TreePart) /\ Append(q, e) # <<>>
         /\ TreeParts(Append(q, e), c, l + 1)
<1>1. /\ Append(q, e) \in Seq(TreePart) /\ Len(Append(q, e)) = Len(q) + 1
      /\ \A i \in 1 .. Len(q) : Append(q, e)[i] = q[i]
      /\ Append(q, e)[Len(q) + 1] = e
      /\ Append(q, e) # <<>>
  BY AppendProperties
<1>2. Len(q) \in Nat /\ \A i \in 1 .. Len(q) + 1 : i \in 1 .. Len(q) \/ i = Len(q) + 1
  OBVIOUS
<1>3. Len(Append(q, e)) <= (l + 1) - c
  BY <1>1, <1>2 DEF TreeParts
<1>4. ASSUME NEW i \in 1 .. Len(q) + 1
      PROVE  Append(q, e)[i].commit = ((l + 1) - (Len(q) + 1)) + i
  <2>1. CASE i \in 1 .. Len(q)
    <3>1. q[i].commit = (l - Len(q)) + i
      BY <2>1 DEF TreeParts
    <3> QED
      BY <1>1, <1>2, <2>1, <3>1
  <2>2. CASE i = Len(q) + 1
    BY <1>1, <1>2, <2>2
  <2> QED
    BY <1>2, <2>1, <2>2
<1> QED
  BY <1>1, <1>3, <1>4 DEF TreeParts

(* Applying a commit takes its part from the tree's queue, if it has one.  *)
LEMMA ApplyTreePart ==
  ASSUME NEW q \in Seq(TreePart), NEW c \in Nat, NEW l \in Nat, c < l, TreeParts(q, c, l)
  PROVE  LET r == IF Peeked(q, c + 1) THEN Tail(q) ELSE q
         IN  r \in Seq(TreePart) /\ (r # <<>> => q # <<>>) /\ TreeParts(r, c + 1, l)
<1>1. CASE Peeked(q, c + 1)
  <2>1. /\ Len(q) \in Nat \ {0} /\ Tail(q) \in Seq(TreePart) /\ Len(Tail(q)) = Len(q) - 1
        /\ \A i \in 1 .. Len(q) - 1 : Tail(q)[i] = q[i + 1]
        /\ q # <<>>
    BY <1>1, HeadTailProperties DEF Peeked
  <2>2. TreeParts(Tail(q), c + 1, l)
    BY <2>1 DEF TreeParts
  <2> QED
    BY <1>1, <2>1, <2>2
<1>2. CASE ~Peeked(q, c + 1) /\ q # <<>>
  <2>1. Len(q) \in Nat \ {0} /\ q[1].commit # c + 1
    BY <1>2, HeadTailProperties DEF Peeked
  <2>2. Len(q) # l - c
    BY <2>1 DEF TreeParts
  <2>3. TreeParts(q, c + 1, l)
    BY <2>1, <2>2 DEF TreeParts
  <2> QED
    BY <1>2, <2>3
<1>3. CASE q = <<>>
  <2>1. Len(q) = 0 /\ ~Peeked(q, c + 1)
    BY <1>3 DEF Peeked
  <2>2. TreeParts(q, c + 1, l)
    BY <2>1 DEF TreeParts
  <2> QED
    BY <2>1, <2>2
<1> QED
  BY <1>1, <1>2, <1>3

(* A commit appends its part of the subsurface's queue.                    *)
LEMMA CommitSubPart ==
  ASSUME NEW q \in Seq(SubPart), NEW c \in Nat, NEW l \in Nat, c <= l, SubParts(q, c, l)
  PROVE  /\ SubParts(q, c, l + 1)
         /\ \A e \in SubPart : e.commit = l + 1 =>
              Append(q, e) \in Seq(SubPart) /\ SubParts(Append(q, e), c, l + 1)
<1>1. /\ Len(q) \in Nat
      /\ \A i \in 1 .. Len(q) : q[i].commit \in Nat
  <2>1. Len(q) \in Nat /\ \A i \in 1 .. Len(q) : q[i] \in SubPart
    OBVIOUS
  <2>2. \A e \in SubPart : e.commit \in Nat
    BY DEF SubPart
  <2> QED
    BY <2>1, <2>2
<1>2. SubParts(q, c, l + 1)
  BY <1>1 DEF SubParts
<1>3. ASSUME NEW e \in SubPart, e.commit = l + 1
      PROVE  Append(q, e) \in Seq(SubPart) /\ SubParts(Append(q, e), c, l + 1)
  <2>1. /\ Append(q, e) \in Seq(SubPart) /\ Len(Append(q, e)) = Len(q) + 1
        /\ \A i \in 1 .. Len(q) : Append(q, e)[i] = q[i]
        /\ Append(q, e)[Len(q) + 1] = e
    BY AppendProperties
  <2>2. \A i \in 1 .. Len(q) + 1 : i \in 1 .. Len(q) \/ i = Len(q) + 1
    BY <1>1
  <2>3. \A i \in 1 .. Len(q) : c < q[i].commit /\ q[i].commit <= l
    BY DEF SubParts
  <2>4. \A i \in 1 .. Len(q) + 1 : c < Append(q, e)[i].commit /\ Append(q, e)[i].commit <= l + 1
    BY <1>1, <1>3, <2>1, <2>2, <2>3
  <2>5. \A i, j \in 1 .. Len(q) + 1 : i < j => Append(q, e)[i].commit < Append(q, e)[j].commit
    <3> SUFFICES ASSUME NEW i \in 1 .. Len(q) + 1, NEW j \in 1 .. Len(q) + 1, i < j
                 PROVE  Append(q, e)[i].commit < Append(q, e)[j].commit
      OBVIOUS
    <3>1. i \in 1 .. Len(q) /\ Append(q, e)[i] = q[i] /\ q[i].commit <= l /\ q[i].commit \in Nat
      BY <1>1, <2>1, <2>3
    <3>2. CASE j = Len(q) + 1
      BY <1>3, <2>1, <3>1, <3>2
    <3>3. CASE j \in 1 .. Len(q)
      BY <2>1, <3>1, <3>3 DEF SubParts
    <3> QED
      BY <2>2, <3>2, <3>3
  <2> QED
    BY <2>1, <2>4, <2>5 DEF SubParts
<1> QED
  BY <1>2, <1>3

(* Applying a commit takes its part from the subsurface's queue, if it has *)
(* one.                                                                    *)
LEMMA ApplySubPart ==
  ASSUME NEW q \in Seq(SubPart), NEW c \in Nat, NEW l \in Nat, SubParts(q, c, l)
  PROVE  LET r == IF Peeked(q, c + 1) THEN Tail(q) ELSE q
         IN  r \in Seq(SubPart) /\ SubParts(r, c + 1, l)
<1>1. /\ Len(q) \in Nat
      /\ \A i \in 1 .. Len(q) : q[i].commit \in Nat
  <2>1. Len(q) \in Nat /\ \A i \in 1 .. Len(q) : q[i] \in SubPart
    OBVIOUS
  <2>2. \A e \in SubPart : e.commit \in Nat
    BY DEF SubPart
  <2> QED
    BY <2>1, <2>2
<1>2. CASE Peeked(q, c + 1)
  <2>1. /\ Tail(q) \in Seq(SubPart) /\ Len(Tail(q)) = Len(q) - 1 /\ Len(q) # 0
        /\ q[1].commit = c + 1
        /\ \A i \in 1 .. Len(q) - 1 : Tail(q)[i] = q[i + 1]
    BY <1>2, HeadTailProperties DEF Peeked
  <2>2. SubParts(Tail(q), c + 1, l)
    BY <1>1, <2>1 DEF SubParts
  <2> QED
    BY <1>2, <2>1, <2>2
<1>3. CASE ~Peeked(q, c + 1) /\ q # <<>>
  <2>1. Len(q) # 0 /\ q[1].commit # c + 1
    BY <1>3, HeadTailProperties DEF Peeked
  <2>2. SubParts(q, c + 1, l)
    BY <1>1, <2>1 DEF SubParts
  <2> QED
    BY <1>3, <2>2
<1>4. CASE q = <<>>
  <2>1. Len(q) = 0 /\ ~Peeked(q, c + 1)
    BY <1>4 DEF Peeked
  <2>2. SubParts(q, c + 1, l)
    BY <2>1 DEF SubParts
  <2> QED
    BY <2>1, <2>2
<1> QED
  BY <1>2, <1>3, <1>4

-------------------------------------------------------------------------------
(* The invariant holds initially.                                          *)
LEMMA InitIInv == Init => IInv
<1> SUFFICES ASSUME Init PROVE IInv
  OBVIOUS
<1>1. Types
  BY DEF Init, Types
<1>2. \A s \in Surface : /\ cached[s] = <<>> /\ treeq[s] = <<>> /\ subq[s] = <<>>
                        /\ current[s] = 0 /\ last[s] = 0
  BY DEF Init
<1>3. Len(<<>>) = 0
  OBVIOUS
<1>4. Packets(<<>>, 0, 0) /\ TreeParts(<<>>, 0, 0) /\ SubParts(<<>>, 0, 0)
  BY <1>3 DEF Packets, TreeParts, SubParts
<1> QED
  BY <1>1, <1>2, <1>4 DEF IInv, Aligned

(* A commit, of a surface that is there.                                   *)
LEMMA CommitKeepsIInv ==
  ASSUME IInv, NEW s \in Surface, commit(s)
  PROVE  IInv'
<1> DEFINE id == last[s] + 1
           part == [commit |-> id, places |-> places[s]]
           from == [commit |-> id, parent |-> Parent(s), parent_commit |-> last[Parent(s)] + 1]
<1>1. /\ life[s] = "live" /\ Aligned(s) /\ Types
      /\ last[s] \in Nat /\ current[s] \in Nat /\ current[s] <= last[s]
      /\ cached[s] \in Seq(Nat) /\ treeq[s] \in Seq(TreePart) /\ subq[s] \in Seq(SubPart)
      /\ places[s] \subseteq Surface
  BY DEF IInv, Types, Aligned, Packets, commit, Request
<1>2. /\ last' = [last EXCEPT ![s] = id]
      /\ cached' = [cached EXCEPT ![s] = Append(cached[s], id)]
      /\ subq' = [subq EXCEPT ![s] = WaySubsurface_commit(s, id)]
      /\ UNCHANGED <<life, tree, current>>
  BY <1>1 DEF commit, tables, Types
<1>3. IF s \in tree
      THEN /\ treeq' = [treeq EXCEPT ![s] = Append(treeq[s], part)]
           /\ places' = [places EXCEPT ![s] = {}]
      ELSE treeq' = treeq /\ places' = places
  BY <1>1 DEF commit, Types
<1>4. Append(cached[s], id) \in Seq(Nat) /\ Packets(Append(cached[s], id), current[s], id)
  BY <1>1, CommitPackets DEF Aligned
<1>5. /\ treeq'[s] \in Seq(TreePart) /\ TreeParts(treeq'[s], current[s], id)
      /\ treeq'[s] # <<>> => s \in tree
      /\ treeq' = [treeq EXCEPT ![s] = treeq'[s]]
      /\ places' \in [Surface -> SUBSET Surface]
  <2>1. CASE s \in tree
    <3>1. part \in TreePart /\ part.commit = id
      BY <1>1 DEF TreePart
    <3> HIDE DEF part
    <3>2. treeq'[s] = Append(treeq[s], part) /\ places' = [places EXCEPT ![s] = {}]
      BY <1>1, <1>3, <2>1 DEF Types
    <3>3. /\ Append(treeq[s], part) \in Seq(TreePart)
          /\ TreeParts(Append(treeq[s], part), current[s], last[s] + 1)
      BY <1>1, <3>1, CommitTreePart DEF Aligned
    <3>4. treeq' = [treeq EXCEPT ![s] = treeq'[s]]
      BY <1>3, <2>1, <3>2
    <3>5. places' \in [Surface -> SUBSET Surface]
      BY <1>1, <3>2 DEF Types
    <3> QED
      BY <2>1, <3>2, <3>3, <3>4, <3>5
  <2>2. CASE s \notin tree
    <3>1. treeq' = treeq /\ places' = places /\ treeq[s] = <<>>
      BY <1>1, <1>3, <2>2 DEF Aligned
    <3>2. Len(<<>>) = 0
      OBVIOUS
    <3>3. TreeParts(<<>>, current[s], id)
      BY <1>1, <3>2 DEF TreeParts
    <3> QED
      BY <1>1, <3>1, <3>3 DEF Types
  <2> QED
    BY <2>1, <2>2
<1>6. /\ WaySubsurface_commit(s, id) \in Seq(SubPart)
      /\ SubParts(WaySubsurface_commit(s, id), current[s], id)
  <2>1. /\ SubParts(subq[s], current[s], last[s] + 1)
        /\ \A e \in SubPart : e.commit = last[s] + 1 =>
             /\ Append(subq[s], e) \in Seq(SubPart)
             /\ SubParts(Append(subq[s], e), current[s], last[s] + 1)
    BY <1>1, CommitSubPart DEF Aligned
  <2>2. CASE is_synchronized(s) /\ Parent(s) # NoSurface
    <3>1. Parent(s) \in Surface
      BY <2>2 DEF Parent, Alive
    <3>2. last[Parent(s)] \in Nat
      BY <1>1, <3>1 DEF Types
    <3>3. from \in SubPart /\ from.commit = last[s] + 1
      BY <1>1, <3>1, <3>2 DEF SubPart
    <3>4. WaySubsurface_commit(s, id) = Append(subq[s], from)
      BY <2>2 DEF WaySubsurface_commit
    <3> HIDE DEF from
    <3> QED
      BY <2>1, <3>3, <3>4
  <2>3. CASE ~(is_synchronized(s) /\ Parent(s) # NoSurface)
    BY <1>1, <2>1, <2>3 DEF WaySubsurface_commit
  <2> QED
    BY <2>2, <2>3
<1> HIDE DEF id, part, from
<1>7. id \in Nat
  BY <1>1 DEF id
<1>8. /\ cached'[s] = Append(cached[s], id) /\ subq'[s] = WaySubsurface_commit(s, id)
      /\ last'[s] = id
      /\ \A t \in Surface \ {s} : /\ cached'[t] = cached[t] /\ treeq'[t] = treeq[t]
                                 /\ subq'[t] = subq[t] /\ last'[t] = last[t]
  BY <1>1, <1>2, <1>5 DEF Types
<1>9. Types'
  BY <1>1, <1>2, <1>4, <1>5, <1>6, <1>7 DEF Types
<1>10. Aligned(s)'
  BY <1>2, <1>4, <1>5, <1>6, <1>8 DEF Aligned
<1>11. \A t \in Surface \ {s} : life'[t] # "dead" => Aligned(t)'
  BY <1>2, <1>8 DEF IInv, Aligned
<1> QED
  BY <1>9, <1>10, <1>11 DEF IInv

(* A packet is applied, whichever surface the open flush is about.         *)
LEMMA ApplyKeepsIInv ==
  ASSUME IInv, NEW s \in Surface, cached[s] # <<>>, apply(s),
         UNCHANGED <<tables, places, last>>
  PROVE  IInv'
<1> DEFINE id == Head(cached[s])
           r == IF Peeked(treeq[s], id) THEN Tail(treeq[s]) ELSE treeq[s]
           q == IF Peeked(subq[s], id) THEN Tail(subq[s]) ELSE subq[s]
<1>1. /\ Types
      /\ last[s] \in Nat /\ current[s] \in Nat
      /\ cached[s] \in Seq(Nat) /\ treeq[s] \in Seq(TreePart) /\ subq[s] \in Seq(SubPart)
  BY DEF IInv, Types
<1>2. /\ current' = [current EXCEPT ![s] = id]
      /\ cached' = [cached EXCEPT ![s] = Tail(cached[s])]
      /\ subq' = [subq EXCEPT ![s] = q]
      /\ treeq' = [treeq EXCEPT ![s] = r]
      /\ UNCHANGED <<life, tree, places, last>>
  BY <1>1 DEF apply, tables, Types
<1>3. id \in Nat /\ Tail(cached[s]) \in Seq(Nat)
  BY <1>1, HeadTailProperties
<1>4. r \in Seq(TreePart) /\ q \in Seq(SubPart)
  BY <1>1, HeadTailProperties DEF Peeked
<1>5. ASSUME life[s] # "dead" PROVE Aligned(s)'
  <2>1. /\ id = current[s] + 1 /\ current[s] < last[s]
        /\ Packets(Tail(cached[s]), current[s] + 1, last[s])
    BY <1>1, <1>5, ApplyPackets DEF IInv, Aligned
  <2>2. (r # <<>> => treeq[s] # <<>>) /\ TreeParts(r, current[s] + 1, last[s])
    BY <1>1, <1>5, <2>1, ApplyTreePart DEF IInv, Aligned
  <2>3. SubParts(q, current[s] + 1, last[s])
    BY <1>1, <1>5, <2>1, ApplySubPart DEF IInv, Aligned
  <2> HIDE DEF id, r, q
  <2>4. /\ current'[s] = current[s] + 1 /\ cached'[s] = Tail(cached[s])
        /\ subq'[s] = q /\ treeq'[s] = r /\ last'[s] = last[s]
    BY <1>1, <1>2, <2>1 DEF Types
  <2>5. treeq[s] # <<>> => s \in tree
    BY <1>5 DEF IInv, Aligned
  <2> QED
    BY <1>2, <2>1, <2>2, <2>3, <2>4, <2>5 DEF Aligned
<1> HIDE DEF id, r, q
<1>6. Types'
  BY <1>1, <1>2, <1>3, <1>4 DEF Types
<1>7. \A t \in Surface \ {s} : life'[t] # "dead" => Aligned(t)'
  <2>1. \A t \in Surface \ {s} : /\ cached'[t] = cached[t] /\ treeq'[t] = treeq[t]
                                /\ subq'[t] = subq[t] /\ current'[t] = current[t]
    BY <1>1, <1>2 DEF Types
  <2> QED
    BY <1>2, <2>1 DEF IInv, Aligned
<1> QED
  BY <1>2, <1>5, <1>6, <1>7 DEF IInv

(* Whatever else happens, a surface that stays keeps its packets and its   *)
(* tree's parts of them; a role that is given or taken starts a new queue. *)
LEMMA RestKeepsIInv ==
  ASSUME IInv, Types',
         \A s \in Surface : life'[s] # "dead" =>
           /\ life[s] # "dead"
           /\ cached'[s] = cached[s] /\ treeq'[s] = treeq[s]
           /\ last'[s] = last[s] /\ current'[s] = current[s]
           /\ s \in tree => s \in tree'
           /\ subq'[s] = subq[s] \/ subq'[s] = <<>>
  PROVE  IInv'
<1>1. \A c, l \in Nat : SubParts(<<>>, c, l)
  <2>1. Len(<<>>) = 0
    OBVIOUS
  <2> QED
    BY <2>1 DEF SubParts
<1>2. ASSUME NEW s \in Surface, life'[s] # "dead" PROVE Aligned(s)'
  <2>1. Aligned(s) /\ current[s] \in Nat /\ last[s] \in Nat
    BY <1>2 DEF IInv, Types
  <2>2. SubParts(subq'[s], current'[s], last'[s])
    BY <1>1, <1>2, <2>1 DEF Aligned
  <2> QED
    BY <1>2, <2>1, <2>2 DEF Aligned
<1> QED
  BY <1>2 DEF IInv

(* Every step keeps the invariant.                                         *)
LEMMA NextKeepsIInv == IInv /\ [Next]_vars => IInv'
<1> SUFFICES ASSUME IInv, [Next]_vars PROVE IInv'
  OBVIOUS
<1>1. Types
  BY DEF IInv
<1>2. ASSUME NEW s \in Surface, commit(s) PROVE IInv'
  BY <1>2, CommitKeepsIInv
<1>3. CASE flush_apply
  <2> DEFINE s == Head(work)
  <2>1. cached[s] # <<>> /\ apply(s) /\ UNCHANGED <<tables, places, last>>
    BY <1>3 DEF flush_apply, Ready
  <2> HIDE DEF s
  <2>2. CASE s \in Surface
    BY <2>1, <2>2, ApplyKeepsIInv
  <2>3. CASE s \notin Surface
    <3>1. UNCHANGED <<life, tree, places, last, current, cached, treeq, subq>>
      BY <1>1, <2>1, <2>3 DEF apply, tables, Types
    <3>2. Types'
      BY <1>1, <3>1 DEF Types
    <3> QED
      BY <3>1, <3>2, RestKeepsIInv
  <2> QED
    BY <2>2, <2>3
<1>4. ASSUME NEW s \in Surface, create_surface(s) PROVE IInv'
  <2>1. Types'
    BY <1>1, <1>4 DEF create_surface, queues, Types
  <2> QED
    BY <1>1, <1>4, <2>1, RestKeepsIInv DEF create_surface, queues, Types
<1>5. ASSUME NEW s \in Surface, NEW p \in Surface, get_subsurface(s, p) PROVE IInv'
  <2>1. Types'
    BY <1>1, <1>5 DEF get_subsurface, Types
  <2> QED
    BY <1>1, <1>5, <2>1, RestKeepsIInv DEF get_subsurface, Types
<1>6. ASSUME NEW s \in Surface, place(s) PROVE IInv'
  <2>1. Types'
    BY <1>1, <1>6 DEF place, tables, Types
  <2> QED
    BY <1>6, <2>1, RestKeepsIInv DEF place, tables
<1>7. ASSUME NEW s \in Surface, set_sync(s) \/ set_desync(s) PROVE IInv'
  <2>1. UNCHANGED <<life, tree, places, last, current, cached, treeq, subq>>
    BY <1>7 DEF set_sync, set_desync, queues
  <2>2. Types'
    BY <1>1, <2>1 DEF Types
  <2> QED
    BY <2>1, <2>2, RestKeepsIInv
<1>8. ASSUME NEW s \in Surface, DestroySubsurface(s) PROVE IInv'
  <2>1. Types'
    BY <1>1, <1>8 DEF DestroySubsurface, Types
  <2> QED
    BY <1>1, <1>8, <2>1, RestKeepsIInv DEF DestroySubsurface, Types
<1>9. ASSUME NEW s \in Surface, DestroySurface(s) PROVE IInv'
  <2>1. Types'
    BY <1>1, <1>9 DEF DestroySurface, queues, Types
  <2>2. life[s] = "live"
    BY <1>9 DEF DestroySurface, Request
  <2> QED
    BY <1>1, <1>9, <2>1, <2>2, RestKeepsIInv DEF DestroySurface, queues, Types
<1>10. ASSUME NEW s \in Surface, WaySurface_destructor(s) PROVE IInv'
  <2>1. Types'
    BY <1>1, <1>10 DEF WaySurface_destructor, Types
  <2> QED
    BY <1>1, <1>10, <2>1, RestKeepsIInv DEF WaySurface_destructor, Types
<1>11. CASE flush_return \/ UNCHANGED vars
  <2>1. UNCHANGED <<life, tree, places, last, current, cached, treeq, subq>>
    BY <1>11 DEF flush_return, vars, tables, queues
  <2>2. Types'
    BY <1>1, <2>1 DEF Types
  <2> QED
    BY <2>1, <2>2, RestKeepsIInv
<1> QED
  BY <1>2, <1>3, <1>4, <1>5, <1>6, <1>7, <1>8, <1>9, <1>10, <1>11 DEF Next

(* The strengthened invariant holds in every state that clients can bring  *)
(* their surfaces into.                                                    *)
THEOREM Invariance == Spec => []IInv
<1> QED
  BY InitIInv, NextKeepsIInv, PTL DEF Spec

(* A function on the first n numbers with integers as values is a sequence. *)
LEMMA IntegersInARow ==
  ASSUME NEW n \in Nat, NEW f, f = [i \in 1 .. n |-> f[i]],
         \A i \in 1 .. n : f[i] \in Int
  PROVE  f \in Seq(Int)
<1>1. f \in [1 .. n -> Int]
  <2> DEFINE g == [i \in 1 .. n |-> f[i]]
  <2>1. g \in [1 .. n -> Int]
    BY Zenon
  <2> QED
    BY <2>1, Zenon
<1> QED
  BY <1>1

(* The packets that wait, written out.                                     *)
LEMMA PacketsWrittenOut ==
  ASSUME NEW q \in Seq(Nat), NEW c \in Nat, NEW l \in Nat, Packets(q, c, l)
  PROVE  q = [i \in 1 .. l - c |-> c + i]
<1> DEFINE g == [i \in 1 .. l - c |-> c + i]
<1>1. g \in Seq(Nat) /\ Len(g) = l - c /\ \A i \in 1 .. l - c : g[i] = c + i
  <2>1. l - c \in Nat
    BY DEF Packets
  <2> QED
    BY <2>1
<1> HIDE DEF g
<1>2. q = g
  BY <1>1, SeqEqual DEF Packets
<1> QED
  BY <1>2 DEF g

(* The latest of a row of numbers are a suffix of it.                      *)
LEMMA LatestAreSuffix ==
  ASSUME NEW c \in Nat, NEW l \in Nat, NEW q, Packets(q, c, l), q \in Seq(Nat),
         NEW r \in Seq(TreePart), TreeParts(r, c, l)
  PROVE  IsSuffix(Commits(r), q)
<1> DEFINE n == Len(r)
           m == Len(q)
           x == Commits(r)
           a == Reverse(x)
           b == Reverse(q)
<1>1. n \in Nat /\ m \in Nat /\ n <= m /\ m = l - c
  BY DEF Packets, TreeParts
<1>2. x = [i \in 1 .. n |-> r[i].commit] /\ Len(x) = n
  BY DEF Commits
<1> HIDE DEF x
<1>3. a = [i \in 1 .. n |-> x[(n - i) + 1]] /\ Len(a) = n
  BY <1>1, <1>2 DEF Reverse
<1>4. b = [i \in 1 .. m |-> q[(m - i) + 1]] /\ Len(b) = m
  BY <1>1 DEF Reverse
<1>5. \A i \in 1 .. n : a[i] = (l + 1) - i
  <2> SUFFICES ASSUME NEW i \in 1 .. n PROVE a[i] = (l + 1) - i
    OBVIOUS
  <2>1. (n - i) + 1 \in 1 .. n
    BY <1>1
  <2>2. a[i] = r[(n - i) + 1].commit
    BY <1>2, <1>3, <2>1
  <2>3. r[(n - i) + 1].commit = (l - n) + ((n - i) + 1)
    BY <2>1 DEF TreeParts
  <2> QED
    BY <1>1, <2>2, <2>3
<1>6. \A i \in 1 .. m : b[i] = (l + 1) - i
  <2> SUFFICES ASSUME NEW i \in 1 .. m PROVE b[i] = (l + 1) - i
    OBVIOUS
  <2>1. (m - i) + 1 \in 1 .. m
    BY <1>1
  <2>2. b[i] = c + ((m - i) + 1)
    BY <1>4, <2>1 DEF Packets
  <2> QED
    BY <1>1, <2>2
<1>7. a = [i \in 1 .. n |-> a[i]] /\ b = [i \in 1 .. m |-> b[i]]
  <2>1. DOMAIN a = 1 .. n /\ DOMAIN b = 1 .. m
    BY <1>3, <1>4
  <2>2. a = [i \in DOMAIN a |-> a[i]] /\ b = [i \in DOMAIN b |-> b[i]]
    BY <1>3, <1>4
  <2> QED
    BY <2>1, <2>2
<1> HIDE DEF a, b, n, m
<1>8. a \in Seq(Int) /\ b \in Seq(Int)
  <2>1. \A i \in 1 .. n : a[i] \in Int
    BY <1>1, <1>5
  <2>2. \A i \in 1 .. m : b[i] \in Int
    BY <1>1, <1>6
  <2> QED
    BY <1>7, <1>1, <2>1, <2>2, IntegersInARow
<1>9. SubSeq(a, 1, n) = SubSeq(b, 1, n)
  <2>1. /\ SubSeq(a, 1, n) \in Seq(Int) /\ Len(SubSeq(a, 1, n)) = n
        /\ \A i \in 1 .. n : SubSeq(a, 1, n)[i] = a[i]
    BY <1>1, <1>3, <1>8
  <2>2. /\ SubSeq(b, 1, n) \in Seq(Int) /\ Len(SubSeq(b, 1, n)) = n
        /\ \A i \in 1 .. n : SubSeq(b, 1, n)[i] = b[i]
    BY <1>1, <1>4, <1>8
  <2>3. \A i \in 1 .. n : a[i] = b[i]
    BY <1>1, <1>5, <1>6
  <2> QED
    BY <2>1, <2>2, <2>3, SeqEqual
<1> QED
  BY <1>1, <1>3, <1>4, <1>9 DEF IsSuffix, IsPrefix, a, b, x

(* Packets are applied once and in order, and no addon hands its part of   *)
(* one commit to another: the assertion of WayCommitQueue::peek never      *)
(* fails (way/surface/state.hpp), for any surfaces, and also when they     *)
(* move between parents.                                                   *)
THEOREM QueuesStayAligned == Spec => []QueuesAligned
<1>1. IInv => QueuesAligned
  <2> SUFFICES ASSUME IInv, NEW s \in Surface, Alive(s)
               PROVE  /\ cached[s] = [i \in 1 .. last[s] - current[s] |-> current[s] + i]
                      /\ IsSuffix(Commits(treeq[s]), cached[s])
                      /\ IsInjective(Commits(subq[s]))
                      /\ \A i \in DOMAIN subq[s] : subq[s][i].commit \in ToSet(cached[s])
                      /\ \A i, j \in DOMAIN subq[s] :
                           i < j => subq[s][i].commit < subq[s][j].commit
    BY DEF QueuesAligned
  <2>1. /\ Aligned(s) /\ last[s] \in Nat /\ current[s] \in Nat
        /\ cached[s] \in Seq(Nat) /\ treeq[s] \in Seq(TreePart) /\ subq[s] \in Seq(SubPart)
    BY DEF Alive, IInv, Types
  <2>2. cached[s] = [i \in 1 .. last[s] - current[s] |-> current[s] + i]
    BY <2>1, PacketsWrittenOut DEF Aligned
  <2>3. IsSuffix(Commits(treeq[s]), cached[s])
    BY <2>1, LatestAreSuffix DEF Aligned
  <2>4. DOMAIN subq[s] = 1 .. Len(subq[s]) /\ Len(subq[s]) \in Nat
    BY <2>1
  <2>5. \A i \in 1 .. Len(subq[s]) : subq[s][i].commit \in Nat
    <3>1. \A i \in 1 .. Len(subq[s]) : subq[s][i] \in SubPart
      BY <2>1
    <3> QED
      BY <3>1 DEF SubPart
  <2>6. \A i, j \in DOMAIN subq[s] : i < j => subq[s][i].commit < subq[s][j].commit
    BY <2>1, <2>4 DEF Aligned, SubParts
  <2>7. IsInjective(Commits(subq[s]))
    <3>1. ASSUME NEW i \in DOMAIN subq[s], NEW j \in DOMAIN subq[s],
                 subq[s][i].commit = subq[s][j].commit
          PROVE  i = j
      BY <2>4, <2>5, <2>6, <3>1
    <3> QED
      BY <3>1 DEF IsInjective, Commits
  <2>8. \A i \in DOMAIN subq[s] : subq[s][i].commit \in ToSet(cached[s])
    <3> SUFFICES ASSUME NEW i \in DOMAIN subq[s] PROVE subq[s][i].commit \in ToSet(cached[s])
      OBVIOUS
    <3> DEFINE k == subq[s][i].commit - current[s]
    <3>1. current[s] < subq[s][i].commit /\ subq[s][i].commit <= last[s]
      BY <2>1, <2>4 DEF Aligned, SubParts
    <3>2. k \in 1 .. last[s] - current[s] /\ current[s] + k = subq[s][i].commit
      BY <2>1, <2>4, <2>5, <3>1
    <3> HIDE DEF k
    <3>3. k \in DOMAIN cached[s] /\ cached[s][k] = subq[s][i].commit
      BY <2>2, <3>2
    <3> QED
      BY <3>3 DEF ToSet
  <2> QED
    BY <2>2, <2>3, <2>6, <2>7, <2>8
<1> QED
  BY Invariance, <1>1, PTL

-------------------------------------------------------------------------------
(* The lineage of a surface.                                               *)
LEMMA LineageIsUpward ==
  ASSUME NEW s \in Surface
  PROVE  Lineage(s) \subseteq Surface /\ s \in Lineage(s) /\ Upward(Lineage(s))
<1>1. Lineage(s) \subseteq Surface /\ s \in Lineage(s)
  BY DEF Lineage
<1>2. ASSUME NEW t \in Lineage(s) \cap sub, Parent(t) # NoSurface
      PROVE  Parent(t) \in Lineage(s)
  <2>1. Parent(t) \in Surface
    BY <1>2 DEF Parent, Alive
  <2>2. \A U \in SUBSET Surface : s \in U /\ Upward(U) => Parent(t) \in U
    BY <1>2 DEF Lineage, Upward
  <2> QED
    BY <2>1, <2>2 DEF Lineage
<1> QED
  BY <1>1, <1>2 DEF Upward

(* The lineage of a surface is in every upward closed set that it is in.   *)
LEMMA LineageIsLeast ==
  ASSUME NEW s \in Surface, NEW U \in SUBSET Surface, s \in U, Upward(U)
  PROVE  Lineage(s) \subseteq U
<1> QED
  BY DEF Lineage

(* Who is above one that is above is above too.                            *)
LEMMA LineageWithin ==
  ASSUME NEW s \in Surface, NEW t \in Lineage(s)
  PROVE  Lineage(t) \subseteq Lineage(s)
<1> QED
  BY LineageIsUpward, LineageIsLeast, Zenon

(* The lineage of a surface begins with it and goes on with its parent's.  *)
LEMMA LineageFromParent ==
  ASSUME NEW s \in Surface
  PROVE  /\ Parent(s) = NoSurface \/ s \notin sub => Lineage(s) = {s}
         /\ Parent(s) # NoSurface /\ s \in sub =>
              Parent(s) \in Surface /\ Lineage(s) = {s} \cup Lineage(Parent(s))
<1>1. ASSUME Parent(s) = NoSurface \/ s \notin sub PROVE Lineage(s) = {s}
  <2>1. Upward({s})
    BY <1>1 DEF Upward
  <2> QED
    BY <2>1, LineageIsUpward, LineageIsLeast
<1>2. ASSUME Parent(s) # NoSurface, s \in sub
      PROVE  Parent(s) \in Surface /\ Lineage(s) = {s} \cup Lineage(Parent(s))
  <2>1. Parent(s) \in Surface
    BY <1>2 DEF Parent, Alive
  <2>2. Parent(s) \in Lineage(s)
    BY <1>2, LineageIsUpward DEF Upward
  <2>3. /\ Lineage(Parent(s)) \subseteq Surface /\ Parent(s) \in Lineage(Parent(s))
        /\ Upward(Lineage(Parent(s)))
    BY <2>1, LineageIsUpward
  <2>4. Upward({s} \cup Lineage(Parent(s)))
    BY <1>2, <2>3 DEF Upward
  <2>5. Lineage(s) \subseteq {s} \cup Lineage(Parent(s))
    BY <2>3, <2>4, LineageIsLeast
  <2>6. Lineage(Parent(s)) \subseteq Lineage(s) /\ s \in Lineage(s)
    BY <2>2, LineageWithin, LineageIsUpward
  <2> QED
    BY <2>1, <2>5, <2>6
<1> QED
  BY <1>1, <1>2

(* Of two surfaces above a third one is above the other.                   *)
LEMMA LineageIsAChain ==
  ASSUME NEW s \in Surface, NEW a \in Lineage(s), NEW t \in Lineage(s)
  PROVE  a \in Lineage(t) \/ t \in Lineage(a)
<1> DEFINE U == {u \in Surface : a \in Lineage(u) \/ u \in Lineage(a)}
<1>1. a \in Surface /\ Upward(Lineage(a)) /\ a \in Lineage(a)
  BY LineageIsUpward
<1>2. Upward(U)
  <2> SUFFICES ASSUME NEW u \in U \cap sub, Parent(u) # NoSurface PROVE Parent(u) \in U
    BY DEF Upward
  <2>1. Parent(u) \in Surface /\ Lineage(u) = {u} \cup Lineage(Parent(u))
    BY LineageFromParent
  <2>2. CASE u \in Lineage(a)
    BY <1>1, <2>1, <2>2 DEF Upward
  <2>3. CASE a \in Lineage(u) /\ a # u
    BY <2>1, <2>3
  <2> QED
    BY <1>1, <2>2, <2>3
<1>3. Lineage(s) \subseteq U
  <2>1. s \in U
    OBVIOUS
  <2> HIDE DEF U
  <2> QED
    BY <1>2, <2>1, LineageIsLeast DEF U
<1> QED
  BY <1>3

(* No surface is above itself.                                             *)
Acyclic == \A s, t \in Surface : s \in Lineage(t) /\ t \in Lineage(s) => s = t

-------------------------------------------------------------------------------
(* Lineages after a step.                                                  *)
LEMMA LineageIsUpwardThen ==
  ASSUME NEW s \in Surface
  PROVE  Lineage(s)' \subseteq Surface /\ s \in Lineage(s)' /\ Upward(Lineage(s))'
<1>1. Lineage(s)' \subseteq Surface /\ s \in Lineage(s)'
  BY DEF Lineage
<1>2. ASSUME NEW t \in Lineage(s)' \cap sub', Parent(t)' # NoSurface
      PROVE  Parent(t)' \in Lineage(s)'
  <2>1. Parent(t)' \in Surface
    BY <1>2 DEF Parent, Alive
  <2>2. \A U \in SUBSET Surface : s \in U /\ Upward(U)' => Parent(t)' \in U
    BY <1>2 DEF Lineage, Upward
  <2> QED
    BY <2>1, <2>2 DEF Lineage
<1> QED
  BY <1>1, <1>2 DEF Upward

(* Where links are only cut, lineages only lose.                           *)
LEMMA CutLineage ==
  ASSUME NEW s \in Surface, sub' \subseteq sub,
         \A t \in sub' : Parent(t)' \in {Parent(t), NoSurface}
  PROVE  Lineage(s)' \subseteq Lineage(s)
<1>1. Lineage(s) \in SUBSET Surface /\ s \in Lineage(s) /\ Upward(Lineage(s))
  BY LineageIsUpward
<1> DEFINE U == Lineage(s)
<1>2. \A t \in U \cap sub' : Parent(t)' \in U \cup {NoSurface}
  BY <1>1 DEF Upward
<1> HIDE DEF U
<1>3. (\A t \in U \cap sub' : Parent(t)' \in U \cup {NoSurface}) /\ U \in SUBSET Surface /\ s \in U
        => Lineage(s)' \subseteq U
  BY DEF Lineage, Upward
<1> QED
  BY <1>1, <1>2, <1>3 DEF U

(* A lineage whose links are still there is still part of the lineage.     *)
LEMMA LineageStays ==
  ASSUME NEW s \in Surface,
         \A t \in Lineage(s) \cap sub : t \in sub' /\ Parent(t)' = Parent(t)
  PROVE  Lineage(s) \subseteq Lineage(s)'
<1> DEFINE V == Lineage(s)'
           U == Lineage(s) \cap V
<1>1. /\ Lineage(s) \subseteq Surface /\ s \in Lineage(s)
      /\ \A t \in Lineage(s) \cap sub : Parent(t) \in Lineage(s) \cup {NoSurface}
  BY LineageIsUpward DEF Upward
<1>2. /\ V \subseteq Surface /\ s \in V
      /\ \A t \in V \cap sub' : Parent(t)' \in V \cup {NoSurface}
  BY LineageIsUpwardThen DEF Upward
<1> HIDE DEF V
<1>3. U \in SUBSET Surface /\ s \in U /\ Upward(U)
  BY <1>1, <1>2 DEF Upward
<1> HIDE DEF U
<1>4. Lineage(s) \subseteq U
  BY <1>3, LineageIsLeast
<1> QED
  BY <1>4 DEF U, V

(* Losing parents and subsurfaces makes no cycle.                          *)
LEMMA CutKeepsAcyclic ==
  ASSUME Acyclic, sub' \subseteq sub,
         \A t \in sub' : Parent(t)' \in {Parent(t), NoSurface}
  PROVE  Acyclic'
<1>1. ASSUME NEW s \in Surface, NEW t \in Surface, s \in Lineage(t)', t \in Lineage(s)'
      PROVE  s = t
  BY <1>1, CutLineage DEF Acyclic
<1> QED
  BY <1>1 DEF Acyclic

(* A surface that has no link gets one to a surface it is not above.       *)
LEMMA LinkKeepsAcyclic ==
  ASSUME Acyclic, NEW s \in Surface, NEW p \in Surface, s \notin Lineage(p), s \notin sub,
         sub' = sub \cup {s}, Parent(s)' = p,
         \A t \in sub : Parent(t)' = Parent(t)
  PROVE  Acyclic'
<1> DEFINE Then(t) == IF s \in Lineage(t) THEN Lineage(t) \cup Lineage(p) ELSE Lineage(t)
<1>1. ASSUME NEW t \in Surface PROVE Lineage(t)' \subseteq Then(t)
  <2>1. /\ Lineage(t) \subseteq Surface /\ t \in Lineage(t)
        /\ \A u \in Lineage(t) \cap sub : Parent(u) \in Lineage(t) \cup {NoSurface}
    BY LineageIsUpward DEF Upward
  <2>2. /\ Lineage(p) \subseteq Surface /\ p \in Lineage(p)
        /\ \A u \in Lineage(p) \cap sub : Parent(u) \in Lineage(p) \cup {NoSurface}
    BY LineageIsUpward DEF Upward
  <2> DEFINE U == Then(t)
  <2>3. U \in SUBSET Surface /\ t \in U
    BY <2>1, <2>2
  <2>4. \A u \in U \cap sub' : Parent(u)' \in U \cup {NoSurface}
    BY <2>1, <2>2
  <2> HIDE DEF U
  <2>5. Lineage(t)' \subseteq U
    BY <2>3, <2>4 DEF Lineage, Upward
  <2> QED
    BY <2>5 DEF U
<1>2. ASSUME NEW a \in Surface, NEW t \in Surface, a \in Lineage(t)', t \in Lineage(a)'
      PROVE  a = t
  <2>1. a \in Then(t) /\ t \in Then(a)
    BY <1>1, <1>2
  <2>2. \A u \in Surface : \A v \in Lineage(u) : Lineage(v) \subseteq Lineage(u)
    BY LineageWithin
  <2>3. a \in Lineage(t) /\ t \in Lineage(a)
    BY <2>1, <2>2
  <2> QED
    BY <2>3 DEF Acyclic
<1> QED
  BY <1>2 DEF Acyclic

-------------------------------------------------------------------------------
(* Types and roles.                                                        *)
TypeRoles ==
  /\ life \in [Surface -> {"none", "live", "orphan", "dead"}]
  /\ sub \in SUBSET {s \in Surface : Alive(s)}
  /\ sync \in SUBSET sub
  /\ tree \in SUBSET {s \in Surface : Alive(s)}
  /\ parent \in [Surface -> Surface \cup {NoSurface}]
  /\ places \in [Surface -> SUBSET Surface]
  /\ above \in [Surface -> Surface \cup {NoSurface}]

TypeQueues ==
  /\ \A s \in Surface : treeq[s] \in
       Seq([commit : 1 .. MaxCommit, places : SUBSET Surface])
  /\ \A s \in Surface : subq[s] \in
       Seq([commit : 1 .. MaxCommit, parent : Surface, parent_commit : 1 .. MaxCommit + 1])
  /\ \A s \in Surface : cached[s] \in Seq(1 .. MaxCommit)
  /\ last \in [Surface -> 0 .. MaxCommit]
  /\ current \in [Surface -> 0 .. MaxCommit]

TypePromise ==
  promise \in SUBSET [child : Surface, commit : 1 .. MaxCommit,
                      ancestor : Surface, needs : 1 .. MaxCommit + 1]

TypeWork == work \in Seq(Surface) /\ before \in 0 .. MaxCommit

(* A parent was there once, and has a tree as long as it is; no surface is *)
(* above itself.                                                           *)
Family ==
  /\ \A s \in Surface : parent[s] # NoSurface => life[parent[s]] # "none"
  /\ \A s \in sub : Parent(s) # NoSurface => Parent(s) \in tree
  /\ Acyclic

Roles == TypeRoles /\ Family

TypesHold == Roles /\ TypeQueues /\ TypePromise /\ TypeWork

(* The roles and types hold initially.                                     *)
LEMMA InitTypes == Init => TypesHold
<1> SUFFICES ASSUME Init PROVE TypesHold
  OBVIOUS
<1>1. TypeRoles
  BY DEF Init, TypeRoles
<1>2. Family
  <2>1. \A s, t \in Surface : s \in Lineage(t) => s = t
    <3>1. \A t \in Surface : Lineage(t) = {t}
      BY LineageFromParent DEF Init
    <3> QED
      BY <3>1
  <2> QED
    BY <2>1 DEF Init, Family, Acyclic
<1>3. TypeQueues
  <2>1. 0 \in 0 .. MaxCommit
    BY MaxCommitAssumption
  <2> QED
    BY <2>1 DEF Init, TypeQueues
<1>4. TypePromise
  BY DEF Init, TypePromise
<1>5. TypeWork
  BY MaxCommitAssumption DEF Init, TypeWork
<1> QED
  BY <1>1, <1>2, <1>3, <1>4, <1>5 DEF TypesHold, Roles

(* A step that leaves what its links are made of alone.                    *)
LEMMA StillKeepsRoles ==
  ASSUME Roles, UNCHANGED <<life, sub, tree, parent>>,
         places' \in [Surface -> SUBSET Surface],
         above' \in [Surface -> Surface \cup {NoSurface}],
         sync' \in SUBSET sub
  PROVE  Roles'
<1>1. \A t : Parent(t)' = Parent(t) /\ Alive(t)' = Alive(t)
  BY DEF Parent, Alive
<1>2. TypeRoles'
  BY <1>1 DEF Roles, TypeRoles
<1>3. Acyclic'
  BY <1>1, CutKeepsAcyclic DEF Roles, Family
<1> QED
  BY <1>1, <1>2, <1>3 DEF Roles, Family

(* Which links there are after the steps that concern them.                *)
LEMMA CreateKeepsRoles ==
  ASSUME Roles, NEW s \in Surface, create_surface(s)
  PROVE  Roles' /\ \A t \in Surface : Parent(t)' = Parent(t) /\ (Alive(t) => Alive(t)')
<1>1. /\ life' = [life EXCEPT ![s] = "live"] /\ life[s] = "none"
      /\ UNCHANGED <<sub, sync, parent, tree, places, above>>
  BY DEF create_surface, queues
<1>2. /\ life'[s] = "live" /\ \A t \in Surface \ {s} : life'[t] = life[t]
      /\ life' \in [Surface -> {"none", "live", "orphan", "dead"}]
  BY <1>1 DEF Roles, TypeRoles
<1>3. \A t \in Surface : Alive(t) => Alive(t)'
  BY <1>2 DEF Alive
<1>4. TypeRoles'
  BY <1>1, <1>2, <1>3 DEF Roles, TypeRoles
<1>5. \A t \in Surface : Parent(t)' = Parent(t)
  <2> SUFFICES ASSUME NEW t \in Surface PROVE Parent(t)' = Parent(t)
    OBVIOUS
  <2>1. parent[t] \in Surface \cup {NoSurface} /\ parent[t] # s
    BY <1>1, NoSurfaceAssumption DEF Roles, TypeRoles, Family
  <2> QED
    BY <1>1, <1>2, <2>1, NoSurfaceAssumption DEF Parent, Alive
<1>6. sub \subseteq Surface
  BY DEF Roles, TypeRoles
<1>7. Acyclic'
  BY <1>1, <1>5, <1>6, CutKeepsAcyclic DEF Roles, Family
<1>8. \A t \in Surface : parent'[t] # NoSurface => life'[parent'[t]] # "none"
  BY <1>1, <1>2 DEF Roles, TypeRoles, Family
<1> QED
  BY <1>1, <1>3, <1>4, <1>5, <1>6, <1>7, <1>8 DEF Roles, Family

(* get_subsurface keeps the roles.                                         *)
LEMMA GetKeepsRoles ==
  ASSUME Roles, NEW s \in Surface, NEW p \in Surface, get_subsurface(s, p)
  PROVE  /\ Roles' /\ Parent(s)' = p
         /\ \A t \in Surface \ {s} : Parent(t)' = Parent(t)
<1>1. /\ life[s] = "live" /\ life[p] = "live" /\ s \notin sub /\ s \notin Lineage(p)
      /\ sub' = sub \cup {s} /\ sync' = sync \cup {s} /\ tree' = tree \cup {p}
      /\ parent' = [parent EXCEPT ![s] = p]
      /\ places' = [places EXCEPT ![p] = places[p] \cup {s}]
      /\ UNCHANGED <<life, above>>
  BY DEF get_subsurface, Request, Roles, TypeRoles
<1>2. \A t : Alive(t)' = Alive(t)
  BY <1>1 DEF Alive
<1>3. TypeRoles'
  BY <1>1, <1>2 DEF Roles, TypeRoles, Alive
<1>4. parent'[s] = p /\ \A t \in Surface \ {s} : parent'[t] = parent[t]
  BY <1>1 DEF Roles, TypeRoles
<1>5. Parent(s)' = p /\ \A t \in Surface \ {s} : Parent(t)' = Parent(t)
  BY <1>1, <1>2, <1>4 DEF Parent, Alive
<1>6. sub \subseteq Surface
  BY DEF Roles, TypeRoles
<1>7. Acyclic'
  <2>1. \A t \in sub : Parent(t)' = Parent(t)
    BY <1>1, <1>5, <1>6
  <2> QED
    BY <1>1, <1>5, <2>1, LinkKeepsAcyclic DEF Roles, Family
<1>8. \A t \in Surface : parent'[t] # NoSurface => life'[parent'[t]] # "none"
  BY <1>1, <1>4 DEF Roles, Family
<1>9. \A t \in sub' : Parent(t)' # NoSurface => Parent(t)' \in tree'
  BY <1>1, <1>5, <1>6 DEF Roles, Family
<1> QED
  BY <1>3, <1>5, <1>7, <1>8, <1>9 DEF Roles, Family

(* Destroying a subsurface keeps the roles.                                *)
LEMMA DestroySubsurfaceKeepsRoles ==
  ASSUME Roles, NEW s \in Surface, DestroySubsurface(s)
  PROVE  Roles' /\ sub' = sub \ {s} /\ \A t : Parent(t)' = Parent(t)
<1>1. /\ sub' = sub \ {s} /\ sync' = sync \ {s}
      /\ UNCHANGED <<life, parent, tree, places, above>>
  BY DEF DestroySubsurface
<1>2. \A t : Parent(t)' = Parent(t) /\ Alive(t)' = Alive(t)
  BY <1>1 DEF Parent, Alive
<1>3. TypeRoles'
  BY <1>1, <1>2 DEF Roles, TypeRoles
<1>4. Acyclic'
  BY <1>1, <1>2, CutKeepsAcyclic DEF Roles, Family
<1> QED
  BY <1>1, <1>2, <1>3, <1>4 DEF Roles, Family

(* Destroying a surface keeps the roles.                                   *)
LEMMA DestroySurfaceKeepsRoles ==
  ASSUME Roles, NEW s \in Surface, DestroySurface(s)
  PROVE  Roles' /\ \A t \in Surface : Parent(t)' = Parent(t) /\ Alive(t)' = Alive(t)
<1>1. /\ life[s] = "live" /\ life' = [life EXCEPT ![s] = "orphan"]
      /\ UNCHANGED <<sub, sync, parent, tree, places, above>>
  BY DEF DestroySurface, Request, queues
<1>2. /\ life'[s] = "orphan" /\ \A t \in Surface \ {s} : life'[t] = life[t]
      /\ life' \in [Surface -> {"none", "live", "orphan", "dead"}]
  BY <1>1 DEF Roles, TypeRoles
<1>3. \A t : Alive(t)' = Alive(t)
  BY <1>1, <1>2 DEF Alive
<1>4. \A t : Parent(t)' = Parent(t)
  BY <1>1, <1>3 DEF Parent
<1>5. TypeRoles'
  BY <1>1, <1>2, <1>3 DEF Roles, TypeRoles
<1>6. Acyclic'
  BY <1>1, <1>4, CutKeepsAcyclic DEF Roles, Family
<1>7. \A t \in Surface : parent'[t] # NoSurface => life'[parent'[t]] # "none"
  BY <1>1, <1>2 DEF Roles, TypeRoles, Family
<1> QED
  BY <1>1, <1>3, <1>4, <1>5, <1>6, <1>7 DEF Roles, Family

(* The destructor of a surface keeps the roles.                            *)
LEMMA DestructorKeepsRoles ==
  ASSUME Roles, NEW s \in Surface, WaySurface_destructor(s)
  PROVE  /\ Roles' /\ sub' = sub \ {s} /\ sync' = sync \ {s}
         /\ \A t \in Surface \ {s} :
              /\ Parent(t)' = IF Parent(t) = s THEN NoSurface ELSE Parent(t)
              /\ Alive(t)' = Alive(t)
         /\ Alive(s) /\ ~ Alive(s)'
<1>1. /\ life[s] = "orphan" /\ life' = [life EXCEPT ![s] = "dead"]
      /\ sub' = sub \ {s} /\ sync' = sync \ {s} /\ tree' = tree \ {s}
      /\ parent' = [parent EXCEPT ![s] = NoSurface]
      /\ places' = [places EXCEPT ![s] = {}]
      /\ above' = [t \in Surface |-> IF t = s \/ above[t] = s THEN NoSurface ELSE above[t]]
  BY DEF WaySurface_destructor, Garbage
<1>2. /\ life'[s] = "dead" /\ \A t \in Surface \ {s} : life'[t] = life[t]
      /\ life' \in [Surface -> {"none", "live", "orphan", "dead"}]
      /\ parent'[s] = NoSurface /\ \A t \in Surface \ {s} : parent'[t] = parent[t]
      /\ parent' \in [Surface -> Surface \cup {NoSurface}]
  BY <1>1 DEF Roles, TypeRoles
<1>3. Alive(s) /\ ~ Alive(s)' /\ \A t \in Surface \ {s} : Alive(t)' = Alive(t)
  BY <1>1, <1>2 DEF Alive
<1>4. \A t \in Surface \ {s} : Parent(t)' = IF Parent(t) = s THEN NoSurface ELSE Parent(t)
  <2> SUFFICES ASSUME NEW t \in Surface \ {s}
               PROVE  Parent(t)' = IF Parent(t) = s THEN NoSurface ELSE Parent(t)
    OBVIOUS
  <2>1. parent[t] \in Surface \cup {NoSurface} /\ parent'[t] = parent[t]
    BY <1>2 DEF Roles, TypeRoles
  <2>2. ~ Alive(NoSurface) /\ ~ Alive(NoSurface)'
    BY NoSurfaceAssumption DEF Alive
  <2> QED
    BY <1>3, <2>1, <2>2, NoSurfaceAssumption DEF Parent
<1>5. TypeRoles'
  <2>1. above' \in [Surface -> Surface \cup {NoSurface}]
    BY <1>1 DEF Roles, TypeRoles
  <2>2. places' \in [Surface -> SUBSET Surface]
    BY <1>1 DEF Roles, TypeRoles
  <2>3. sub' \in SUBSET {t \in Surface : Alive(t)'} /\ tree' \in SUBSET {t \in Surface : Alive(t)'}
    BY <1>1, <1>3 DEF Roles, TypeRoles
  <2> QED
    BY <1>1, <1>2, <2>1, <2>2, <2>3 DEF Roles, TypeRoles
<1>6. Acyclic'
  <2>1. sub' \subseteq sub /\ sub' \subseteq Surface \ {s}
    BY <1>1 DEF Roles, TypeRoles
  <2>2. \A t \in sub' : Parent(t)' \in {Parent(t), NoSurface}
    BY <1>4, <2>1
  <2> QED
    BY <2>1, <2>2, CutKeepsAcyclic DEF Roles, Family
<1>7. \A t \in Surface : parent'[t] # NoSurface => life'[parent'[t]] # "none"
  BY <1>1, <1>2 DEF Roles, TypeRoles, Family
<1>8. \A t \in sub' : Parent(t)' # NoSurface => Parent(t)' \in tree'
  <2>1. sub \subseteq Surface
    BY DEF Roles, TypeRoles
  <2> QED
    BY <1>1, <1>4, <2>1 DEF Roles, Family
<1> QED
  BY <1>1, <1>3, <1>4, <1>5, <1>6, <1>7, <1>8 DEF Roles, Family

-------------------------------------------------------------------------------
(* The other types.                                                        *)
LEMMA CommitKeepsTypes ==
  ASSUME TypesHold, IInv, NEW s \in Surface, commit(s)
  PROVE  TypesHold'
<1> DEFINE id == last[s] + 1
           N == MaxCommit
           Part == [commit : 1 .. N, places : SUBSET Surface]
           From == [commit : 1 .. N, parent : Surface, parent_commit : 1 .. N + 1]
<1>1. /\ N \in Nat /\ last[s] \in 0 .. N /\ last[s] < N
      /\ id \in 1 .. N /\ id \in 0 .. N
      /\ places[s] \in SUBSET Surface
      /\ cached[s] \in Seq(1 .. N) /\ treeq[s] \in Seq(Part) /\ subq[s] \in Seq(From)
  <2>1. N \in Nat /\ last[s] \in 0 .. N /\ last[s] < N
    BY MaxCommitAssumption DEF TypesHold, TypeQueues, commit
  <2>2. id \in 1 .. N /\ id \in 0 .. N
    BY <2>1
  <2>3. places[s] \in SUBSET Surface
    BY DEF TypesHold, Roles, TypeRoles
  <2>4. cached[s] \in Seq(1 .. N) /\ treeq[s] \in Seq(Part) /\ subq[s] \in Seq(From)
    BY DEF TypesHold, TypeQueues
  <2> QED
    BY <2>1, <2>2, <2>3, <2>4
<1>2. /\ last' = [last EXCEPT ![s] = id]
      /\ cached' = [cached EXCEPT ![s] = Append(cached[s], id)]
      /\ subq' = [subq EXCEPT ![s] = WaySubsurface_commit(s, id)]
      /\ work' = <<s>> /\ before' = current[s]
      /\ UNCHANGED <<life, sub, sync, parent, tree, current, above>>
  BY DEF commit, tables, IInv, Types
<1>3. IF s \in tree
      THEN /\ treeq' = [treeq EXCEPT ![s] = Append(treeq[s], [commit |-> id, places |-> places[s]])]
           /\ places' = [places EXCEPT ![s] = {}]
      ELSE treeq' = treeq /\ places' = places
  BY DEF commit, IInv, Types
<1>4. Roles'
  <2>1. /\ places' \in [Surface -> SUBSET Surface]
        /\ above' \in [Surface -> Surface \cup {NoSurface}]
        /\ sync' \in SUBSET sub
    BY <1>2, <1>3 DEF TypesHold, Roles, TypeRoles
  <2> QED
    BY <1>2, <2>1, StillKeepsRoles DEF TypesHold
<1>5. TypeWork'
  <2>1. <<s>> \in Seq(Surface) /\ current[s] \in 0 .. MaxCommit
    BY DEF TypesHold, TypeQueues
  <2> QED
    BY <1>2, <2>1 DEF TypeWork
<1>6. TypePromise'
  <2>1. promise' = promise \cup
          {[child |-> s, commit |-> id, ancestor |-> a, needs |-> last[a] + 1] : a \in SyncLineage(s)}
    BY DEF commit
  <2>2. SyncLineage(s) \subseteq Surface
    BY LineageIsUpward DEF SyncLineage
  <2>3. \A a \in Surface : last[a] + 1 \in 1 .. MaxCommit + 1
    BY <1>1 DEF TypesHold, TypeQueues
  <2> QED
    BY <1>1, <2>1, <2>2, <2>3 DEF TypesHold, TypePromise
<1>7. Append(cached[s], id) \in Seq(1 .. N)
  BY <1>1
<1>8. WaySubsurface_commit(s, id) \in Seq(From)
  <2>1. CASE is_synchronized(s) /\ Parent(s) # NoSurface
    <3> DEFINE e == [commit |-> id, parent |-> Parent(s), parent_commit |-> last[Parent(s)] + 1]
    <3>1. Parent(s) \in Surface
      BY <2>1 DEF Parent, Alive
    <3>2. last[Parent(s)] + 1 \in 1 .. N + 1
      BY <1>1, <3>1 DEF TypesHold, TypeQueues
    <3>3. e \in From
      BY <1>1, <3>1, <3>2
    <3>4. WaySubsurface_commit(s, id) = Append(subq[s], e)
      BY <2>1 DEF WaySubsurface_commit
    <3>5. \A A : \A q \in Seq(A) : \A x \in A : Append(q, x) \in Seq(A)
      OBVIOUS
    <3>6. subq[s] \in Seq(From)
      BY <1>1
    <3> HIDE DEF e, From
    <3> QED
      BY <3>3, <3>4, <3>5, <3>6
  <2>2. CASE ~(is_synchronized(s) /\ Parent(s) # NoSurface)
    BY <1>1, <2>2 DEF WaySubsurface_commit
  <2> QED
    BY <2>1, <2>2
<1>9. \A t \in Surface : treeq'[t] \in Seq(Part)
  <2>1. \A t \in Surface : treeq[t] \in Seq(Part)
    BY DEF TypesHold, TypeQueues
  <2>2. CASE s \in tree
    <3> DEFINE e == [commit |-> id, places |-> places[s]]
    <3>1. e \in Part
      BY <1>1
    <3>2. treeq' = [treeq EXCEPT ![s] = Append(treeq[s], e)]
      BY <1>3, <2>2
    <3> HIDE DEF e, Part
    <3>3. Append(treeq[s], e) \in Seq(Part)
      BY <1>1, <3>1
    <3> QED
      BY <2>1, <3>2, <3>3 DEF IInv, Types
  <2>3. CASE s \notin tree
    BY <1>3, <2>1, <2>3
  <2> QED
    BY <2>2, <2>3
<1>10. TypeQueues'
  <2>1. \A t \in Surface : subq'[t] \in Seq(From)
    <3>1. \A t \in Surface : subq[t] \in Seq(From)
      BY DEF TypesHold, TypeQueues
    <3> HIDE DEF From, id
    <3> QED
      BY <1>2, <1>8, <3>1 DEF IInv, Types
  <2>2. \A t \in Surface : cached'[t] \in Seq(1 .. N)
    <3>1. \A t \in Surface : cached[t] \in Seq(1 .. N)
      BY DEF TypesHold, TypeQueues
    <3> HIDE DEF id
    <3> QED
      BY <1>2, <1>7, <3>1 DEF IInv, Types
  <2>3. last' \in [Surface -> 0 .. N] /\ current' \in [Surface -> 0 .. N]
    BY <1>1, <1>2 DEF TypesHold, TypeQueues
  <2> QED
    BY <1>9, <2>1, <2>2, <2>3 DEF TypeQueues
<1> QED
  BY <1>4, <1>5, <1>6, <1>10 DEF TypesHold

(* Applying a packet keeps the types.                                      *)
LEMMA ApplyKeepsTypes ==
  ASSUME TypesHold, IInv, flush_apply
  PROVE  TypesHold'
<1> DEFINE s == Head(work)
           id == Head(cached[s])
           placed == IF Peeked(treeq[s], id) THEN Head(treeq[s]).places ELSE {}
<1>1. /\ s \in Surface /\ cached[s] # <<>>
      /\ cached[s] \in Seq(1 .. MaxCommit)
      /\ UNCHANGED <<life, sub, sync, parent, tree, places, last, work, before>>
  <2>1. work # <<>> /\ cached[s] # <<>> /\ work \in Seq(Surface)
    BY DEF flush_apply, Ready, TypesHold, TypeWork
  <2>2. s \in Surface
    BY <2>1
  <2> QED
    BY <2>1, <2>2 DEF flush_apply, tables, TypesHold, TypeQueues
<1>2. /\ current' = [current EXCEPT ![s] = id]
      /\ cached' = [cached EXCEPT ![s] = Tail(cached[s])]
      /\ subq' = [subq EXCEPT ![s] = IF Peeked(subq[s], id) THEN Tail(subq[s]) ELSE subq[s]]
      /\ treeq' = [treeq EXCEPT ![s] = IF Peeked(treeq[s], id) THEN Tail(treeq[s]) ELSE treeq[s]]
      /\ above' = [t \in Surface |-> IF t \in placed THEN s ELSE above[t]]
      /\ promise' \subseteq promise
  BY <1>1 DEF flush_apply, apply, IInv, Types
<1>3. id \in 1 .. MaxCommit /\ Tail(cached[s]) \in Seq(1 .. MaxCommit) /\ id \in 0 .. MaxCommit
  <2>1. id \in 1 .. MaxCommit /\ Tail(cached[s]) \in Seq(1 .. MaxCommit)
    BY <1>1, HeadTailProperties
  <2> QED
    BY <2>1, MaxCommitAssumption
<1> HIDE DEF s, id, placed
<1>4. Roles'
  <2>1. /\ places' \in [Surface -> SUBSET Surface]
        /\ above' \in [Surface -> Surface \cup {NoSurface}]
        /\ sync' \in SUBSET sub
    BY <1>1, <1>2 DEF TypesHold, Roles, TypeRoles
  <2> QED
    BY <1>1, <2>1, StillKeepsRoles DEF TypesHold
<1>5. TypeWork' /\ TypePromise'
  BY <1>1, <1>2 DEF TypesHold, TypeWork, TypePromise
<1>6. TypeQueues'
  <2>1. \A A : \A q \in Seq(A) : q # <<>> => Tail(q) \in Seq(A)
    BY HeadTailProperties
  <2>2. ASSUME NEW A, \A t \in Surface : treeq[t] \in Seq(A)
        PROVE  \A t \in Surface : treeq'[t] \in Seq(A)
    BY <1>1, <1>2, <2>1, <2>2 DEF Peeked, IInv, Types
  <2>3. ASSUME NEW A, \A t \in Surface : subq[t] \in Seq(A)
        PROVE  \A t \in Surface : subq'[t] \in Seq(A)
    BY <1>1, <1>2, <2>1, <2>3 DEF Peeked, IInv, Types
  <2>4. \A t \in Surface : cached'[t] \in Seq(1 .. MaxCommit)
    BY <1>1, <1>2, <1>3 DEF TypesHold, TypeQueues, IInv, Types
  <2>5. last' \in [Surface -> 0 .. MaxCommit] /\ current' \in [Surface -> 0 .. MaxCommit]
    BY <1>1, <1>2, <1>3 DEF TypesHold, TypeQueues
  <2> QED
    BY <2>2, <2>3, <2>4, <2>5 DEF TypesHold, TypeQueues
<1> QED
  BY <1>4, <1>5, <1>6 DEF TypesHold

(* What the loop leaves for flush to visit.                                *)
LEMMA VisitsAreSequences ==
  ASSUME NEW S \in SUBSET Surface, NEW next \in SetToSeqs(S)
  PROVE  next \in Seq(S) /\ ToSet(next) = S
<1>1. IsFiniteSet(S) /\ Cardinality(S) \in Nat
  BY SurfaceAssumption, FS_Subset, FS_CardinalityType
<1> DEFINE n == Cardinality(S)
<1>2. /\ next \in [1 .. n -> S]
      /\ \A i, j \in 1 .. n : i # j => next[i] # next[j]
  BY DEF SetToSeqs
<1>3. next \in Seq(S) /\ DOMAIN next = 1 .. n
  BY <1>1, <1>2
<1>4. next \in Injection(1 .. n, S)
  BY <1>2 DEF Injection, IsInjective
<1>5. next \in Surjection(1 .. n, S)
  <2>1. IsFiniteSet(1 .. n) /\ Cardinality(1 .. n) = n
    BY <1>1, FS_Interval
  <2> QED
    BY <1>1, <1>4, <2>1, FS_Injection
<1>6. ToSet(next) = S
  BY <1>2, <1>3, <1>5 DEF ToSet, Surjection
<1> QED
  BY <1>3, <1>6

(* A request other than a commit empties queues at most.                   *)
LEMMA RequestKeepsTypes ==
  ASSUME TypesHold, Roles', UNCHANGED <<last, current, work, before>>, promise' \subseteq promise,
         \A t \in Surface : /\ treeq'[t] \in {treeq[t], <<>>}
                            /\ subq'[t] \in {subq[t], <<>>}
                            /\ cached'[t] \in {cached[t], <<>>}
  PROVE  TypesHold'
<1>1. ASSUME NEW A, NEW f, NEW g, \A t \in Surface : f[t] \in Seq(A),
             \A t \in Surface : g[t] \in {f[t], <<>>}
      PROVE  \A t \in Surface : g[t] \in Seq(A)
  <2>1. <<>> \in Seq(A)
    OBVIOUS
  <2> QED
    BY <1>1, <2>1
<1>2. TypeQueues'
  <2> DEFINE Part == [commit : 1 .. MaxCommit, places : SUBSET Surface]
             From == [commit : 1 .. MaxCommit, parent : Surface, parent_commit : 1 .. MaxCommit + 1]
  <2>1. /\ \A t \in Surface : treeq[t] \in Seq(Part)
        /\ \A t \in Surface : subq[t] \in Seq(From)
        /\ \A t \in Surface : cached[t] \in Seq(1 .. MaxCommit)
    BY DEF TypesHold, TypeQueues
  <2> HIDE DEF Part, From
  <2>2. \A t \in Surface : treeq'[t] \in Seq(Part)
    BY <1>1, <2>1
  <2>3. \A t \in Surface : subq'[t] \in Seq(From)
    BY <1>1, <2>1
  <2>4. \A t \in Surface : cached'[t] \in Seq(1 .. MaxCommit)
    BY <1>1, <2>1
  <2> QED
    BY <2>2, <2>3, <2>4 DEF TypesHold, TypeQueues, Part, From
<1> QED
  BY <1>2 DEF TypesHold, TypePromise, TypeWork

(* The return of a flush keeps the types.                                  *)
LEMMA ReturnKeepsTypes ==
  ASSUME TypesHold, flush_return
  PROVE  TypesHold'
<1> DEFINE S == IF current[Head(work)] # before THEN Children(Head(work)) ELSE {}
<1>1. PICK next \in SetToSeqs(S) : LET rest == next \o Tail(work)
                                   IN  /\ work' = rest
                                       /\ before' = IF rest = <<>> THEN 0 ELSE current[Head(rest)]
  BY DEF flush_return
<1>2. /\ work # <<>> /\ UNCHANGED <<tables, queues, current, above, promise>>
      /\ S \in SUBSET Surface
  BY DEF flush_return, Children
<1> HIDE DEF S
<1>3. work' \in Seq(Surface)
  <2>1. next \in Seq(S)
    BY <1>1, <1>2, VisitsAreSequences
  <2>2. next \in Seq(Surface) /\ Tail(work) \in Seq(Surface)
    BY <1>2, <2>1 DEF TypesHold, TypeWork
  <2> QED
    BY <1>1, <2>2
<1>4. before' \in 0 .. MaxCommit
  <2>1. CASE work' = <<>>
    BY <1>1, <2>1, MaxCommitAssumption
  <2>2. CASE work' # <<>>
    <3>1. Head(work') \in Surface
      BY <1>3, <2>2
    <3>2. before' = current[Head(work')]
      BY <1>1, <2>2, Zenon
    <3> QED
      BY <3>1, <3>2 DEF TypesHold, TypeQueues
  <2> QED
    BY <2>1, <2>2
<1>5. Roles'
  BY <1>2, StillKeepsRoles DEF TypesHold, Roles, TypeRoles, tables, queues
<1> QED
  BY <1>2, <1>3, <1>4, <1>5 DEF TypesHold, TypeWork, TypeQueues, TypePromise, queues

(* Every step keeps roles and types.                                       *)
LEMMA NextKeepsTypes == IInv /\ TypesHold /\ [Next]_vars => TypesHold'
<1> SUFFICES ASSUME IInv, TypesHold, [Next]_vars PROVE TypesHold'
  OBVIOUS
<1>1. Roles /\ Types
  BY DEF TypesHold, IInv
<1>2. ASSUME NEW s \in Surface, commit(s) PROVE TypesHold'
  BY <1>2, CommitKeepsTypes
<1>3. CASE flush_apply
  BY <1>3, ApplyKeepsTypes
<1>4. CASE flush_return
  BY <1>4, ReturnKeepsTypes
<1>5. ASSUME NEW s \in Surface, create_surface(s) PROVE TypesHold'
  <2>1. Roles'
    BY <1>1, <1>5, CreateKeepsRoles
  <2>2. UNCHANGED <<last, current, work, before, promise, treeq, subq, cached>>
    BY <1>5 DEF create_surface, queues
  <2> QED
    BY <2>1, <2>2, RequestKeepsTypes
<1>6. ASSUME NEW s \in Surface, NEW p \in Surface, get_subsurface(s, p) PROVE TypesHold'
  <2>1. Roles'
    BY <1>1, <1>6, GetKeepsRoles
  <2>2. /\ UNCHANGED <<last, current, work, before, promise, treeq, cached>>
        /\ subq' = [subq EXCEPT ![s] = <<>>]
    BY <1>6 DEF get_subsurface
  <2>3. \A t \in Surface : subq'[t] \in {subq[t], <<>>}
    BY <1>1, <2>2 DEF Types
  <2> QED
    BY <2>1, <2>2, <2>3, RequestKeepsTypes
<1>7. ASSUME NEW s \in Surface, place(s) \/ set_sync(s) \/ set_desync(s) PROVE TypesHold'
  <2>1. /\ UNCHANGED <<life, sub, tree, parent, above>>
        /\ UNCHANGED <<last, current, work, before, treeq, subq, cached>>
        /\ promise' \subseteq promise
    BY <1>7 DEF place, set_sync, set_desync, tables, queues
  <2>2. sync' \in SUBSET sub
    BY <1>1, <1>7 DEF place, set_sync, set_desync, tables, SubsurfaceRequest, Roles, TypeRoles
  <2>3. places' \in [Surface -> SUBSET Surface]
    BY <1>1, <1>7 DEF place, set_sync, set_desync, queues, Roles, TypeRoles
  <2>4. Roles'
    BY <1>1, <2>1, <2>2, <2>3, StillKeepsRoles DEF Roles, TypeRoles
  <2> QED
    BY <2>1, <2>4, RequestKeepsTypes
<1>8. ASSUME NEW s \in Surface, DestroySubsurface(s) PROVE TypesHold'
  <2>1. Roles'
    BY <1>1, <1>8, DestroySubsurfaceKeepsRoles
  <2>2. /\ UNCHANGED <<last, current, work, before, treeq, cached>>
        /\ promise' \subseteq promise
        /\ subq' = [subq EXCEPT ![s] = <<>>]
    BY <1>8 DEF DestroySubsurface
  <2>3. \A t \in Surface : subq'[t] \in {subq[t], <<>>}
    BY <1>1, <2>2 DEF Types
  <2> QED
    BY <2>1, <2>2, <2>3, RequestKeepsTypes
<1>9. ASSUME NEW s \in Surface, DestroySurface(s) PROVE TypesHold'
  <2>1. Roles'
    BY <1>1, <1>9, DestroySurfaceKeepsRoles
  <2>2. /\ UNCHANGED <<last, current, work, before, treeq, subq, cached>>
        /\ promise' \subseteq promise
    BY <1>9 DEF DestroySurface, queues
  <2> QED
    BY <2>1, <2>2, RequestKeepsTypes
<1>10. ASSUME NEW s \in Surface, WaySurface_destructor(s) PROVE TypesHold'
  <2>1. Roles'
    BY <1>1, <1>10, DestructorKeepsRoles
  <2>2. /\ UNCHANGED <<last, current, work, before>>
        /\ promise' \subseteq promise
        /\ subq' = [subq EXCEPT ![s] = <<>>] /\ treeq' = [treeq EXCEPT ![s] = <<>>]
        /\ cached' = [cached EXCEPT ![s] = <<>>]
    BY <1>10 DEF WaySurface_destructor
  <2>3. \A t \in Surface : /\ treeq'[t] \in {treeq[t], <<>>}
                           /\ subq'[t] \in {subq[t], <<>>}
                           /\ cached'[t] \in {cached[t], <<>>}
    BY <1>1, <2>2 DEF Types
  <2> QED
    BY <2>1, <2>2, <2>3, RequestKeepsTypes
<1>11. CASE UNCHANGED vars
  <2>1. Roles'
    BY <1>1, <1>11, StillKeepsRoles DEF Roles, TypeRoles, vars, tables, queues
  <2> QED
    BY <1>11, <2>1, RequestKeepsTypes DEF vars, queues
<1> QED
  BY <1>2, <1>3, <1>4, <1>5, <1>6, <1>7, <1>8, <1>9, <1>10, <1>11 DEF Next

(* TypeOK follows.                                                         *)
LEMMA TypesImplied == TypesHold => TypeOK
<1> QED
  BY DEF TypesHold, Roles, TypeRoles, TypeQueues, TypePromise, TypeWork, TypeOK

-------------------------------------------------------------------------------
(* Promises.                                                               *)

(* The commit of t that is numbered need[t] is still to come, or waits for *)
(* that of its parent.                                                     *)
Blocked(t, need) ==
  /\ current[t] < need[t] /\ need[t] <= last[t] + 1
  /\ need[t] <= last[t] => \E i \in DOMAIN subq[t] :
       /\ subq[t][i].commit = need[t] /\ subq[t][i].parent = Parent(t)
       /\ need[Parent(t)] <= subq[t][i].parent_commit

(* What keeps p: of the surfaces D from its child up to below its ancestor *)
(* each waits for the next one, and goes on doing so with later commits.   *)
Waits(p, D, need) ==
  /\ p.child \in D /\ D \cup {p.ancestor} \subseteq Lineage(p.child)
  /\ need[p.child] = p.commit /\ p.commit <= last[p.child]
  /\ need[p.ancestor] = p.needs
  /\ current[p.ancestor] < p.needs /\ p.needs <= last[p.ancestor] + 1
  /\ \A t \in D : /\ t \in sub /\ Parent(t) \in D \cup {p.ancestor}
                  /\ t # p.child => is_synchronized(t)
                  /\ Blocked(t, need)

Promised ==
  \A p \in promise : \E D \in SUBSET Surface, need \in [Surface -> Nat] : Waits(p, D, need)

(* Whatever leaves the child's lineage and its queues alone.               *)
LEMMA WaitStays ==
  ASSUME TypesHold, NEW p \in promise, NEW D \in SUBSET Surface, NEW need \in [Surface -> Nat],
         Waits(p, D, need), UNCHANGED <<last, current>>,
         \A t \in Lineage(p.child) \cap sub :
           /\ t \in sub' /\ Parent(t)' = Parent(t) /\ subq'[t] = subq[t]
           /\ t \in sync /\ t # p.child => t \in sync'
  PROVE  Waits(p, D, need)'
<1>1. /\ p.child \in Surface /\ p.child \in D /\ D \cup {p.ancestor} \subseteq Lineage(p.child)
      /\ Acyclic
  BY DEF TypesHold, TypePromise, Waits, Roles, Family
<1>2. Lineage(p.child) \subseteq Lineage(p.child)'
  BY <1>1, LineageStays
<1>3. ASSUME NEW t \in D, t # p.child PROVE is_synchronized(t)'
  <2>1. t \in sub /\ is_synchronized(t) /\ t \in Lineage(p.child) /\ t \in sub'
    BY <1>1, <1>3 DEF Waits
  <2>2. Lineage(t) \subseteq Lineage(p.child)
    BY <1>1, <2>1, LineageWithin
  <2>3. Lineage(t) \subseteq Lineage(t)'
    BY <2>2, LineageStays
  <2>4. PICK w \in Lineage(t) : w \in sub /\ w \in sync
    BY <2>1 DEF is_synchronized
  <2>5. p.child \notin Lineage(t)
    BY <1>1, <1>3, <2>1 DEF Acyclic
  <2>6. w # p.child /\ w \in Lineage(p.child)
    BY <2>2, <2>4, <2>5
  <2> QED
    BY <2>1, <2>3, <2>4, <2>6 DEF is_synchronized
<1>4. ASSUME NEW t \in D
      PROVE  t \in sub' /\ Parent(t)' \in D \cup {p.ancestor} /\ Blocked(t, need)'
  <2>1. /\ t \in sub /\ t \in Lineage(p.child) /\ Parent(t) \in D \cup {p.ancestor}
        /\ Blocked(t, need)
    BY <1>1 DEF Waits
  <2>2. t \in sub' /\ Parent(t)' = Parent(t) /\ subq'[t] = subq[t]
    BY <2>1
  <2> QED
    BY <2>1, <2>2 DEF Blocked
<1> QED
  BY <1>1, <1>2, <1>3, <1>4 DEF Waits

(* The surface that commits, if it is one of those that wait, waits on.    *)
LEMMA CommitWaits ==
  ASSUME TypesHold, IInv, NEW s \in Surface, commit(s),
         NEW p \in promise, NEW D \in SUBSET Surface, NEW need \in [Surface -> Nat],
         Waits(p, D, need)
  PROVE  Waits(p, D, need)'
<1>1. /\ last' = [last EXCEPT ![s] = last[s] + 1]
      /\ subq' = [subq EXCEPT ![s] = WaySubsurface_commit(s, last[s] + 1)]
      /\ UNCHANGED <<life, sub, sync, parent, current>>
  BY DEF commit, tables
<1>2. /\ \A t : Parent(t)' = Parent(t) /\ Lineage(t)' = Lineage(t)
      /\ \A t : is_synchronized(t)' = is_synchronized(t)
  BY <1>1 DEF Parent, Alive, Lineage, Upward, is_synchronized
<1>3. /\ last \in [Surface -> Nat] /\ current \in [Surface -> Nat]
      /\ subq \in [Surface -> Seq(SubPart)]
      /\ p.ancestor \in Surface /\ p.child \in Surface /\ p.needs \in Nat /\ p.commit \in Nat
      /\ NoSurface \notin Surface
  <2>1. p \in [child : Surface, commit : 1 .. MaxCommit, ancestor : Surface, needs : 1 .. MaxCommit + 1]
    BY DEF TypesHold, TypePromise
  <2>2. p.ancestor \in Surface /\ p.child \in Surface /\ p.needs \in Nat /\ p.commit \in Nat
    BY <2>1
  <2> QED
    BY <2>2, NoSurfaceAssumption DEF IInv, Types
<1>4. /\ \A t \in Surface \ {s} : last'[t] = last[t] /\ subq'[t] = subq[t]
      /\ last'[s] = last[s] + 1 /\ subq'[s] = WaySubsurface_commit(s, last[s] + 1)
  BY <1>1, <1>3
<1>5. ASSUME NEW t \in D, t # s PROVE Blocked(t, need)'
  <2>1. Blocked(t, need) /\ last'[t] = last[t] /\ subq'[t] = subq[t]
    BY <1>4, <1>5 DEF Waits
  <2> QED
    BY <1>1, <1>2, <2>1 DEF Blocked
<1>6. ASSUME s \in D PROVE Blocked(s, need)'
  <2> DEFINE e == [commit |-> last[s] + 1, parent |-> Parent(s),
                   parent_commit |-> last[Parent(s)] + 1]
             q == subq[s]
             r == WaySubsurface_commit(s, last[s] + 1)
  <2>1. /\ Blocked(s, need) /\ Parent(s) \in Surface /\ Parent(s) # NoSurface
        /\ s # p.child => is_synchronized(s)
    BY <1>3, <1>6 DEF Waits
  <2>2. need[Parent(s)] <= last[Parent(s)] + 1
    <3>1. CASE Parent(s) \in D
      BY <3>1 DEF Waits, Blocked
    <3>2. CASE Parent(s) = p.ancestor
      BY <3>2 DEF Waits
    <3> QED
      BY <1>6, <3>1, <3>2 DEF Waits
  <2>3. /\ q \in Seq(SubPart) /\ Len(q) \in Nat /\ DOMAIN q = 1 .. Len(q)
        /\ last[s] \in Nat /\ need[s] \in Nat /\ last[Parent(s)] \in Nat
    BY <1>3, <2>1
  <2>4. e \in SubPart
    BY <2>1, <2>3 DEF SubPart
  <2>5. /\ r = q \/ r = Append(q, e)
        /\ is_synchronized(s) => r = Append(q, e)
    BY <2>1 DEF WaySubsurface_commit
  <2>6. e.commit = last[s] + 1 /\ e.parent = Parent(s) /\ e.parent_commit = last[Parent(s)] + 1
    OBVIOUS
  <2> HIDE DEF e, q, r
  <2>7. /\ DOMAIN Append(q, e) = 1 .. Len(q) + 1
        /\ \A i \in 1 .. Len(q) : Append(q, e)[i] = q[i]
        /\ Append(q, e)[Len(q) + 1] = e
    BY <2>3, <2>4
  <2>8. \E i \in DOMAIN r : /\ r[i].commit = need[s] /\ r[i].parent = Parent(s)
                            /\ need[Parent(s)] <= r[i].parent_commit
    <3>1. CASE need[s] <= last[s]
      <4>1. PICK i \in 1 .. Len(q) : /\ q[i].commit = need[s] /\ q[i].parent = Parent(s)
                                     /\ need[Parent(s)] <= q[i].parent_commit
        BY <2>1, <2>3, <3>1 DEF Blocked, q
      <4>2. i \in DOMAIN r /\ r[i] = q[i]
        BY <2>3, <2>5, <2>7
      <4> QED
        BY <4>1, <4>2
    <3>2. CASE ~ (need[s] <= last[s])
      <4>1. need[s] = last[s] + 1
        BY <2>1, <2>3, <3>2 DEF Blocked
      <4>2. s # p.child
        BY <3>2 DEF Waits
      <4>3. r = Append(q, e) /\ Len(q) + 1 \in DOMAIN r /\ r[Len(q) + 1] = e
        BY <2>1, <2>3, <2>5, <2>7, <4>2
      <4> QED
        BY <2>2, <2>6, <4>1, <4>3
    <3> QED
      BY <3>1, <3>2
  <2>9. current'[s] < need[s] /\ need[s] <= last'[s] + 1
    BY <1>1, <1>4, <2>1, <2>3 DEF Blocked
  <2> QED
    BY <1>2, <1>4, <2>8, <2>9 DEF Blocked, r
<1>7. /\ p.commit <= last'[p.child] /\ p.needs <= last'[p.ancestor] + 1
      /\ current'[p.ancestor] < p.needs
  <2>1. ASSUME NEW t \in Surface PROVE last[t] \in Nat /\ last'[t] \in {last[t], last[t] + 1}
    BY <1>3, <1>4
  <2>2. p.commit <= last[p.child] /\ p.needs <= last[p.ancestor] + 1 /\ current[p.ancestor] < p.needs
    BY DEF Waits
  <2>3. p.commit <= last'[p.child]
    <3>1. /\ last[p.child] \in Nat /\ p.commit \in Nat
          /\ last'[p.child] = last[p.child] \/ last'[p.child] = last[p.child] + 1
      BY <1>3, <2>1
    <3> QED
      BY <2>2, <3>1
  <2>4. p.needs <= last'[p.ancestor] + 1
    <3>1. /\ last[p.ancestor] \in Nat /\ p.needs \in Nat
          /\ last'[p.ancestor] = last[p.ancestor] \/ last'[p.ancestor] = last[p.ancestor] + 1
      BY <1>3, <2>1
    <3> QED
      BY <2>2, <3>1
  <2> QED
    BY <1>1, <2>2, <2>3, <2>4
<1>8. \A t \in D : Blocked(t, need)'
  BY <1>5, <1>6
<1> QED
  BY <1>1, <1>2, <1>7, <1>8 DEF Waits

(* A promise begins with all surfaces on the way at their next commits.    *)
LEMMA CommitPromises ==
  ASSUME TypesHold, IInv, NEW s \in Surface, commit(s), NEW a \in SyncLineage(s), NEW p,
         p = [child |-> s, commit |-> last[s] + 1, ancestor |-> a, needs |-> last[a] + 1]
  PROVE  \E D \in SUBSET Surface, need \in [Surface -> Nat] : Waits(p, D, need)'
<1>d. PICK D : D = Lineage(s) \ Lineage(a)
  OBVIOUS
<1>n. PICK need : need = [t \in Surface |-> last[t] + 1]
  OBVIOUS
<1>1. /\ last' = [last EXCEPT ![s] = last[s] + 1]
      /\ subq' = [subq EXCEPT ![s] = WaySubsurface_commit(s, last[s] + 1)]
      /\ UNCHANGED <<life, sub, sync, parent, current>>
  BY DEF commit, tables
<1>2. /\ \A t : Parent(t)' = Parent(t) /\ Lineage(t)' = Lineage(t)
      /\ \A t : is_synchronized(t)' = is_synchronized(t)
  BY <1>1 DEF Parent, Alive, Lineage, Upward, is_synchronized
<1>3. /\ last \in [Surface -> Nat] /\ current \in [Surface -> Nat]
      /\ subq \in [Surface -> Seq(SubPart)] /\ Acyclic /\ life[s] = "live"
  BY DEF IInv, Types, TypesHold, Roles, Family, commit, Request
<1>4. /\ \A t \in Surface \ {s} : last'[t] = last[t] /\ subq'[t] = subq[t]
      /\ last'[s] = last[s] + 1 /\ subq'[s] = WaySubsurface_commit(s, last[s] + 1)
  BY <1>1, <1>3
<1>5. /\ a \in Lineage(s) /\ a # s /\ a \in Surface /\ Lineage(s) \subseteq Surface
      /\ s \in Lineage(s) /\ a \in Lineage(a)
      /\ \A t \in D : is_synchronized(t)
  BY <1>d, LineageIsUpward DEF SyncLineage
<1>6. s \in D /\ a \notin D
  BY <1>3, <1>5, <1>d DEF Acyclic
<1>7. ASSUME NEW t \in D PROVE t \in sub /\ Parent(t) \in Surface /\ Parent(t) \in D \cup {a}
  <2>1. t \in sub /\ t \in Surface /\ t # a
    BY <1>5, <1>7, <1>d DEF is_synchronized
  <2>2. a \in Lineage(t)
    BY <1>5, <1>d, LineageIsAChain
  <2>3. /\ Parent(t) # NoSurface /\ Parent(t) \in Surface
        /\ Lineage(t) = {t} \cup Lineage(Parent(t))
    BY <2>1, <2>2, LineageFromParent
  <2>4. Parent(t) \in Lineage(s)
    BY <1>5, <1>d, <2>1, <2>3, LineageIsUpward DEF Upward
  <2>5. a \in Lineage(Parent(t))
    BY <2>1, <2>2, <2>3
  <2>6. Parent(t) \in Lineage(a) => Parent(t) = a
    BY <1>3, <1>5, <2>3, <2>5 DEF Acyclic
  <2> QED
    BY <1>d, <2>1, <2>3, <2>4, <2>6
<1>8. /\ need \in [Surface -> Nat] /\ \A t \in Surface : need[t] = last[t] + 1 /\ last[t] \in Nat
  BY <1>3, <1>n
<1>9. D \in SUBSET Surface
  BY <1>5, <1>d
<1>10. p.child = s /\ p.commit = last[s] + 1 /\ p.ancestor = a /\ p.needs = last[a] + 1
  OBVIOUS
<1>11. \A t \in Surface : life[t] # "dead" => current[t] <= last[t]
  BY DEF IInv, Aligned, Packets
<1>12. \A t \in Lineage(s) : life[t] # "dead"
  <2> DEFINE U == {t \in Surface : life[t] # "dead"}
  <2>1. Upward(U)
    BY DEF Upward, Parent, Alive
  <2>2. s \in U
    BY <1>3
  <2>3. U \in SUBSET Surface
    OBVIOUS
  <2> HIDE DEF U
  <2>4. Lineage(s) \subseteq U
    BY <2>1, <2>2, <2>3, LineageIsLeast
  <2> QED
    BY <2>4 DEF U
<1>13. ASSUME NEW t \in D, t # s PROVE Blocked(t, need)'
  <2>1. t \in Surface /\ current[t] <= last[t] /\ current[t] \in Nat /\ last'[t] = last[t]
    BY <1>3, <1>4, <1>5, <1>9, <1>11, <1>12, <1>13, <1>d
  <2> QED
    BY <1>1, <1>8, <2>1 DEF Blocked
<1>14. Blocked(s, need)'
  <2> DEFINE e == [commit |-> last[s] + 1, parent |-> Parent(s),
                   parent_commit |-> last[Parent(s)] + 1]
             q == subq[s]
  <2>1. is_synchronized(s) /\ Parent(s) \in Surface /\ Parent(s) # NoSurface
    BY <1>5, <1>6, <1>7, <1>d, NoSurfaceAssumption
  <2>2. subq'[s] = Append(q, e)
    BY <1>4, <2>1 DEF WaySubsurface_commit
  <2>3. /\ e.commit = last[s] + 1 /\ e.parent = Parent(s)
        /\ e.parent_commit = last[Parent(s)] + 1 /\ q \in Seq(SubPart) /\ e \in SubPart
    BY <1>3, <1>8, <2>1 DEF SubPart
  <2> HIDE DEF e, q
  <2>4. Len(q) + 1 \in DOMAIN subq'[s] /\ subq'[s][Len(q) + 1] = e
    BY <2>2, <2>3
  <2>5. need[Parent(s)] <= e.parent_commit
    BY <1>8, <2>1, <2>3
  <2>6. current'[s] < need[s] /\ need[s] <= last'[s] + 1
    <3>1. current[s] <= last[s] /\ current[s] \in Nat /\ last[s] \in Nat
      BY <1>3, <1>11
    <3> QED
      BY <1>1, <1>4, <1>8, <3>1
  <2> QED
    BY <1>2, <1>8, <2>3, <2>4, <2>5, <2>6 DEF Blocked
<1>15. \A t \in D : Blocked(t, need)'
  BY <1>13, <1>14
<1>16. current'[a] < p.needs /\ p.needs <= last'[a] + 1 /\ p.commit <= last'[s]
  <2>1. current[a] <= last[a] /\ current[a] \in Nat /\ last[a] \in Nat /\ last'[a] = last[a]
    BY <1>3, <1>4, <1>5, <1>11, <1>12
  <2> QED
    BY <1>1, <1>4, <1>8, <1>10, <2>1
<1>17. D \cup {a} \subseteq Lineage(s) /\ \A t \in D : is_synchronized(t)
  BY <1>5, <1>d
<1>18. Waits(p, D, need)'
  BY <1>1, <1>2, <1>5, <1>6, <1>7, <1>8, <1>10, <1>15, <1>16, <1>17 DEF Waits
<1> QED
  BY <1>8, <1>9, <1>18

(* What waits is not applied, and what is applied lets nothing go on that  *)
(* waits for more.                                                         *)
LEMMA ApplyWaits ==
  ASSUME TypesHold, IInv, NEW s \in Surface, Ready(s), apply(s), UNCHANGED <<tables, last>>,
         NEW p \in promise, p \in promise',
         NEW D \in SUBSET Surface, NEW need \in [Surface -> Nat], Waits(p, D, need)
  PROVE  Waits(p, D, need)'
<1> DEFINE id == Head(cached[s])
           q == subq[s]
<1>1. /\ current' = [current EXCEPT ![s] = id]
      /\ subq' = [subq EXCEPT ![s] = IF Peeked(q, id) THEN Tail(q) ELSE q]
      /\ p.ancestor # s \/ p.needs > id
      /\ UNCHANGED <<life, sub, sync, parent, last>>
      /\ cached[s] # <<>> /\ test(s, id)
  BY DEF apply, tables, Ready
<1>2. /\ \A t : Parent(t)' = Parent(t) /\ Lineage(t)' = Lineage(t)
      /\ \A t : is_synchronized(t)' = is_synchronized(t)
  BY <1>1 DEF Parent, Alive, Lineage, Upward, is_synchronized
<1>3. /\ last \in [Surface -> Nat] /\ current \in [Surface -> Nat]
      /\ subq \in [Surface -> Seq(SubPart)] /\ cached[s] \in Seq(Nat)
      /\ p.ancestor \in Surface /\ p.child \in Surface /\ p.needs \in Nat
      /\ NoSurface \notin Surface
  <2>1. p \in [child : Surface, commit : 1 .. MaxCommit, ancestor : Surface, needs : 1 .. MaxCommit + 1]
    BY DEF TypesHold, TypePromise
  <2>2. p.ancestor \in Surface /\ p.child \in Surface /\ p.needs \in Nat
    BY <2>1
  <2> QED
    BY <2>2, NoSurfaceAssumption DEF IInv, Types
<1>4. /\ \A t \in Surface \ {s} : current'[t] = current[t] /\ subq'[t] = subq[t]
      /\ current'[s] = id /\ subq'[s] = IF Peeked(q, id) THEN Tail(q) ELSE q
  BY <1>1, <1>3
<1>5. ASSUME NEW t \in D, t # s PROVE Blocked(t, need)'
  <2>1. Blocked(t, need) /\ current'[t] = current[t] /\ subq'[t] = subq[t]
    BY <1>4, <1>5 DEF Waits
  <2> QED
    BY <1>1, <1>2, <2>1 DEF Blocked
<1>6. ASSUME s \in D PROVE Blocked(s, need)'
  <2>1. /\ Blocked(s, need) /\ Parent(s) \in Surface /\ Parent(s) # NoSurface
        /\ s \in sub
    BY <1>3, <1>6 DEF Waits
  <2>2. Aligned(s)
    BY <2>1 DEF TypesHold, Roles, TypeRoles, Alive, IInv
  <2>3. id = current[s] + 1 /\ current[s] < last[s] /\ current[s] \in Nat /\ last[s] \in Nat
        /\ need[s] \in Nat
    BY <1>1, <1>3, <2>2, ApplyPackets DEF Aligned
  <2>4. current[Parent(s)] < need[Parent(s)]
    <3>1. CASE Parent(s) \in D
      BY <3>1 DEF Waits, Blocked
    <3>2. CASE Parent(s) = p.ancestor
      BY <3>2 DEF Waits
    <3> QED
      BY <1>6, <3>1, <3>2 DEF Waits
  <2>5. /\ q \in Seq(SubPart) /\ Len(q) \in Nat /\ DOMAIN q = 1 .. Len(q)
        /\ \A i \in 1 .. Len(q) : /\ q[i].commit \in Nat /\ q[i].parent_commit \in Nat
                                  /\ current[s] < q[i].commit
        /\ \A i, j \in 1 .. Len(q) : i < j => q[i].commit < q[j].commit
    <3>1. q \in Seq(SubPart) /\ Len(q) \in Nat /\ DOMAIN q = 1 .. Len(q)
      BY <1>3
    <3>2. \A i \in 1 .. Len(q) : q[i] \in SubPart
      BY <3>1
    <3>3. \A i \in 1 .. Len(q) : q[i].commit \in Nat /\ q[i].parent_commit \in Nat
      BY <3>2 DEF SubPart
    <3> QED
      BY <2>2, <3>1, <3>3 DEF Aligned, SubParts
  <2> HIDE DEF id, q
  <2>6. id # need[s]
    <3> SUFFICES ASSUME id = need[s] PROVE FALSE
      OBVIOUS
    <3>1. PICK i \in 1 .. Len(q) : /\ q[i].commit = id /\ q[i].parent = Parent(s)
                                   /\ need[Parent(s)] <= q[i].parent_commit
      BY <2>1, <2>3, <2>5 DEF Blocked, q
    <3>2. i = 1
      <4>1. CASE 1 < i
        <5>1. 1 \in 1 .. Len(q) /\ q[1].commit < q[i].commit
          BY <2>5, <4>1
        <5> QED
          BY <2>3, <2>5, <3>1, <5>1
      <4> QED
        BY <4>1
    <3>3. q # <<>> /\ Head(q) = q[1]
      BY <2>5, <3>1, HeadTailProperties
    <3>4. Peeked(q, id)
      BY <3>1, <3>2, <3>3 DEF Peeked
    <3>5. current[Parent(s)] >= q[1].parent_commit
      BY <1>1, <2>1, <3>1, <3>2, <3>3, <3>4 DEF test, q, id
    <3>6. current[Parent(s)] \in Nat /\ need[Parent(s)] \in Nat /\ q[1].parent_commit \in Nat
      BY <1>3, <2>1, <2>5, <3>1, <3>2
    <3> QED
      BY <2>4, <3>1, <3>2, <3>5, <3>6
  <2>7. current'[s] < need[s] /\ need[s] <= last'[s] + 1
    BY <1>1, <1>4, <2>1, <2>3, <2>6 DEF Blocked
  <2>8. need[s] <= last'[s] => \E i \in DOMAIN subq'[s] :
          /\ subq'[s][i].commit = need[s] /\ subq'[s][i].parent = Parent(s)
          /\ need[Parent(s)] <= subq'[s][i].parent_commit
    <3> SUFFICES ASSUME need[s] <= last[s]
                 PROVE  \E i \in DOMAIN subq'[s] :
                          /\ subq'[s][i].commit = need[s] /\ subq'[s][i].parent = Parent(s)
                          /\ need[Parent(s)] <= subq'[s][i].parent_commit
      BY <1>1
    <3>1. PICK i \in 1 .. Len(q) : /\ q[i].commit = need[s] /\ q[i].parent = Parent(s)
                                   /\ need[Parent(s)] <= q[i].parent_commit
      BY <2>1, <2>5 DEF Blocked, q
    <3>2. CASE Peeked(q, id)
      <4>1. /\ q # <<>> /\ Head(q) = q[1] /\ Head(q).commit = id
            /\ Tail(q) \in Seq(SubPart) /\ Len(Tail(q)) = Len(q) - 1
            /\ \A j \in 1 .. Len(q) - 1 : Tail(q)[j] = q[j + 1]
        BY <2>5, <3>2, HeadTailProperties DEF Peeked
      <4>2. i # 1
        BY <2>6, <3>1, <4>1
      <4>3. i - 1 \in DOMAIN Tail(q) /\ Tail(q)[i - 1] = q[i]
        BY <2>5, <4>1, <4>2
      <4>4. subq'[s] = Tail(q)
        BY <1>4, <3>2
      <4> QED
        BY <3>1, <4>3, <4>4
    <3>3. CASE ~ Peeked(q, id)
      <4>1. subq'[s] = q
        BY <1>4, <3>3
      <4> QED
        BY <2>5, <3>1, <4>1
    <3> QED
      BY <3>2, <3>3
  <2> QED
    BY <1>2, <2>7, <2>8 DEF Blocked
<1>7. current'[p.ancestor] < p.needs
  <2>1. id \in Nat
    BY <1>1, <1>3, HeadTailProperties
  <2> HIDE DEF id, q
  <2>2. CASE p.ancestor = s
    BY <1>1, <1>3, <1>4, <2>1, <2>2
  <2>3. CASE p.ancestor # s
    BY <1>3, <1>4, <2>3 DEF Waits
  <2> QED
    BY <2>2, <2>3
<1> HIDE DEF id, q
<1>8. \A t \in D : Blocked(t, need)'
  BY <1>5, <1>6
<1> QED
  BY <1>1, <1>2, <1>7, <1>8 DEF Waits

(* Nothing is promised initially.                                          *)
LEMMA InitPromised == Init => Promised
<1> QED
  BY DEF Init, Promised

(* A promise that stays is one about surfaces that stay as they are.       *)
LEMMA RestKeepsPromised ==
  ASSUME TypesHold, Promised, UNCHANGED <<last, current>>, promise' \subseteq promise,
         \A p \in promise' : \A t \in Lineage(p.child) \cap sub :
           /\ t \in sub' /\ Parent(t)' = Parent(t) /\ subq'[t] = subq[t]
           /\ t \in sync /\ t # p.child => t \in sync'
  PROVE  Promised'
<1> SUFFICES ASSUME NEW p \in promise'
             PROVE  \E D \in SUBSET Surface, need \in [Surface -> Nat] : Waits(p, D, need)'
  BY DEF Promised
<1>1. p \in promise
  OBVIOUS
<1>2. PICK D \in SUBSET Surface, need \in [Surface -> Nat] : Waits(p, D, need)
  BY <1>1 DEF Promised
<1>3. Waits(p, D, need)'
  BY <1>1, <1>2, WaitStays
<1> QED
  BY <1>3

(* Every step keeps the promises.                                          *)
LEMMA NextKeepsPromised ==
  IInv /\ TypesHold /\ Promised /\ [Next]_vars => Promised'
<1> SUFFICES ASSUME IInv, TypesHold, Promised, [Next]_vars PROVE Promised'
  OBVIOUS
<1>1. /\ Roles /\ Types /\ sub \subseteq Surface
      /\ \A p \in promise : p.child \in Surface
      /\ \A p \in promise : p.child \in Lineage(p.child) /\ Lineage(p.child) \subseteq Surface
  <2>1. \A p \in promise : p.child \in Surface
    BY DEF TypesHold, TypePromise
  <2> QED
    BY <2>1, LineageIsUpward DEF TypesHold, IInv, Roles, TypeRoles
<1>2. ASSUME NEW s \in Surface, commit(s) PROVE Promised'
  <2> SUFFICES ASSUME NEW p \in promise'
               PROVE  \E D \in SUBSET Surface, need \in [Surface -> Nat] : Waits(p, D, need)'
    BY DEF Promised
  <2>1. CASE p \in promise
    <3>1. PICK D \in SUBSET Surface, need \in [Surface -> Nat] : Waits(p, D, need)
      BY <2>1 DEF Promised
    <3>2. Waits(p, D, need)'
      BY <1>2, <2>1, <3>1, CommitWaits
    <3> QED
      BY <3>2
  <2>2. CASE p \notin promise
    <3>1. PICK a \in SyncLineage(s) :
            p = [child |-> s, commit |-> last[s] + 1, ancestor |-> a, needs |-> last[a] + 1]
      BY <1>2, <2>2 DEF commit
    <3> QED
      BY <1>2, <3>1, CommitPromises
  <2> QED
    BY <2>1, <2>2
<1>3. CASE flush_apply
  <2> SUFFICES ASSUME NEW p \in promise'
               PROVE  \E D \in SUBSET Surface, need \in [Surface -> Nat] : Waits(p, D, need)'
    BY DEF Promised
  <2> DEFINE s == Head(work)
  <2>1. s \in Surface /\ Ready(s) /\ apply(s) /\ UNCHANGED <<tables, last>>
    <3>1. work # <<>> /\ work \in Seq(Surface)
      BY <1>3 DEF flush_apply, TypesHold, TypeWork
    <3>2. Head(work) \in Surface
      BY <3>1
    <3> QED
      BY <1>3, <3>2 DEF flush_apply
  <2> HIDE DEF s
  <2>2. p \in promise
    BY <2>1 DEF apply
  <2>3. PICK D \in SUBSET Surface, need \in [Surface -> Nat] : Waits(p, D, need)
    BY <2>2 DEF Promised
  <2>4. Waits(p, D, need)'
    BY <2>1, <2>2, <2>3, ApplyWaits
  <2> QED
    BY <2>4
<1>4. CASE flush_return
  BY <1>1, <1>4, RestKeepsPromised DEF flush_return, tables, queues, Parent, Alive
<1>5. ASSUME NEW s \in Surface, create_surface(s) PROVE Promised'
  <2>1. \A t \in sub : Parent(t)' = Parent(t)
    BY <1>1, <1>5, CreateKeepsRoles
  <2> QED
    BY <1>1, <1>5, <2>1, RestKeepsPromised DEF create_surface, queues
<1>6. ASSUME NEW s \in Surface, NEW p \in Surface, get_subsurface(s, p) PROVE Promised'
  <2>1. \A t \in Surface \ {s} : Parent(t)' = Parent(t)
    BY <1>1, <1>6, GetKeepsRoles
  <2>2. /\ s \notin sub /\ sub \subseteq sub' /\ sync \subseteq sync'
        /\ \A t \in Surface \ {s} : subq'[t] = subq[t]
        /\ UNCHANGED <<last, current, promise>>
    BY <1>1, <1>6 DEF get_subsurface, Types
  <2> QED
    BY <1>1, <2>1, <2>2, RestKeepsPromised
<1>7. ASSUME NEW s \in Surface, place(s) \/ set_sync(s) PROVE Promised'
  <2>1. UNCHANGED <<life, sub, parent, subq, last, current, promise>> /\ sync \subseteq sync'
    BY <1>7 DEF place, set_sync, tables, queues
  <2> QED
    BY <2>1, RestKeepsPromised DEF Parent, Alive
<1>8. ASSUME NEW s \in Surface, set_desync(s) PROVE Promised'
  <2>1. /\ UNCHANGED <<life, sub, parent, subq, last, current>> /\ sync' = sync \ {s}
        /\ promise' = {p \in promise : s = p.child \/ s \notin Lineage(p.child)}
    BY <1>8 DEF set_desync, queues
  <2> QED
    BY <2>1, RestKeepsPromised DEF Parent, Alive
<1>9. ASSUME NEW s \in Surface, DestroySubsurface(s) PROVE Promised'
  <2>1. sub' = sub \ {s} /\ \A t : Parent(t)' = Parent(t)
    BY <1>1, <1>9, DestroySubsurfaceKeepsRoles
  <2>2. /\ UNCHANGED <<last, current>> /\ sync' = sync \ {s}
        /\ \A t \in Surface \ {s} : subq'[t] = subq[t]
        /\ promise' = {p \in promise : s \notin Lineage(p.child)}
    BY <1>1, <1>9 DEF DestroySubsurface, Types
  <2> QED
    BY <1>1, <2>1, <2>2, RestKeepsPromised
<1>10. ASSUME NEW s \in Surface, DestroySurface(s) PROVE Promised'
  <2>1. \A t \in Surface : Parent(t)' = Parent(t)
    BY <1>1, <1>10, DestroySurfaceKeepsRoles
  <2>2. UNCHANGED <<sub, sync, subq, last, current>> /\ promise' \subseteq promise
    BY <1>10 DEF DestroySurface, queues
  <2> QED
    BY <1>1, <2>1, <2>2, RestKeepsPromised
<1>11. ASSUME NEW s \in Surface, WaySurface_destructor(s) PROVE Promised'
  <2>1. /\ sub' = sub \ {s} /\ sync' = sync \ {s} /\ Alive(s)
        /\ \A t \in Surface \ {s} : Parent(t)' = IF Parent(t) = s THEN NoSurface ELSE Parent(t)
    BY <1>1, <1>11, DestructorKeepsRoles
  <2>2. /\ UNCHANGED <<last, current>>
        /\ \A t \in Surface \ {s} : subq'[t] = subq[t]
        /\ promise' = {p \in promise : s \notin Lineage(p.child)}
    BY <1>1, <1>11 DEF WaySurface_destructor, Types
  <2>3. ASSUME NEW p \in promise', NEW t \in Lineage(p.child) \cap sub
        PROVE  t \in Surface \ {s} /\ Parent(t)' = Parent(t)
    <3>1. /\ p \in promise /\ s \notin Lineage(p.child) /\ t \in Surface \ {s}
          /\ Upward(Lineage(p.child))
      BY <1>1, <2>2, LineageIsUpward
    <3>2. Parent(t) # s
      BY <3>1, NoSurfaceAssumption DEF Upward
    <3> QED
      BY <2>1, <3>1, <3>2
  <2> QED
    BY <2>1, <2>2, <2>3, RestKeepsPromised
<1>12. CASE UNCHANGED vars
  BY <1>12, RestKeepsPromised DEF vars, tables, queues, Parent, Alive
<1> QED
  BY <1>2, <1>3, <1>4, <1>5, <1>6, <1>7, <1>8, <1>9, <1>10, <1>11, <1>12 DEF Next

(* The inductive invariant with roles and promises.                        *)
THEOREM RolesAndPromises == Spec => [](TypesHold /\ Promised)
<1> QED
  BY Invariance, InitTypes, InitPromised, NextKeepsTypes, NextKeepsPromised, PTL DEF Spec

(* A commit of a synchronized subsurface does not show before the next     *)
(* commit of each ancestor up to the first surface that is not (the test   *)
(* in way/surface/subsurface.cpp compares with the direct parent alone),   *)
(* and every commit shows whole, once and in order: for any tree of        *)
(* surfaces, also when they move between parents.                          *)
THEOREM CommitsAreSynced == Spec => []Synced
<1>1. TypesHold /\ Promised => PromisesKept
  <2> SUFFICES ASSUME Promised, NEW p \in promise PROVE current[p.child] < p.commit
    BY DEF PromisesKept
  <2>1. PICK D \in SUBSET Surface, need \in [Surface -> Nat] : Waits(p, D, need)
    BY DEF Promised
  <2> QED
    BY <2>1 DEF Waits, Blocked
<1> QED
  BY <1>1, RolesAndPromises, QueuesStayAligned, TypesImplied, PTL DEF Synced

-------------------------------------------------------------------------------
(* Places, as long as a subsurface stays with its parent.                  *)

(* Nothing is left of a surface that is not there.                         *)
Emptied ==
  \A s \in Surface : ~ Alive(s) => places[s] = {} /\ treeq[s] = <<>> /\ cached[s] = <<>>

(* Only its parent places a surface.                                       *)
OneParent ==
  /\ \A p \in Surface : \A s \in places[p] : parent[s] = p
  /\ \A p \in Surface : \A i \in DOMAIN treeq[p] : \A s \in treeq[p][i].places : parent[s] = p
  /\ \A s \in Surface : above[s] # NoSurface => above[s] = Parent(s)

(* Commit m of y places s, if no earlier one does.                         *)
Carried(s, y, m) ==
  \E i \in DOMAIN treeq[y] : s \in treeq[y][i].places /\ treeq[y][i].commit <= m

PlacedBy(s, y, m) == \/ above[s] = y
                     \/ s \in places[y] /\ last[y] < m
                     \/ Carried(s, y, m)

(* The parent's next commit places a subsurface at the latest, and so does *)
(* the one that a commit of the subsurface waits for.                      *)
InPlace ==
  \A s \in sub : Parent(s) # NoSurface =>
    /\ PlacedBy(s, Parent(s), last[Parent(s)] + 1)
    /\ \A i \in DOMAIN subq[s] : subq[s][i].parent = Parent(s) =>
         /\ subq[s][i].parent_commit <= last[Parent(s)] + 1
         /\ PlacedBy(s, Parent(s), subq[s][i].parent_commit)

(* A packet that waited for its parent's commit may be applied.            *)
Due(s) ==
  /\ cached[s] # <<>> /\ Parent(s) # NoSurface
  /\ Peeked(subq[s], Head(cached[s])) /\ Head(subq[s]).parent = Parent(s)
  /\ test(s, Head(cached[s]))

(* A flush is open or due that will come by a packet that may be applied.  *)
Flushed ==
  /\ work # <<>> => before <= current[Head(work)]
  /\ \A s \in sub : Due(s) =>
       \/ s \in ToSet(work)
       \/ /\ work # <<>> /\ Head(work) = Parent(s) /\ before < current[Head(work)]
          /\ above[s] = Parent(s)

Placing == Emptied /\ OneParent /\ InPlace /\ Flushed

(* When the parent has applied that commit, the surface is in its place.   *)
LEMMA PlacedIsShown ==
  ASSUME IInv, TypesHold, NEW s \in Surface, NEW y \in Surface, Alive(y),
         NEW m \in Nat, PlacedBy(s, y, m), m <= current[y]
  PROVE  above[s] = y
<1>1. /\ Aligned(y) /\ current[y] \in Nat /\ last[y] \in Nat
      /\ treeq[y] \in Seq(TreePart)
  BY DEF IInv, Types, Alive
<1>2. current[y] <= last[y]
  BY <1>1 DEF Aligned, Packets
<1>3. ~ Carried(s, y, m)
  <2> SUFFICES ASSUME NEW i \in 1 .. Len(treeq[y]), treeq[y][i].commit <= m PROVE FALSE
    BY <1>1 DEF Carried
  <2>1. /\ treeq[y][i].commit = (last[y] - Len(treeq[y])) + i
        /\ Len(treeq[y]) <= last[y] - current[y] /\ Len(treeq[y]) \in Nat
    BY <1>1 DEF Aligned, TreeParts
  <2> QED
    BY <1>1, <2>1
<1> QED
  BY <1>1, <1>2, <1>3 DEF PlacedBy

(* There is nothing to place initially.                                    *)
LEMMA InitPlacing == Init => Placing
<1> SUFFICES ASSUME Init PROVE Placing
  OBVIOUS
<1>1. Emptied
  BY DEF Init, Emptied
<1>2. OneParent
  BY DEF Init, OneParent
<1>3. InPlace
  BY DEF Init, InPlace
<1>4. Flushed
  BY DEF Init, Flushed
<1> QED
  BY <1>1, <1>2, <1>3, <1>4 DEF Placing

(* A later commit will do as well.                                         *)
LEMMA PlacedLater ==
  ASSUME TypesHold, IInv, NEW s, NEW y \in Surface, NEW m \in Nat, NEW n \in Nat, m <= n,
         PlacedBy(s, y, m)
  PROVE  PlacedBy(s, y, n)
<1>1. last[y] \in Nat /\ treeq[y] \in Seq(TreePart)
  BY DEF IInv, Types
<1>2. \A i \in DOMAIN treeq[y] : treeq[y][i].commit \in Nat
  <2>1. \A i \in DOMAIN treeq[y] : treeq[y][i] \in TreePart
    BY <1>1
  <2> QED
    BY <2>1 DEF TreePart
<1> QED
  BY <1>1, <1>2 DEF PlacedBy, Carried

(* Requests and destructors leave what places a surface, or remove it with *)
(* the surface.                                                            *)
LEMMA RestKeepsPlace ==
  ASSUME IInv, InPlace, last' = last, sub' \subseteq Surface,
         \A s \in sub' : Parent(s)' # NoSurface =>
           \/ subq'[s] = <<>> /\ s \in places'[Parent(s)']
           \/ /\ s \in sub /\ Parent(s)' = Parent(s) /\ subq'[s] = subq[s]
              /\ above'[s] = above[s] /\ treeq'[Parent(s)] = treeq[Parent(s)]
              /\ places[Parent(s)] \subseteq places'[Parent(s)]
  PROVE  InPlace'
<1> SUFFICES ASSUME NEW s \in sub', NEW y, y = Parent(s)', y # NoSurface
             PROVE  /\ PlacedBy(s, y, last[y] + 1)'
                    /\ \A i \in DOMAIN subq'[s] : subq'[s][i].parent = y =>
                         /\ subq'[s][i].parent_commit <= last'[y] + 1
                         /\ PlacedBy(s, y, subq[s][i].parent_commit)'
  BY DEF InPlace
<1>1. y \in Surface /\ last[y] \in Nat
  BY DEF Parent, Alive, IInv, Types
<1>2. CASE subq'[s] = <<>> /\ s \in places'[y]
  <2>1. DOMAIN subq'[s] = {}
    BY <1>2
  <2>2. last'[y] < last'[y] + 1
    BY <1>1
  <2>3. PlacedBy(s, y, last[y] + 1)'
    BY <1>2, <2>2 DEF PlacedBy
  <2> QED
    BY <2>1, <2>3
<1>3. CASE /\ s \in sub /\ y = Parent(s) /\ subq'[s] = subq[s]
           /\ above'[s] = above[s] /\ treeq'[y] = treeq[y] /\ places[y] \subseteq places'[y]
  <2>1. ASSUME NEW m, PlacedBy(s, y, m) PROVE PlacedBy(s, y, m)'
    BY <1>3, <2>1 DEF PlacedBy, Carried
  <2>2. PlacedBy(s, y, last[y] + 1)
    BY <1>3 DEF InPlace
  <2>3. PICK m : m = last[y] + 1
    OBVIOUS
  <2>4. PlacedBy(s, y, m)'
    BY <2>1, <2>2, <2>3
  <2>5. PlacedBy(s, y, last[y] + 1)'
    BY <2>3, <2>4
  <2>6. ASSUME NEW i \in DOMAIN subq'[s], subq'[s][i].parent = y
        PROVE  /\ subq'[s][i].parent_commit <= last'[y] + 1
               /\ PlacedBy(s, y, subq[s][i].parent_commit)'
    <3>1. PICK n : n = subq[s][i].parent_commit
      OBVIOUS
    <3>2. n <= last[y] + 1 /\ PlacedBy(s, y, n)
      BY <1>3, <2>6, <3>1 DEF InPlace
    <3>3. PlacedBy(s, y, n)' /\ n = subq'[s][i].parent_commit
      BY <1>3, <2>1, <3>1, <3>2
    <3> QED
      BY <3>2, <3>3
  <2> QED
    BY <2>5, <2>6
<1> QED
  BY <1>2, <1>3

(* Steps that flush nothing and add nothing to both queues leave no commit *)
(* behind.                                                                 *)
LEMMA RestKeepsFlushed ==
  ASSUME Flushed, UNCHANGED <<work, before, current>>,
         \A s \in sub' : cached'[s] # <<>> /\ subq'[s] # <<>> /\ Parent(s)' # NoSurface =>
           /\ s \in sub /\ Parent(s)' = Parent(s) /\ cached'[s] = cached[s]
           /\ subq'[s] = subq[s] /\ above'[s] = above[s]
  PROVE  Flushed'
<1>1. ASSUME NEW s \in sub', Due(s)'
      PROVE  \/ s \in ToSet(work')
             \/ /\ work' # <<>> /\ Head(work') = Parent(s)' /\ before' < current'[Head(work')]
                /\ above'[s] = Parent(s)'
  <2>1. cached'[s] # <<>> /\ subq'[s] # <<>> /\ Parent(s)' # NoSurface
    BY <1>1 DEF Due, Peeked
  <2>2. /\ s \in sub /\ Parent(s)' = Parent(s) /\ cached'[s] = cached[s]
        /\ subq'[s] = subq[s] /\ above'[s] = above[s]
    BY <2>1
  <2>3. Due(s)
    BY <1>1, <2>2 DEF Due, test
  <2> QED
    BY <2>2, <2>3 DEF Flushed
<1> QED
  BY <1>1 DEF Flushed

(* get_subsurface keeps the places, unless it gives a surface another      *)
(* parent.                                                                 *)
LEMMA GetKeepsPlacing ==
  ASSUME ~ Reparenting, TypesHold, IInv, Placing,
         NEW s \in Surface, NEW p \in Surface, get_subsurface(s, p)
  PROVE  Placing'
<1>1. /\ Parent(s) \in {NoSurface, p} /\ s \notin sub /\ Alive(p)
      /\ sub' = sub \cup {s} /\ parent' = [parent EXCEPT ![s] = p]
      /\ places' = [places EXCEPT ![p] = places[p] \cup {s}]
      /\ subq' = [subq EXCEPT ![s] = <<>>]
      /\ UNCHANGED <<life, treeq, last, cached, current, above, work, before>>
  BY DEF get_subsurface, Request, Alive, TypesHold, Roles, TypeRoles
<1>2. /\ Parent(s)' = p /\ \A t \in Surface \ {s} : Parent(t)' = Parent(t)
      /\ sub \subseteq Surface /\ sub' \subseteq Surface
  BY <1>1, GetKeepsRoles DEF TypesHold, Roles, TypeRoles
<1>3. /\ parent'[s] = p /\ \A t \in Surface \ {s} : parent'[t] = parent[t]
      /\ s \in places'[p]
      /\ \A q \in Surface : /\ places[q] \subseteq places'[q]
                            /\ places'[q] \subseteq places[q] \cup {s}
                            /\ q # p => places'[q] = places[q]
      /\ subq'[s] = <<>> /\ \A t \in Surface \ {s} : subq'[t] = subq[t]
  BY <1>1 DEF TypesHold, Roles, TypeRoles, IInv, Types
<1>4. Emptied'
  BY <1>1, <1>3 DEF Placing, Emptied, Alive
<1>5. \A q \in Surface : Alive(q) /\ parent[s] = q => q = p
  BY <1>1, NoSurfaceAssumption DEF Parent
<1>6. OneParent'
  <2>1. \A q \in Surface : \A t \in places'[q] : parent'[t] = q
    <3> SUFFICES ASSUME NEW q \in Surface, NEW t \in places'[q] PROVE parent'[t] = q
      OBVIOUS
    <3>1. CASE t = s /\ q # p
      <4>1. s \in places[q]
        BY <1>3, <3>1
      <4>2. Alive(q) /\ parent[s] = q
        BY <4>1 DEF Placing, Emptied, OneParent
      <4> QED
        BY <1>5, <3>1, <4>2
    <3>2. CASE t # s
      <4>1. t \in places[q] /\ t \in Surface
        BY <1>3, <3>2 DEF TypesHold, Roles, TypeRoles
      <4> QED
        BY <1>3, <3>2, <4>1 DEF Placing, OneParent
    <3> QED
      BY <1>3, <3>1, <3>2
  <2>2. \A q \in Surface : \A i \in DOMAIN treeq[q] : \A t \in treeq[q][i].places : parent'[t] = q
    <3> SUFFICES ASSUME NEW q \in Surface, NEW i \in DOMAIN treeq[q], NEW t \in treeq[q][i].places
                 PROVE  parent'[t] = q
      OBVIOUS
    <3>1. parent[t] = q /\ treeq[q] # <<>>
      <4>1. parent[t] = q
        BY DEF Placing, OneParent
      <4> QED
        BY <4>1
    <3>2. Alive(q)
      BY <3>1 DEF Placing, Emptied
    <3>3. CASE t = s
      BY <1>3, <1>5, <3>1, <3>2, <3>3
    <3>4. CASE t # s
      <4>1. t \in Surface
        <5>1. treeq[q] \in Seq(TreePart)
          BY DEF IInv, Types
        <5>2. treeq[q][i] \in TreePart
          BY <5>1
        <5> QED
          BY <5>2 DEF TreePart
      <4> QED
        BY <1>3, <3>1, <3>4, <4>1
    <3> QED
      BY <3>3, <3>4
  <2>3. \A t \in Surface : above[t] # NoSurface => above[t] = Parent(t)'
    BY <1>1, <1>2 DEF Placing, OneParent
  <2> QED
    BY <1>1, <2>1, <2>2, <2>3 DEF OneParent
<1>7. InPlace'
  <2> SUFFICES ASSUME NEW t \in sub', Parent(t)' # NoSurface
               PROVE  \/ subq'[t] = <<>> /\ t \in places'[Parent(t)']
                      \/ /\ t \in sub /\ Parent(t)' = Parent(t) /\ subq'[t] = subq[t]
                         /\ above'[t] = above[t] /\ treeq'[Parent(t)] = treeq[Parent(t)]
                         /\ places[Parent(t)] \subseteq places'[Parent(t)]
    BY <1>1, <1>2, RestKeepsPlace DEF Placing
  <2>1. CASE t = s
    BY <1>2, <1>3, <2>1
  <2>2. CASE t # s
    <3>1. t \in sub /\ t \in Surface /\ Parent(t)' = Parent(t)
      BY <1>1, <1>2, <2>2
    <3>2. Parent(t) \in Surface
      BY <3>1 DEF Parent, Alive
    <3> QED
      BY <1>1, <1>3, <2>2, <3>1, <3>2
  <2> QED
    BY <2>1, <2>2
<1>8. Flushed'
  BY <1>1, <1>2, <1>3, RestKeepsFlushed DEF Placing
<1> QED
  BY <1>4, <1>6, <1>7, <1>8 DEF Placing

(* Requests that move no surface.                                          *)
LEMMA RequestKeepsPlacing ==
  ASSUME TypesHold, IInv, Placing, TypesHold',
         UNCHANGED <<parent, treeq, last, cached, current, above, work, before>>,
         sub' \subseteq sub, \A t \in sub' : subq'[t] = subq[t],
         \A t \in Surface : Parent(t)' = Parent(t) /\ (Alive(t) => Alive(t)'),
         \A q \in Surface : /\ places[q] \subseteq places'[q]
                            /\ \A t \in places'[q] : t \in places[q] \/ Parent(t) = q
  PROVE  Placing'
<1>1. sub' \subseteq Surface /\ \A q \in Surface : q # NoSurface
  BY NoSurfaceAssumption DEF TypesHold, Roles, TypeRoles
<1>2. \A q \in Surface : \A t : Parent(t) = q => parent[t] = q /\ Alive(q)
  BY <1>1 DEF Parent
<1>3. Emptied'
  <2> SUFFICES ASSUME NEW q \in Surface, ~ Alive(q)' PROVE places'[q] = {} /\ treeq[q] = <<>> /\ cached[q] = <<>>
    BY DEF Emptied
  <2>1. ~ Alive(q)
    OBVIOUS
  <2>2. \A t \in places'[q] : t \in places[q]
    BY <1>2, <2>1
  <2> QED
    BY <2>1, <2>2 DEF Placing, Emptied
<1>4. OneParent'
  BY <1>2 DEF Placing, OneParent
<1>5. InPlace'
  <2>1. \A t \in sub' : Parent(t) # NoSurface => Parent(t) \in Surface
    BY DEF Parent, Alive
  <2> QED
    BY <1>1, <2>1, RestKeepsPlace DEF Placing
<1>6. Flushed'
  BY <1>1, RestKeepsFlushed DEF Placing
<1> QED
  BY <1>3, <1>4, <1>5, <1>6 DEF Placing

(* The destructor of a surface keeps the places.                           *)
LEMMA DestructorKeepsPlacing ==
  ASSUME TypesHold, IInv, Placing, NEW s \in Surface, WaySurface_destructor(s)
  PROVE  Placing'
<1>1. /\ sub' = sub \ {s} /\ Alive(s) /\ ~ Alive(s)'
      /\ \A t \in Surface \ {s} :
           /\ Parent(t)' = IF Parent(t) = s THEN NoSurface ELSE Parent(t)
           /\ Alive(t)' = Alive(t)
      /\ sub' \subseteq Surface \ {s}
  BY DestructorKeepsRoles DEF TypesHold, Roles, TypeRoles
<1>2. /\ parent' = [parent EXCEPT ![s] = NoSurface]
      /\ places' = [places EXCEPT ![s] = {}] /\ treeq' = [treeq EXCEPT ![s] = <<>>]
      /\ subq' = [subq EXCEPT ![s] = <<>>] /\ cached' = [cached EXCEPT ![s] = <<>>]
      /\ above' = [t \in Surface |-> IF t = s \/ above[t] = s THEN NoSurface ELSE above[t]]
      /\ UNCHANGED <<last, current, work, before>>
  BY DEF WaySurface_destructor
<1>3. /\ places'[s] = {} /\ treeq'[s] = <<>> /\ cached'[s] = <<>>
      /\ \A t \in Surface \ {s} : /\ parent'[t] = parent[t] /\ places'[t] = places[t]
                                 /\ treeq'[t] = treeq[t] /\ subq'[t] = subq[t]
                                 /\ cached'[t] = cached[t]
                                 /\ above'[t] = IF above[t] = s THEN NoSurface ELSE above[t]
      /\ above'[s] = NoSurface
  BY <1>2 DEF TypesHold, Roles, TypeRoles, IInv, Types
<1>4. Emptied'
  BY <1>1, <1>3 DEF Placing, Emptied
<1>5. /\ \A q \in Surface : s \notin places[q]
      /\ \A q \in Surface : \A i \in DOMAIN treeq[q] : s \notin treeq[q][i].places
  <2>1. \A q \in Surface : Alive(q) => s \notin Placed(q)
    BY DEF WaySurface_destructor, Garbage, Referenced
  <2>2. \A q \in Surface : Alive(q) => /\ s \notin places[q]
                                      /\ \A i \in DOMAIN treeq[q] : s \notin treeq[q][i].places
    BY <2>1 DEF Placed
  <2>3. \A q \in Surface : ~ Alive(q) => places[q] = {} /\ DOMAIN treeq[q] = {}
    BY DEF Placing, Emptied
  <2> QED
    BY <2>2, <2>3
<1>6. OneParent'
  <2>1. \A q \in Surface : \A t \in places'[q] : parent'[t] = q
    <3> SUFFICES ASSUME NEW q \in Surface, NEW t \in places'[q] PROVE parent'[t] = q
      OBVIOUS
    <3>1. q # s /\ t \in places[q] /\ t \in Surface \ {s}
      BY <1>3, <1>5 DEF TypesHold, Roles, TypeRoles
    <3> QED
      BY <1>3, <3>1 DEF Placing, OneParent
  <2>2. \A q \in Surface : \A i \in DOMAIN treeq'[q] : \A t \in treeq'[q][i].places : parent'[t] = q
    <3> SUFFICES ASSUME NEW q \in Surface, NEW i \in DOMAIN treeq'[q], NEW t \in treeq'[q][i].places
                 PROVE  parent'[t] = q
      OBVIOUS
    <3>1. q # s
      BY <1>3
    <3>2. treeq'[q] = treeq[q] /\ t # s /\ parent[t] = q
      BY <1>3, <1>5, <3>1 DEF Placing, OneParent
    <3>3. t \in Surface
      <4>1. treeq[q] \in Seq(TreePart)
        BY DEF IInv, Types
      <4>2. treeq[q][i] \in TreePart
        BY <3>2, <4>1
      <4> QED
        BY <3>2, <4>2 DEF TreePart
    <3> QED
      BY <1>3, <3>2, <3>3
  <2>3. \A t \in Surface : above'[t] # NoSurface => above'[t] = Parent(t)'
    BY <1>1, <1>3 DEF Placing, OneParent
  <2> QED
    BY <2>1, <2>2, <2>3 DEF OneParent
<1>7. ASSUME NEW t \in sub', Parent(t)' # NoSurface
      PROVE  /\ t \in sub /\ t \in Surface \ {s} /\ Parent(t)' = Parent(t)
             /\ Parent(t) \in Surface \ {s} /\ above'[t] = above[t]
  <2>1. t \in sub /\ t \in Surface \ {s} /\ Parent(t)' = Parent(t) /\ Parent(t) # s
    BY <1>1, <1>7
  <2>2. Parent(t) \in Surface
    BY <1>7, <2>1 DEF Parent, Alive
  <2>3. above[t] # s
    BY <2>1, NoSurfaceAssumption DEF Placing, OneParent
  <2> QED
    BY <1>3, <2>1, <2>2, <2>3
<1>8. InPlace'
  BY <1>1, <1>2, <1>3, <1>7, RestKeepsPlace DEF Placing
<1>9. Flushed'
  BY <1>2, <1>3, <1>7, RestKeepsFlushed DEF Placing
<1> QED
  BY <1>4, <1>6, <1>8, <1>9 DEF Placing

(* A commit carries the placements that its surface was asked for.         *)
LEMMA CommitKeepsPlacing ==
  ASSUME TypesHold, IInv, Placing, NEW c \in Surface, commit(c)
  PROVE  Placing'
<1> DEFINE id == last[c] + 1
           e == [commit |-> id, places |-> places[c]]
           from == [commit |-> id, parent |-> Parent(c), parent_commit |-> last[Parent(c)] + 1]
<1>1. /\ work = <<>> /\ life[c] = "live" /\ Alive(c)
      /\ last' = [last EXCEPT ![c] = id]
      /\ cached' = [cached EXCEPT ![c] = Append(cached[c], id)]
      /\ subq' = [subq EXCEPT ![c] = WaySubsurface_commit(c, id)]
      /\ work' = <<c>> /\ before' = current[c]
      /\ UNCHANGED <<life, sub, sync, parent, tree, current, above>>
  BY DEF commit, Request, Idle, tables, IInv, Types, Alive
<1>2. IF c \in tree
      THEN treeq' = [treeq EXCEPT ![c] = Append(treeq[c], e)] /\ places' = [places EXCEPT ![c] = {}]
      ELSE treeq' = treeq /\ places' = places
  BY DEF commit, IInv, Types
<1>3. \A t : Parent(t)' = Parent(t) /\ Alive(t)' = Alive(t)
  BY <1>1 DEF Parent, Alive
<1>4. /\ last \in [Surface -> Nat] /\ current \in [Surface -> Nat]
      /\ treeq \in [Surface -> Seq(TreePart)] /\ subq \in [Surface -> Seq(SubPart)]
      /\ cached \in [Surface -> Seq(Nat)]
      /\ places \in [Surface -> SUBSET Surface] /\ sub \subseteq Surface
  BY DEF IInv, Types, TypesHold, Roles, TypeRoles
<1>5. /\ last'[c] = id /\ id \in Nat
      /\ \A t \in Surface \ {c} : /\ last'[t] = last[t] /\ subq'[t] = subq[t]
                                 /\ cached'[t] = cached[t] /\ places'[t] = places[t]
                                 /\ treeq'[t] = treeq[t]
  BY <1>1, <1>2, <1>4
<1>6. Emptied'
  BY <1>1, <1>3, <1>5 DEF Placing, Emptied
<1>7. /\ c \in tree => treeq'[c] = Append(treeq[c], e) /\ places'[c] = {}
      /\ c \notin tree => treeq'[c] = treeq[c] /\ places'[c] = places[c]
      /\ e \in TreePart /\ e.commit = id /\ e.places = places[c]
      /\ Append(treeq[c], e) \in Seq(TreePart)
      /\ Len(treeq[c]) \in Nat /\ DOMAIN treeq[c] = 1 .. Len(treeq[c])
      /\ DOMAIN Append(treeq[c], e) = 1 .. Len(treeq[c]) + 1
      /\ Append(treeq[c], e)[Len(treeq[c]) + 1] = e
      /\ \A i \in 1 .. Len(treeq[c]) : Append(treeq[c], e)[i] = treeq[c][i]
  <2>1. e \in TreePart /\ e.commit = id /\ e.places = places[c]
    BY <1>4, <1>5 DEF TreePart
  <2> HIDE DEF e
  <2>2. treeq[c] \in Seq(TreePart)
    BY <1>4
  <2> QED
    BY <1>2, <1>4, <2>1, <2>2
<1>8. /\ subq[c] \in Seq(SubPart) /\ Len(subq[c]) \in Nat /\ DOMAIN subq[c] = 1 .. Len(subq[c])
      /\ subq'[c] # subq[c] =>
           /\ Parent(c) # NoSurface /\ subq'[c] = Append(subq[c], from)
           /\ DOMAIN subq'[c] = 1 .. Len(subq[c]) + 1
           /\ subq'[c][Len(subq[c]) + 1].parent_commit = last[Parent(c)] + 1
           /\ \A i \in 1 .. Len(subq[c]) : subq'[c][i] = subq[c][i]
  <2>1. subq[c] \in Seq(SubPart) /\ Len(subq[c]) \in Nat /\ DOMAIN subq[c] = 1 .. Len(subq[c])
    BY <1>4
  <2>2. subq'[c] = WaySubsurface_commit(c, id)
    BY <1>1, <1>4
  <2>3. ASSUME subq'[c] # subq[c]
        PROVE  /\ Parent(c) # NoSurface /\ subq'[c] = Append(subq[c], from)
               /\ DOMAIN subq'[c] = 1 .. Len(subq[c]) + 1
               /\ subq'[c][Len(subq[c]) + 1].parent_commit = last[Parent(c)] + 1
               /\ \A i \in 1 .. Len(subq[c]) : subq'[c][i] = subq[c][i]
    <3>1. Parent(c) # NoSurface /\ subq'[c] = Append(subq[c], from)
      BY <2>2, <2>3 DEF WaySubsurface_commit
    <3>2. Parent(c) \in Surface
      BY <3>1 DEF Parent, Alive
    <3>3. from \in SubPart /\ from.parent_commit = last[Parent(c)] + 1
      BY <1>4, <1>5, <3>2 DEF SubPart
    <3> HIDE DEF from
    <3> QED
      BY <2>1, <3>1, <3>3
  <2> QED
    BY <2>1, <2>3
<1> HIDE DEF id, e, from
<1>9. OneParent'
  <2>1. \A q \in Surface : \A t \in places'[q] : parent'[t] = q
    <3> SUFFICES ASSUME NEW q \in Surface, NEW t \in places'[q] PROVE parent[t] = q
      BY <1>1
    <3>1. t \in places[q]
      BY <1>5, <1>7
    <3> QED
      BY <3>1 DEF Placing, OneParent
  <2>2. \A q \in Surface : \A i \in DOMAIN treeq'[q] : \A t \in treeq'[q][i].places : parent'[t] = q
    <3> SUFFICES ASSUME NEW q \in Surface, NEW i \in DOMAIN treeq'[q], NEW t \in treeq'[q][i].places
                 PROVE  parent[t] = q
      BY <1>1
    <3>1. CASE q = c /\ c \in tree /\ i = Len(treeq[c]) + 1
      <4>1. t \in places[c]
        BY <1>7, <3>1
      <4> QED
        BY <3>1, <4>1 DEF Placing, OneParent
    <3>2. CASE ~ (q = c /\ c \in tree /\ i = Len(treeq[c]) + 1)
      <4>1. i \in DOMAIN treeq[q] /\ treeq'[q][i] = treeq[q][i]
        BY <1>5, <1>7, <3>2
      <4> QED
        BY <4>1 DEF Placing, OneParent
    <3> QED
      BY <3>1, <3>2
  <2> QED
    BY <1>1, <1>3, <2>1, <2>2 DEF Placing, OneParent
<1>10. ASSUME NEW s \in sub, NEW y \in Surface, y = Parent(s), NEW m \in Nat, m <= last[y] + 1,
              PlacedBy(s, y, m)
       PROVE  PlacedBy(s, y, m)'
  <2>1. CASE y # c
    BY <1>1, <1>5, <1>10, <2>1 DEF PlacedBy, Carried
  <2>2. CASE y = c
    <3>1. c \in tree
      BY <1>10, <2>2, NoSurfaceAssumption DEF TypesHold, Roles, Family
    <3>2. CASE above[s] = y
      BY <1>1, <3>2 DEF PlacedBy
    <3>3. CASE s \in places[y] /\ last[y] < m
      <4>1. m = id
        BY <1>4, <1>10, <2>2, <3>3 DEF id
      <4>2. Len(treeq[c]) + 1 \in DOMAIN treeq'[c] /\ treeq'[c][Len(treeq[c]) + 1] = e
        BY <1>7, <3>1
      <4>3. e.commit <= m
        BY <1>5, <1>7, <4>1
      <4> QED
        BY <1>7, <2>2, <3>3, <4>2, <4>3 DEF PlacedBy, Carried
    <3>4. CASE Carried(s, y, m)
      <4>1. PICK i \in DOMAIN treeq[c] : s \in treeq[c][i].places /\ treeq[c][i].commit <= m
        BY <2>2, <3>4 DEF Carried
      <4>2. i \in DOMAIN treeq'[c] /\ treeq'[c][i] = treeq[c][i]
        BY <1>7, <3>1, <4>1
      <4> QED
        BY <2>2, <4>1, <4>2 DEF PlacedBy, Carried
    <3> QED
      BY <1>10, <3>2, <3>3, <3>4 DEF PlacedBy
  <2> QED
    BY <2>1, <2>2
<1>11. InPlace'
  <2> SUFFICES ASSUME NEW s \in sub, NEW y \in Surface, y = Parent(s), y # NoSurface
               PROVE  /\ PlacedBy(s, y, last[y] + 1)'
                      /\ \A i \in DOMAIN subq'[s] : subq'[s][i].parent = y =>
                           /\ subq'[s][i].parent_commit <= last'[y] + 1
                           /\ PlacedBy(s, y, subq[s][i].parent_commit)'
    BY <1>1, <1>3 DEF InPlace, Parent, Alive
  <2>1. PICK m \in Nat : m = last[y] + 1
    BY <1>4
  <2>2. PlacedBy(s, y, m)
    BY <2>1 DEF Placing, InPlace
  <2>3. PlacedBy(s, y, m)'
    BY <1>10, <2>1, <2>2
  <2>4. /\ last[y] \in Nat /\ last'[y] \in {last[y], last[y] + 1}
        /\ last' \in [Surface -> Nat] /\ treeq' \in [Surface -> Seq(TreePart)]
    <3>1. last'[y] \in {last[y], last[y] + 1} /\ last' \in [Surface -> Nat]
      BY <1>1, <1>4, <1>5 DEF id
    <3> QED
      BY <1>2, <1>4, <1>7, <3>1
  <2>5. PlacedBy(s, y, last[y] + 1)'
    <3>1. CASE last'[y] = last[y]
      <4>1. m = last'[y] + 1
        BY <2>1, <3>1
      <4> QED
        BY <2>3, <4>1
    <3>2. CASE last'[y] = last[y] + 1
      <4>1. \A i \in DOMAIN treeq'[y] : treeq'[y][i].commit \in Nat
        <5>1. treeq'[y] \in Seq(TreePart)
          BY <2>4
        <5>2. \A i \in DOMAIN treeq'[y] : treeq'[y][i] \in TreePart
          BY <5>1
        <5> QED
          BY <5>2 DEF TreePart
      <4>2. \A i \in DOMAIN treeq'[y] : treeq'[y][i].commit <= m => treeq'[y][i].commit <= last'[y] + 1
        BY <2>1, <2>4, <3>2, <4>1
      <4>3. last'[y] < last'[y] + 1
        BY <2>4
      <4> QED
        BY <2>3, <4>2, <4>3 DEF PlacedBy, Carried
    <3> QED
      BY <2>4, <3>1, <3>2
  <2>6. ASSUME NEW i \in DOMAIN subq'[s], subq'[s][i].parent = y
        PROVE  /\ subq'[s][i].parent_commit <= last'[y] + 1
               /\ PlacedBy(s, y, subq[s][i].parent_commit)'
    <3>1. CASE i \in DOMAIN subq[s] /\ subq'[s][i] = subq[s][i]
      <4>1. PICK n : n = subq[s][i].parent_commit
        OBVIOUS
      <4>2. n <= last[y] + 1 /\ PlacedBy(s, y, n) /\ n \in Nat
        <5>1. n <= last[y] + 1 /\ PlacedBy(s, y, n)
          BY <2>6, <3>1, <4>1 DEF Placing, InPlace
        <5>2. subq[s] \in Seq(SubPart)
          BY <1>4
        <5>3. subq[s][i] \in SubPart
          BY <3>1, <5>2
        <5> QED
          BY <4>1, <5>1, <5>3 DEF SubPart
      <4>3. PlacedBy(s, y, n)' /\ n = subq'[s][i].parent_commit
        BY <1>10, <3>1, <4>1, <4>2
      <4>4. n <= last'[y] + 1
        BY <2>4, <4>2
      <4> QED
        BY <4>3, <4>4
    <3>2. CASE ~ (i \in DOMAIN subq[s] /\ subq'[s][i] = subq[s][i])
      <4>1. s = c
        BY <1>4, <1>5, <3>2
      <4>2. subq'[s][i].parent_commit = m
        <5>1. subq'[c] # subq[c]
          BY <3>2, <4>1
        <5>2. i = Len(subq[c]) + 1
          BY <1>8, <3>2, <4>1, <5>1
        <5> QED
          BY <1>8, <2>1, <4>1, <5>1, <5>2
      <4>3. m <= last'[y] + 1
        BY <2>1, <2>4
      <4> QED
        BY <2>3, <4>2, <4>3
    <3> QED
      BY <3>1, <3>2
  <2> QED
    BY <2>5, <2>6
<1>12. Flushed'
  <2>1. Head(work') = c /\ work' # <<>> /\ c \in ToSet(work') /\ before' <= current'[c]
    BY <1>1, <1>4 DEF ToSet
  <2>2. ASSUME NEW s \in sub, Due(s)' PROVE s = c
    <3> SUFFICES ASSUME s # c PROVE FALSE
      OBVIOUS
    <3>1. subq'[s] = subq[s] /\ cached'[s] = cached[s]
      BY <1>4, <1>5
    <3>2. Due(s)
      BY <1>1, <1>3, <2>2, <3>1 DEF Due, test
    <3>3. ToSet(work) = {}
      BY <1>1 DEF ToSet
    <3> QED
      BY <1>1, <3>2, <3>3 DEF Placing, Flushed
  <2> QED
    BY <1>1, <2>1, <2>2 DEF Flushed
<1> QED
  BY <1>6, <1>9, <1>11, <1>12 DEF Placing

(* Applying the parent's commit puts the surfaces it carried in their      *)
(* places, and those are the only ones it may have been waited for.        *)
LEMMA ApplyKeepsPlacing ==
  ASSUME TypesHold, IInv, Placing, flush_apply
  PROVE  Placing'
<1>1. PICK h \in Surface : h = Head(work)
  BY DEF flush_apply, TypesHold, TypeWork
<1> DEFINE id == Head(cached[h])
           placed == IF Peeked(treeq[h], id) THEN Head(treeq[h]).places ELSE {}
           r == IF Peeked(treeq[h], id) THEN Tail(treeq[h]) ELSE treeq[h]
           q == IF Peeked(subq[h], id) THEN Tail(subq[h]) ELSE subq[h]
<1>2. /\ work # <<>> /\ cached[h] # <<>> /\ Alive(h)
      /\ UNCHANGED <<life, sub, sync, parent, tree, places, last, work, before>>
  BY <1>1 DEF flush_apply, Ready, tables, Placing, Emptied
<1>3. /\ last \in [Surface -> Nat] /\ current \in [Surface -> Nat]
      /\ treeq \in [Surface -> Seq(TreePart)] /\ subq \in [Surface -> Seq(SubPart)]
      /\ cached \in [Surface -> Seq(Nat)] /\ above \in [Surface -> Surface \cup {NoSurface}]
      /\ sub \subseteq Surface /\ Aligned(h)
  BY <1>2 DEF IInv, Types, TypesHold, Roles, TypeRoles, Alive
<1>4. /\ current' = [current EXCEPT ![h] = id] /\ cached' = [cached EXCEPT ![h] = Tail(cached[h])]
      /\ subq' = [subq EXCEPT ![h] = q] /\ treeq' = [treeq EXCEPT ![h] = r]
      /\ above' = [t \in Surface |-> IF t \in placed THEN h ELSE above[t]]
  BY <1>1, <1>3 DEF flush_apply, apply
<1>5. id = current[h] + 1 /\ current[h] < last[h] /\ last[h] \in Nat /\ current[h] \in Nat
  <2>1. cached[h] \in Seq(Nat) /\ last[h] \in Nat /\ current[h] \in Nat
    BY <1>3
  <2> QED
    BY <1>2, <1>3, <2>1, ApplyPackets DEF Aligned
<1>6. /\ Len(treeq[h]) \in Nat /\ DOMAIN treeq[h] = 1 .. Len(treeq[h])
      /\ Len(subq[h]) \in Nat /\ DOMAIN subq[h] = 1 .. Len(subq[h])
      /\ treeq[h] \in Seq(TreePart) /\ subq[h] \in Seq(SubPart)
  BY <1>3
<1>7. \/ r = treeq[h] /\ placed = {} /\ ~ Peeked(treeq[h], id)
      \/ /\ Peeked(treeq[h], id) /\ treeq[h] # <<>> /\ placed = treeq[h][1].places
         /\ DOMAIN r = 1 .. Len(treeq[h]) - 1
         /\ \A i \in 1 .. Len(treeq[h]) - 1 : r[i] = treeq[h][i + 1]
  <2>1. CASE Peeked(treeq[h], id)
    <3>1. treeq[h] # <<>> /\ r = Tail(treeq[h]) /\ placed = Head(treeq[h]).places
      BY <2>1 DEF Peeked
    <3> HIDE DEF r, placed, id
    <3> QED
      BY <1>6, <2>1, <3>1, HeadTailProperties
  <2>2. CASE ~ Peeked(treeq[h], id)
    BY <2>2
  <2> QED
    BY <2>1, <2>2
<1>8. \/ q = subq[h]
      \/ /\ DOMAIN q = 1 .. Len(subq[h]) - 1
         /\ \A i \in 1 .. Len(subq[h]) - 1 : q[i] = subq[h][i + 1]
  <2>1. CASE Peeked(subq[h], id)
    <3>1. subq[h] # <<>> /\ q = Tail(subq[h])
      BY <2>1 DEF Peeked
    <3> HIDE DEF q, id
    <3> QED
      BY <1>6, <2>1, <3>1, HeadTailProperties
  <2>2. CASE ~ Peeked(subq[h], id)
    BY <2>2
  <2> QED
    BY <2>1, <2>2
<1> HIDE DEF id, placed, r, q
<1>9. /\ current'[h] = id /\ treeq'[h] = r /\ subq'[h] = q /\ last'[h] = last[h]
      /\ \A t \in Surface \ {h} : /\ current'[t] = current[t] /\ cached'[t] = cached[t]
                                 /\ treeq'[t] = treeq[t] /\ subq'[t] = subq[t]
      /\ \A t \in Surface : above'[t] = IF t \in placed THEN h ELSE above[t]
  BY <1>2, <1>3, <1>4
<1>10. \A t : Parent(t)' = Parent(t) /\ Alive(t)' = Alive(t)
  BY <1>2 DEF Parent, Alive
<1>11. \A t \in placed : parent[t] = h /\ Parent(t) = h
  <2>1. ASSUME NEW t \in placed PROVE parent[t] = h
    <3>1. treeq[h] # <<>> /\ placed = treeq[h][1].places
      BY <1>7, <2>1
    <3>2. 1 \in DOMAIN treeq[h]
      BY <1>6, <3>1
    <3> QED
      BY <2>1, <3>1, <3>2 DEF Placing, OneParent
  <2> QED
    BY <1>2, <2>1 DEF Parent
<1>12. Emptied'
  BY <1>2, <1>9, <1>10 DEF Placing, Emptied
<1>13. OneParent'
  <2>1. \A p \in Surface : \A i \in DOMAIN treeq'[p] : \A s \in treeq'[p][i].places : parent[s] = p
    <3> SUFFICES ASSUME NEW p \in Surface, NEW i \in DOMAIN treeq'[p]
                 PROVE  \E j \in DOMAIN treeq[p] : treeq'[p][i] = treeq[p][j]
      BY DEF Placing, OneParent
    <3>1. CASE p # h
      BY <1>9, <3>1
    <3>2. CASE p = h
      <4>1. CASE r = treeq[h]
        BY <1>9, <3>2, <4>1
      <4>2. CASE /\ DOMAIN r = 1 .. Len(treeq[h]) - 1
                 /\ \A k \in 1 .. Len(treeq[h]) - 1 : r[k] = treeq[h][k + 1]
        <5>1. i \in 1 .. Len(treeq[h]) - 1 /\ i + 1 \in DOMAIN treeq[h]
          BY <1>6, <1>9, <3>2, <4>2
        <5> QED
          BY <1>9, <3>2, <4>2, <5>1
      <4> QED
        BY <1>7, <4>1, <4>2
    <3> QED
      BY <3>1, <3>2
  <2>2. \A s \in Surface : above'[s] # NoSurface => above'[s] = Parent(s)
    BY <1>9, <1>11 DEF Placing, OneParent
  <2> QED
    BY <1>2, <1>10, <2>1, <2>2 DEF Placing, OneParent
<1>14. ASSUME NEW s \in sub, NEW y \in Surface, y = Parent(s), NEW m, PlacedBy(s, y, m)
       PROVE  PlacedBy(s, y, m)'
  <2>1. CASE above[s] = y
    <3>1. above'[s] = y
      BY <1>3, <1>9, <1>11, <1>14, <2>1
    <3> QED
      BY <3>1 DEF PlacedBy
  <2>2. CASE s \in places[y] /\ last[y] < m
    BY <1>2, <2>2 DEF PlacedBy
  <2>3. CASE Carried(s, y, m)
    <3>1. PICK i \in DOMAIN treeq[y] : s \in treeq[y][i].places /\ treeq[y][i].commit <= m
      BY <2>3 DEF Carried
    <3>2. CASE treeq'[y] = treeq[y]
      BY <3>1, <3>2 DEF Carried, PlacedBy
    <3>3. CASE y = h /\ Peeked(treeq[h], id)
      <4>1. CASE i = 1
        <5>1. above'[s] = y
          BY <1>3, <1>7, <1>9, <3>1, <3>3, <4>1
        <5> QED
          BY <5>1 DEF PlacedBy
      <4>2. CASE i # 1
        <5>1. PICK j \in 1 .. Len(treeq[h]) - 1 : i = j + 1
          <6>1. i - 1 \in 1 .. Len(treeq[h]) - 1 /\ i = (i - 1) + 1
            BY <1>6, <3>1, <3>3, <4>2
          <6> QED
            BY <6>1
        <5>2. j \in DOMAIN treeq'[y] /\ treeq'[y][j] = treeq[y][i]
          BY <1>7, <1>9, <3>3, <5>1
        <5> QED
          BY <3>1, <5>2 DEF Carried, PlacedBy
      <4> QED
        BY <4>1, <4>2
    <3> QED
      BY <1>7, <1>9, <1>14, <3>2, <3>3
  <2> QED
    BY <1>14, <2>1, <2>2, <2>3 DEF PlacedBy
<1>15. InPlace'
  <2> SUFFICES ASSUME NEW s \in sub, NEW y \in Surface, y = Parent(s), y # NoSurface
               PROVE  /\ PlacedBy(s, y, last[y] + 1)'
                      /\ \A i \in DOMAIN subq'[s] : subq'[s][i].parent = y =>
                           /\ subq'[s][i].parent_commit <= last'[y] + 1
                           /\ PlacedBy(s, y, subq[s][i].parent_commit)'
    BY <1>2, <1>10 DEF InPlace, Parent, Alive
  <2>1. PICK m : m = last[y] + 1
    OBVIOUS
  <2>2. PlacedBy(s, y, m)'
    BY <1>14, <2>1 DEF Placing, InPlace
  <2>3. ASSUME NEW i \in DOMAIN subq'[s], subq'[s][i].parent = y
        PROVE  /\ subq'[s][i].parent_commit <= last'[y] + 1
               /\ PlacedBy(s, y, subq[s][i].parent_commit)'
    <3>1. PICK j \in DOMAIN subq[s] : subq'[s][i] = subq[s][j]
      <4>1. CASE s # h \/ q = subq[h]
        BY <1>3, <1>9, <4>1
      <4>2. CASE s = h /\ q # subq[h]
        <5>1. i \in 1 .. Len(subq[h]) - 1 /\ i + 1 \in DOMAIN subq[h]
          BY <1>6, <1>8, <1>9, <4>2
        <5> QED
          BY <1>8, <1>9, <4>2, <5>1
      <4> QED
        BY <4>1, <4>2
    <3>2. PICK n : n = subq[s][j].parent_commit
      OBVIOUS
    <3>3. n <= last[y] + 1 /\ PlacedBy(s, y, n)
      BY <2>3, <3>1, <3>2 DEF Placing, InPlace
    <3>4. PlacedBy(s, y, n)' /\ n = subq'[s][i].parent_commit
      BY <1>14, <3>1, <3>2, <3>3
    <3> QED
      BY <1>2, <3>3, <3>4
  <2>4. PlacedBy(s, y, last[y] + 1)'
    BY <1>2, <2>1, <2>2
  <2> QED
    BY <2>3, <2>4
<1>16. Flushed'
  <2>1. before' <= current'[Head(work')] /\ before < current'[h] /\ work' # <<>> /\ Head(work') = h
    <3>1. before <= current[h] /\ before \in Nat
      BY <1>1, <1>2 DEF Placing, Flushed, TypesHold, TypeWork
    <3> QED
      BY <1>1, <1>2, <1>5, <1>9, <3>1
  <2>2. h \in ToSet(work)
    BY <1>1, <1>2 DEF ToSet, TypesHold, TypeWork
  <2>3. ASSUME NEW s \in sub, Due(s)', s # h, Parent(s) # h
        PROVE  s \in ToSet(work)
    <3>1. Parent(s) \in Surface /\ s \in Surface
      BY <1>3, <1>10, <2>3 DEF Due, Parent, Alive
    <3>2. cached'[s] = cached[s] /\ subq'[s] = subq[s] /\ current'[Parent(s)] = current[Parent(s)]
      BY <1>9, <2>3, <3>1
    <3>3. Due(s)
      BY <1>10, <2>3, <3>2 DEF Due, test
    <3> QED
      BY <1>1, <2>3, <3>3 DEF Placing, Flushed
  <2>4. ASSUME NEW s \in sub, Due(s)', s # h, Parent(s) = h
        PROVE  above'[s] = h
    <3>1. cached'[s] = cached[s] /\ subq'[s] = subq[s] /\ s \in Surface
      BY <1>3, <1>9, <2>4
    <3>2. PICK m : m = Head(subq[s]).parent_commit
      OBVIOUS
    <3>3. subq[s] # <<>> /\ Head(subq[s]).parent = h /\ current'[h] >= m
      BY <1>10, <2>4, <3>1, <3>2, NoSurfaceAssumption DEF Due, test, Peeked
    <3>4. subq[s] \in Seq(SubPart)
      BY <1>3, <3>1
    <3>5. 1 \in DOMAIN subq[s] /\ Head(subq[s]) = subq[s][1] /\ Head(subq[s]) \in SubPart
      BY <3>3, <3>4
    <3>6. m \in Nat /\ m <= id
      BY <1>5, <1>9, <3>2, <3>3, <3>5 DEF SubPart
    <3>7. PlacedBy(s, h, m)
      BY <2>4, <3>2, <3>3, <3>5, NoSurfaceAssumption DEF Placing, InPlace
    <3>8. CASE above[s] = h
      BY <1>9, <3>1, <3>8
    <3>9. CASE s \in places[h] /\ last[h] < m
      BY <1>5, <3>6, <3>9
    <3>10. CASE Carried(s, h, m)
      <4>1. PICK i \in 1 .. Len(treeq[h]) : s \in treeq[h][i].places /\ treeq[h][i].commit <= m
        BY <1>6, <3>10 DEF Carried
      <4>2. /\ treeq[h][i].commit = (last[h] - Len(treeq[h])) + i
            /\ Len(treeq[h]) <= last[h] - current[h]
            /\ treeq[h][1].commit = (last[h] - Len(treeq[h])) + 1
        BY <1>3, <1>6 DEF Aligned, TreeParts
      <4>3. i = 1
        <5>1. ASSUME NEW l \in Nat, NEW c \in Nat, NEW k \in Nat, NEW n \in Nat, NEW j \in 1 .. k,
                     k <= l - c, (l - k) + j <= n, n <= c + 1
              PROVE  j = 1
          BY <5>1
        <5>2. \A l, c, n \in Nat : \A k \in Nat : \A j \in 1 .. k :
                k <= l - c /\ (l - k) + j <= n /\ n <= c + 1 => j = 1
          BY <5>1
        <5>3. (last[h] - Len(treeq[h])) + i <= m /\ m <= current[h] + 1
          BY <1>5, <3>6, <4>1, <4>2
        <5> QED
          BY <1>5, <1>6, <3>6, <4>1, <4>2, <5>2, <5>3
      <4>4. treeq[h][1].commit = id
        BY <1>5, <1>6, <3>6, <4>1, <4>2, <4>3
      <4>5. treeq[h] # <<>> /\ Head(treeq[h]) = treeq[h][1]
        BY <1>6, <4>1
      <4>6. Peeked(treeq[h], id)
        BY <4>4, <4>5 DEF Peeked
      <4> QED
        BY <1>7, <1>9, <3>1, <4>1, <4>3, <4>6
    <3> QED
      BY <3>7, <3>8, <3>9, <3>10 DEF PlacedBy
  <2> QED
    BY <1>2, <1>10, <2>1, <2>2, <2>3, <2>4 DEF Flushed
<1> QED
  BY <1>12, <1>13, <1>15, <1>16 DEF Placing

(* When a flush returns, the surfaces it has found come next.              *)
LEMMA ReturnKeepsPlacing ==
  ASSUME TypesHold, IInv, Placing, flush_return
  PROVE  Placing'
<1>1. PICK h \in Surface : h = Head(work)
  BY DEF flush_return, TypesHold, TypeWork
<1>2. /\ UNCHANGED <<tables, queues, current, above>> /\ ~ Ready(h) /\ work # <<>>
      /\ UNCHANGED <<life, sub, parent, places, treeq, subq, last, cached>>
  BY <1>1 DEF flush_return, tables, queues
<1>3. PICK S \in SUBSET Surface : S = IF current[h] # before THEN Children(h) ELSE {}
  BY DEF Children
<1>4. PICK next \in SetToSeqs(S) :
        /\ work' = next \o Tail(work)
        /\ before' = IF next \o Tail(work) = <<>> THEN 0 ELSE current[Head(next \o Tail(work))]
  BY <1>1, <1>3 DEF flush_return
<1>5. next \in Seq(Surface) /\ ToSet(next) = S
  BY VisitsAreSequences
<1>6. /\ work \in Seq(Surface) /\ Tail(work) \in Seq(Surface)
      /\ before \in Nat /\ current \in [Surface -> Nat] /\ sub \subseteq Surface
  BY <1>2 DEF TypesHold, TypeWork, Roles, TypeRoles, IInv, Types
<1>7. /\ work' \in Seq(Surface)
      /\ \A t \in ToSet(next) : t \in ToSet(work')
      /\ \A t \in ToSet(work) : t = h \/ t \in ToSet(work')
  <2>1. work' \in Seq(Surface) /\ Len(work') = Len(next) + Len(Tail(work))
    BY <1>4, <1>5, <1>6
  <2>2. \A i \in 1 .. Len(next) : work'[i] = next[i]
    BY <1>4, <1>5, <1>6
  <2>3. \A i \in 1 .. Len(Tail(work)) : work'[Len(next) + i] = Tail(work)[i]
    BY <1>4, <1>5, <1>6
  <2>4. \A t \in ToSet(next) : t \in ToSet(work')
    <3> SUFFICES ASSUME NEW i \in 1 .. Len(next) PROVE next[i] \in ToSet(work')
      BY <1>5 DEF ToSet
    <3>1. i \in DOMAIN work' /\ work'[i] = next[i]
      BY <1>5, <1>6, <2>1, <2>2
    <3> QED
      BY <3>1 DEF ToSet
  <2>5. \A t \in ToSet(work) : t = h \/ t \in ToSet(work')
    <3> SUFFICES ASSUME NEW i \in 1 .. Len(work), i # 1 PROVE work[i] \in ToSet(work')
      BY <1>1, <1>2, <1>6 DEF ToSet
    <3>1. /\ Len(Tail(work)) = Len(work) - 1 /\ Len(work) \in Nat /\ i - 1 \in 1 .. Len(Tail(work))
          /\ Tail(work)[i - 1] = work[i]
      BY <1>2, <1>6
    <3>2. Len(next) + (i - 1) \in DOMAIN work'
      BY <1>5, <1>6, <2>1, <3>1
    <3>3. work'[Len(next) + (i - 1)] = work[i]
      BY <2>3, <3>1
    <3> QED
      BY <3>2, <3>3 DEF ToSet
  <2> QED
    BY <2>1, <2>4, <2>5
<1>8. \A t : Parent(t)' = Parent(t) /\ Alive(t)' = Alive(t) /\ Due(t)' = Due(t)
  BY <1>2 DEF Parent, Alive, Due, test
<1>9. Emptied'
  BY <1>2, <1>8 DEF Placing, Emptied
<1>10. OneParent'
  BY <1>2, <1>8 DEF Placing, OneParent
<1>11. InPlace'
  BY <1>2, <1>8 DEF Placing, InPlace, PlacedBy, Carried
<1>12. Flushed'
  <2>1. ASSUME work' # <<>> PROVE before' <= current'[Head(work')]
    <3>1. Head(work') \in Surface /\ before' = current[Head(work')]
      <4>1. PICK w : w = work'
        OBVIOUS
      <4>2. before' = current[Head(w)]
        BY <1>4, <2>1, <4>1
      <4>3. w \in Seq(Surface) /\ w # <<>>
        BY <1>7, <2>1, <4>1
      <4>4. Head(w) \in Surface
        BY <4>3
      <4> QED
        BY <4>1, <4>2, <4>4
    <3>2. current[Head(work')] \in Nat
      BY <1>6, <3>1
    <3> QED
      BY <1>2, <3>1, <3>2
  <2>2. ASSUME NEW t \in sub, Due(t) PROVE t \in ToSet(work')
    <3>1. CASE t \in ToSet(work)
      <4>1. t # h
        BY <1>2, <2>2 DEF Due, Ready
      <4> QED
        BY <1>7, <3>1, <4>1
    <3>2. CASE h = Parent(t) /\ before < current[h] /\ above[t] = h
      <4>1. Alive(t) /\ t \in Surface
        BY DEF TypesHold, Roles, TypeRoles
      <4>2. current[h] # before
        BY <1>6, <3>2
      <4>3. t \in S
        BY <1>3, <3>2, <4>1, <4>2 DEF Children
      <4> QED
        BY <1>5, <1>7, <4>3
    <3> QED
      BY <1>1, <2>2, <3>1, <3>2 DEF Placing, Flushed
  <2> QED
    BY <1>2, <1>8, <2>1, <2>2 DEF Flushed
<1> QED
  BY <1>9, <1>10, <1>11, <1>12 DEF Placing

(* Every step keeps the places.                                            *)
LEMMA NextKeepsPlacing ==
  ASSUME ~ Reparenting
  PROVE  IInv /\ TypesHold /\ Placing /\ [Next]_vars => Placing'
<1> SUFFICES ASSUME IInv, TypesHold, Placing, [Next]_vars PROVE Placing'
  OBVIOUS
<1>1. TypesHold' /\ Roles /\ Types /\ sub \subseteq Surface
  BY NextKeepsTypes DEF TypesHold, IInv, Roles, TypeRoles
<1>2. ASSUME NEW s \in Surface, commit(s) PROVE Placing'
  BY <1>2, CommitKeepsPlacing
<1>3. CASE flush_apply
  BY <1>3, ApplyKeepsPlacing
<1>4. CASE flush_return
  BY <1>4, ReturnKeepsPlacing
<1>5. ASSUME NEW s \in Surface, create_surface(s) PROVE Placing'
  <2>1. \A t \in Surface : Parent(t)' = Parent(t) /\ (Alive(t) => Alive(t)')
    BY <1>1, <1>5, CreateKeepsRoles
  <2>2. UNCHANGED <<sub, parent, treeq, subq, places, last, cached, current, above, work, before>>
    BY <1>5 DEF create_surface, queues
  <2> QED
    BY <1>1, <2>1, <2>2, RequestKeepsPlacing
<1>6. ASSUME NEW s \in Surface, NEW p \in Surface, get_subsurface(s, p) PROVE Placing'
  BY <1>6, GetKeepsPlacing
<1>7. ASSUME NEW s \in Surface, place(s) PROVE Placing'
  <2>1. /\ UNCHANGED <<life, sub, parent, treeq, subq, last, cached, current, above, work, before>>
        /\ places' = [places EXCEPT ![Parent(s)] = places[Parent(s)] \cup {s}]
    BY <1>7 DEF place, tables
  <2>2. Parent(s) \in Surface
    BY <1>7 DEF place, Parent, Alive
  <2>3. \A q \in Surface : /\ places[q] \subseteq places'[q]
                          /\ \A t \in places'[q] : t \in places[q] \/ Parent(t) = q
    BY <1>1, <2>1, <2>2 DEF Types
  <2>4. \A t \in Surface : Parent(t)' = Parent(t) /\ (Alive(t) => Alive(t)')
    BY <2>1 DEF Parent, Alive
  <2> QED
    BY <1>1, <2>1, <2>3, <2>4, RequestKeepsPlacing
<1>8. ASSUME NEW s \in Surface, set_sync(s) \/ set_desync(s) PROVE Placing'
  <2>1. UNCHANGED <<life, sub, parent, places, treeq, subq, last, cached, current, above, work, before>>
    BY <1>8 DEF set_sync, set_desync, queues
  <2>2. \A t \in Surface : Parent(t)' = Parent(t) /\ (Alive(t) => Alive(t)')
    BY <2>1 DEF Parent, Alive
  <2> QED
    BY <1>1, <2>1, <2>2, RequestKeepsPlacing
<1>9. ASSUME NEW s \in Surface, DestroySubsurface(s) PROVE Placing'
  <2>1. sub' = sub \ {s} /\ \A t : Parent(t)' = Parent(t)
    BY <1>1, <1>9, DestroySubsurfaceKeepsRoles
  <2>2. /\ UNCHANGED <<life, parent, places, treeq, last, cached, current, above, work, before>>
        /\ subq' = [subq EXCEPT ![s] = <<>>]
    BY <1>9 DEF DestroySubsurface
  <2>3. \A t \in sub' : subq'[t] = subq[t]
    BY <1>1, <2>1, <2>2 DEF Types
  <2>4. \A t : Alive(t) => Alive(t)'
    BY <2>2 DEF Alive
  <2>5. sub' \subseteq sub
    BY <2>1
  <2> HIDE DEF Placing
  <2> QED
    BY <1>1, <2>1, <2>2, <2>3, <2>4, <2>5, RequestKeepsPlacing
<1>10. ASSUME NEW s \in Surface, DestroySurface(s) PROVE Placing'
  <2>1. \A t \in Surface : Parent(t)' = Parent(t) /\ (Alive(t) => Alive(t)')
    BY <1>1, <1>10, DestroySurfaceKeepsRoles
  <2>2. UNCHANGED <<sub, parent, places, treeq, subq, last, cached, current, above, work, before>>
    BY <1>10 DEF DestroySurface, queues
  <2> QED
    BY <1>1, <2>1, <2>2, RequestKeepsPlacing
<1>11. ASSUME NEW s \in Surface, WaySurface_destructor(s) PROVE Placing'
  BY <1>11, DestructorKeepsPlacing
<1>12. CASE UNCHANGED vars
  <2>1. UNCHANGED <<life, sub, parent, places, treeq, subq, last, cached, current, above, work, before>>
    BY <1>12 DEF vars, tables, queues
  <2>2. \A t \in Surface : Parent(t)' = Parent(t) /\ (Alive(t) => Alive(t)')
    BY <2>1 DEF Parent, Alive
  <2> QED
    BY <1>1, <2>1, <2>2, RequestKeepsPlacing
<1> QED
  BY <1>2, <1>3, <1>4, <1>5, <1>6, <1>7, <1>8, <1>9, <1>10, <1>11, <1>12 DEF Next

(* The inductive invariant of places: where no subsurface moves from one   *)
(* live parent to another, its parent's next commit puts it below the      *)
(* parent, and whatever may be applied is reached by a flush.              *)
THEOREM PlacesHold ==
  ASSUME ~ Reparenting
  PROVE  Spec => [](IInv /\ TypesHold /\ Placing)
<1>1. IInv /\ TypesHold /\ Placing /\ [Next]_vars => Placing'
  BY NextKeepsPlacing
<1> QED
  BY <1>1, Invariance, InitTypes, InitPlacing, NextKeepsTypes, PTL DEF Spec

(* No commit is left behind: between requests, what waited for a commit of *)
(* its parent (WaySubsurface::test) is applied once the parent has applied *)
(* that commit, because flush found it in the scene tree.                  *)
THEOREM NoCommitLeftBehind ==
  ASSUME ~ Reparenting
  PROVE  Spec => []ReadyCommitsApplied
<1>1. Placing => ReadyCommitsApplied
  <2> SUFFICES ASSUME Placing, Idle, NEW s \in sub, Due(s) PROVE FALSE
    BY DEF ReadyCommitsApplied, Due
  <2>1. work = <<>> /\ ToSet(work) = {}
    BY DEF Idle, ToSet
  <2> QED
    BY <2>1 DEF Placing, Flushed
<1> QED
  BY <1>1, PlacesHold, PTL

(* The first synchronized commit of a subsurface shows in its place: the   *)
(* parent's commit it waited for carried the placement that get_subsurface *)
(* asked for, and put it into the scene tree before.                       *)
THEOREM FirstShownInPlace ==
  ASSUME ~ Reparenting
  PROVE  Spec => PlacedBeforeShown
<1> DEFINE Shown == \A s \in sub :
                      (current'[s] # current[s] /\ Peeked(subq[s], current'[s])
                         /\ Parent(s) = Head(subq[s]).parent)
                        => above[s] = Parent(s)
<1>1. IInv /\ TypesHold /\ Placing /\ [Next]_vars => [Shown]_vars
  <2> SUFFICES ASSUME IInv, TypesHold, Placing, [Next]_vars,
                      NEW s \in sub, current'[s] # current[s],
                      Peeked(subq[s], current'[s]), Parent(s) = Head(subq[s]).parent
               PROVE  above[s] = Parent(s)
    OBVIOUS
  <2>1. flush_apply
    BY DEF Next, create_surface, get_subsurface, place, set_sync, set_desync, DestroySubsurface,
           DestroySurface, WaySurface_destructor, commit, flush_return, vars
  <2>2. current \in [Surface -> Nat] /\ subq[s] \in Seq(SubPart) /\ s \in Surface
    BY DEF IInv, Types, TypesHold, Roles, TypeRoles
  <2>3. Head(work) = s /\ Ready(s) /\ current'[s] = Head(cached[s])
    BY <2>1, <2>2 DEF flush_apply, apply
  <2>4. /\ subq[s] # <<>> /\ 1 \in DOMAIN subq[s] /\ Head(subq[s]) = subq[s][1]
        /\ Head(subq[s]) \in SubPart
    BY <2>2 DEF Peeked
  <2>5. PICK y \in Surface, m \in Nat : y = Parent(s) /\ m = Head(subq[s]).parent_commit
    BY <2>4 DEF SubPart
  <2>6. y # NoSurface /\ Alive(y)
    BY <2>5, NoSurfaceAssumption DEF Parent
  <2>7. m <= current[y]
    <3>1. current[y] >= m
      BY <2>3, <2>5, <2>6 DEF Ready, test
    <3> QED
      BY <2>2, <3>1
  <2>8. PlacedBy(s, y, m)
    BY <2>4, <2>5, <2>6 DEF Placing, InPlace
  <2> QED
    BY <2>2, <2>5, <2>6, <2>7, <2>8, PlacedIsShown
<1> QED
  BY <1>1, PlacesHold, PTL DEF PlacedBeforeShown, Spec

===============================================================================
