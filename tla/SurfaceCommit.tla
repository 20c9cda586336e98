---------------------------- MODULE SurfaceCommit ----------------------------
(***************************************************************************)
(* Double-buffered surface commits and synchronized subsurfaces            *)
(* (src/way/surface/surface.cpp, subsurface.cpp, state.hpp).               *)
(*                                                                         *)
(* wl_surface.commit turns the pending state into a numbered packet of     *)
(* surface->cached and lets every addon queue its own part under the same  *)
(* number.  flush applies the packets that all addons allow; a             *)
(* WaySubsurface allows one only when its parent has applied the commit    *)
(* the packet waits for.  After a surface changed, flush recurses into the *)
(* surfaces below it in the scene tree, which is filled by the placements  *)
(* a parent commits: a relation of its own, not that of surface->parent.   *)
(*                                                                         *)
(* Left out: the contents of a packet (buffers, regions, viewport), the    *)
(* stacking order of children (flush may meet them in any order) and the   *)
(* Ref a placement holds on its sibling.  The client follows the           *)
(* protocol: it gives a role to a surface that has none and builds no      *)
(* cycle; the code checks neither.                                         *)
(***************************************************************************)
EXTENDS Naturals, FiniteSets, Sequences, SequencesExt

CONSTANTS
  Surface,     \* The wl_surfaces a client may create.
  NoSurface,   \* A Weak<WaySurface> that is empty or whose surface is gone.
  MaxCommit,   \* Bound on last_commit_id, per surface.
  MaxChanges,  \* Bound on the requests that change a role already given.
  Reparenting  \* Whether a client moves a subsurface from one live parent
               \* to another.

ASSUME SurfaceAssumption == IsFiniteSet(Surface)
ASSUME NoSurfaceAssumption == NoSurface \notin Surface
ASSUME MaxCommitAssumption == MaxCommit \in Nat
ASSUME MaxChangesAssumption == MaxChanges \in Nat
ASSUME ReparentingAssumption == Reparenting \in BOOLEAN

VARIABLES
  life,    \* "none", "live", "orphan" (kept by a Ref only) or "dead".
  sub,     \* Surfaces that have a WaySubsurface addon.
  sync,    \* Surfaces whose WaySubsurface::synchronized is set.
  parent,  \* WaySurface::parent
  tree,    \* Surfaces that have a WaySurfaceTree addon.
  places,  \* WaySurfaceTree::queue.pending->places
  treeq,   \* WaySurfaceTree::queue.queue
  subq,    \* WaySubsurface::queue.queue
  last,    \* WaySurface::last_commit_id
  cached,  \* The commit numbers of WaySurface::cached.
  current, \* WaySurface::current.commit
  above,   \* The surface whose scene.tree holds this one's scene.tree.
  changes, \* Counts the requests bounded by MaxChanges.
  work,    \* flush calls that are open or due, innermost first.
  before,  \* prev_applied_commit_id of the open flush.
  promise  \* History: what synchronized commits wait for (see Synced).

tables == <<life, sub, sync, parent, tree>>
queues == <<places, treeq, subq, last, cached>>
vars == <<tables, queues, current, above, changes, work, before, promise>>

Init ==
  /\ life = [s \in Surface |-> "none"]
  /\ sub = {}
  /\ sync = {}
  /\ parent = [s \in Surface |-> NoSurface]
  /\ tree = {}
  /\ places = [s \in Surface |-> {}]
  /\ treeq = [s \in Surface |-> <<>>]
  /\ subq = [s \in Surface |-> <<>>]
  /\ last = [s \in Surface |-> 0]
  /\ cached = [s \in Surface |-> <<>>]
  /\ current = [s \in Surface |-> 0]
  /\ above = [s \in Surface |-> NoSurface]
  /\ changes = 0
  /\ work = <<>>
  /\ before = 0
  /\ promise = {}

-------------------------------------------------------------------------------
(* Relations between surfaces.                                             *)

Alive(s) == s \in Surface /\ life[s] \in {"live", "orphan"}

(* Reading the Weak<WaySurface>.                                           *)
Parent(s) == IF Alive(parent[s]) THEN parent[s] ELSE NoSurface

(* The surface, its parent while it is a subsurface, and so on upwards:    *)
(* what every set has that has s and the parents of its subsurfaces.       *)
Upward(U) == \A t \in U \cap sub : Parent(t) \in U \cup {NoSurface}

Lineage(s) ==
  LET Above == {U \in SUBSET Surface : s \in U /\ Upward(U)}
  IN  {t \in Surface : \A U \in Above : t \in U}

is_synchronized(s) == s \in sub /\ Lineage(s) \cap sub \cap sync # {}

(* The ancestors that a commit of s has to wait for, one after the other.  *)
SyncLineage(s) == {a \in Lineage(s) \ {s} :
                     \A t \in Lineage(s) \ Lineage(a) : is_synchronized(t)}

(* Surfaces that a pending or cached placement of p holds a Ref to.        *)
Placed(p) == places[p] \cup UNION {treeq[p][i].places : i \in DOMAIN treeq[p]}
Referenced(s) == \E p \in Surface : Alive(p) /\ s \in Placed(p)

Garbage == {s \in Surface : life[s] = "orphan" /\ ~Referenced(s)}

(* The event loop can run a request: no flush is open, no destructor due.  *)
Idle == work = <<>> /\ Garbage = {}

Request(s) == Idle /\ life[s] = "live"

Change == changes < MaxChanges /\ changes' = changes + 1

(* The wl_subsurface of s may outlive the wl_surface.                      *)
SubsurfaceRequest(s) == Idle /\ Alive(s) /\ s \in sub

-------------------------------------------------------------------------------
(* Requests.                                                               *)

create_surface(s) ==
  /\ Idle
  /\ life[s] = "none"
  /\ life' = [life EXCEPT ![s] = "live"]
  /\ UNCHANGED <<sub, sync, parent, tree, queues, current, above, work, before,
                 changes, promise>>

(* Seeded fault: the parent's next commit is not asked to place the child. *)
GetSubsurfaceUnplaced(s, p) ==
  /\ Request(s) /\ Request(p)
  /\ s \notin sub
  /\ s \notin Lineage(p)
  /\ Reparenting \/ Parent(s) \in {NoSurface, p}
  /\ sub' = sub \cup {s}
  /\ sync' = sync \cup {s}
  /\ parent' = [parent EXCEPT ![s] = p]
  /\ tree' = tree \cup {p}
  /\ subq' = [subq EXCEPT ![s] = <<>>]
  /\ UNCHANGED <<life, places, treeq, last, cached, current, above, work, before,
                 changes, promise>>

get_subsurface(s, p) ==
  /\ Request(s) /\ Request(p)
  /\ s \notin sub
  /\ s \notin Lineage(p)
  /\ Reparenting \/ Parent(s) \in {NoSurface, p}
  /\ sub' = sub \cup {s}
  /\ sync' = sync \cup {s}
  /\ parent' = [parent EXCEPT ![s] = p]
  /\ tree' = tree \cup {p}
  /\ places' = [places EXCEPT ![p] = @ \cup {s}]
  /\ subq' = [subq EXCEPT ![s] = <<>>]
  /\ UNCHANGED <<life, treeq, last, cached, current, above, work, before,
                 changes, promise>>

(* place_above and place_below.                                            *)
place(s) ==
  /\ SubsurfaceRequest(s)
  /\ Parent(s) # NoSurface
  /\ places' = [places EXCEPT ![Parent(s)] = @ \cup {s}]
  /\ Change
  /\ UNCHANGED <<tables, treeq, subq, last, cached, current, above, work, before,
                 promise>>

set_sync(s) ==
  /\ SubsurfaceRequest(s)
  /\ s \notin sync
  /\ sync' = sync \cup {s}
  /\ Change
  /\ UNCHANGED <<life, sub, parent, tree, queues, current, above, work, before,
                 promise>>

set_desync(s) ==
  /\ SubsurfaceRequest(s)
  /\ s \in sync
  /\ sync' = sync \ {s}
  /\ promise' = {p \in promise : s = p.child \/ s \notin Lineage(p.child)}
  /\ Change
  /\ UNCHANGED <<life, sub, parent, tree, queues, current, above, work, before>>

(* wl_subsurface.destroy runs ~WaySubsurface, which takes the addon from   *)
(* the surface.  Parent and scene tree keep the surface where it was.      *)
DestroySubsurface(s) ==
  /\ SubsurfaceRequest(s)
  /\ sub' = sub \ {s}
  /\ sync' = sync \ {s}
  /\ subq' = [subq EXCEPT ![s] = <<>>]
  /\ promise' = {p \in promise : s \notin Lineage(p.child)}
  /\ Change
  /\ UNCHANGED <<life, parent, tree, places, treeq, last, cached, current, above,
                 work, before>>

(* wl_surface.destroy drops the Ref of the resource; the WaySubsurface, if *)
(* any, stays behind for its own resource and is told nothing.             *)
DestroySurface(s) ==
  /\ Request(s)
  /\ life' = [life EXCEPT ![s] = "orphan"]
  /\ promise' = {p \in promise : s \notin Lineage(p.child)}
  /\ Change
  /\ UNCHANGED <<sub, sync, parent, tree, queues, current, above, work, before>>

(* ~WaySurface, as soon as the last Ref is dropped, and ~SceneTree.        *)
WaySurface_destructor(s) ==
  /\ s \in Garbage
  /\ life' = [life EXCEPT ![s] = "dead"]
  /\ sub' = sub \ {s}
  /\ sync' = sync \ {s}
  /\ tree' = tree \ {s}
  /\ parent' = [parent EXCEPT ![s] = NoSurface]
  /\ places' = [places EXCEPT ![s] = {}]
  /\ treeq' = [treeq EXCEPT ![s] = <<>>]
  /\ subq' = [subq EXCEPT ![s] = <<>>]
  /\ cached' = [cached EXCEPT ![s] = <<>>]
  /\ above' = [t \in Surface |-> IF t = s \/ above[t] = s THEN NoSurface ELSE above[t]]
  /\ promise' = {p \in promise : s \notin Lineage(p.child)}
  /\ UNCHANGED <<last, current, work, before, changes>>

-------------------------------------------------------------------------------
(* Commit and flush.                                                       *)

(* Seeded fault: the commit waits for the parent's latest commit, not for  *)
(* its next one.                                                           *)
CommitNoSuccessor(s, id) ==
  IF is_synchronized(s) /\ Parent(s) # NoSurface
  THEN Append(subq[s], [commit |-> id, parent |-> Parent(s),
                        parent_commit |-> last[Parent(s)]])
  ELSE subq[s]

(* WaySubsurface::commit                                                   *)
WaySubsurface_commit(s, id) ==
  IF is_synchronized(s) /\ Parent(s) # NoSurface
  THEN Append(subq[s], [commit |-> id, parent |-> Parent(s),
                        parent_commit |-> last[Parent(s)] + 1])
  ELSE subq[s]

commit(s) ==
  LET id == last[s] + 1 IN
  /\ Request(s)
  /\ last[s] < MaxCommit
  /\ last' = [last EXCEPT ![s] = id]
  /\ cached' = [cached EXCEPT ![s] = Append(@, id)]
  /\ subq' = [subq EXCEPT ![s] = WaySubsurface_commit(s, id)]
  /\ IF s \in tree
     THEN /\ treeq' = [treeq EXCEPT ![s] =
                         Append(@, [commit |-> id, places |-> places[s]])]
          /\ places' = [places EXCEPT ![s] = {}]
     ELSE UNCHANGED <<treeq, places>>
  /\ promise' = promise \cup
       {[child |-> s, commit |-> id, ancestor |-> a, needs |-> last[a] + 1] :
          a \in SyncLineage(s)}
  /\ work' = <<s>>
  /\ before' = current[s]
  /\ UNCHANGED <<tables, current, above, changes>>

(* WayCommitQueue::peek finds the entry of the packet with this number.    *)
Peeked(queue, id) == queue # <<>> /\ Head(queue).commit = id

(* WaySubsurface::test                                                     *)
test(s, id) ==
  Peeked(subq[s], id) =>
    LET from == Head(subq[s]) IN
    (Parent(s) # NoSurface /\ from.parent = Parent(s))
      => current[Parent(s)] >= from.parent_commit

(* The next packet of s may be applied.                                    *)
Ready(s) == cached[s] # <<>> /\ test(s, Head(cached[s]))

(* Seeded fault: the subsurface's part stays in its queue.                 *)
ApplyKeepsEntry(s) ==
  LET id == Head(cached[s])
      placed == IF Peeked(treeq[s], id) THEN Head(treeq[s]).places ELSE {} IN
  /\ current' = [current EXCEPT ![s] = id]
  /\ cached' = [cached EXCEPT ![s] = Tail(@)]
  /\ treeq' = [treeq EXCEPT ![s] = IF Peeked(@, id) THEN Tail(@) ELSE @]
  /\ above' = [t \in Surface |-> IF t \in placed THEN s ELSE above[t]]
  /\ promise' = {p \in promise : p.ancestor # s \/ p.needs > id}
  /\ UNCHANGED subq

(* apply: the addons' parts of the packet, then its removal from cached.   *)
apply(s) ==
  LET id == Head(cached[s])
      placed == IF Peeked(treeq[s], id) THEN Head(treeq[s]).places ELSE {} IN
  /\ current' = [current EXCEPT ![s] = id]
  /\ cached' = [cached EXCEPT ![s] = Tail(@)]
  /\ subq' = [subq EXCEPT ![s] = IF Peeked(@, id) THEN Tail(@) ELSE @]
  /\ treeq' = [treeq EXCEPT ![s] = IF Peeked(@, id) THEN Tail(@) ELSE @]
  /\ above' = [t \in Surface |-> IF t \in placed THEN s ELSE above[t]]
  /\ promise' = {p \in promise : p.ancestor # s \/ p.needs > id}

flush_apply ==
  /\ work # <<>> /\ Garbage = {}
  /\ Ready(Head(work))
  /\ apply(Head(work))
  /\ UNCHANGED <<tables, places, last, work, before, changes>>

(* Seeded fault: flush only visits children that are synchronized now.     *)
SynchronizedChildren(s) == {c \in sync : Alive(c) /\ above[c] = s}

Children(s) == {c \in Surface : Alive(c) /\ above[c] = s}

(* The loop stopped: return, through the children if anything was applied. *)
flush_return ==
  LET s == Head(work) IN
  /\ work # <<>> /\ Garbage = {}
  /\ ~Ready(s)
  /\ \E next \in SetToSeqs(IF current[s] # before THEN Children(s) ELSE {}) :
       LET rest == next \o Tail(work) IN
       /\ work' = rest
       /\ before' = IF rest = <<>> THEN 0 ELSE current[Head(rest)]
  /\ UNCHANGED <<tables, queues, current, above, promise, changes>>

Next ==
  \/ \E s \in Surface :
       \/ create_surface(s)
       \/ \E p \in Surface : get_subsurface(s, p)
       \/ place(s)
       \/ set_sync(s)
       \/ set_desync(s)
       \/ DestroySubsurface(s)
       \/ DestroySurface(s)
       \/ WaySurface_destructor(s)
       \/ commit(s)
  \/ flush_apply
  \/ flush_return

Spec == Init /\ [][Next]_vars

-------------------------------------------------------------------------------
(* Properties.                                                             *)

(* Every variable holds a value of its kind, and only a surface that is    *)
(* neither gone nor unborn takes part in anything.                         *)
TypeOK ==
  /\ life \in [Surface -> {"none", "live", "orphan", "dead"}]
  /\ sub \in SUBSET {s \in Surface : Alive(s)}
  /\ sync \in SUBSET sub
  /\ tree \in SUBSET {s \in Surface : Alive(s)}
  /\ parent \in [Surface -> Surface \cup {NoSurface}]
  /\ places \in [Surface -> SUBSET Surface]
  /\ \A s \in Surface : treeq[s] \in
       Seq([commit : 1 .. MaxCommit, places : SUBSET Surface])
  /\ \A s \in Surface : subq[s] \in
       Seq([commit : 1 .. MaxCommit, parent : Surface, parent_commit : 1 .. MaxCommit + 1])
  /\ last \in [Surface -> 0 .. MaxCommit]
  /\ \A s \in Surface : cached[s] \in Seq(1 .. MaxCommit)
  /\ current \in [Surface -> 0 .. MaxCommit]
  /\ above \in [Surface -> Surface \cup {NoSurface}]
  /\ work \in Seq(Surface)
  /\ before \in 0 .. MaxCommit
  /\ promise \in SUBSET [child : Surface, commit : 1 .. MaxCommit,
                         ancestor : Surface, needs : 1 .. MaxCommit + 1]

Commits(queue) == [i \in DOMAIN queue |-> queue[i].commit]

(* Every commit is applied exactly once and in order, and the addons'      *)
(* queues stay in step with the packets, whatever addons come and go while *)
(* packets wait: so the assertion of WayCommitQueue::peek never fails and  *)
(* no addon hands its part of one commit to another.                       *)
QueuesAligned ==
  \A s \in Surface : Alive(s) =>
    /\ cached[s] = [i \in 1 .. last[s] - current[s] |-> current[s] + i]
    /\ IsSuffix(Commits(treeq[s]), cached[s])
    /\ IsInjective(Commits(subq[s]))
    /\ \A i \in DOMAIN subq[s] : subq[s][i].commit \in ToSet(cached[s])
    /\ \A i, j \in DOMAIN subq[s] : i < j => subq[s][i].commit < subq[s][j].commit

(* A commit made while the surface is synchronized does not show before    *)
(* the next commit of its parent shows; where the parent is synchronized   *)
(* too, not before the next commit of the parent's parent, and so on up to *)
(* the first surface that is not: although WaySubsurface only ever         *)
(* compares with the direct parent.  (Destroying a surface or role on the  *)
(* way, or desynchronizing an ancestor, ends the promise.)                 *)
PromisesKept == \A p \in promise : current[p.child] < p.commit

(* The commits of all surfaces show whole, once, in order, and those of a  *)
(* synchronized surface only with their parent's.                          *)
Synced ==
  /\ TypeOK
  /\ QueuesAligned
  /\ PromisesKept

(* No commit is left behind: between requests, a packet that waited for a  *)
(* commit of the parent is gone once the parent has applied that commit.   *)
(* The parent's flush has to find the child through the scene tree, where  *)
(* only an applied placement puts it.                                      *)
ReadyCommitsApplied ==
  Idle =>
    \A s \in sub :
      (cached[s] # <<>> /\ Parent(s) # NoSurface) =>
        LET id == Head(cached[s]) IN
        (Peeked(subq[s], id) /\ Head(subq[s]).parent = Parent(s)) => ~test(s, id)

(* The first synchronized commit of a subsurface shows in its place: when  *)
(* it is applied, the parent's scene tree already holds the surface,       *)
(* because the parent's commit it waited for carried the placement.        *)
PlacedBeforeShown ==
  [][\A s \in sub :
       (current'[s] # current[s] /\ Peeked(subq[s], current'[s])
          /\ Parent(s) = Head(subq[s]).parent)
         => above[s] = Parent(s)]_vars

=============================================================================
