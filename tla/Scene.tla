--------------------------------- MODULE Scene ---------------------------------
(***************************************************************************)
(* The scene graph (src/scene): trees of textures, meshes and input        *)
(* regions, the damage that changes post, and how a frame is drawn.        *)
(*                                                                         *)
(* A change asks for a frame of every output; a change of an input region  *)
(* also leaves an idle listener that moves the pointer to where it is, so  *)
(* that it focuses what is under it now (src/wm/io.cpp, seat/pointer.cpp). *)
(* SeatFocus models what follows from a focus, OutputFrame when frames are *)
(* drawn; the pointer rests at one position here.                          *)
(*                                                                         *)
(* Geometry has one dimension; a quad stands for its vertices and indices. *)
(* Opacity, tint, blending and clips go the way of the image.              *)
(***************************************************************************)
EXTENDS Integers, Lists

CONSTANTS
  Tree,      \* SceneTrees.
  root,      \* Scene::root.
  Region,    \* SceneInputRegions.
  Texture,   \* SceneTextures.
  Mesh,      \* SceneMeshes.
  Image,     \* Images of textures and meshes.
  Null,      \* No node, no image.
  Area,      \* Sets of positions that regions may cover.
  Segments,  \* Contents meshes may have: vertices, and images of segments.
  Offset,    \* Translations of trees.
  Pointer,   \* Where the pointer is.
  MaxNodes   \* Bound: nodes at once that are not as they were created, or hold some.

Leaf == Region \cup Texture \cup Mesh
Node == Tree \cup Leaf

ASSUME NodeAssumption ==
  /\ root \in Tree /\ Tree \cap Leaf = {} /\ Null \notin Node \cup Image
ASSUME GeometryAssumption ==
  /\ Offset \subseteq Int /\ 0 \in Offset /\ Pointer \in Int /\ {} \in Area
  /\ <<>> \in Segments /\ Segments \subseteq Seq(Image \cup {Null})

VARIABLES
  children,    \* Of every tree, back to front.
  parent,      \* The tree a node is in, or Null.
  enabled,     \* Whether a tree is shown.
  translation, \* Of trees.
  area,        \* Of regions: what they cover.
  image,       \* Of textures.
  segments,    \* Of meshes: an image for every quad.
  pointer_focus, \* The region whose focus the pointer has, or Null.
  button_down, \* Whether a button is down.
  damaged,     \* Whether the idle listener for input regions is there.
  requested    \* Whether a frame was asked for since the last one.

nodes == <<children, parent>>
looks == <<enabled, translation, area, image, segments>>
scene_vars == <<nodes, looks, pointer_focus, button_down, damaged, requested>>

SceneInit ==
  /\ children = [t \in Tree |-> <<>>]
  /\ parent = [n \in Node |-> Null]
  /\ enabled = [t \in Tree |-> TRUE]
  /\ translation = [t \in Tree |-> 0]
  /\ area = [r \in Region |-> {}]
  /\ image = [x \in Texture |-> Null]
  /\ segments = [m \in Mesh |-> <<>>]
  /\ pointer_focus = Null
  /\ button_down = FALSE
  /\ damaged = FALSE
  /\ requested = FALSE

-------------------------------------------------------------------------------
(* Walks.                                                                  *)

scene_tree_get_position ==
  LET position[t \in Tree] ==
        translation[t] + (IF parent[t] = Null THEN 0 ELSE position[parent[t]])
  IN  position

RootOf(up) ==
  LET top[t \in Tree] == IF up[t] = Null THEN t ELSE top[up[t]]
  IN  top

(* get_root: of a tree itself, of a leaf its parent.                       *)
InScene(up, n) ==
  IF n \in Tree THEN RootOf(up)[n] = root ELSE up[n] # Null /\ RootOf(up)[up[n]] = root

(* A tree and what it is in.                                               *)
Above(up, t) ==
  LET above[u \in Tree] == {u} \cup (IF up[u] = Null THEN {} ELSE above[up[u]])
  IN  above[t]

(* What leaves of the trees in shown give, back to front.                  *)
Walk(lists, shown, gives) ==
  LET walk[n \in Node] ==
        IF n \in Leaf THEN gives[n]
        ELSE IF n \notin shown THEN <<>>
        ELSE FlattenSeq([k \in DOMAIN lists[n] |-> walk[lists[n][k]]])
  IN  walk

(* SceneTree::damage: the leaves below a node, shown or not.               *)
Below(lists, n) == ToSet(Walk(lists, Tree, [m \in Leaf |-> <<m>>])[n])

Shown == {t \in Tree : enabled[t]}

scene_iterate(gives) == Walk(children, Shown, gives)[root]

(* Where a leaf is; it is only asked for when the leaf is in a tree.       *)
At(n) == IF parent[n] = Null THEN 0 ELSE scene_tree_get_position[parent[n]]

-------------------------------------------------------------------------------
(* Damage.                                                                 *)

(* What scene_node_damage posts, with the trees as given.                  *)
Posted(lists, up, n) == IF InScene(up, n) THEN Below(lists, n) ELSE {}

(* handle_damage of the window manager.                                    *)
scene_post_damage(leaves) ==
  /\ requested' = (requested \/ leaves # {})
  /\ damaged' = (damaged \/ leaves \cap Region # {})

scene_node_damage(n) == scene_post_damage(Posted(children, parent, n))

-------------------------------------------------------------------------------
(* Placing nodes.                                                          *)

Position(seq, n) == CHOOSE k \in DOMAIN seq : seq[k] = n

(* The insertion or rotation that puts node next to sib.                   *)
Rotate(seq, sib, node, above) ==
  LET rest == Without(seq, node)
  IN  InsertAt(rest, IF above THEN Position(rest, sib) + 1 ELSE Position(rest, sib), node)

(* Without a sibling, or with one that is not in this tree, a node goes to *)
(* the top or the bottom.                                                  *)
Placed(seq, sibling, node, above) ==
  IF seq = <<>> THEN <<node>>
  ELSE LET sib == IF sibling \in ToSet(seq) THEN sibling
                  ELSE IF above THEN Last(seq) ELSE Head(seq)
       IN  IF sib = node THEN seq ELSE Rotate(seq, sib, node, above)

(* Nodes but the root that were placed, changed or given children: an      *)
(* untouched node stands for one that is not there.                        *)
Touched ==
  {n \in Node \ {root} : parent[n] # Null}
    \cup {t \in Tree \ {root} : ~enabled[t] \/ translation[t] # 0 \/ children[t] # <<>>}
    \cup {r \in Region : area[r] # {}}
    \cup {x \in Texture : image[x] # Null}
    \cup {m \in Mesh : segments[m] # <<>>}

MayTouch(N) == Cardinality(Touched \cup (N \ {root})) <= MaxNodes

\* Callers never put a tree into itself or below.
MayHold(tree, node) == node \notin Above(parent, tree) /\ MayTouch({tree, node})

\* Mutant: the old tree keeps a node that was placed in another.
PlaceTwice(tree, sibling, node, above) ==
  LET lists == [children EXCEPT ![tree] = Placed(@, sibling, node, above)]
  IN  /\ node # root /\ MayHold(tree, node)
      /\ children' = lists
      /\ parent' = [parent EXCEPT ![node] = tree]
      /\ scene_post_damage(Posted(lists, parent, tree))
      /\ UNCHANGED <<looks, pointer_focus, button_down>>

(* scene_tree_place_above and _below: tree_place, then reparent_unsafe     *)
(* takes the node out of the tree it was in.                               *)
tree_place(tree, sibling, node, above) ==
  LET lists == [children EXCEPT ![tree] = Placed(@, sibling, node, above)]
      moved == parent[node] \notin {tree, Null}
  IN  /\ node # root /\ MayHold(tree, node)
      /\ children' = IF moved THEN [lists EXCEPT ![parent[node]] = Without(@, node)] ELSE lists
      /\ parent' = [parent EXCEPT ![node] = tree]
      /\ scene_post_damage(Posted(lists, parent, tree)
                             \cup (IF moved THEN Posted(lists, parent, node) ELSE {}))
      /\ UNCHANGED <<looks, pointer_focus, button_down>>

\* Mutant: the damage is posted when the node is out.
UnparentFirst(n) ==
  /\ children' = IF parent[n] = Null THEN children
                 ELSE [children EXCEPT ![parent[n]] = Without(@, n)]
  /\ parent' = [parent EXCEPT ![n] = Null]
  /\ scene_post_damage(Posted(children', parent', n))

Unparent(n) ==
  /\ children' = IF parent[n] = Null THEN children
                 ELSE [children EXCEPT ![parent[n]] = Without(@, n)]
  /\ parent' = [parent EXCEPT ![n] = Null]
  /\ scene_post_damage(IF parent[n] = Null THEN {} ELSE Posted(children, parent, n))

scene_node_unparent(n) == n # root /\ Unparent(n) /\ UNCHANGED <<looks, pointer_focus, button_down>>

(* A leaf is destroyed, and another may be created in its place.  A region *)
(* goes with its SeatFocus, which takes the pointer's focus.               *)
destroy_leaf(n) ==
  /\ n \in Leaf
  /\ Unparent(n)
  /\ area' = [r \in Region |-> IF r = n THEN {} ELSE area[r]]
  /\ image' = [x \in Texture |-> IF x = n THEN Null ELSE image[x]]
  /\ segments' = [m \in Mesh |-> IF m = n THEN <<>> ELSE segments[m]]
  /\ pointer_focus' = IF pointer_focus = n THEN Null ELSE pointer_focus
  /\ UNCHANGED <<enabled, translation, button_down>>

(* ~SceneTree: its children are in no tree then.                           *)
destroy_tree(t) ==
  /\ t \in Tree \ {root}
  /\ children' = [k \in Tree |-> IF k = t THEN <<>> ELSE Without(children[k], t)]
  /\ parent' = [n \in Node |-> IF n = t \/ parent[n] = t THEN Null ELSE parent[n]]
  /\ scene_post_damage(IF parent[t] = Null THEN {} ELSE Posted(children, parent, t))
  /\ enabled' = [enabled EXCEPT ![t] = TRUE]
  /\ translation' = [translation EXCEPT ![t] = 0]
  /\ UNCHANGED <<area, image, segments, pointer_focus, button_down>>

Cleared(t) == [n \in Node |-> IF parent[n] = t THEN Null ELSE parent[n]]

scene_tree_clear(t) ==
  /\ children' = [children EXCEPT ![t] = <<>>]
  /\ parent' = Cleared(t)
  /\ scene_node_damage(t)
  /\ UNCHANGED <<looks, pointer_focus, button_down>>

(* scene_tree_replace with nodes of the tree, as the window manager does   *)
(* to sort its windows; others are taken out.                              *)
scene_tree_replace(t, new) ==
  /\ new # children[t]
  /\ children' = [children EXCEPT ![t] = new]
  /\ parent' = [n \in Node |-> IF n \in ToSet(new) THEN t ELSE Cleared(t)[n]]
  /\ scene_post_damage(Posted(children, parent, t) \cup Posted(children', parent', t))
  /\ UNCHANGED <<looks, pointer_focus, button_down>>

-------------------------------------------------------------------------------
(* Looks.                                                                  *)

scene_tree_set_enabled(t) ==
  /\ t \in Tree \ {root} /\ MayTouch({t})
  /\ enabled' = [enabled EXCEPT ![t] = ~@]
  /\ scene_node_damage(t)
  /\ UNCHANGED <<nodes, translation, area, image, segments, pointer_focus, button_down>>

scene_tree_set_translation(t, offset) ==
  /\ t \in Tree \ {root} /\ translation[t] # offset /\ MayTouch({t})
  /\ translation' = [translation EXCEPT ![t] = offset]
  /\ scene_node_damage(t)
  /\ UNCHANGED <<nodes, enabled, area, image, segments, pointer_focus, button_down>>

(* scene_input_region_set_region and _set_clip.                            *)
scene_input_region_set_region(r, covers) ==
  /\ area[r] # covers /\ MayTouch({r})
  /\ area' = [area EXCEPT ![r] = covers]
  /\ scene_node_damage(r)
  /\ UNCHANGED <<nodes, enabled, translation, image, segments, pointer_focus, button_down>>

(* scene_texture_set_image posts damage itself only when there is an image *)
(* for the first time or none any more; otherwise its callers post what    *)
(* was damaged (scene_texture_damage).                                     *)
scene_texture_set_image(x, img) ==
  /\ image[x] # img /\ MayTouch({x})
  /\ image' = [image EXCEPT ![x] = img]
  /\ scene_node_damage(x)
  /\ UNCHANGED <<nodes, enabled, translation, area, segments, pointer_focus, button_down>>

scene_mesh_update(m, new) ==
  /\ segments[m] # new /\ MayTouch({m})
  /\ segments' = [segments EXCEPT ![m] = new]
  /\ scene_node_damage(m)
  /\ UNCHANGED <<nodes, enabled, translation, area, image, pointer_focus, button_down>>

-------------------------------------------------------------------------------
(* The pointer.                                                            *)

(* scene_find_input_region_at: front to back, the first that contains it.  *)
scene_find_input_region_at(pos) ==
  LET hit == scene_iterate([n \in Leaf |->
               IF n \in Region /\ pos - At(n) \in area[n] THEN <<n>> ELSE <<>>])
  IN  IF hit = <<>> THEN Null ELSE Last(hit)

update_pointer_focus(down) ==
  pointer_focus' = IF down THEN pointer_focus ELSE scene_find_input_region_at(Pointer)

handle_input_region_damage ==
  /\ damaged
  /\ damaged' = FALSE
  /\ update_pointer_focus(button_down)
  /\ UNCHANGED <<nodes, looks, button_down, requested>>

\* Mutant: what happened under the pointer during a drag is not looked at.
ReleaseKeepsFocus ==
  /\ button_down' = ~button_down
  /\ UNCHANGED <<nodes, looks, pointer_focus, damaged, requested>>

seat_pointer_button ==
  /\ button_down' = ~button_down
  /\ IF button_down THEN update_pointer_focus(FALSE) ELSE UNCHANGED pointer_focus
  /\ UNCHANGED <<nodes, looks, damaged, requested>>

-------------------------------------------------------------------------------
(* Drawing.                                                                *)

NoFrame == [vertices |-> <<>>, indices |-> <<>>, draws |-> <<>>]

(* draw_mesh: every segment is a draw of its own, moved as a whole.        *)
draw_mesh(frame, m) ==
  LET segment(k) == [vertex_offset |-> Len(frame.vertices),
                     first_index |-> Len(frame.indices) + k - 1,
                     index_count |-> 1, image |-> segments[m][k], position |-> At(m)]
  IN  [vertices |-> frame.vertices \o [k \in DOMAIN segments[m] |-> k - 1],
       indices |-> frame.indices \o [k \in DOMAIN segments[m] |-> k - 1],
       draws |-> frame.draws \o [k \in DOMAIN segments[m] |-> segment(k)]]

(* get_draw: the last draw is extended if it looks the same.               *)
get_draw(frame, img, position) ==
  IF /\ frame.draws # <<>>
     /\ Last(frame.draws).image = img
     /\ Last(frame.draws).position = position
  THEN frame.draws
  ELSE Append(frame.draws, [vertex_offset |-> Len(frame.vertices), first_index |-> Len(frame.indices),
                            index_count |-> 0, image |-> img, position |-> position])

\* Mutant: indices count from the first vertex of all.
DrawTextureFromStart(frame, x) ==
  LET draws == get_draw(frame, image[x], 0)
  IN  [vertices |-> Append(frame.vertices, At(x)),
       indices |-> Append(frame.indices, Len(frame.vertices)),
       draws |-> [draws EXCEPT ![Len(draws)].index_count = @ + 1]]

draw_texture(frame, x) ==
  LET draws == get_draw(frame, image[x], 0)
  IN  [vertices |-> Append(frame.vertices, At(x)),
       indices |-> Append(frame.indices, Len(frame.vertices) - Last(draws).vertex_offset),
       draws |-> [draws EXCEPT ![Len(draws)].index_count = @ + 1]]

draw_node(frame, n) ==
  IF n \in Texture THEN draw_texture(frame, n)
  ELSE IF n \in Mesh THEN draw_mesh(frame, n) ELSE frame

Visited == scene_iterate([n \in Leaf |-> <<n>>])

(* scene_render: what the GPU is given.                                    *)
scene_render ==
  LET leaves == Visited
      frame[k \in 0 .. Len(leaves)] ==
        IF k = 0 THEN NoFrame ELSE draw_node(frame[k - 1], leaves[k])
  IN  frame[Len(leaves)]

(* A frame is drawn for every output that asked for one.                   *)
output_frame ==
  /\ requested
  /\ requested' = FALSE
  /\ UNCHANGED <<nodes, looks, pointer_focus, button_down, damaged>>

-------------------------------------------------------------------------------
Arrange ==
  \/ \E t \in Tree, n \in Node, above \in BOOLEAN : \E sibling \in ToSet(children[t]) \cup {Null} :
       tree_place(t, sibling, n, above)
  \/ \E n \in Node : scene_node_unparent(n)
  \/ \E n \in Node : destroy_leaf(n) \/ destroy_tree(n)
  \/ \E t \in Tree : scene_tree_clear(t)
  \/ \E t \in Tree : \E a, b \in ToSet(children[t]) : a # b /\ scene_tree_replace(t, <<a, b>>)

Look ==
  \/ \E t \in Tree : scene_tree_set_enabled(t)
  \/ \E t \in Tree, offset \in Offset : scene_tree_set_translation(t, offset)
  \/ \E r \in Region, covers \in Area : scene_input_region_set_region(r, covers)
  \/ \E x \in Texture, img \in Image \cup {Null} : scene_texture_set_image(x, img)
  \/ \E m \in Mesh, new \in Segments : scene_mesh_update(m, new)

SceneNext ==
  \/ Arrange
  \/ Look
  \/ handle_input_region_damage
  \/ seat_pointer_button
  \/ output_frame

SceneSpec == SceneInit /\ [][SceneNext]_scene_vars

-------------------------------------------------------------------------------
(* Properties.                                                             *)

SceneTypeOK ==
  /\ children \in [Tree -> Seq(Node)]
  /\ parent \in [Node -> Tree \cup {Null}]
  /\ enabled \in [Tree -> BOOLEAN]
  /\ translation \in [Tree -> Offset]
  /\ area \in [Region -> Area]
  /\ image \in [Texture -> Image \cup {Null}]
  /\ segments \in [Mesh -> Segments]
  /\ pointer_focus \in Region \cup {Null}
  /\ button_down \in BOOLEAN /\ damaged \in BOOLEAN /\ requested \in BOOLEAN

(* Every node is listed once by its parent and by no other tree, whatever  *)
(* is placed, moved between trees, cleared or destroyed: a drawing walk    *)
(* meets no node twice and none that is gone (tree_place, ~SceneTree).     *)
TreeIntact ==
  /\ SceneTypeOK
  /\ \A t \in Tree, n \in Node : n \in ToSet(children[t]) <=> parent[n] = t
  /\ \A t \in Tree : IsInjective(children[t])

(* With no idle listener left and no button down, the pointer's focus is   *)
(* the region on top at its position, although nobody moved it             *)
(* (handle_input_region_damage).                                           *)
HitIsFresh == ~damaged /\ ~button_down => pointer_focus = scene_find_input_region_at(Pointer)

(* What the scene looks like: images and places of quads, back to front.   *)
Quads(n) ==
  IF n \in Texture THEN <<[image |-> image[n], at |-> At(n)]>>
  ELSE IF n \in Mesh
  THEN [k \in DOMAIN segments[n] |-> [image |-> segments[n][k], at |-> At(n) + k - 1]]
  ELSE <<>>

Picture == scene_iterate([n \in Leaf |-> Quads(n)])

\* The vertex that index k of a draw stands for.
VertexOf(frame, draw, k) == draw.vertex_offset + frame.indices[draw.first_index + k] + 1

(* What the GPU draws from its vertices, indices and draws.                *)
Drawn(frame) ==
  FlattenSeq([d \in DOMAIN frame.draws |->
    LET draw == frame.draws[d]
    IN  [k \in 1 .. draw.index_count |->
           [image |-> draw.image,
            at |-> draw.position + frame.vertices[VertexOf(frame, draw, k)]]]])

(* Joining textures into one draw, with meshes in between, changes nothing *)
(* of what is shown, nor in which order, and no draw reads indices or      *)
(* vertices that are not there (scene_render).                             *)
DrawnIsPicture ==
  LET frame == scene_render
  IN  /\ \A draw \in ToSet(frame.draws) : \A k \in 1 .. draw.index_count :
           /\ draw.first_index + k \in DOMAIN frame.indices
           /\ VertexOf(frame, draw, k) \in DOMAIN frame.vertices
      /\ Drawn(frame) = Picture

(* No change of what is shown goes without a request for a frame           *)
(* (scene_node_damage posts before a node leaves, after it came).          *)
ChangeIsRequested == [][requested' \/ Picture' = Picture]_<<nodes, looks>>
===============================================================================
