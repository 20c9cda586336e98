SPECIFICATION SceneSpec
CONSTANTS
  Tree = {root, t1}
  root = root
  Region = {r1, r2}
  Texture = {x1, x2}
  Mesh = {m1}
  i1 = i1
  Image = {i1}
  Null = Null
  Area <- Areas
  Segments <- Meshes
  Offset <- Offsets
  Pointer = 0
  MaxNodes = 3
SYMMETRY Symmetry
INVARIANTS TreeIntact HitIsFresh DrawnIsPicture
PROPERTY ChangeIsRequested
