SPECIFICATION Spec
CONSTANTS
  Image = {i1, i2}
  Sampler = {s1}
  Buffer = {b1}
  Null = Null
  linear = linear
  tiled = tiled
  Modifier = {linear, tiled}
  max_id <- MaxId
  Features <- Driver
  Display = {linear}
  MaxQueue = 2
INVARIANTS IdsPartitioned InFlightIntact LayoutUsable
SYMMETRY Symmetry
\* The program ends.
CHECK_DEADLOCK FALSE
