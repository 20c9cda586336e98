\* Two connectors of the kernel or two windows of a host, and three images:
\* each output may hold two, and the third is wanted by both.
CONSTANTS
  o1 = o1
  o2 = o2
  i1 = i1
  i2 = i2
  i3 = i3
  Output = {o1, o2}
  Image = {i1, i2, i3}
  Null = Null
  Size = {1}
  Backend = {"drm", "wayland"}
SYMMETRY ImageSymmetry
SPECIFICATION SafeSpec
INVARIANTS
  FreeIsIdle
  OutputsFollow
PROPERTY NeverBusy
\* Without changes nothing is drawn.
CHECK_DEADLOCK FALSE
