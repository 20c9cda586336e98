\* Liveness: one output of two sizes, two images, no symmetry.
CONSTANTS
  o1 = o1
  i1 = i1
  i2 = i2
  Output = {o1}
  Image = {i1, i2}
  Null = Null
  Size = {1, 2}
  Backend = {"drm", "wayland"}
SPECIFICATION Spec
PROPERTIES
  StaleIsDrawn
  CallbacksAreDone
\* Without changes nothing is drawn.
CHECK_DEADLOCK FALSE
