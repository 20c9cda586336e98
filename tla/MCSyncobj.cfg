\* Three waits: two may share a point, one may be registered in a callback.
\* Liveness is checked too, so they are not made interchangeable.
SPECIFICATION Spec
CONSTANTS
  w1 = w1
  w2 = w2
  w3 = w3
  Wait = {w1, w2, w3}
  MaxPoint = 3
INVARIANTS
  IInv
PROPERTIES
  AbsSpec
  ReachedIsHandled
\* The waits and the points run out.
CHECK_DEADLOCK FALSE
