\* Three windows: a cycle with a window above and one below the cycled one.
CONSTANTS
  Window = {w1, w2, w3}
  None = None
  MaxButtons = 2
SYMMETRY Symmetry
SPECIFICATION Spec
INVARIANTS
  LayerArranged
  HeldWhileActive
  FocusOnTop
  CycleVisitsAll
PROPERTY OwnTarget
CHECK_DEADLOCK FALSE
