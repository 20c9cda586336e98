\* One xdg_toplevel, two origins and two sizes, a window with and without a
\* shadow, five configure events: enough for a resize that waits, one that is
\* queued behind it, and a remap.
CONSTANTS
  Origin = {0, 1}
  Extent = {1, 2}
  Inset = {0, 1}
  MaxSerial = 5
  MaxToplevels = 1
  Viewports <- MCViewports
  PopupRules <- MCRules
SPECIFICATION Spec
INVARIANTS
  Settled
  PopupPlaced
PROPERTY FarEdgeKept
CHECK_DEADLOCK FALSE
