\* Three surfaces with two commits each: chains of two synchronized levels,
\* siblings, and every change of roles while commits wait.
CONSTANTS
  Surface = {s1, s2, s3}
  NoSurface = NoSurface
  MaxCommit = 2
  MaxChanges = 2
  Reparenting = FALSE
SYMMETRY SurfaceSymmetry
SPECIFICATION Spec
INVARIANTS
  Synced
  ReadyCommitsApplied
PROPERTY PlacedBeforeShown
CHECK_DEADLOCK FALSE
