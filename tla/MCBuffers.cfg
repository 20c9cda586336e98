SPECIFICATION BufferSpec
CONSTANTS
  Surface = {s1}
  Shm = {m1, m2}
  Dma = {d1}
  Explicit = {d1}
  Modifier = {linear, tiled}
  Null = Null
  Width = 2
  Scales = {2}
  Sticky = FALSE
  gpu_dma_max_planes = 2
  MaxFrames = 2
INVARIANTS PlanesAgree UsedIsBusy
PROPERTIES ShmShown ReleasedAtLast
\* A client that crashed the compositor may have nothing left to do.
CHECK_DEADLOCK FALSE
