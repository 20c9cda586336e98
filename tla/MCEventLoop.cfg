SPECIFICATION Spec
CONSTANTS
  Slot = {s1, s2}
  Fd = {f1, f2}
  Null = Null
  VersionCount = 4
  MaxEvents = 2
  MaxOps = 3
INVARIANT MemorySafe
PROPERTIES CalledIsRegistered ReadyHandled IdleListenersRun
\* The loop waits for ever when nothing is registered and nothing can arrive.
CHECK_DEADLOCK FALSE
