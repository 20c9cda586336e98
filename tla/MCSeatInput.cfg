CONSTANTS
  k1 = k1
  k2 = k2
  m1 = m1
  hostk = hostk
  hostp = hostp
  a1 = a1
  a2 = a2
  b1 = b1
  LibinputDevice = {k1, k2, m1}
  HostKeyboard = hostk
  HostPointer = hostp
  Codes <- MCCodes
  Surface = {a1, a2, b1}
  Owner <- MCOwner
  Null = Null
  MaxRoundtrips = 2
SPECIFICATION InputSpec
INVARIANTS
  CountsMatch
  ClientKeys
  ModifiersKnown
