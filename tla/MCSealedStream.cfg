CONSTANTS
  x = x
  y = y
  Byte = {x, y}
  FrameSize = 2
  Tag = 1
  MaxText = 5
  MaxFaults <- MCMaxFaults
SPECIFICATION Spec
INVARIANTS StreamConsistent FullReadIsAuthentic
PROPERTIES ImplementsByteStream DeliversOnlyText
CHECK_DEADLOCK FALSE
