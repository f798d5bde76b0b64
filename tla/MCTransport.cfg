CONSTANTS
  None = None
  Generation = {g1, g2}
  Own = g1
  Command = {c1, c2}
  Payload = {x, lost}
  OwnerLost = lost
  MaxStep = 3
  MaxEpoch = 2
SPECIFICATION MCSpec
INVARIANTS OnceInOrder
PROPERTIES Completes PressesSettle
CHECK_DEADLOCK FALSE
