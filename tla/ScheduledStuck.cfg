CONSTANTS
  CountIn = 2
  Markers <- OneCue
  Envelope = 1
  Quanta = {2}
  Slots = {s1}
  MaxSerial = 2
  MaxCommands = 0
SPECIFICATION FairSpec
PROPERTIES EveryScheduleRetires
CHECK_DEADLOCK FALSE
