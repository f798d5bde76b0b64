CONSTANTS
  Nil = Nil
  Torn = Torn
  Corrupt = Corrupt
    c1 = c1  c2 = c2
  Takes = {"a", "b"}
  VisibleWrites = {"prepare", "publish", "complete", "abort"}
  MaxFaults = 4
  MaxRevision = 5
  CountIn = 2
  Markers <- Cues
  Envelope = 1
  Quanta = {1, 3}
  RecordSlots = {"s1", "s2"}
  MaxSerial = 2
  MaxCommands = 1
SPECIFICATION MCSpec
INVARIANTS InStep SequenceKept AdmissionKept PerformanceKept SchedulesOwned
PROPERTIES CancelledSilent
SYMMETRY Perms
CHECK_DEADLOCK FALSE
