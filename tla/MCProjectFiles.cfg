CONSTANTS
  None = None
  NoGroup = NoGroup
  MaxActions = 2
  Process = {p1, p2}
  Command = {c1, c2, c3}
  Blob = {"b1"}
  Mark = {"m"}
  MaxRevision = 2
  MaxFaults = 1
  t1 = t1  t2 = t2
SPECIFICATION MCSpec
INVARIANTS Recoverable BytesKept PublishedWhole
PROPERTIES TruthSpec PublishedStays
SYMMETRY Perms
CHECK_DEADLOCK FALSE
