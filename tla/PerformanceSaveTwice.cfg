SPECIFICATION Spec
CONSTANTS
  Nil = Nil
  Torn = Torn
  Corrupt = Corrupt
  Headered = FALSE
  Command = {c1, c2}
  Request = {q1}
  MaxSessions = 1
  MaxInput = 2
  MaxHead = 3
  MaxEdits = 1
  MaxFaults = 2
INVARIANT NeverTwice
CHECK_DEADLOCK FALSE
