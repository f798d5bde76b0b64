SPECIFICATION Spec
CONSTANTS
    None = None
    NoGroup = NoGroup
    MaxActions = 2
    Process = {p1}
    Command = {c1, c2}
    Blob = {b1}
    Mark = {m1, m2}
    MaxRevision = 2
    MaxFaults = 1
INVARIANTS RetryNotBlocked
