CONSTANTS
  Capacity = 2
  MaxItems = 7
  Nil = Nil
SPECIFICATION MCSpec
INVARIANTS AppliedIsHeard TakeReproduces
PROPERTIES FifoSpec
CHECK_DEADLOCK FALSE
