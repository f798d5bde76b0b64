CONSTANTS
  Nil = Nil
  Realms = {"control", "worker"}
  Slots = {"c1", "c2", "w1"}
  RealmOf <- LeaseRealm
  Blocks = {1, 2, 3}
  MaxTries = 5
  MayFail = 1
SPECIFICATION MCSpec
INVARIANTS WholeSuccess QuotaKept DeletedStaysEmpty OfferedInstalls HeldIsOpen
PROPERTIES CancelWins
CHECK_DEADLOCK FALSE
