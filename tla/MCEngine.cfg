CONSTANTS
  MaxPublish = 5
  BankSlots = {1, 2, 3}
  AuditionSlots = {4, 5}
  Pads = {"p"}
  Voices = {1, 2}
  QueueSize = 2
  MaxBank = 4
  PatternSlots = {1, 2, 3}
  Patterns = {"a", "b"}
  Bar <- Bars
  Quantum = 2
  MaxPattern = 3
  Requests <- Edits
  MaxFrame = 3
SPECIFICATION MCSpec
INVARIANTS PatternsLive BanksLive InputKept
PROPERTIES LatestSpec SwitchOnBar
CHECK_DEADLOCK FALSE
