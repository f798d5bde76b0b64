CONSTANTS
  MaxPending = 2
  MaxSequence = 3
  MaxEpoch = 2
  Nil = Nil
  None = None
  Byte = {0, 1}
  Contents <- Announced
  Transfer = {"t1", "t2"}
  MaxChunk = 2
  MaxBytes = 2
  MaxSession = 2
  Timeout = 2
SPECIFICATION MCSpec
INVARIANTS CallbackSafe ReceiptsExact TransferSound
PROPERTIES AllAnswered SessionsEnd EverySetArrives EveryBlockFreed EveryScheduleDecided
CHECK_DEADLOCK FALSE
