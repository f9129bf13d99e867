SPECIFICATION Spec
CONSTANTS
  None = None
  Reaper = Reaper
  Operator = Operator
  Requests = {r1, r2, r3}
  Ids <- TwoIds
  Catalogs <- TwoModels
  Limit = 1
  DeviceReadings = {None}
  Measurements <- Unmeasured
  Asks <- AsksBoth
  Waits = TRUE
  MaxReloads = 0
SYMMETRY RequestsAlike
INVARIANTS
  TypeOK
  LockIsHeld
  NoReaderLosesItsChild
  StartsWithinBudget
  LineIsTheWaiters
  SleepersHaveWakers
  FreeRoomTakesNothing
