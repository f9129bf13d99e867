SPECIFICATION ReloadSpec
CONSTANTS
  None = None
  Reaper = Reaper
  Operator = Operator
  Requests = {r1, r2, r3}
  Ids <- TwoIds
  Catalogs <- EditedFile
  Limit = 2
  DeviceReadings = {None}
  Measurements <- Unmeasured
  Asks <- AsksAny
  Waits = TRUE
  MaxReloads = 2
SYMMETRY RequestsAlike
INVARIANTS
  NoReaderLosesItsChild
  NoChildIsForgotten
  OutdatedDecidesNothing
