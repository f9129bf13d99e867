SPECIFICATION CalmLiveSpec
CONSTANTS
  None = None
  Reaper = Reaper
  Operator = Operator
  Requests = {r1, r2, r3}
  Ids <- TwoIds
  Catalogs <- TwoModels
  Limit = 1
  DeviceReadings = {None}
  Measurements <- Unmeasured
  Asks <- AsksAny
  Waits = TRUE
  MaxReloads = 0
PROPERTIES
  EveryRequestIsAnswered
  LineDrains
