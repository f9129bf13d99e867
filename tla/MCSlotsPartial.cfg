SPECIFICATION CalmSpec
CONSTANTS
  None = None
  Reaper = Reaper
  Operator = Operator
  Requests = {r1, r2, r3}
  Ids <- ThreeIds
  Catalogs <- ThreeModels
  Limit = 2
  DeviceReadings = {None}
  Measurements <- Measured
  Asks <- AsksAny
  Waits = TRUE
  MaxReloads = 0
SYMMETRY RequestsAlike
PROPERTY ImplementsModelPool
