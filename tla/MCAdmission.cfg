SPECIFICATION Spec
CONSTANTS
  None = None
  Loaded = {1, 2, 3}
  Wanted = 4
  Limits = {None, 3}
  DeviceFrees = {None, 0, 2}
  Costs = {1, 2}
INVARIANTS
  AdmittedFitsBothQuestions
  VictimsAreTheLoops
  RefusalIsPermanent
CHECK_DEADLOCK FALSE
