SPECIFICATION Spec
CONSTANTS
  None = None
  Loaded = {1, 2, 3}
  Wanted = 4
  Limits = {None, 3}
  DeviceFrees = {None}
  Costs = {1, 2}
INVARIANT BlockedRoomFreesItself
CHECK_DEADLOCK FALSE
