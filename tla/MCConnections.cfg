SPECIFICATION LiveSpec
CONSTANTS
  Callers = {c1, c2}
  Listeners = {l1, l2}
  Connections = 2
  Kinds <- AllKinds
  ShutdownWakes = TRUE
  MaxEvents = 1
INVARIANTS
  TypeOK
  EveryTurnIsHeldOnce
  ReplyEndsAfterTheModelIsFree
  AnswerIsWhole
PROPERTIES
  LeaverFreesItsModel
  EveryConnectionEnds
CHECK_DEADLOCK FALSE
