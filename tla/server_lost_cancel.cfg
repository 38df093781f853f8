SPECIFICATION Spec
CONSTANTS
  Reader = Reader
  MaxReq = 2
  Ops = {"wait", "cancel"}
PROPERTY CancelReaches
CHECK_DEADLOCK FALSE
