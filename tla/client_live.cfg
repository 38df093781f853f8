SPECIFICATION Spec
CONSTANTS
  NoCall = NoCall
  NoOne = NoOne
  Calls = {c1}
  GoCalls = {g1}
  DoneCap = 1
INVARIANT IInv
PROPERTIES CloseDrains CancelReturns
