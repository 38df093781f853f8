SPECIFICATION Spec
CONSTANTS
  Reader = Reader
  MaxReq = 2
  Ops = {"quick", "wait", "cancel", "bad"}
INVARIANTS TypeOK ResponseMatches NoAliasing ClosedMeansAnswered CanceledByRequest
PROPERTIES ServeReturns CancelReachesRunning ParentReaches
