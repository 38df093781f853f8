SPECIFICATION Spec
CONSTANTS
  Reader = Reader
  MaxReq = 1
  Ops = {"quick"}
INVARIANT ErrorMeansNoReply
