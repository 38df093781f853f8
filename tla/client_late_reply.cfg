SPECIFICATION Spec
CONSTANTS
  NoCall = NoCall
  NoOne = NoOne
  Calls = {c1}
  GoCalls = {}
  DoneCap = 1
INVARIANT ReplyNotTouchedAfterReturn
