SPECIFICATION Spec
CONSTANTS
  Callers = {c1, c2}
  Notes = {n1}
  Codecs = {"serverCodec", "jsonCodec"}
  EncodeFails = TRUE
  Cancellable = {c1}
  MaxServed = 2
INVARIANTS JTypeOK ReplyRoundTrip IdsHeldWhileServed
PROPERTY CallsReturn
