SPECIFICATION Spec
CONSTANTS
  Callers = {c1, c2, c3}
  Notes = {}
  Codecs = {"serverCodec", "jsonCodec"}
  EncodeFails = TRUE
  Cancellable = {c2}
  MaxServed = 2
INVARIANT CancelHitsItsCall
