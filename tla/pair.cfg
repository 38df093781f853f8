SPECIFICATION Spec
CONSTANTS
  Calls = {c1, c2}
  Kinds = {"known", "unknown", "unnamed", "unencodable", "badReply"}
  Codecs = {"gobCodec", "client/server"}
  Cap = 1
INVARIANTS PTypeOK ReplyIsOwn ArgsAreOwn
PROPERTY CallsEnd
\* calls need not be made, and two ends may be stuck writing
CHECK_DEADLOCK FALSE
