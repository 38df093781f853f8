SPECIFICATION BSpec
CONSTANTS
  NoCall = NoCall
  NoOne = NoOne
  Input = Input
  c1 = c1
  h1 = h1
  Calls = {c1}
  GoCalls = {}
  DoneCap = 1
  Handlers = {h1}
  Nestings <- CallBacks
INVARIANTS BTypeOK OneWriter DisconnectIsFinal
PROPERTIES DisconnectHappens CallbacksReturn KeepsPromise
