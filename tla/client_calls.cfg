SPECIFICATION Spec
CONSTANTS
  NoCall = NoCall
  NoOne = NoOne
  Calls = {c1}
  GoCalls = {g1, g2}
  DoneCap = 1
SYMMETRY Symmetry
INVARIANTS ReplyToItsCall CallNeverDropped CompletedOnce NoLostCall
PROPERTIES SilentAfterShutdown KeepsPromise
