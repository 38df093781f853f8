SPECIFICATION Spec
CONSTANT Conns = {d1, d2}
INVARIANTS HTypeOK NothingLost
PROPERTIES DialReturns CallAnswered
\* a server that never answers keeps its client waiting
CHECK_DEADLOCK FALSE
