SPECIFICATION Spec
CONSTANTS
  r1 = r1
  r2 = r2
  GoRPC = GoRPC
  Rcvrs = {r1, r2, GoRPC}
  TypeOf <- MCTypeOf
  Names <- MCNames
  Renamers <- MCRenamers
  Asked <- MCAsked
  Requests = {1}
  MaxOps = 3
INVARIANTS RTypeOK NoPanic LookupIsAtomic
