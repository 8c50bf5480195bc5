SPECIFICATION WalkSpec
CONSTANTS
  k0 = k0  k1 = k1  k2 = k2
  Keys <- WalkKeys
  ZeroKey = k0
  Values = {v1}
  Puttable = {v1}
  NULL = NULL
  EXCEPTION = EXCEPTION
  HashOf <- WalkHash
  InitialCapacity = 0
  MinCapacity = 4
  MaxCapacity = 8
  LoadNum = 1
  LoadDen = 2
  AllocationMayFail = FALSE
INVARIANTS VisitedOnce
