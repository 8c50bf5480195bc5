SPECIFICATION Spec
CONSTANTS
  k0 = k0  k1 = k1  k2 = k2  k3 = k3  k4 = k4  k5 = k5
  Keys <- SpreadKeys
  ZeroKey = k0
  Values = {v1}
  Puttable = {v1}
  NULL = NULL
  EXCEPTION = EXCEPTION
  HashOf <- SpreadHash
  InitialCapacity = 0
  MinCapacity = 8
  MaxCapacity = 64
  LoadNum = 71
  LoadDen = 100
  AllocationMayFail = FALSE
INVARIANTS WithinLoadFactor
