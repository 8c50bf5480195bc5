SPECIFICATION FairSpec
CONSTANTS
  k0 = k0  k1 = k1  k2 = k2  k3 = k3  k4 = k4  k5 = k5
  Keys <- GrowKeys
  ZeroKey = k0
  Values = {v1, v2}
  Puttable = {v1, v2}
  NULL = NULL
  EXCEPTION = EXCEPTION
  HashOf <- GrowHash
  InitialCapacity = 0
  MinCapacity = 4
  MaxCapacity = 64
  LoadNum = 11
  LoadDen = 20
  AllocationMayFail = FALSE
INVARIANTS Reachable UniqueKeys SizeIsEntries HasEmptySlot RehashedSoFar
PROPERTIES CallsReturn Refinement
