SPECIFICATION Spec
CONSTANTS
  k0 = k0  k1 = k1  k2 = k2  k3 = k3  k4 = k4  k5 = k5
  Keys <- GrowKeys
  ZeroKey = k0
  Values = {v1}
  Puttable = {v1}
  NULL = NULL
  EXCEPTION = EXCEPTION
  HashOf <- GrowHash
  InitialCapacity = 5
  MinCapacity = 4
  MaxCapacity = 8
  LoadNum = 3
  LoadDen = 10
  AllocationMayFail = TRUE
INVARIANTS IndInv SizeIsEntries
PROPERTIES Refinement
