SPECIFICATION FairSpec
CONSTANTS
  ping = ping  pong = pong  chat = chat  ping2 = ping2  x = x  y = y  z = z
  Threads = {t1, t2}
  Constructor = constructor
  Services <- MCServices
  Ids = {x, y, z}
  IdOf <- MCIdOf
  InitialServices <- MCInitialServices
  Interactions = {"requestResponse", "requestChannel"}
  HashOf <- MCHashOf
  ZeroId = x
  MinCapacity = 2
  LoadNum = 3
  LoadDen = 10
  MaxCapacity = 8
  AllocationMayFail = TRUE
  NULL = NULL
  CallsPerThread = 2
INVARIANTS TypeOK MutualExclusion DispatchedByIds InitialServicesFound
PROPERTIES Refinement CallsReturn
CHECK_DEADLOCK FALSE
