SPECIFICATION Spec
CONSTANTS
  SearchCount = 2
  DiscoveredCount = 2
  AddressCount = 1
  Hosts <- MCHost
  Packets <- MCTwoServices
  Expiring <- MCNoneExpiring
  CallbackSets <- MCCallbacks
  MallocFails = TRUE
  MaxGen = 2
INVARIANTS
  OneHolder
  CallbackIdLives
PROPERTY HeardInOrder
