SPECIFICATION Spec
CONSTANTS
  SearchCount = 1
  DiscoveredCount = 1
  AddressCount = 1
  Hosts <- MCHosts
  Packets <- MCPackets
  Expiring <- MCExpiring
  CallbackSets <- MCSomeCallbacks
  MallocFails = FALSE
  MaxGen = 3
INVARIANTS
  ViewCurrent
