SPECIFICATION FairSpec
CONSTANTS
  PublisherCount = 2
  Texts = {a, b}
  Nothing = nothing
  TxtInterval = 2
  AnnounceInterval = 3
INVARIANTS
  PendingWhenChanged
PROPERTIES
  ChangesSpaced
  TextReachesListeners
