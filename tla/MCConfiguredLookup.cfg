SPECIFICATION ConfiguredSpec
CONSTANTS
  MaxLookups = 3
  Embedded <- MCEmbedded
  Controls <- MCControls
  MaxEntries = 4
  Truncated <- MCTruncated
CHECK_DEADLOCK FALSE
INVARIANTS
  OneOwner
  CancelledNeverCalled
  PumpNeverWaitsForDns
  OnlineAsTold
PROPERTIES
  LookupEnds
  LookupAnswered
