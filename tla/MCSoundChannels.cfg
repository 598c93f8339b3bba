SPECIFICATION FairSpec
CONSTANTS
  Channels = {1}
  Chunks = {1, 2, 3, 4, 5}
  Samples = {1}
  Repeats = {0, 1}
  Kinds = {"end", "stop", "gen"}
  MaxFrames = 4
INVARIANTS
  ChunksHeld
  PlaysItsSlot
PROPERTY FinishedIsServed
