SPECIFICATION Spec
CONSTANTS
  Channels = {1, 2}
  Chunks = {1, 2}
  MaxCalls = 2
  Callbacks = {1, 2}
  MixLock = 3
INVARIANTS
  StreamsHeld
  PlaysAsTold
  VoiceOnlyAsTold
