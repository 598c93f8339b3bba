SPECIFICATION InputSpec
CONSTANTS
  Keys <- MCKeys
  Codes <- MCCodes
  Sticks <- MCSticks
  Triggers = {"shoot"}
  Action = "action"
INVARIANTS
  NothingStuck
  ToldAsItIs
