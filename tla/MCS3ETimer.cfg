SPECIFICATION FairSpec
CONSTANTS
  main = main
  worker = worker
  e1 = e1
  e2 = e2
  e3 = e3
  NoTimer = NoTimer
  Main = main
  Threads = {main, worker}
  Events = {e1, e2, e3}
  Periods = {0, 1}
  MaxEvents = 2
  MaxDepth = 2
  MaxClock = 1
  MaxSequence = 3
INVARIANTS
  OneTimerPerEvent
  NothingOverlooked
  PassFiresOnce
  PassInOrder
PROPERTIES
  ServiceSpec
  DueTimerLeaves
