SPECIFICATION FairSpec
CONSTANT N = 2
INVARIANTS
  CompleteIsRight
  PayloadRight
PROPERTY PlaysInTheEnd
