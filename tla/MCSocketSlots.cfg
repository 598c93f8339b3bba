SPECIFICATION Spec
CONSTANTS
  SlotCount <- MCSlotCount
  MaxDepth <- MCMaxDepth
  MaxGen <- MCMaxGen
  MaxReg <- MCMaxReg
INVARIANTS
  CalledOnce
  CalledOnItsSocket
  ConnectCallbackPolled
PROPERTY PumpDropsNone
