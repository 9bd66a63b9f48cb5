CONSTANTS
  Slots <- MCSlots
  MaxBus = 2
  MaxDevices = 3
  UIntMax <- MCUIntMax
SPECIFICATION Spec
INVARIANT TypeOK
INVARIANT TreeFaithful
INVARIANT SlotOrder
CHECK_DEADLOCK FALSE
