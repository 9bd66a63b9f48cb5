CONSTANTS
  MaxBus = 2
  MaxDev = 0
  MaxFunc = 1
  MaxPresent = 3
  Regs <- MCRegs
  FilterBuses <- MCNoFilter
  FilterSlots <- MCNoFilter
  FilterFuncs <- MCNoFilter
  IdFilter = FALSE
  ReadFails = FALSE
  HeapBytes = {0}
SPECIFICATION MapSpec
PROPERTY ImplementsValidator
CHECK_DEADLOCK FALSE
