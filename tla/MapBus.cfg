CONSTANTS
  MaxBus = 1
  MaxDev = 1
  MaxFunc = 1
  MaxPresent = 3
  Regs <- MCRegs
  FilterBuses <- MCFilterBuses
  FilterSlots <- MCFilterSlots
  FilterFuncs <- MCFilterFuncs
  IdFilter = TRUE
  ReadFails = TRUE
  HeapBytes = {0}
SPECIFICATION ProbeSpec
INVARIANT TypeOK
INVARIANT ProbeComplete
CHECK_DEADLOCK FALSE
