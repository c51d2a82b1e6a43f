SPECIFICATION Spec
CONSTANTS
  Abis = {"win", "sysv"}
  PNums = {0, 1, 2, 3, 4}
  TNums = {0, 1, 4, 6, 7, 8, 10, 14}
  StackSizes = {0, 20}
  VecUses <- MCVecUses
INVARIANTS CallerKeepsItsOwn ArgumentsArrive RegistersAreDistinct Alignment HintsAndHalves
