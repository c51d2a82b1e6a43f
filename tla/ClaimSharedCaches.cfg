SPECIFICATION Spec
CONSTANTS
  Machines <- LinuxMachines
  MaxCaches = 3
  N = 4
  BitN = 3
  GroupSize = 4
  Cpus = 8
CHECK_DEADLOCK FALSE
INVARIANT SharedCachesAreComplete
