SPECIFICATION Spec
CONSTANTS
  Machines <- Everything
  MaxCaches = 3
  N = 4
  BitN = 3
  GroupSize = 4
  Cpus = 8
CHECK_DEADLOCK FALSE
INVARIANT FeaturesUsable
INVARIANT CountsAreTheMachines
INVARIANT SharedCachesAreTrue
INVARIANT CoresAreTrue
INVARIANT CoreTypesAreTrue
INVARIANT Increasing
INVARIANT RefusedOnlyWhenFull
INVARIANT RoundTrip
PROPERTY ImplementsIndexSet
PROPERTY Terminates
