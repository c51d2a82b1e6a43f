SPECIFICATION Spec
CONSTANTS
  Handles = {a, b, c}
  None = None
  FreshAssign = FALSE
  StaleReset = FALSE
  MaxId = 3
  MaxSize = 2
  MaxEpoch = 1
SYMMETRY Symmetry
INVARIANTS LinksAreLive RefCounts NoAliasing PlacedLabelsResolve IInv
