SPECIFICATION Spec
CONSTANTS
  Globals = {g}
  Locals = {l}
  None = None
  Reach = 0
  AnonTooFar = FALSE
  MaxSize = 2
  MaxDepth = 3
  MaxScope = 2
  MaxAnon = 2
INVARIANT AnonAlternates
PROPERTY ImplementsScopedLabels
