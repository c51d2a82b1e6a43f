SPECIFICATION Spec
CONSTANTS
  Globals = {}
  Locals = {l}
  None = None
  Reach = 0
  AnonTooFar = TRUE
  MaxSize = 3
  MaxDepth = 3
  MaxScope = 2
  MaxAnon = 3
INVARIANT CompleteMeansResolved
