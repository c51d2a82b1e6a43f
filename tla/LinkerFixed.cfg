SPECIFICATION Spec
CONSTANTS
  Labels = {a, b}
  NoLabel = NoLabel
  AutoGrow = FALSE
  InitMax = 24
  DefaultMax = 32
  MemLimit = 64
  Tops = {100}
  Half8 = 8
  Half32 = 18
  DefaultJmpNEAR = FALSE
  Reopen = FALSE
  AssignTo = {b}
  Pads = {7}
  Prefs = {0}
  Disps = {0, 5}
  Imms = {0, 1}
  Header = 3
  Exts = {110}
  CodeLimit = 20
  RefLimit = 2
INVARIANTS ReadyMeansLinked IInv
PROPERTY FailedDefinitionIsFinal
