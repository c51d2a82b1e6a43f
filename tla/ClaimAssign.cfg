SPECIFICATION Spec
CONSTANTS
  Labels = {a, b}
  NoLabel = NoLabel
  AutoGrow = FALSE
  InitMax = 30
  DefaultMax = 32
  MemLimit = 64
  Tops = {100}
  Half8 = 8
  Half32 = 1000
  DefaultJmpNEAR = FALSE
  Reopen = FALSE
  AssignTo = {a, b}
  Pads = {7}
  Prefs = {0}
  Disps = {0}
  Imms = {0}
  Header = 3
  Exts = {110}
  CodeLimit = 24
  RefLimit = 2
SYMMETRY Symmetry
INVARIANT AssignedLabelIsItsSource
