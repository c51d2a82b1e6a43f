SPECIFICATION Spec
CONSTANTS
  Labels = {a, b}
  NoLabel = NoLabel
  AutoGrow = TRUE
  InitMax = 16
  DefaultMax = 32
  MemLimit = 64
  Tops = {100, 200}
  Half8 = 8
  Half32 = 150
  DefaultJmpNEAR = FALSE
  Reopen = FALSE
  AssignTo = {a, b}
  Pads = {7}
  Prefs = {0}
  Disps = {0}
  Imms = {0, 1}
  Header = 3
  Exts = {20}
  CodeLimit = 20
  RefLimit = 2
SYMMETRY Symmetry
INVARIANTS ReadyMeansLinked NothingLost PatchesHitFields
