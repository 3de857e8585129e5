\* A take starts before the worker took the end of the last one.
CONSTANTS
  l1 = l1
  l2 = l2
  Lamps <- TheLamps
  Marked <- TheLamps
  Room <- TheLamps
  InScene <- OneLamp
  OwnValues <- LitOrDark
  Configs <- Enabled
  Rushes = TRUE
  Breaks = FALSE
  Edits = FALSE
SPECIFICATION Spec
INVARIANT LampsComeBack
