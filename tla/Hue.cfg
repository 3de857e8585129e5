CONSTANTS
  l1 = l1
  l2 = l2
  Lamps <- TheLamps
  Marked <- TheLamps
  Room <- TheLamps
  InScene <- OneLamp
  OwnValues <- LitOrDark
  Configs <- Enabled
  Rushes = FALSE
  Breaks = FALSE
  Edits = FALSE
  Levels <- TwoLevels
  Hues <- FourHues
  Points <- ThreePoints
  ToXy <- PointOf
  FromXy <- HueOf
  Clamp <- Gamut
  MaxEdit = 2
  MaxStir = 1
SPECIFICATION HueSpec
INVARIANTS TypesOK RoomComesBack LastEditWins
PROPERTIES RedOnlyIfSaved RedGoesOut NoCreep
