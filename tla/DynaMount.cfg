\* The mount goes out of reach and comes back, answers are lost; the settings
\* switch it off and on and give it another address.
CONSTANTS
  Distances = {0, 1}
  Rotations = {0, 1}
  Sides = {0}
  Breaks = TRUE
  Edits = TRUE
SPECIFICATION Spec
INVARIANTS UnsentIsMarked SentIsWhereItStands
PROPERTY CalmMovesArrive
