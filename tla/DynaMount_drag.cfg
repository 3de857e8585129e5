\* A mount that always answers: a target set under a request is forgotten.
CONSTANTS
  Distances = {0, 1}
  Rotations = {0, 1}
  Sides = {0}
  Breaks = FALSE
  Edits = FALSE
SPECIFICATION Spec
PROPERTY LatestArrives
