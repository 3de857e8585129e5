CONSTANTS PbMax = 1
  MaxQueue = 0
  SnapBack = TRUE
  EmptyStrip = TRUE
SPECIFICATION Spec
INVARIANTS MotorHoldsLastPb LimpIsKnown
PROPERTIES EngagedFollows GateSpec
