SPECIFICATION Spec
CONSTANTS
  QueueCap = 2
  MaxPress = 2
  WireCap = 2
  MaxStir = 2
INVARIANTS AtMostOnceInOrder
PROPERTIES LampsCatchUp ScenesCatchUp
CHECK_DEADLOCK FALSE
