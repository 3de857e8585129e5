CONSTANTS
  NStrips = 2
  fine = fine
  key = key
  Keys <- BothKeys
  Layers <- TwoLayers
  Setups <- ManySetups
SPECIFICATION SurfaceSpec
INVARIANTS TypesOK ReleaseOnItsWay NothingStuck OneOfShortLong WakeEatsPairs
PROPERTIES TouchEnds LongFiresWhileHeld
