CONSTANTS
  fine = fine
  key = key
  Keys <- BothKeys
  Layers <- TwoLayers
  Setups <- LosingSetups
SPECIFICATION Spec
PROPERTIES ReleaseEndsPress
