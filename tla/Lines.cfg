\* Any two of a restart, a fault of the USB and a change, or one change and two restarts
\* at the bridge.
CONSTANTS
  Devices = {uf8, uf1}
  Uf8 = uf8
  Values = {A, B}
  None = None
  Attempts = 5
  MaxStir = 2
  Socks = {1, 2}
  OutCap = 1
  WireCap = 1
  States = {A, B}
  MaxChange = 1
SPECIFICATION LinesSpec
INVARIANTS TypesOK HandleHeld CacheIsShown OneSocket
PROPERTIES RestartComesBack ViewCatchesUp
