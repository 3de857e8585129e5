CONSTANTS Threads = {input, main}
  Tracks = {A}
  NoTrack = NoTrack
  PbMax = 2
  Deadband = 2
  Setups = {{"flip"}, {"banks"}, {"backlog", "external"}, {"snapback"}}
  MaxQueue = 1
SPECIFICATION FadersSpec
INVARIANTS TypesOK LeftWhereReleased OneMode ReleaseWritesLive SnapshotReadsWritten
INVARIANT MotorFollowsFaderOffPan
PROPERTY ReleaseUnderSameFlip
