SPECIFICATION FairServerSpec
CONSTANTS
  Clients = {"a", "b"}
  Layout <- MCLayout
  AllGroups = {1, 2}
  FirstGroups <- MCFirstGroups
  Inner = 1
  Outer = 1
  MaxSent <- MCMaxSent
  MaxPackets = 8
  MaxUpdates = 2
  MaxTroubles = 1
  FanCounts = {0, 2}
INVARIANTS
  ShownAsSent
PROPERTIES
  FramesArrive
CHECK_DEADLOCK FALSE
