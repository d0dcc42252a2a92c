SPECIFICATION FairSpec
CONSTANTS
  Streams = {gui}
  Panels = {panel}
  Commands = {}
  Conns <- Conns3
  Requests = {"set"}
  BufCap = 2
  MaxChanges = 2
  MaxFaults = 1
INVARIANTS
  StreamComplete
  NoOrphans
  InSync
PROPERTIES
  StreamsComeBack
  CallsReturn
