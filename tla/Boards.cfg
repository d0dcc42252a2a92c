SPECIFICATION Spec
CONSTANTS
  FixedLeds = 2
  Headers = 1
  UserLeds <- MCUserLeds
  DefaultLeds = 3
  LedsPerPacket = 2
  Frames = {"red", "blue"}
  Effects = {"rainbow"}
  Speeds = {"slow"}
  Devices = {"board", "hub"}
  MaxRequests = 4
  MaxFaults = 2
INVARIANTS
  WholeFrames
  LightsAsRecorded
  OneHiccupSurvived
CHECK_DEADLOCK FALSE
