SPECIFICATION FairSpeedSpec
CONSTANTS
  Nil = Nil
  Board = Board
  Fans = {f}
  Pumps = {pump}
  Machines = {{f}, {pump}}
  HwSync = {f}
  Readings <- MCReadings
  Curves <- MCCurves
  Saved = {"gone"}
  SavedCurve <- MCSavedCurve
  Presets = {40}
  ConfigSpeed <- MCConfigSpeed
  ConfigCurve <- MCConfigCurve
  Alerts <- MCAlerts
  Scheduled = {70}
  MaxFaults = 1
INVARIANTS
  CurveFollows
PROPERTIES
  ManualHolds
  AlertsTrueToSensor
  PumpKept
