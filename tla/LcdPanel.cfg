SPECIFICATION LcdSpec
CONSTANTS
  Inputs <- MCInputs
  Calibration <- MCCalibration
  Panels <- MCPanels
  Product <- MCProduct
  Opened = {"fan", "pump"}
  WinUsb = {"pump"}
  Asked <- MCAsked
  Presets <- MCPresets
  Values <- MCValues
  Screens <- MCScreens
  StillPolls = 1
  ClockPolls = 2
  TurnPolls = 2
  CooldownPolls = 2
  HistoryLength = 2
  LcdRequests = 2
  MaxFaults = 1
INVARIANTS
  PanelCurrent
  SettingsApplied
PROPERTIES
  ReplugRecovers
