SPECIFICATION PagesSpec
CONSTANTS
  Groups <- MCGroups
  Roles <- MCRoles
  Unset = "Unset"
  Names <- MCNames
  Values <- MCValues
  Entries <- MCEntries
  WellFormed <- MCWellFormed
  None = None
  Garbled <- MCGarbled
  NoFile = NoFile
  FirstSchedules <- MCFirstSchedules
  Requests <- MCRequests
  Clicks <- MCClicks
  Edits = {"alerts", "calibration", "rest"}
  MaxRequests = 2
  MaxTroubles = 2
  MaxBoth = 3
  MaxWear = 2
INVARIANTS
  AnsweredSurvives
  EngineFollows
  RoleSurvives
  PagesShowDaemon
CHECK_DEADLOCK FALSE
