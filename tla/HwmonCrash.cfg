SPECIFICATION FairSpec
CONSTANTS
  Procs = {daemon, cli}
  Channels = {pwm1, pwm2}
  Modes = {manual, auto, thermal}
  Manual = manual
  None = None
  Faults = {"io", "releaseSave", "kill", "panic"}
PROPERTIES
  CleanExit
  RestartRestores
  ImplementsLedger
  ComesBack
