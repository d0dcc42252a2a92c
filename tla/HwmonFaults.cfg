SPECIFICATION Spec
CONSTANTS
  Procs = {daemon}
  Channels = {pwm1, pwm2}
  Modes = {manual, auto}
  Manual = manual
  None = None
  Faults = {"io", "save", "restore", "releaseSave", "kill", "panic",
            "threadPanic", "renumber", "noChip", "otherChip"}
PROPERTIES
  KeptUntilGivenBack
