SPECIFICATION Spec
CONSTANTS
  Fans <- MCFans
  Pumps <- MCPumps
  Groups = {1, 2}
  Bindable = {1, 2}
  BoardGroups = {60}
  Channels <- MCChannels
  DefaultChannel = 1
  ChannelOverride = FALSE
  Speeds = {100}
  Effects = {"red"}
  Parts = 2
  MetaRepeats = 2
  SpeedRepeats = 2
  BindRepeats = 2
  LockRepeats = 2
  SyncTries = 2
  QueryTries = 3
  SpeedTries = 2
  PageSize = 3
  StaleLimit = 3
  CmdSeqs = 4
  FirstFans <- MCFirstFans
  MaxEvents = 3
INVARIANTS
  NoReopenStorm
PROPERTIES
  OkMeansDone
  PassIsTruthful
  FansReachable
