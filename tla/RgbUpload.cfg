SPECIFICATION PagesSpec
CONSTANTS
  None = None
  Hash <- MCHash
  Trigram <- MCTrigram
  DictSize = 5
  ChainLen = 4
  MinLine = 3
  BigPos = 2
  SmallPos = 1
  MaxSymbols = 12
  Jobs <- MCJobs
  Edits <- MCEdits
  Picks <- MCPicks
  ZonePicks <- MCZonePicks
  DefaultHue = 9
  PageJobs <- MCPageJobs
  MaxEdits = 2
INVARIANTS
  WritesOnTheFan
  LoopsSeamlessly
  ZonesTruthful
  DecodesBack
CHECK_DEADLOCK FALSE
