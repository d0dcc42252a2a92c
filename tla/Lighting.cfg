SPECIFICATION Spec
CONSTANTS
  fan = fan
  strip = strip
  white = white
  dark = dark
  gradient = gradient
  cold = cold
  hot = hot
  low = low
  full = full
  day = day
  night = night
  game = game
  desk = desk
  None = None
  Groups = {fan}
  Colors = {cold}
  Dimmable = {white, cold, hot}
  White = white
  Dark = dark
  Gradient = gradient
  Hues = {cold, hot}
  Levels = {low, full}
  Full = full
  ConfigMode <- MCConfigMode
  Names = {day, night}
  Apps = {game, desk}
  AppMaps <- MCAppMaps
  PowerMaps <- MCPowerMaps
  MaxRequests = 3
  MaxFaults = 1
INVARIANTS
  StateTruthful
  TempFollows
PROPERTIES
  FlashUndone
