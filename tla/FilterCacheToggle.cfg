\* A filter that changes while it is off.
CONSTANTS
  a = a
  x = x
  y = y
  full = full
  default = default
  none = none
  buddies = buddies
  nobody = nobody
  empty = empty
  blank = blank
  word = word
  Servers <- MCServers
  Infos <- MCInfos
  ServerDefs <- MCServerDefs
  Default = default
  NoFilter = none
  PlayerDefs <- MCPlayerDefs
  Texts <- MCTexts
  Empty = empty
  Blank = blank
  Accepts <- MCAccepts
  NameAccepts <- MCNameAccepts
  RefreshSorts = TRUE
  MaxTime = 4
SPECIFICATION FilterSpec
PROPERTIES
  ToggleShowsWhatPasses
