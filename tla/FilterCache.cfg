\* Two changes of a filter, and all that hides between them.
CONSTANTS
  a = a
  x = x
  y = y
  full = full
  default = default
  none = none
  buddies = buddies
  nobody = nobody
  empty = empty
  blank = blank
  word = word
  Servers <- MCServers
  Infos <- MCInfos
  ServerDefs <- MCServerDefs
  Default = default
  NoFilter = none
  PlayerDefs <- MCPlayerDefs
  Texts <- MCTexts
  Empty = empty
  Blank = empty
  Accepts <- MCAccepts
  NameAccepts <- MCNameAccepts
  RefreshSorts = TRUE
  MaxTime = 3
SPECIFICATION FilterSpec
INVARIANTS
  CacheTypes
  SteadyFresh
  SteadyRows
