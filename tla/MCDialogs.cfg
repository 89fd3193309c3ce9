\* One machine at a time; the bounds of each are in its instance.
CONSTANTS
  Types <- MCTypes
  Bodies <- MCBodies
  Size = 7
  MaxWindows = 2
  MaxCommands = 2
  MaxArrivals = 3
  FilterNames = {"a", "b"}
  Pings = {100, 9999}
  MaxPing = 9999
  Countries = {0, 1, 2}
  Flagged = {1, 2}
  Code <- MCCode
  Country <- MCCountry
  FiltersBefore <- MCFiltersBefore
  MaxFilters = 2
  FilterEdits = 2
  PatternIds = {1, 2, 3, 4, 5, 6, 7, 8, 9}
  PatternTexts = {"", "a", "b", "bad"}
  BrokenTexts = {"bad"}
  PatternGroups = {1, 2}
  FirstGroup = 1
  PatternsBefore <- MCPatternsBefore
  PatternEdits = 3
  ScriptNames = {"a", "b"}
  ScriptTexts = {"", "0", "1", "x"}
  ScriptDefault = "1"
  MaxInstalls = 2
  ScriptEdits = 3
  Offered <- MCOffered
  ConfBefore <- MCConfBefore
  ArgGames = {"hl", "un"}
  ArgEntries <- MCArgEntries
  ArgDefaults <- MCArgDefaults
  MaxArgs = 2
  PrefEdits = 3
  SourceGames = {"q2", "q3"}
  NoGame = "none"
  SourcePaths <- MCPaths
  MasterNames = {"old"}
  SourceServers = {"s"}
  BuiltinChanges <- MCBuiltin
  MasterIds = {"m1", "m2"}
  SourceEdits = 4
SPECIFICATION DialogsSpec
INVARIANTS
  FilterEditsKept
  FilterWidgetsMatch
  HeapExact
  PatternEditsKept
  SavedIsUsed
  PreferencesSaved
  ConfigMerged
  
  SourcesSaved
  ChallengeOurs
  TextWhole
PROPERTIES
  GroupsDated
  UntouchedKept
  QuitKeeps
\* Where a bound is used up the user may have nothing left to do.
CHECK_DEADLOCK FALSE
