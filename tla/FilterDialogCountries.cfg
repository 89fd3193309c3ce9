SPECIFICATION Spec
CONSTANTS
  Names = {"a"}
  Pings = {9999}
  MaxPing = 9999
  Countries = {0, 1, 2}
  Flagged = {1, 2}
  Code <- MCCode
  Country <- MCCountry
  SavedBefore <- MCSavedBefore
  MaxFilters = 2
  MaxEdits = 2
INVARIANT
  CountriesSurvive
