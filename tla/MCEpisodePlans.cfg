CONSTANTS
  Episodes = {1, 2}
  Videos = {v, w}
  Seasons = {1, 2}
  None = None
  Skip = Skip
  MaxEdits = 2
  MaxChanges = 1
  RemapLists <- MCRemapLists
  Shows <- MCShows
SPECIFICATION Spec
INVARIANTS TypeOK ReplanAgrees PageAgrees SelectionRuns
PROPERTIES PlacedAsAsked
CHECK_DEADLOCK FALSE
