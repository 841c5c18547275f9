CONSTANTS
  Episodes = {1, 2}
  Videos = {v, w}
  Seasons = {1, 2}
  None = None
  Skip = Skip
  MaxEdits = 2
  MaxChanges = 1
  RemapLists <- MCRemapLists
  Shows <- MCShows
SPECIFICATION Spec
PROPERTY LibraryNotCreated
CHECK_DEADLOCK FALSE
