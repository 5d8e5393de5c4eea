SPECIFICATION FairSpec
CONSTANTS
  code = code
  src = src
  api = api
  venv = venv
  notes = notes
  old = old
  Dirs <- MCDirs
  Above <- MCAbove
  WatchPaths <- MCWatchPaths
  MaxEdits = 3
  MaxCrashes = 1
CHECK_DEADLOCK FALSE
INVARIANTS NothingExcluded WatchCovers WatchedIsFollowed
PROPERTY RestartCatchesUp
