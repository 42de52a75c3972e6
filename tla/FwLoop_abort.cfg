CONSTANTS
  v1 = v1
  v2 = v2
  v3 = v3
  NoVersion = NoVersion
  Versions <- MCVersions
  Image <- MCImage
  Compiles <- MCCompiles
  Base = 1073741824
  Junk = 170
  Raises = TRUE
  MaxEdits = 1
  MaxWords = 66
SPECIFICATION Spec
INVARIANT WatchKeepsRunning
CHECK_DEADLOCK FALSE
