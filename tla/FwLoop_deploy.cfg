CONSTANTS
  v1 = v1
  v2 = v2
  v3 = v3
  NoVersion = NoVersion
  Versions <- MCVersions
  Image <- MCImage
  Compiles <- MCCompiles
  Base = 1073741824
  Junk = 170
  Raises = TRUE
  MaxEdits = 2
  MaxWords = 66
SPECIFICATION Spec
INVARIANT FwTypeOK
INVARIANT DeployedImage
PROPERTY WritesWhileHalted
CHECK_DEADLOCK FALSE
