\* remote_build.py build with remote_build.py watch running beside it.
CONSTANTS
  MaxEdits = 3
SPECIFICATION Spec
PROPERTY JobRefined
PROPERTY BuildCommandEnds
\* Both commands stop: the build command exits, the watch loop idles.
CHECK_DEADLOCK FALSE
