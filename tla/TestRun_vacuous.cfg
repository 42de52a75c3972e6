\* DevLoop.run_tests against a target that may hang: is a pass ever reported
\* without an answer from the target?
CONSTANTS
  TestList <- MCTestList
  MaxLayer = 7
  Programs <- MCDevOnly
  MaxRuns = 1
SPECIFICATION Spec
INVARIANT NoPassWithoutTarget
CHECK_DEADLOCK FALSE
