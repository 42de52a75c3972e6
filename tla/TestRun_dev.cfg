\* DevLoop.run_tests (full and quick, three runs on one TestRunner) and
\* test_hardware.py --layer 3, each owning the TestRunner in its behaviours.
CONSTANTS
  TestList <- MCTestList
  MaxLayer = 7
  Programs <- MCPrograms
  MaxRuns = 3
SPECIFICATION Spec
INVARIANT TestTypeOK
INVARIANT VerdictMatchesRun
\* The operator stops issuing commands after MaxRuns runs.
CHECK_DEADLOCK FALSE
