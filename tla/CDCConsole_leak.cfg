\* Late target, checking the spec's claim that draining the queue keeps a
\* timed-out command's answer out of the next read.
CONSTANTS
  a1 = a1
  a2 = a2
  NoValue = NoValue
  Addrs <- MCAddrs
  Vals <- MCVals
  MaxCmds = 3
  TargetMayBeLate = TRUE
SPECIFICATION Spec
INVARIANT ReadReturnsOwnValue
CHECK_DEADLOCK FALSE
