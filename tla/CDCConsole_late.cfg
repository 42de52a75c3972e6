\* Late target: the 2 s deadline can expire before a reply arrives.
CONSTANTS
  a1 = a1
  a2 = a2
  NoValue = NoValue
  Addrs <- MCAddrs
  Vals <- MCVals
  MaxCmds = 4
  TargetMayBeLate = TRUE
SPECIFICATION Spec
INVARIANT TypeOK
INVARIANT RegisterConsistency
\* The caller stops after MaxCmds commands.
CHECK_DEADLOCK FALSE
