CONSTANTS
  fa = fa
  fb = fb
  na = na
  nb = nb
  c1 = c1
  c2 = c2
  Absent = Absent
  Files <- MCFiles
  Contents <- MCContents
  Names <- DistinctNames
  Stem <- DistinctStem
  Ext <- DistinctExt
  HasTB <- DistinctTB
  MaxEdits = 3
  MaxBuilds = 3
  MaxCrashes = 1
SPECIFICATION Spec
INVARIANT NoChangeMeansCurrent
CHECK_DEADLOCK FALSE
