\* Every Vivado outcome, up to three edits (enough for an edit during a build
\* and an edit that restores an earlier tree).
CONSTANTS
  v1 = v1
  v2 = v2
  v3 = v3
  NoHash = NoHash
  Versions <- MCVersions
  Outcomes <- AllOutcomes
  MaxEdits = 3
SPECIFICATION Spec
INVARIANT RTLTypeOK
INVARIANT ReadyMeansFinishedSuccess
PROPERTY ReadyAnnounced
\* The watch loop polls forever; once the edits stop it stutters through idle passes.
