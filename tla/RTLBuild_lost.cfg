\* Every build succeeds; checks that the final sources are always announced.
CONSTANTS
  v1 = v1
  v2 = v2
  v3 = v3
  NoHash = NoHash
  Versions <- MCVersions
  Outcomes = {"success"}
  MaxEdits = 2
SPECIFICATION Spec
PROPERTY FinalSourcesAnnounced
