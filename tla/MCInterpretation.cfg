SPECIFICATION MCSpec
CONSTANTS
  w1 = w1
  w2 = w2
  none = none
  Processes = {w1, w2}
  Passages <- MCPassages
  Detections <- MCDetections
  Source = "source"
  Entries <- MCEntries
  ProfileDrafts <- MCProfileDrafts
  MaxVersions = 3
  MaxProfiles = 2
  Columns <- MCColumns
  Letters <- MCLetters
  People = {"chen"}
  Pages <- MCPages
  MaxKeys = 4
  None = none
CHECK_DEADLOCK FALSE
SYMMETRY Symmetries
INVARIANTS OneReading RulesSpeakFirst OnlyRacesFail ProvenanceIsTrue ParentsStandAbove SessionFollowsTheFile
