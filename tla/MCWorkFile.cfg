SPECIFICATION MCSpec
CONSTANTS
  w1 = w1
  w2 = w2
  v1 = v1
  v2 = v2
  v3 = v3
  none = none
  Processes = {w1, w2}
  Ids = {v1, v2, v3}
  WorkKinds = {"legal_issue", "investigation_task"}
  Postures = {"trial"}
  ChargeRequests <- MCChargeRequests
  LabelRank <- MCLabelRank
  Propositions = {"p", "q"}
  Evidence <- MCEvidence
  Contested <- MCContested
  LineOrder <- MCLineOrder
  Readings <- MCReadings
  Defaults <- MCDefaults
  Alleged <- MCAlleged
  Unnamed = {"c1"}
  Gathered = {"c1"}
  Bears <- MCBears
  Histories <- MCHistories
  Anchor <- MCAnchor
  Original <- MCOriginal
  MaxCommands = 4
  MaxReads = 1
  None = none
SYMMETRY Symmetries
CHECK_DEADLOCK FALSE
INVARIANTS HistoryIsLinear ViewsAgree DigestTellsAll ExportIsAccounted
