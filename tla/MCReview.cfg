SPECIFICATION CaseSpec
CONSTANTS
  w1 = w1
  w2 = w2
  k1 = k1
  k2 = k2
  p1 = p1
  p2 = p2
  n1 = n1
  none = none
  v = v
  f = f
  g = g
  u = u
  cf = cf
  cg = cg
  cu = cu
  ed = ed
  eg = eg
  back = back
  across = across
  authored = authored
  Connections = {w1, w2}
  Records <- MCRecords
  Located <- MCLocated
  MaxEvents = 3
  Batches <- MCBatches
  Indexes <- MCIndexes
  Allowances <- MCAllowances
  CaseOf <- MCCaseOf
  None = none
  Descriptive = {"derived_from", "quotes"}
SYMMETRY MCSymmetry
CHECK_DEADLOCK FALSE
INVARIANTS StateIsLatestDecision NothingCrossesCases PassagesShowTheirSource PairsStandOnce FramesStayFindable
