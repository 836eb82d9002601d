SPECIFICATION Spec
CONSTANTS
  w1 = w1
  w2 = w2
  s1 = s1
  s2 = s2
  a = a
  b = b
  Callers = {w1, w2}
  Jobs <- MCJobs
  Sources = {s1, s2}
  Contents = {a}
  CaseOf <- MCOwnCases
  Times <- MCOneSecond
  MaxAttempt = 2
  StaleViews = FALSE
  ExclusiveOwner = FALSE
  OneSpelling = TRUE
SYMMETRY MCSymmetry
CHECK_DEADLOCK FALSE
INVARIANTS CompletedIsWhole
PROPERTIES ImplementsLedger
