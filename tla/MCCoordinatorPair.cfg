SPECIFICATION Spec
CONSTANTS
  gui = gui
  c1 = c1
  c2 = c2
  s1 = s1
  s2 = s2
  a = a
  b = b
  Coordinators = {c1, c2}
  Callers = {c1, c2, gui}
  Jobs <- MCJobs
  Sources = {s1, s2}
  Contents = {a}
  CaseOf <- MCOwnCases
  Times <- MCOneSecond
  MaxAttempt = 2
  StaleViews = FALSE
  ExclusiveOwner = FALSE
  OneSpelling = TRUE
  StoreMayRefuse = TRUE
CHECK_DEADLOCK FALSE
SYMMETRY MCPairSymmetry
PROPERTIES ImplementsQueue
