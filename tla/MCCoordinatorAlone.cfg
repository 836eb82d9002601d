SPECIFICATION FairSpec
CONSTANTS
  gui = gui
  c1 = c1
  c2 = c2
  s1 = s1
  s2 = s2
  a = a
  b = b
  Coordinators = {c1}
  Callers = {c1, gui}
  Jobs <- MCJobs
  Sources = {s1, s2}
  Contents = {a}
  CaseOf <- MCOwnCases
  Times <- MCOneSecond
  MaxAttempt = 3
  StaleViews = TRUE
  ExclusiveOwner = FALSE
  OneSpelling = TRUE
  StoreMayRefuse = FALSE
CHECK_DEADLOCK FALSE
INVARIANTS ActiveIsOwned
PROPERTIES QueuedIsSettled
