SPECIFICATION MCSpec
CONSTANTS
  Contents = {"a", "b"}
  Worlds <- MCWorlds
  Jobs <- MCJobs
  MaxEdits = 2
  MaxAttempts = 2
  MayRestore = FALSE
CHECK_DEADLOCK FALSE
INVARIANTS ResultShowsTheOriginal EveryMomentIsIndexed ReadingsAreWhole EverySilenceIsTold
