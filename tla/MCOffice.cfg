SPECIFICATION MCSpec
CONSTANTS
  w1 = w1
  w2 = w2
  none = none
  Windows = {w1, w2}
  Clients = {"ann", "bob"}
  Matters = {"m1", "m2", "m3"}
  Cases = {"k1", "k2"}
  Settings = {1, 2}
  Calendars <- MCCalendars
  MaxCommands = 4
  None = none
  Drafts <- MCDrafts
  Aliases <- MCAliases
  People = {"ann", "bob", "n2"}
  Notes = {"n1", "n2", "n3"}
  Deadlines = {"d1", "d2"}
  Dates <- MCDates
  Spans = {3}
  File <- MCFile
  MaxWrites = 3
  MayFailToAsk = FALSE
  Shelf <- MCShelf
  Filed <- MCFiled
  DayOf <- MCDays
  Today = "monday"
  Elsewhere = {"k9"}
  Names = {"amy"}
  MaxClicks = 4
SYMMETRY Symmetries
CHECK_DEADLOCK FALSE
INVARIANTS DocketIsWhole BrokenLinksAreTyped SearchKnowsEveryRecord NotesStandOnce DeadlinesAreListed ShowsWhatItActsOn DetailIsOfTheRow
