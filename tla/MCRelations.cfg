SPECIFICATION MCSpec
CONSTANTS
  w1 = w1
  w2 = w2
  c1 = c1
  c2 = c2
  c3 = c3
  s1 = s1
  s2 = s2
  g = g
  p = p
  e1 = e1
  e2 = e2
  ann = ann
  none = none
  r1 = r1
  r2 = r2
  r3 = r3
  Openers = {w1}
  Edges = {r1, r2, r3}
  MayCrash = TRUE
  Processes = {w1, w2}
  Contents <- MCContents
  Sources = {s1, s2}
  Groups = {g}
  Propositions = {p}
  Occurrences = {e1, e2}
  SourceOf <- MCSourceOf
  Members <- MCMembers
  Witness <- MCWitness
  Nobody = none
  Rank <- MCRank
  Span <- MCSpan
  Anchored <- MCAnchored
  Echoing <- MCEchoing
  Dates = {1, 2}
  LinkRequests <- MCLinkRequests
  OccurrenceRequests <- MCOccurrenceRequests
  Histories <- MCHistories
  InitialDates <- MCInitialDates
  MaxCommands = 3
  None = none
CHECK_DEADLOCK FALSE
INVARIANTS AnalyzersNeverMirror OpenSeesEverything
PROPERTIES CorroborationWasIndependent EveryWalkEnds
