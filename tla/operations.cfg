SPECIFICATION OpSpec
CONSTANTS
  h1 = h1
  r1 = r1
  r2 = r2
  o1 = o1
  jn = jn
  jw = jw
  jb = jb
  b1 = b1
  b2 = b2
  Holdings = {h1}
  Price = 2
  PriceAge = 1
  MonthDays = 2
  LastDay = 3
  LastHorizon = 1
  Dividends <- ShortCalendar
  MaxChanges = 3
  Releases = {r1, r2, o1}
  Reports = {r1, r2}
  MaxArticles = 2
  Retries = 2
  MaxStops = 1
  Jobs = {jn, jw, jb}
  Wrapped = {jw}
  News = jn
  Companies <- Pair
  Mapped = {b1, b2}
  Listed = {b1}
  BatchSize = 1
  LastVersion = 2
  MaxOutages = 1
  OneWriter = TRUE
  p1 = p1
  p2 = p2
  Commands <- TwoCommands
  Kinds <- AllKinds
  MaxCommands = 4
  MaxChallenges = 2
  MaxFaults = 1
CHECK_DEADLOCK FALSE
INVARIANTS NoQuarantinedReturn AnnouncedByOneRun CompletedIsFresh
INVARIANTS TypeOK RevisionsUseAttachedResponse AnswerFollowsChallengedThesis
INVARIANTS RetriesBuyNoAnswer OnlyFailuresLeaveOpen KeptContentStands
PROPERTIES FullSyncHeals WrappedFailuresStarveNobody
PROPERTIES ResolutionIsFinal ImplementsDesk
