SPECIFICATION TopicSpec
CONSTANTS
  c1 = c1
  c2 = c2
  p1 = p1
  p2 = p2
  Companies = {c1, c2}
  Processes = {p1, p2}
  Candidates <- TierCases
  TargetSize = 1
  Tolerance = 1
  GraceMonths = 2
  MaxMonths = 4
  RunsEndInTheirMonth = TRUE
SYMMETRY ProcessSymmetry
INVARIANTS TypeOK RankingNamesStoredCohort TierMovesOnTwoSignals SecondSignalApplies ProvenanceIsAccepted
