SPECIFICATION PolicySpec
CONSTANTS
  Drafts <- Answers
  Outcomes <- Engine
  Specialists <- TwoSpecialists
  Calculated = {"none", "calculated"}
  MaxRejections = 1
  MaxKills = 1
  Hands <- GateHands
  Absent = Absent
  Missing = Missing
  Dossiers <- DcfEvidence
  Facts <- ScenarioFacts
  Proposals <- ScenarioProposals
  Books <- MCBooks
  Unknown = Unknown
  c1 = c1
  c2 = c2
  Watched <- Pair
  Findings <- RankingInputs
  MaxRuns = 2
  None = None
  MonthDays = 2
  YearDays = 8
  AnnualLag = 2
  InterimLag = 1
  PriceAge = 1
  Interims = 2
  NumDeciles = 2
  NumPeriods = 2
  Slack = 7
  Correlation <- Concordance
  MinDates = 2
  MinWindows = 2
  FrozenWeights <- General5
  Databases <- Stores
  PeriodCases <- MCCases
  LastDay = 13
  MaxEvents = 3
  j1 = j1
  j2 = j2
  w1 = w1
  w2 = w2
  nojob = nojob
  Jobs <- OneJob
  Workers <- OneWorker
  NeedsScenario <- OneJob
  MaxEvidence = 1
  MaxRelease = 1
  MaxFaults = 2
  MaxInterrupts = 2
  OneRunnerPerJob = TRUE
  NoJob = nojob
CHECK_DEADLOCK FALSE
INVARIANTS PaidWorkIsSaved GapsLimitConfidence VerdictAgreesWithTier SavedEvidenceIsSupplied
INVARIANTS AcceptedIsNotBoughtAgain AggregateOfOneGraph ActivationIsDecidedByGates 
INVARIANTS ValuationAgrees DoubtNeverHelps ExpectationsExplainPrice ConfidenceRestsOnHistory
INVARIANTS BetterNeverScoresLower RepairCeilingWithoutFailures HoldoutStaysUnseen
PROPERTIES PastIsFixed PersistedIsReported FrozenJobsSettle
