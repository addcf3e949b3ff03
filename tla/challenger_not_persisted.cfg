SPECIFICATION RankingInstance
CONSTANTS
  Unknown = Unknown
  c1 = c1
  c2 = c2
  Watched <- Pair
  Findings <- RankingInputs
  MaxRuns = 2
CHECK_DEADLOCK FALSE
INVARIANT ChallengerIsPersisted
