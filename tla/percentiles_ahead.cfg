SPECIFICATION MCBacktestSpec
CONSTANTS
  None = None
  MonthDays = 2
  YearDays = 8
  AnnualLag = 2
  InterimLag = 1
  PriceAge = 1
  Interims = 2
  NumDeciles = 2
  NumPeriods = 2
  Slack = 7
  Correlation <- Concordance
  MinDates = 2
  MinWindows = 2
  FrozenWeights <- General5
  Databases <- Stores
  PeriodCases <- MCCases
  LastDay = 13
  MaxEvents = 3
CHECK_DEADLOCK FALSE
PROPERTIES PercentilesUseThePast
