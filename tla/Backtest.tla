-------------------------------- MODULE Backtest --------------------------------
(***************************************************************************)
(* BacktestEngine and the weight calibration that reads what it exports:   *)
(* what is known of a company on a past month end, the deciles and the     *)
(* contributions of a period, and the choice of weights on the first half  *)
(* of the periods.                                                         *)
(*                                                                         *)
(* Days are whole numbers, and a year is a whole number of months.  A      *)
(* report that is stored without its date is public within its lag: that   *)
(* is what the lag stands for.  The annual KPI values of a year are        *)
(* published with its report.                                              *)
(***************************************************************************)
EXTENDS Integers, Sequences, FiniteSets, FiniteSetsExt, SequencesExt

CONSTANTS
  None,           \* None
  MonthDays, YearDays,
  AnnualLag,      \* _ANNUAL_REPORT_LAG_DAYS, of undated annual reports
  InterimLag,     \* _INTERIM_REPORT_LAG_DAYS
  PriceAge,       \* MAX_PRICE_AGE_DAYS
  Interims,       \* the interim periods of a year
  NumDeciles,     \* _NUM_DECILES
  NumPeriods,     \* the periods that are asked for
  MinDates,       \* the dates a calibration needs
  MinWindows,     \* the windows a recommendation needs
  Slack,          \* the months a run looks back beyond these: 48
  FrozenWeights,  \* the weights of the ranking model, in twentieths
  Correlation(_), \* pearson, rounded, of scores and returns
  Databases,      \* what may be stored when the story begins
  PeriodCases,    \* what a period may score, measure and compare with
  LastDay, MaxEvents  \* bound the days, and what happens on them

VARIABLES
  today,
  db,             \* reports, snapshot and price days of a company
  events,         \* counts what was stored
  periods,        \* the results of the periods, oldest first
  calibration     \* the report of calibrate-weights

(* A stored report: dated when it is published, or without its date.       *)
Reports ==
  [type : {"interim", "year"}, year : Nat, period : 1 .. Interims, end : Int,
   date : Nat \cup {None}]

ASSUME BacktestAssumption ==
  /\ None \notin Int
  /\ {MonthDays, YearDays, Interims} \subseteq Nat \ {0}
  /\ {AnnualLag, InterimLag, PriceAge, NumPeriods, Slack, LastDay, MaxEvents} \subseteq Nat
  /\ \A start \in Databases :
       /\ start.today \in Nat
       /\ start.db \in [reports : SUBSET Reports, snapshots : SUBSET (0 .. start.today),
                        prices : SUBSET (0 .. start.today)]

backtestVars == <<today, db, events, periods, calibration>>

YearOf(day) == day \div YearDays
MonthOf(day) == day \div MonthDays
LastOr(S, default) == IF S = {} THEN default ELSE Max(S)
-----------------------------------------------------------------------------
(* get_reports_as_of: by its date, or by its end and the lag of its type.  *)
VariantPublic(r, day) ==                      \* the end of the period, where no date is stored
  IF r.date # None THEN r.date <= day ELSE r.end <= day
Public(r, day) ==
  LET lag == IF r.type = "year" THEN AnnualLag ELSE InterimLag IN
  IF r.date # None THEN r.date <= day ELSE r.end + lag <= day

ReportsAsOf(type, day) == {r \in db.reports : r.type = type /\ Public(r, day)}
Latest(reports) == CHOOSE r \in reports : \A x \in reports : x.end <= r.end
PriceAsOf(day) == LastOr({d \in db.prices : d <= day /\ day - d <= PriceAge}, None)
SnapshotAsOf(day) == LastOr({d \in db.snapshots : d <= day}, None)

(* The quarter of the latest interim report, and the one a year before.    *)
Quarters(day) ==
  LET known == ReportsAsOf("interim", day)
      latest == Latest(known)
  IN  IF known = {} THEN {}
      ELSE {r \in known : r = latest \/ (r.period = latest.period /\ r.year = latest.year - 1)}

(* _reconstruct: r12 and quarters come with an interim report, and general *)
(* fundamentals from a snapshot or from the year of the annual report.     *)
Reconstructed(day) ==
  LET annual == ReportsAsOf("year", day)
      interim == ReportsAsOf("interim", day)
      year == Latest(annual)
  IN  IF PriceAsOf(day) = None \/ annual = {} THEN None
      ELSE [annual |-> year, history |-> annual \ {year},
            current |-> IF interim = {} THEN year ELSE Latest(interim),
            quarters |-> Quarters(day), price |-> PriceAsOf(day),
            kpis |-> IF SnapshotAsOf(day) # None THEN <<"historical_snapshot", SnapshotAsOf(day)>>
                     ELSE <<"annual_kpi_history", year.year>>]

(* get_historical_as_of: the KPI values of the years before, for the       *)
(* percentiles of the valuation.                                           *)
Histories(day) == {r.year : r \in {x \in db.reports : x.type = "year" /\ x.year < YearOf(day)}}
-----------------------------------------------------------------------------
(* _find_period_dates: the last stored day of every month that ended a     *)
(* year ago and is not too far back, of the last of these months.          *)
PeriodDates ==
  LET cutoff == MonthOf(today - YearDays) * MonthDays - 1
      earliest == today - (NumPeriods + Slack) * MonthDays
      known == {d \in db.prices : earliest <= d /\ d <= cutoff}
      ends == {d \in known : \A x \in known : MonthOf(x) = MonthOf(d) => x <= d}
  IN  {d \in ends : Cardinality({x \in ends : x >= d}) <= NumPeriods}

Weighted(scores, weights) ==
  scores[1] * weights[1] + scores[2] * weights[2] + scores[3] * weights[3] + scores[4] * weights[4]

(* Rank by the total score; companies are in the order of their ids.       *)
Ordered(scores, weights) ==
  LET known == {c \in DOMAIN scores : scores[c] # None}
      Before(x, y) ==
        LET a == Weighted(scores[x], weights)
            b == Weighted(scores[y], weights)
        IN  a > b \/ (a = b /\ x < y)
  IN  SetToSortSeq(known, Before)

Bucket(ranked, i) ==
  SubSeq(ranked, ((i - 1) * Len(ranked)) \div NumDeciles + 1, (i * Len(ranked)) \div NumDeciles)
SumOf(numbers) == FoldLeft(+, 0, numbers)

(* _build_deciles: an average is a sum and a count, and needs a return.    *)
Deciles(ranked, returns) ==
  IF Len(ranked) < NumDeciles THEN << >>
  ELSE [i \in 1 .. NumDeciles |->
          LET known == SelectSeq(Bucket(ranked, i), LAMBDA c : returns[c] # None) IN
          [sum |-> SumOf([k \in DOMAIN known |-> returns[known[k]]]), count |-> Len(known),
           size |-> Len(Bucket(ranked, i))]]

(* _decile_coverage, which forms the buckets again, and the contribution   *)
(* of a company: its return and the count it is divided by.                *)
Coverage(ranked, returns) ==
  IF Len(ranked) < NumDeciles THEN << >>
  ELSE [i \in 1 .. NumDeciles |->
          Cardinality({k \in DOMAIN Bucket(ranked, i) : returns[Bucket(ranked, i)[k]] # None})]

Attributions(ranked, scores, returns, benchmark) ==
  LET counts == Coverage(ranked, returns)
      DecileOf(c) ==
        IF counts = << >> THEN None
        ELSE CHOOSE i \in DOMAIN counts : Contains(Bucket(ranked, i), c)
  IN  [rank \in DOMAIN ranked |->
         LET c == ranked[rank] IN
         [company |-> c, scores |-> scores[c], decile |-> DecileOf(c), return |-> returns[c],
          benchmark |-> benchmark,
          share |-> IF returns[c] = None \/ DecileOf(c) = None THEN None ELSE counts[DecileOf(c)]]]

(* _run_single_period, of the companies that can be reconstructed.         *)
Measured(day, case) ==
  LET scores == [c \in DOMAIN case.scores |->
                   IF c = 1 /\ Reconstructed(day) = None THEN None ELSE case.scores[c]]
      ranked == Ordered(scores, FrozenWeights)
      deciles == Deciles(ranked, case.returns)
  IN  [date |-> day, deciles |-> deciles,
       attributions |-> Attributions(ranked, scores, case.returns, case.benchmark)]
-----------------------------------------------------------------------------
(* _candidate_weights, and the order they are tried in: 0.25 + 0.15 and    *)
(* 0.30 + 0.15 are out of reach, as the difference of the floats exceeds   *)
(* 0.15.                                                                   *)
Reach(base) == -3 .. (IF base \in {5, 6} THEN 2 ELSE 3)
CandidateWeights ==
  {w \in [1 .. 4 -> 2 .. 10] :
     /\ w[1] + w[2] + w[3] + w[4] = 20
     /\ \A i \in 1 .. 4 : w[i] - FrozenWeights[i] \in Reach(FrozenWeights[i])}
Earlier(x, y) == \E i \in 1 .. 3 : x[i] < y[i] /\ \A k \in 1 .. i - 1 : x[k] = y[k]

(* The rows of the CSV with a return and a benchmark, and their dates.     *)
CsvRows ==
  UNION {{[date |-> periods[i].date, company |-> a.company, scores |-> a.scores,
           return |-> a.return, benchmark |-> a.benchmark] :
             a \in ToSet(periods[i].attributions)} : i \in DOMAIN periods}
Usable == {r \in CsvRows : r.return # None /\ r.benchmark # None}
Dates(rows) == {r.date : r \in rows}

(* evaluate_weights, by date: the top and the bottom tenth, by weighted    *)
(* score and then id, and how the scores correlate with the returns.       *)
(* Means are sums, over as many dates.                                     *)
Evaluation(rows, weights) ==
  LET On(day) ==
        LET there == {r \in rows : r.date = day}
            row == [c \in {r.company : r \in there} |-> CHOOSE r \in there : r.company = c]
            ranked == Ordered([c \in DOMAIN row |-> row[c].scores], weights)
            size == Max({1, Len(ranked) \div 10})
            Mean(from) == SumOf([k \in 1 .. size |-> row[ranked[from + k]].return]) \div size
        IN  <<Mean(0) - row[ranked[1]].benchmark, Mean(0) - Mean(Len(ranked) - size),
              Correlation({<<c, Weighted(row[c].scores, weights), row[c].return>> : c \in DOMAIN row})>>
  IN  [excess |-> MapThenSumSet(LAMBDA day : On(day)[1], Dates(rows)),
       spread |-> MapThenSumSet(LAMBDA day : On(day)[2], Dates(rows)),
      correlation |-> MapThenSumSet(LAMBDA day : On(day)[3], Dates(rows))]

Better(x, y) ==
  \/ x.excess > y.excess
  \/ x.excess = y.excess /\ x.spread > y.spread
  \/ x.excess = y.excess /\ x.spread = y.spread /\ x.correlation > y.correlation

(* _independent_window_count                                               *)
Windows(dates) ==
  FoldLeft(LAMBDA anchors, day :
             IF anchors = << >> \/ day - Last(anchors) >= YearDays THEN Append(anchors, day)
             ELSE anchors,
           << >>, SetToSortSeq(dates, <))

(* calibrate_weights, for the outcomes of a year: the first half of the    *)
(* dates, rounded down, is trained on.                                     *)
VariantSplit(dates) == [train |-> dates, holdout |-> dates]
Split(dates) ==
  LET train == {d \in dates : 2 * Cardinality({x \in dates : x <= d}) <= Cardinality(dates)}
  IN  [train |-> train, holdout |-> dates \ train]
Best(train) ==
  LET value == [w \in CandidateWeights |-> Evaluation(train, w)]
  IN  CHOOSE w \in CandidateWeights : \A x \in CandidateWeights \ {w} :
        Better(value[w], value[x]) \/ (value[w] = value[x] /\ Earlier(w, x))
Calibrated(rows) ==
  LET split == Split(Dates(rows))
      holdout == {r \in rows : r.date \in split.holdout}
      best == Best({r \in rows : r.date \in split.train})
      chosen == Evaluation(holdout, best)
      kept == Evaluation(holdout, FrozenWeights)
  IN  [weights |-> best,
       ready |-> /\ Len(Windows(Dates(rows))) >= MinWindows
                 /\ chosen.excess > kept.excess /\ chosen.spread > kept.spread
                 /\ best # FrozenWeights]
-----------------------------------------------------------------------------
BacktestInit ==
  /\ \E start \in Databases : today = start.today /\ db = start.db
  /\ events = 0 /\ periods = << >> /\ calibration = None

Pass ==
  /\ today < LastDay /\ today' = today + 1
  /\ UNCHANGED <<db, events, periods, calibration>>

Stored(database) ==
  /\ events < MaxEvents /\ events' = events + 1 /\ db' = database
  /\ UNCHANGED <<today, periods, calibration>>

(* A report comes after its period, and the annual values come with it.    *)
Publish(type, year, period, dated) ==
  LET report == [type |-> type, year |-> year, period |-> period,
                 end |-> year * YearDays + (period * YearDays) \div Interims - 1,
                 date |-> IF dated THEN today ELSE None]
  IN  /\ report.end < today
      /\ ~dated => today <= report.end + (IF type = "year" THEN AnnualLag ELSE InterimLag)
      /\ \A r \in db.reports : <<r.type, r.year, r.period>> # <<type, year, period>>
      /\ Stored([db EXCEPT !.reports = @ \cup {report}])

(* save_snapshot writes the day it runs on; closing prices arrive.         *)
SaveSnapshot == today \notin db.snapshots /\ Stored([db EXCEPT !.snapshots = @ \cup {today}])
SavePrice == today \notin db.prices /\ Stored([db EXCEPT !.prices = @ \cup {today}])

(* The next period of a run of the backtest, the earliest that is left:    *)
(* what is calibrated is what a run has written when it is over.           *)
MeasurePeriod(case) ==
  LET due == {d \in PeriodDates : \A i \in DOMAIN periods : periods[i].date < d}
  IN  /\ calibration = None /\ due # {}
      /\ periods' = Append(periods, Measured(Min(due), case))
      /\ UNCHANGED <<today, db, events, calibration>>

Calibrate ==
  /\ calibration = None /\ Cardinality(Dates(Usable)) >= MinDates
  /\ calibration' = Calibrated(Usable)
  /\ UNCHANGED <<today, db, events, periods>>

DayStep ==
  \/ Pass \/ SaveSnapshot \/ SavePrice
  \/ \E year \in 0 .. YearOf(LastDay), period \in 1 .. Interims, dated \in BOOLEAN :
       \/ Publish("interim", year, period, dated)
       \/ period = Interims /\ Publish("year", year, period, dated)
BacktestNext == DayStep \/ Calibrate \/ \E case \in PeriodCases : MeasurePeriod(case)

BacktestSpec == BacktestInit /\ [][BacktestNext]_backtestVars
-----------------------------------------------------------------------------
(* A backtest reconstructs what was known: whatever is published, fetched  *)
(* or traded later, the reports, prices and KPI values of a past day stay  *)
(* the same, for dated and undated reports.                                *)
PastIsFixed ==
  [][\A day \in 0 .. today - 1 : Reconstructed(day)' = Reconstructed(day)]_backtestVars

(* README.md:101: the engine "reconstructs only information then           *)
(* available".  For the percentiles of the valuation it does not: the      *)
(* values of the last year are used before its report is there.            *)
PercentilesUseThePast ==
  [][\A day \in 0 .. today - 1 : Histories(day)' = Histories(day)]_backtestVars

(* The weights are chosen before the holdout is looked at: with any other  *)
(* outcome of the second half the choice would have been the same.         *)
HoldoutStaysUnseen ==
  calibration # None =>
    \A gain \in {-1, 1} : \A company \in {r.company : r \in Usable} :
      LET dates == Dates(Usable)
          later == {d \in dates : 2 * Cardinality({x \in dates : x >= d}) <= Cardinality(dates) + 1}
          other == {IF r.date \in later /\ r.company = company
                    THEN [r EXCEPT !.return = @ + 4 * gain] ELSE r : r \in Usable}
      IN  Calibrated(other).weights = calibration.weights
=============================================================================
