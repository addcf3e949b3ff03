-------------------------- MODULE DeterministicRanking --------------------------
(***************************************************************************)
(* RankingEngine: the score of every watched company in four categories,   *)
(* by one of three models, the audit that explains it, the stored order;   *)
(* and the two commands that read stored rankings, the monthly challenger  *)
(* snapshot and the portfolio.                                             *)
(*                                                                         *)
(* Scores are tenths of a point, rounded down.  Every metric has units in  *)
(* which its range is a short range of integers; growth is in half scales. *)
(***************************************************************************)
EXTENDS Sums, Sequences, SequencesExt

CONSTANTS
  Unknown,         \* None
  Watched,        \* the active companies, in the order of the repository
  Findings,         \* what the analyses of a company may find, as records
  MaxRuns         \* bounds the stored runs

VARIABLES
  found,          \* results_by_company of the next run
  rankings,       \* ranking_runs: what was ranked, and its rows
  month,          \* the scores of the latest monthly ranking
  commands        \* how snapshot-ranking-challenger and select-portfolio ended

rankingVars == <<found, rankings, month, commands>>

Known == ToSet(Watched)
Categories == {"quality", "growth", "valuation", "balance_sheet"}

(* ranking_model_for_branch, and the weights of its categories.            *)
CategoryWeight ==
  [general  |-> [quality |-> 30, growth |-> 25, valuation |-> 30, balance_sheet |-> 15],
   property |-> [quality |-> 25, growth |-> 15, valuation |-> 30, balance_sheet |-> 30],
   bank     |-> [quality |-> 30, growth |-> 20, valuation |-> 25, balance_sheet |-> 25]]

(* The weights of the metrics, inside a category.                          *)
MetricWeight ==
  [general |->
     [quality |-> [roe |-> 1, roa |-> 1, net_margin |-> 1, fcf_margin |-> 1, roic |-> 1,
                   cash_conversion |-> 1, margin_stability |-> 1, fcf_consistency |-> 1],
      growth |-> [revenue_growth |-> 1, ebit_growth |-> 1, net_income_growth |-> 1,
                  recent_revenue_growth |-> 1],
      valuation |-> [fcf_yield |-> 24, earnings_yield |-> 16, ev_ebit_percentile |-> 16,
                     pe_percentile |-> 12, margin_of_safety |-> 12, price_to_book |-> 10,
                     dividend_yield |-> 10],
      balance_sheet |-> [debt_to_equity |-> 1, net_debt_ebitda |-> 1]],
   property |->
     [quality |-> [occupancy |-> 1], growth |-> [revenue_growth |-> 1],
      valuation |-> [nav_discount |-> 45, price_to_income |-> 35, dividend_yield |-> 20],
      balance_sheet |-> [ltv |-> 60, interest_coverage |-> 40]],
   bank |->
     [quality |-> [roe |-> 40, cost_income |-> 35, credit_losses |-> 25],
      growth |-> [net_income_growth |-> 1],
      valuation |-> [pb_relative |-> 40, pe_percentile |-> 35, dividend_yield |-> 25],
      balance_sheet |-> [cet1 |-> 45, capital_adequacy |-> 25, lcr |-> 30]]]

(* Where a linear metric scores nothing, and where it scores all.          *)
Scale ==
  [roe |-> <<0, 25>>, roa |-> <<0, 15>>, net_margin |-> <<0, 20>>, fcf_margin |-> <<0, 20>>,
   roic |-> <<0, 20>>, cash_conversion |-> <<0, 10>>, margin_stability |-> <<10, 0>>,
   fcf_consistency |-> <<0, 10>>, fcf_yield |-> <<0, 10>>, earnings_yield |-> <<0, 10>>,
   ev_ebit_percentile |-> <<10, 0>>, pe_percentile |-> <<10, 0>>,
   dividend_yield |-> <<0, 8>>, occupancy |-> <<85, 100>>, nav_discount |-> <<20, -30>>,
   price_to_income |-> <<25, 8>>, ltv |-> <<65, 30>>, interest_coverage |-> <<10, 40>>,
   cost_income |-> <<70, 30>>, credit_losses |-> <<10, 0>>, pb_relative |-> <<14, 6>>,
   cet1 |-> <<10, 20>>, capital_adequacy |-> <<15, 25>>, lcr |-> <<100, 200>>]

Required ==
  [general |-> {}, property |-> {"occupancy", "interest_coverage", "ltv"},
   bank |-> {"cost_income", "credit_losses", "cet1", "capital_adequacy"}]

(* What an analysis may find: the metrics of its model, unless they are    *)
(* unknown, and of a general company how its growth came about.            *)
Facets == {"model", "reported", "valued", "turn", "one_off", "equity", "net_cash"}
Turning == {"revenue_growth", "ebit_growth", "net_income_growth"}
Metrics(model) ==
  (UNION {DOMAIN MetricWeight[model][category] : category \in Categories})
    \ {"margin_of_safety", "price_to_book"}
IsFinding(c) ==
  /\ c.model \in DOMAIN MetricWeight /\ c.reported \in BOOLEAN
  /\ {"model", "reported"} \cup Metrics(c.model) \subseteq DOMAIN c
  /\ \A m \in DOMAIN c \ Facets : c[m] \in Int \cup {Unknown}
  /\ c.model = "general" =>
       /\ Facets \subseteq DOMAIN c
       /\ c.valued \in BOOLEAN /\ c.one_off \in BOOLEAN /\ c.net_cash \in BOOLEAN
       /\ c.equity \in Int \cup {Unknown}
       /\ c.turn \in [Turning -> {"none", "turnaround", "deterioration"}]
ASSUME FindingsAreTyped ==
  Unknown \notin Int /\ \A c \in Findings : IsFinding(c)
-----------------------------------------------------------------------------
Clamp(score) == Max({0, Min({1000, score})})

VariantLinear(v, worst, best) ==              \* no inverted scale
  IF v = Unknown THEN Unknown
  ELSE Clamp(IF best > worst THEN (1000 * (v - worst)) \div (best - worst)
                             ELSE (1000 * (v - best)) \div (worst - best))
Linear(v, worst, best) ==
  IF v = Unknown THEN Unknown
  ELSE Clamp(IF best > worst THEN (1000 * (v - worst)) \div (best - worst)
                             ELSE (1000 * (worst - v)) \div (worst - best))

(* _growth_score, of growth in halves of its scale: no hard ceiling, 99.9  *)
(* at the most.                                                            *)
Curve(v) ==
  CASE v = Unknown                  -> Unknown
    [] v # Unknown /\ v <= 0        -> 0
    [] v # Unknown /\ v \in 1 .. 13 ->
         <<393, 632, 776, 864, 917, 950, 969, 981, 988, 993, 995, 997, 998>>[v]
    [] OTHER                       -> 999

(* A turnaround is half a score, and a jump that may be one-off is capped. *)
GrowthScore(c, metric) ==
  LET turn == IF c.model = "general" /\ metric # "recent_revenue_growth"
              THEN c.turn[metric] ELSE "none"
  IN  CASE turn = "turnaround"    -> 500
        [] turn = "deterioration" -> 0
        [] OTHER -> IF /\ c.model = "general" /\ c.one_off /\ c[metric] # Unknown
                       /\ metric \in {"ebit_growth", "net_income_growth"}
                    THEN Min({Curve(c[metric]), 600}) ELSE Curve(c[metric])

(* compute_margin_of_safety, in hundredths of a percent.                   *)
RequiredYield(c, quality, growth) ==
  LET debt == IF c.reported /\ c.debt_to_equity # Unknown THEN c.debt_to_equity ELSE 0 IN
  800 + Min({25 * Max({0, debt}), 500})
    - Max({0, (300 * (quality - 500)) \div 500}) - Max({0, (200 * (growth - 500)) \div 500})
MarginOfSafety(c, quality, growth) ==
  IF c.fcf_yield = Unknown THEN Unknown
  ELSE Linear(100 * c.fcf_yield - RequiredYield(c, quality, growth), -500, 500)

(* Debt in tenths of the equity; below zero it is net cash, which is known *)
(* even where the ratio is not.                                            *)
Indebted(c) == c.equity # Unknown /\ c.equity <= 0
DebtScore(c) ==
  CASE Indebted(c) -> 0
    [] ~Indebted(c) /\ c.debt_to_equity = Unknown -> IF c.net_cash THEN 1000 ELSE Unknown
    [] ~Indebted(c) /\ c.debt_to_equity # Unknown /\ c.debt_to_equity <= 0 -> 1000
    [] OTHER -> Linear(c.debt_to_equity, 20, 0)
NetDebtScore(c) == IF Indebted(c) THEN Unknown ELSE Linear(c.net_debt_ebitda, 40, 0)
-----------------------------------------------------------------------------
(* The metrics of a category exist when the analysis they read does.       *)
Reads(c, category) ==
  CASE c.model # "general"                           -> TRUE
    [] c.model = "general" /\ category = "valuation" -> c.valued
    [] OTHER                                         -> c.reported

MetricScore(c, m, quality, growth) ==
  CASE m = "margin_of_safety" -> MarginOfSafety(c, quality, growth)
    [] m = "price_to_book"    -> Unknown             \* no result has the field
    [] m = "debt_to_equity"   -> DebtScore(c)
    [] m = "net_debt_ebitda"  -> NetDebtScore(c)
    [] m \in DOMAIN Scale     -> Linear(c[m], Scale[m][1], Scale[m][2])
    [] OTHER                  -> GrowthScore(c, m)

Components(c, category, quality, growth) ==
  [m \in IF Reads(c, category) THEN DOMAIN MetricWeight[c.model][category] ELSE {} |->
     [weight |-> MetricWeight[c.model][category][m],
      score  |-> MetricScore(c, m, quality, growth)]]

Scored(parts) == {m \in DOMAIN parts : parts[m].score # Unknown}

(* score_quality, score_growth and score_balance_sheet take the mean, and  *)
(* score_valuation and the sectors the weighted mean of what is available. *)
Weighs(c, category) == c.model # "general" \/ category = "valuation"
CategoryScore(c, category, parts) ==
  LET weight == [m \in Scored(parts) |-> IF Weighs(c, category) THEN parts[m].weight ELSE 1] IN
  IF Scored(parts) = {} THEN 0
  ELSE AddUp([m \in Scored(parts) |-> weight[m] * parts[m].score]) \div AddUp(weight)

Scores(c) ==
  LET Of(category, quality, growth) ==
        CategoryScore(c, category, Components(c, category, quality, growth))
      quality == Of("quality", 0, 0)
      growth  == Of("growth", 0, 0)
  IN  [quality |-> quality, growth |-> growth,
       valuation |-> Of("valuation", quality, growth), balance_sheet |-> Of("balance_sheet", 0, 0)]

Total(c, scores) ==
  AddUp([category \in Categories |-> CategoryWeight[c.model][category] * scores[category]])
    \div 100

Eligible(c) ==
  /\ c.reported
  /\ \A m \in Required[c.model] : c[m] # Unknown
  /\ c.model = "general" => c.valued
  /\ c.model = "property" => c.nav_discount # Unknown \/ c.price_to_income # Unknown

(* build_general_scoring_audit.  A share is an effective weight, over all  *)
(* the weight there is.                                                    *)
Share(category, part) ==
  IF part.score = Unknown THEN 0 ELSE IF category = "valuation" THEN part.weight ELSE 1
Whole(category, parts) ==
  IF category = "valuation" THEN AddUp([m \in Scored(parts) |-> parts[m].weight])
  ELSE Cardinality(Scored(parts))
Audit(c, scores) ==
  IF c.model # "general" THEN << >>
  ELSE [category \in Categories |->
          LET parts == Components(c, category, scores.quality, scores.growth) IN
          [parts |-> [m \in DOMAIN parts |->
                        [score |-> parts[m].score, share |-> Share(category, parts[m])]],
           whole |-> Whole(category, parts), score |-> scores[category]]]

Row(id, c) ==
  LET scores == Scores(c) IN
  [company |-> id, model |-> c.model, eligible |-> Eligible(c), scores |-> scores,
   total |-> Total(c, scores), audit |-> Audit(c, scores)]

(* scores.sort by eligibility and total, which keeps the order of equals:  *)
(* the rows, each with its place.                                          *)
ScoreRows(results) ==
  LET At(id) == CHOOSE i \in DOMAIN Watched : Watched[i] = id
      Key(row) == (IF row.eligible THEN 2000 ELSE 0) + row.total
      Before(x, y) == \/ Key(x) > Key(y)
                      \/ Key(x) = Key(y) /\ At(x.company) < At(y.company)
      scores == {Row(id, results[id]) : id \in Known}
  IN  {[row |-> row, place |-> 1 + Cardinality({x \in scores : Before(x, row)})] :
         row \in scores}
-----------------------------------------------------------------------------
RankingInit ==
  /\ found \in [Known -> Findings] /\ rankings = << >> /\ month = << >>
  /\ commands = [name \in {"challenger", "portfolio"} |-> "none"]

(* The companies are analyzed again, and an analysis finds something else. *)
Restate(id, results) ==
  /\ results # found[id]
  /\ found' = [found EXCEPT ![id] = results]
  /\ UNCHANGED <<rankings, month, commands>>

(* RankingEngine.rank, with the run it saves.                              *)
RankWatched ==
  /\ Len(rankings) < MaxRuns
  /\ rankings' = Append(rankings, [of |-> found, rows |-> ScoreRows(found)])
  /\ UNCHANGED <<found, month, commands>>

(* A month ends in which some of the companies ranked had an analysis; the *)
(* monthly ranking has the rows of the forward ranker.                     *)
ForwardRow == {"company_id", "ticker", "economic_tier", "tier", "rank", "tied", "actionable",
               "bear_lower_bound", "base_band", "bull_lower_bound", "evidence_confidence", "flags"}
CloseMonth(analyzed) ==
  /\ rankings # << >> /\ month = << >>
  /\ month' = <<[ranked |-> analyzed, fields |-> ForwardRow]>>
  /\ UNCHANGED <<found, rankings, commands>>

(* snapshot-ranking-challenger: every general company is scored again from *)
(* what its audit stores, without two metrics, and the result is saved.    *)
ComponentFields ==
  {"name", "raw_value", "score", "weight", "transformation", "dependencies",
   "cross_category_dependencies", "positives", "negatives", "flags", "missing", "provenance",
   "available", "effective_weight", "category_contribution", "total_contribution"}
Removed == {"net_margin", "ev_ebit_percentile"}
Kept(row, category) ==
  {m \in DOMAIN row.audit[category].parts \ Removed :
     row.audit[category].parts[m].score # Unknown}
Rescored(row) ==
  \A category \in Categories :
    /\ Kept(row, category) # {}
    /\ {"configured_weight", "normalized_score"} \subseteq ComponentFields
SnapshotMethods == {"save", "list_snapshots", "get_for_month", "save_performance_evaluation",
                    "list_performance_evaluations"}
SnapshotChallenger ==
  /\ rankings # << >> /\ commands["challenger"] = "none"
  /\ LET general == {x.row : x \in {y \in Last(rankings).rows : y.row.model = "general"}}
         built   == \A row \in general : Rescored(row)
     IN  commands' = [commands EXCEPT !["challenger"] =
                        IF built /\ "save_snapshot" \in SnapshotMethods THEN "saved" ELSE "failed"]
  /\ UNCHANGED <<found, rankings, month>>

(* select-portfolio: the rows of the latest monthly ranking become         *)
(* CompanyScores; of no rows, nothing is selected and that is saved.       *)
CompanyScore ==
  {"company_id", "ticker", "name", "quality_score", "growth_score", "valuation_score",
   "balance_sheet_score", "total_score", "positives", "negatives", "missing_data", "flags",
   "data_quality", "candidate_reason", "ranking_model", "rank_eligible", "eligibility_reasons",
   "scoring_audit"}
SelectPortfolio ==
  /\ month # << >> /\ commands["portfolio"] = "none"
  /\ LET fields == month[1].fields
         loaded == /\ fields \subseteq CompanyScore
                   /\ {"company_id", "ticker", "name"} \subseteq fields
     IN  commands' = [commands EXCEPT !["portfolio"] =
                        IF month[1].ranked = {} \/ loaded THEN "saved" ELSE "failed"]
  /\ UNCHANGED <<found, rankings, month>>

RankingNext ==
  \/ \E id \in Known, results \in Findings : Restate(id, results)
  \/ RankWatched
  \/ \E analyzed \in SUBSET Known : CloseMonth(analyzed)
  \/ SnapshotChallenger
  \/ SelectPortfolio
RankingSpec == RankingInit /\ [][RankingNext]_rankingVars
-----------------------------------------------------------------------------
(* Better news never lowers a score: a company of which the next run knows *)
(* the same metrics, none worse and no debt higher, is not scored lower,   *)
(* although quality and growth are used a second time in the valuation.    *)
Falling ==
  {"debt_to_equity", "net_debt_ebitda"} \cup {m \in DOMAIN Scale : Scale[m][1] > Scale[m][2]}
NoWorse(x, y) ==
  /\ DOMAIN x = DOMAIN y
  /\ \A m \in DOMAIN x \cap Facets : x[m] = y[m]
  /\ \A m \in DOMAIN x \ Facets :
       \/ x[m] = y[m]
       \/ Unknown \notin {x[m], y[m]} /\ IF m \in Falling THEN x[m] < y[m] ELSE x[m] > y[m]
BetterNeverScoresLower ==
  \A i \in 2 .. Len(rankings), id \in Known :
    LET Of(k) == CHOOSE x \in rankings[k].rows : x.row.company = id IN
    NoWorse(rankings[i].of[id], rankings[i - 1].of[id]) => Of(i).row.total >= Of(i - 1).row.total

(* What the README promises of the monthly challenger: the command ends    *)
(* with a persisted snapshot, of a run whose companies are all eligible.   *)
ChallengerIsPersisted ==
  commands["challenger"] = "failed" =>
    \E i \in DOMAIN rankings : \E x \in rankings[i].rows : ~x.row.eligible
=============================================================================
