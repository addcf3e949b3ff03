------------------------ MODULE MCDeterministicRanking ------------------------
(***************************************************************************)
(* A company of every ranking model, and everything that is one or two     *)
(* slips from it; the second company stays as it is.                       *)
(***************************************************************************)
EXTENDS DeterministicRanking

CONSTANTS c1, c2

General ==
  [model |-> "general", reported |-> TRUE, valued |-> TRUE,
   roe |-> 15, roa |-> 8, net_margin |-> 10, fcf_margin |-> 12, roic |-> 14,
   cash_conversion |-> 9, margin_stability |-> 4, fcf_consistency |-> 8,
   revenue_growth |-> 2, ebit_growth |-> 2, net_income_growth |-> 1,
   recent_revenue_growth |-> 1, one_off |-> FALSE,
   turn |-> [m \in {"revenue_growth", "ebit_growth", "net_income_growth"} |-> "none"],
   fcf_yield |-> 5, earnings_yield |-> 6, ev_ebit_percentile |-> 4, pe_percentile |-> 6,
   dividend_yield |-> 3, debt_to_equity |-> 6, equity |-> 1, net_cash |-> FALSE, net_debt_ebitda |-> 15]
Property ==
  [model |-> "property", reported |-> TRUE, occupancy |-> 94, revenue_growth |-> 1,
   nav_discount |-> -10, price_to_income |-> 14, dividend_yield |-> 3, ltv |-> 45,
   interest_coverage |-> 25]
Bank ==
  [model |-> "bank", reported |-> TRUE, roe |-> 12, cost_income |-> 45, credit_losses |-> 2,
   net_income_growth |-> 1, pb_relative |-> 10, pe_percentile |-> 6, dividend_yield |-> 5,
   cet1 |-> 15, capital_adequacy |-> 19, lcr |-> 140]

(* One step for the better, and what cannot be known.                      *)
Slips(c) ==
  LET numbers == DOMAIN c \ Facets
  IN  UNION {[{m} -> {c[m] - 3, c[m] + 3, Unknown}] : m \in numbers}
GeneralSlips ==
  Slips(General) \cup [equity : {-1}] \cup [reported : {FALSE}] \cup [valued : {FALSE}]
  \cup [equity : {Unknown}, debt_to_equity : {Unknown}, net_cash : BOOLEAN]
  \cup [one_off : {TRUE}] \cup [debt_to_equity : {-2, 24}] \cup [fcf_yield : {-1, 12}]
  \cup [turn : {[General.turn EXCEPT !["ebit_growth"] = t] : t \in {"turnaround", "deterioration"}}]
Strong ==                                     \* what the valuation uses again
  [roe |-> 25, roa |-> 15, net_margin |-> 20, fcf_margin |-> 20, revenue_growth |-> 5,
   ebit_growth |-> 5]
Blank ==                                      \* no quality metric at all
  [m \in DOMAIN MetricWeight["general"]["quality"] |-> Unknown]

Usual == {General, Strong @@ General, Blank @@ General, [debt_to_equity |-> 14] @@ General, Property, Bank}
OneSlip ==
  {s @@ General : s \in GeneralSlips}
  \cup {s @@ Property : s \in Slips(Property)} \cup {s @@ Bank : s \in Slips(Bank)}
RankingInputs ==
  Usual \cup OneSlip
  \cup {s @@ (t @@ General) : s \in Slips(General), t \in {Strong, [debt_to_equity |-> 14]}}

(* The first company is as usual, or one slip from it, and restated once,  *)
(* between two runs, to the same model; the commands run after the last.   *)
Pair == <<c1, c2>>
RankingStart ==
  /\ RankingInit /\ found[c2] \in {Property, General} /\ (found[c2] = General => found[c1] = General)
  /\ found[c1] \in Usual \cup OneSlip
RankingStep ==
  \/ /\ Len(rankings) = 1 /\ found = rankings[1].of
     /\ \E results \in {x \in Findings : x.model = found[c1].model} : Restate(c1, results)
  \/ (rankings # << >> => found # Last(rankings).of) /\ RankWatched
  \/ \E analyzed \in {{}, {c1}} : found[c1] = General /\ CloseMonth(analyzed)
  \/ found[c1] \in {General, Property, [reported |-> FALSE] @@ General} /\ SnapshotChallenger
  \/ SelectPortfolio
RankingInstance == RankingStart /\ [][RankingStep]_rankingVars
=============================================================================
