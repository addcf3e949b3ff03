--------------------------- MODULE MCForwardScenario ---------------------------
(***************************************************************************)
(* A sound company with a sound proposal, and everything that is one slip  *)
(* from them, with distributions in any case; and books of three cases.    *)
(***************************************************************************)
EXTENDS ForwardScenario

Steady ==
  [model |-> "general", documents |-> TRUE, price |-> 3, revenue |-> 2, shares |-> 1,
   debt |-> 1, priceCurrency |-> "SEK", currency |-> "SEK", multiple |-> 10, low |-> 6, high |-> 14,
   baseCeiling |-> 9, bullCeiling |-> 12, annualGrowth |-> {0, 2}, recentGrowth |-> 1,
   peakMargin |-> 2, startMargin |-> 2, reportMargin |-> 2]

FactSlips ==
  [model : {"bank"}] \cup [documents : {FALSE}] \cup [price : {Absent, 0, 2, 6}]
  \cup [revenue : {Absent, 1}] \cup [shares : {Absent, 2}] \cup [debt : {Absent, -2, 3, 9}]
  \cup [priceCurrency : {Absent, "USD"}] \cup [currency : {Absent}]
  \cup [multiple : {Absent, -4, 7, 13}] \cup [annualGrowth : {{}, {3}}]
  \cup [recentGrowth : {Absent, 0, 3}] \cup [peakMargin : {Absent, 1}]
  \cup [startMargin : {Absent, 1, 3}] \cup [reportMargin : {Absent, 1}]
  \cup [baseCeiling : {Absent}, bullCeiling : {Absent}, high : {Absent}]
  \cup [low : {Absent, 0, 15}]
  \cup [baseCeiling : {7}, bullCeiling : {8}]
ScenarioFacts == {Steady} \cup {slip @@ Steady : slip \in FactSlips}

Bundle(growth, margin, low, high) ==
  [horizon |-> 24, growth |-> growth, margin |-> margin, low |-> low, high |-> high,
   debt |-> 0, shares |-> 0, distributions |-> 0, provenance |-> "not_applicable",
   mechanism |-> TRUE, sourced |-> TRUE]
Sober ==
  [horizon |-> 24,
   bundles |-> [bear |-> Bundle(0, 2, 6, 7), base |-> Bundle(1, 2, 8, 9),
                bull |-> Bundle(2, 2, 10, 12)]]

BundleSlips ==
  [horizon : {36}] \cup [growth : {-1, 1, 2, 3, -10}] \cup [margin : {0, 1, 3}]
  \cup [low : {5, 9, 11}] \cup [high : {8, 10, 13}] \cup [sourced : {FALSE}]
  \cup [debt : {-1, 1}, provenance : {"source_backed"}] \cup [debt : {1}]
  \cup [shares : {-1, 1, -10}] \cup [shares : {1}, mechanism : {FALSE}]
Payouts == [ScenarioCases -> {0, 1}]
Paid(p, payout) ==
  [p EXCEPT !.bundles = [c \in ScenarioCases |-> [@[c] EXCEPT !.distributions = payout[c]]]]
Even(p, slip) ==                              \* the slip in every case
  [p EXCEPT !.bundles = [c \in ScenarioCases |-> slip @@ @[c]]]
ScenarioProposals ==
  {Paid(Sober, payout) : payout \in Payouts}
  \cup {Paid([Sober EXCEPT !.bundles[c] = slip @@ @], payout) :
          c \in ScenarioCases, slip \in BundleSlips, payout \in {x \in Payouts : x["bear"] = 0}}
  \cup {Even(Sober, slip) : slip \in BundleSlips}
  \cup {[Even(Sober, [horizon |-> 30]) EXCEPT !.horizon = 30],
        [Sober EXCEPT !.bundles = [c \in {"bear", "base"} |-> @[c]]]}

Case(company, bear, base, bull, confidence) ==
  [company |-> company, available |-> TRUE, bear |-> bear, base |-> base, bull |-> bull,
   confidence |-> confidence, challenged |-> FALSE, held |-> Absent, required |-> 10]
CaseSlips ==
  [available : {FALSE}] \cup [confidence : {"low", "high"}] \cup [challenged : {TRUE}]
  \cup [held : {"A", "C"}] \cup [bear : {-3, 0, 2}] \cup [base : {<<8, 9>>, <<12, 14>>}]
  \cup [bull : {24}] \cup [bear : {3}, confidence : {"low"}]
ScenarioBooks ==
  LET Near(case) == {case} \cup {slip @@ case : slip \in CaseSlips} IN
  {{x, y, z} : x \in Near(Case(1, 1, <<10, 12>>, 20, "high")),
               y \in Near(Case(2, 1, <<9, 11>>, 20, "medium")),
               z \in Near(Case(3, 1, <<9, 11>>, 21, "low"))}

(* Other facts meet proposals that pay nothing out; a second attempt is    *)
(* sober, and books are ranked beside Steady.                           *)
NoPayouts ==
  {p \in ScenarioProposals : \A c \in DOMAIN p.bundles : p.bundles[c].distributions = 0}
Dull == {Case(1, 1, <<10, 12>>, 20, "high")}
MCBooks == ScenarioBooks \cup {Dull}
ScenarioStart == ValuationInit /\ (facts # Steady => book = Dull)
Answered ==
  CASE valuation.proposal # Absent -> {Sober}
    [] valuation.proposal = Absent /\ facts # Steady -> NoPayouts
    [] OTHER -> Proposals
ScenarioStep ==
  \/ book = Dull /\ (PassGate \/ SaveAttribution \/ \E p \in Answered : Value(p))
  \/ RankBook
ScenarioSpec == ScenarioStart /\ [][ScenarioStep]_valuationVars
=============================================================================
