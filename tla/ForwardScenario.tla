---------------------------- MODULE ForwardScenario ----------------------------
(***************************************************************************)
(* The valuation of a company over its holding period: the readiness gate  *)
(* before a model is paid, the engine that validates three scenario        *)
(* bundles and calculates their bands, the attribution of every band end   *)
(* to its drivers, and the order in which the ranker puts the companies.   *)
(*                                                                         *)
(* Growth of revenue and of shares and margins are whole tenths, annual    *)
(* returns twentieths rounded down, so that the spread of 15 points is     *)
(* three; the tolerance of half a point is below that grid.                *)
(***************************************************************************)
EXTENDS Sums, Sequences, SequencesExt

CONSTANTS
  Absent,         \* None, and what is no finite number
  Facts,          \* the deterministic inputs of a company, as records
  Proposals,      \* the bundles a model may author, as functions of the case
  Books           \* the cases of a ranking, as sets of records

VARIABLES
  facts,          \* candidate.full_results, as the engine reads it
  valuation,      \* stage, bundles and what the engine made of them
  book,           \* the cases of a ranking
  ranks           \* ForwardScenarioRanker.rank, by company; << >> before

valuationVars == <<facts, valuation, book, ranks>>

Horizons == {24, 36, 48}
ScenarioCases == {"bear", "base", "bull"}
Drivers == {"growth", "margin", "debt", "shares", "distributions", "multiple"}
Ends == {"low", "high"}

Positive(value) == value # Absent /\ value > 0
BestOf(values) == IF values \ {Absent} = {} THEN Absent ELSE Max(values \ {Absent})
-----------------------------------------------------------------------------
(* The bounds the engine is given.                                         *)
Above(ceiling, f) ==
  LET known == IF ceiling = Absent THEN f.high ELSE ceiling IN
  IF f.multiple = Absent THEN known ELSE BestOf({f.multiple, known})
Enforced(f) ==
  [growth |-> BestOf(f.annualGrowth \cup {f.recentGrowth}),
   margin |-> BestOf({f.peakMargin, f.startMargin}),
   base |-> Above(f.baseCeiling, f), bull |-> Above(f.bullCeiling, f)]

(* ForwardScenarioEngine.assess_readiness                                  *)
MissingInputs(f) ==
  {name \in {"price", "revenue", "shares", "multiple"} : ~Positive(f[name])}
  \cup {name \in {"debt", "priceCurrency", "currency"} : f[name] = Absent}
  \cup IF Absent \notin {f.priceCurrency, f.currency} /\ f.priceCurrency # f.currency
       THEN {"matching_currency"} ELSE {}
Readiness(f) ==
  CASE f.model # "general"                             -> "method_not_supported"
    [] f.model = "general" /\ MissingInputs(f) # {}    -> "blocked"
    [] OTHER                                           -> "required"

(* AgentReadinessGate: what stops a packet before a model is paid.         *)
GateStatus(f) ==
  CASE f.model # "general"                     -> "method_unsupported"
    [] f.model = "general" /\ ~f.documents     -> "evidence_blocked"
    [] OTHER                                   -> "ready"
-----------------------------------------------------------------------------
(* ForwardScenarioEngine._validate: the faults of the facts, of a bundle,  *)
(* of the order of the cases and of their plausibility.                    *)
FactFaults(f) ==
  {name \in {"price", "revenue", "shares"} : ~Positive(f[name])}
  \cup {name \in {"debt", "priceCurrency", "currency"} : f[name] = Absent}
  \cup {name \in {"currency_mismatch"} : f.priceCurrency # f.currency}
  \cup {name \in {"historical_range"} :
          Absent \notin {f.low, f.high} /\ ~(f.low > 0 /\ f.high > 0 /\ f.low <= f.high)}

BundleFaults(b) ==
  {fault \in {"unsourced"} : ~b.sourced}
  \cup {fault \in {"provenance"} : b.debt = 0 <=> b.provenance # "not_applicable"}
  \cup {fault \in {"mechanism"} : (b.shares # 0 \/ b.distributions # 0) /\ ~b.mechanism}
  \cup {fault \in {"total_loss"} : b.growth <= -10 \/ b.shares <= -10}
  \cup {fault \in {"no_profit"} : b.margin <= 0}
  \cup {fault \in {"negative_distribution"} : b.distributions < 0}
  \cup {fault \in {"multiple_range"} : b.low <= 0 \/ b.high <= 0 \/ b.low > b.high}

VariantWorse(x, y) ==                         \* the distributions are forgotten
  /\ \A name \in {"growth", "margin", "low", "high"} : x[name] <= y[name]
  /\ \A name \in {"debt", "shares"} : x[name] >= y[name]

(* No driver of x is better than that of y.                                *)
Worse(x, y) ==
  /\ \A name \in {"growth", "margin", "distributions", "low", "high"} : x[name] <= y[name]
  /\ \A name \in {"debt", "shares"} : x[name] >= y[name]

Beyond(b, ceiling, bounds) ==
  {lever \in {"growth", "margin"} : bounds[lever] # Absent /\ b[lever] > bounds[lever]}
  \cup {lever \in {"multiple"} : Positive(ceiling) /\ b.high > ceiling}

Plausible(bundles, bounds) ==
  /\ Beyond(bundles["base"], bounds.base, bounds) = {}
  /\ LET bull == Beyond(bundles["bull"], bounds.bull, bounds) IN
     "multiple" \notin bull /\ Cardinality(bull) <= 1

ProposalHolds(f, p) ==
  /\ FactFaults(f) = {}
  /\ DOMAIN p.bundles = ScenarioCases
  /\ \A c \in ScenarioCases : p.bundles[c].horizon = p.horizon
  /\ p.horizon \in Horizons
  /\ \A c \in ScenarioCases : BundleFaults(p.bundles[c]) = {}
  /\ Worse(p.bundles["bear"], p.bundles["base"])
  /\ Worse(p.bundles["base"], p.bundles["bull"])
  /\ Plausible(p.bundles, Enforced(f))
-----------------------------------------------------------------------------
(* _calculate_endpoint.  Values per share are numerators over Unit times   *)
(* the diluted shares, the second component, in tenths of a share.         *)
YearsIn(horizon) == horizon \div 12
Power(x, years) ==
  CASE years = 2 -> x * x [] years = 3 -> x * x * x [] years = 4 -> x * x * x * x
Unit(horizon) == 10 * Power(10, YearsIn(horizon))
Equity(f, d, horizon) ==
  f.revenue * Power(10 + d.growth, YearsIn(horizon)) * d.margin * d.multiple
    - (f.debt + d.debt) * Unit(horizon)
Price(f, d, horizon) == <<10 * Equity(f, d, horizon), f.shares * (10 + d.shares)>>
Holding(f, d, horizon) ==
  LET price == Price(f, d, horizon) IN
  <<price[1] + d.distributions * Unit(horizon) * price[2], price[2]>>

AtMost(x, y) == x[1] * y[2] <= y[1] * x[2]

(* The whole twentieths a value grew by in a year (statistics.cagr), which *)
(* are no more than it grew by in all.                                     *)
Return(f, value, horizon) ==
  LET cost == f.price * Unit(horizon) * value[2]
      Reached(k) == Power(20 + k, YearsIn(horizon)) * cost <= Power(20, YearsIn(horizon)) * value[1]
  IN  IF value[1] <= 0 THEN Absent
      ELSE CHOOSE k \in -20 .. 20 * (value[1] \div cost) : Reached(k) /\ ~Reached(k + 1)

AtEnd(b, end) ==
  [name \in Drivers |-> IF name = "multiple" THEN b[end] ELSE b[name]]

BandEnd(f, b, end) ==
  LET held == Holding(f, AtEnd(b, end), b.horizon) IN
  [price |-> Price(f, AtEnd(b, end), b.horizon), holding |-> held,
   return |-> Return(f, held, b.horizon)]
Bands(f, p) == [c \in ScenarioCases |-> [end \in Ends |-> BandEnd(f, p.bundles[c], end)]]

(* _validate_outputs                                                       *)
OutputsHold(bands) ==
  /\ \A c \in ScenarioCases, end \in Ends :
       bands[c][end].price[1] > 0 /\ bands[c][end].holding[1] > 0
  /\ \A c \in ScenarioCases : AtMost(bands[c].low.price, bands[c].high.price)
  /\ AtMost(bands["bear"].high.price, bands["base"].low.price)
  /\ AtMost(bands["base"].high.price, bands["bull"].low.price)
  /\ bands["base"].high.return - bands["base"].low.return <= 3

(* ForwardScenarioEngine.analyze                                           *)
Unvalued(status) == [status |-> status, bands |-> << >>]
Analysis(f, p) ==
  LET bands == Bands(f, p) IN
  CASE f.model # "general"                            -> Unvalued("method_not_supported")
    [] f.model = "general" /\ ~ProposalHolds(f, p)    -> Unvalued("insufficient_evidence")
    [] OTHER -> [status |-> IF OutputsHold(bands) THEN "available" ELSE "insufficient_evidence",
                 bands |-> bands]
-----------------------------------------------------------------------------
(* build_scenario_driver_attribution: the Shapley value of every driver,   *)
(* from a company that does not change to the end of a band, in sixtieths  *)
(* and over the product of both share counts.                              *)
Unchanged(f) ==
  [name \in Drivers |-> CASE name = "margin"   -> f.reportMargin
                          [] name = "multiple" -> f.multiple
                          [] OTHER             -> 0]
ScaledHolding(f, d, target, horizon) ==
  LET held == Holding(f, d, horizon)
      common == f.shares * 10 * (10 + target.shares)
  IN  held[1] * (common \div held[2])

Weight(size) == <<10, 2, 1, 1, 2, 10>>[size + 1]
Mixed(f, target, from) ==
  [name \in Drivers |-> IF name \in from THEN target[name] ELSE Unchanged(f)[name]]

Contribution(f, driver, target, horizon) ==
  LET At(from) == ScaledHolding(f, Mixed(f, target, from), target, horizon)
      Gain(from) == At(from \cup {driver}) - At(from)
  IN  AddUp([from \in SUBSET (Drivers \ {driver}) |-> Weight(Cardinality(from)) * Gain(from)])

Attributable(f) ==
  \A name \in {"revenue", "shares", "debt", "reportMargin", "multiple"} : f[name] # Absent
Attribution(f, p) ==
  IF ~Attributable(f) THEN << >>
  ELSE [c \in ScenarioCases |-> [end \in Ends |->
          [driver \in Drivers |->
             Contribution(f, driver, AtEnd(p.bundles[c], end), p.horizon)]]]
-----------------------------------------------------------------------------
(* ForwardScenarioRanker, with returns in whole percents: the tier of a    *)
(* case, the key it is ordered by, and the ranks of a book.                *)
TierOrder == [A |-> 0, B |-> 1, C |-> 2, IE |-> 3, RESEARCH |-> 4]
ConfidenceOrder == [low |-> 0, medium |-> 1, high |-> 2]

EconomicTier(case) ==
  CASE ~case.available                                          -> "IE"
    [] case.available /\ case.held # Absent                       -> case.held
    [] case.available /\ case.held = Absent /\ case.base[1] >= case.required -> "A"
    [] case.available /\ case.held = Absent /\ case.base[1] < case.required
         /\ case.base[2] >= case.required                       -> "B"
    [] OTHER                                                    -> "C"
ShownTier(case) ==
  LET economic == EconomicTier(case) IN
  CASE case.challenged                                  -> "RESEARCH"
    [] ~case.challenged /\ economic # "IE" /\ case.confidence = "low"
                                                        -> IF economic = "A" THEN "B" ELSE "C"
    [] OTHER                                            -> economic
Actionable(case) == ShownTier(case) \in {"A", "B"}

(* _quantize: steps of two percent, to the nearest; nothing is very low.   *)
Quantize(percent) == (percent + 1) \div 2
Nothing == -1000000000

VariantTieKey(case) ==                        \* the lower confidence first
  LET Q(percent) == IF case.available THEN Quantize(percent) ELSE Nothing IN
  <<TierOrder[ShownTier(case)], -Q(case.bear), -Q(case.base[1]),
    ConfidenceOrder[case.confidence], Q(case.base[2] - case.base[1]), -Q(case.bull)>>
TieKey(case) ==
  LET Q(percent) == IF case.available THEN Quantize(percent) ELSE Nothing IN
  <<TierOrder[ShownTier(case)], -Q(case.bear), -Q(case.base[1]),
    -ConfidenceOrder[case.confidence], Q(case.base[2] - case.base[1]), -Q(case.bull)>>

Precedes(x, y) ==
  \E i \in 1 .. Len(x) : x[i] < y[i] /\ \A j \in 1 .. i - 1 : x[j] = y[j]

(* Sorted by their keys, the first of equals has the rank of them all: one *)
(* more than there are before it.                                          *)
Ahead(case, cases) == {x \in cases : Precedes(TieKey(x), TieKey(case))}
Ranks(cases) ==
  [c \in {case.company : case \in cases} |->
     LET case == CHOOSE case \in cases : case.company = c IN
     [tier |-> ShownTier(case), rank |-> 1 + Cardinality(Ahead(case, cases)),
      tied |-> \E x \in cases : x # case /\ TieKey(x) = TieKey(case),
      actionable |-> Actionable(case)]]

(* A case is a RankedForwardCase with what its company held before; a book *)
(* has one case of a company.                                              *)
IsCase(case) ==
  /\ case = [company |-> case.company, available |-> case.available, bear |-> case.bear,
             base |-> case.base, bull |-> case.bull, confidence |-> case.confidence,
             challenged |-> case.challenged, held |-> case.held, required |-> case.required]
  /\ case.available \in BOOLEAN /\ case.challenged \in BOOLEAN
  /\ case.confidence \in DOMAIN ConfidenceOrder
  /\ case.held \in {Absent, "A", "B", "C"}
  /\ case.available =>
       case.bear \in Int /\ case.base \in Int \X Int /\ case.bull \in Int /\ case.required \in Int
ASSUME BooksHaveCases ==
  \A cases \in Books :
    /\ IsFiniteSet(cases)
    /\ \A case \in cases : IsCase(case)
    /\ \A x, y \in cases : x.company = y.company => x = y

(* Numbers of the facts may be missing; those of a bundle are numbers.     *)
IsBundle(b) ==
  \A name \in {"growth", "margin", "debt", "shares", "distributions", "low", "high"} : b[name] \in Int
ASSUME ValuesAreTyped ==
  /\ \A f \in Facts, name \in {"price", "revenue", "shares", "debt", "multiple", "reportMargin"} :
       f[name] \in Int \cup {Absent}
  /\ \A p \in Proposals : \A c \in DOMAIN p.bundles : IsBundle(p.bundles[c])
-----------------------------------------------------------------------------
Nowhere == [stage |-> "packet", proposal |-> Absent, analysis |-> Unvalued("none"),
            attribution |-> << >>]

ValuationInit ==
  facts \in Facts /\ valuation = Nowhere /\ book \in Books /\ ranks = << >>

(* The gate, and then the readiness of the scenario stage.                 *)
PassGate ==
  /\ valuation.stage = "packet"
  /\ valuation' = [valuation EXCEPT !.stage =
       CASE GateStatus(facts) # "ready"                                      -> "refused"
         [] GateStatus(facts) = "ready" /\ Readiness(facts) # "required"     -> "qualitative"
         [] OTHER                                                            -> "scenario"]
  /\ UNCHANGED <<facts, book, ranks>>

(* Bundles are authored and analyzed; those the engine does not accept are *)
(* rejected, and the stage may be tried again.                             *)
Value(p) ==
  /\ valuation.stage = "scenario"
  /\ LET analysis == Analysis(facts, p)
         accepted == analysis.status = "available" IN
     valuation' = [valuation EXCEPT !.stage = IF accepted THEN "valued" ELSE "scenario",
                                    !.proposal = p, !.analysis = analysis]
  /\ UNCHANGED <<facts, book, ranks>>

(* The boundary attributes the bands when it persists the card.            *)
SaveAttribution ==
  /\ valuation.stage = "valued"
  /\ valuation' = [valuation EXCEPT !.stage = "saved",
                                    !.attribution = Attribution(facts, valuation.proposal)]
  /\ UNCHANGED <<facts, book, ranks>>

RankBook ==
  /\ ranks = << >> /\ ranks' = Ranks(book) /\ UNCHANGED <<facts, valuation, book>>

ValuationNext == PassGate \/ SaveAttribution \/ RankBook \/ \E p \in Proposals : Value(p)
ValuationSpec == ValuationInit /\ [][ValuationNext]_valuationVars
-----------------------------------------------------------------------------
(* What a valued company promises: from bear to bull, and within a case,   *)
(* no value of the holding and no annual return is lower.  The engine only *)
(* compares prices, and orders the distributions with the drivers; the     *)
(* ranking reads the returns.                                              *)
OutcomesAreOrdered ==
  valuation.stage \in {"valued", "saved"} =>
    LET bands == valuation.analysis.bands
        Follows(x, y) == AtMost(x.holding, y.holding) /\ x.return <= y.return
    IN  /\ \A c \in ScenarioCases : Follows(bands[c].low, bands[c].high)
        /\ Follows(bands["bear"].high, bands["base"].low)
        /\ Follows(bands["base"].high, bands["bull"].low)

(* The contributions of the drivers add up to the change of the value, at  *)
(* both ends of every band, and a driver that does not change adds none.   *)
AttributionAddsUp ==
  valuation.attribution # << >> =>
    \A c \in ScenarioCases, end \in Ends :
      LET p == valuation.proposal
          target == AtEnd(p.bundles[c], end)
          parts == valuation.attribution[c][end]
      IN  /\ AddUp(parts)
               = 60 * (ScaledHolding(facts, target, target, p.horizon)
                         - ScaledHolding(facts, Unchanged(facts), target, p.horizon))
          /\ \A driver \in Drivers :
               target[driver] = Unchanged(facts)[driver] => parts[driver] = 0

(* What is stored of a valuation agrees with itself: its outcomes are in   *)
(* order, and the drivers explain them.                                    *)
ValuationAgrees == OutcomesAreOrdered /\ AttributionAddsUp

(* Doubt never helps: a company whose evidence were less certain, all else *)
(* equal, would have no better rank, and would not become actionable.      *)
DoubtNeverHelps ==
  ranks # << >> =>
    \A case \in book, confidence \in DOMAIN ConfidenceOrder :
      ConfidenceOrder[confidence] < ConfidenceOrder[case.confidence] =>
        LET doubted == Ranks((book \ {case}) \cup {[case EXCEPT !.confidence = confidence]})
        IN  /\ doubted[case.company].rank >= ranks[case.company].rank
            /\ doubted[case.company].actionable => ranks[case.company].actionable
=============================================================================
