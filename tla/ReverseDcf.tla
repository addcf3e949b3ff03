------------------------------ MODULE ReverseDcf ------------------------------
(***************************************************************************)
(* What a price takes for granted: the reports and the price of a company  *)
(* become assumptions (DcfAssumptionPolicy), the engine values the free    *)
(* cash flow they imply, and the skill solves one assumption at a time,    *)
(* and a curve of margins over growth, for the current price.              *)
(*                                                                         *)
(* Rates are whole thousandths and amounts thousandths of a report's unit, *)
(* rounded down; the price tolerance is below that grid, and the tolerance *)
(* of the bisection is one step of it.                                     *)
(***************************************************************************)
EXTENDS Sums, Sequences, SequencesExt

CONSTANTS
  Missing,        \* None
  Dossiers        \* what the repositories hold of a company, as records

VARIABLES
  dossier,        \* branch, price, reports and ROIC of the company
  analysis        \* ReverseDcfAnalysis; Missing before

dcfVars == <<dossier, analysis>>

(* What a dossier holds: amounts that may be missing.                      *)
Amounts == Int \cup {Missing}
ReportFields == [year : Amounts, revenue : Amounts, ebit : Amounts, fcf : Amounts, investing : Amounts]
IsDossier(e) ==
  /\ e.history \in Seq(ReportFields) /\ e.annual \in ReportFields \cup {Missing} /\ e.roic \in Amounts
  /\ e.price # Missing => e.price.close \in Int /\ e.price.age \in Int
  /\ e.current # Missing =>
       \A name \in {"revenue", "ebit", "shares", "debt"} : e.current[name] \in Amounts
ASSUME DossiersAreTyped == Missing \notin Int /\ \A e \in Dossiers : IsDossier(e)

Years == 5
TaxRate == 210
MatureGrowth == 20
MaxPriceDays == 7
SolveBounds ==
  [growth |-> <<-100, 300>>, margin |-> <<0, 500>>, terminal |-> <<-10, 40>>]
CurveGrowth == {-50, 0, 50, 100, 150, 200, 250, 300}

MoreThanZero(value) == value # Missing /\ value > 0
Within(value, least, most) == Max({least, Min({value, most})})
Told(values) == SelectSeq(values, LAMBDA v : v # Missing)
Ratio(x, y) == (1000 * x) \div y
Times(x, rate) == (x * rate) \div 1000
LatestOf(count, list) == SubSeq(list, Max({1, Len(list) - count + 1}), Len(list))
-----------------------------------------------------------------------------
(* DcfAssumptionPolicy: the annual reports that count, a year once and in  *)
(* order; undated reports only where none is dated.                        *)
HasEconomics(r) == r # Missing /\ MoreThanZero(r.revenue) /\ r.ebit # Missing

VariantAnnuals(e) == SelectSeq(Append(e.history, e.annual), HasEconomics)   \* a year counts as often as it is stored

Annuals(e) ==
  LET all == Append(e.history, e.annual)
      valid == {i \in DOMAIN all : HasEconomics(all[i])}
      dated == {all[i].year : i \in valid} \ {Missing}
      Of(year) == Max({i \in valid : all[i].year = year})
  IN [k \in 1 .. Cardinality(IF dated = {} THEN valid ELSE dated) |->
        all[IF dated = {} THEN InOrder(valid)[k] ELSE Of(InOrder(dated)[k])]]

(* _window: margins weighted by revenue.                                   *)
MarginOf(reports, name) ==
  LET told == {i \in DOMAIN reports : reports[i][name] # Missing} IN
  IF told = {} THEN Missing
  ELSE Ratio(AddUp([i \in told |-> reports[i][name]]), AddUp([i \in told |-> reports[i].revenue]))

(* _normalized_operating_economics: five years, three, the latest annual   *)
(* report or the current one.                                              *)
Selected(e) ==
  LET annuals == Annuals(e) IN
  CASE Len(annuals) >= 5 -> LatestOf(5, annuals)
    [] Len(annuals) \in 3 .. 4 -> LatestOf(3, annuals)
    [] Len(annuals) < 3 /\ HasEconomics(e.annual) -> <<e.annual>>
    [] Len(annuals) < 3 /\ ~HasEconomics(e.annual) /\ HasEconomics(e.current) -> <<e.current>>
    [] OTHER -> << >>

Yearly(annuals, name) ==
  Told([i \in DOMAIN LatestOf(5, annuals) |-> MarginOf(<<LatestOf(5, annuals)[i]>>, name)])

(* _fcf_diagnostics, with squares for the standard deviation.              *)
Volatile(margins) ==
  LET n == Len(margins)
      sum == AddUp(margins)
      spread == n * AddUp([i \in DOMAIN margins |-> margins[i] * margins[i]]) - sum * sum
      turns == {i \in 2 .. n : (margins[i] > 0) # (margins[i - 1] > 0)}
  IN /\ n >= 3
     /\ \/ spread >= 10000 * n * n
        \/ Max(ToSet(margins)) - Min(ToSet(margins)) >= 250
        \/ Cardinality(turns) >= 2
        \/ (sum >= 10 * n \/ sum <= -10 * n) /\ spread >= sum * sum

Apart(x, y, least) == x # Missing /\ y # Missing /\ (x - y >= least \/ y - x >= least)
Disagree(annuals) ==
  /\ Len(annuals) >= 5
  /\ \E name \in {"ebit", "fcf"} :
       Apart(MarginOf(LatestOf(3, annuals), name), MarginOf(LatestOf(5, annuals), name), 50)

HeavyInvesting(margins) ==
  /\ margins # << >>
  /\ \/ Apart(AddUp(margins), 0, 150 * Len(margins))
     \/ \E i \in DOMAIN margins : Apart(margins[i], 0, 300)

Reasons(e) ==
  LET annuals == Annuals(e) IN
  {reason \in {"few_years"} : Len(Selected(e)) < 3}
  \cup {reason \in {"negative_fcf"} :
          \E r \in ToSet(LatestOf(5, annuals)) : r.fcf # Missing /\ r.fcf <= 0}
  \cup {reason \in {"volatile_fcf"} : Volatile(Yearly(annuals, "fcf"))}
  \cup {reason \in {"windows_disagree"} : Disagree(annuals)}
  \cup {reason \in {"investing"} : HeavyInvesting(Yearly(annuals, "investing"))}
  \cup {reason \in {"no_roic"} : ~MoreThanZero(e.roic)}
Confidence(e) == IF Reasons(e) = {} THEN "medium" ELSE "low"
-----------------------------------------------------------------------------
(* _historical_revenue_growth: from the oldest report of the last three    *)
(* years to the latest, in whole hundredths, at once within GROWTH_RANGE.  *)
Baseline(e) ==
  LET told == SelectSeq(e.history, LAMBDA r : MoreThanZero(r.revenue))
      recent == {i \in DOMAIN told : told[i].year # Missing
                                      /\ e.annual.year - told[i].year \in 1 .. 3}
      count == Min({3, Len(told)})
  IN CASE told = << >> -> Missing
       [] /\ told # << >> /\ e.annual.year # Missing
          /\ \E r \in ToSet(told) : r.year # Missing ->
            IF recent = {} THEN Missing
            ELSE LET i == CHOOSE i \in recent : \A k \in recent : told[i].year <= told[k].year
                 IN [revenue |-> told[i].revenue, periods |-> e.annual.year - told[i].year]
       [] OTHER -> [revenue |-> told[Len(told) - count + 1].revenue, periods |-> count]

Growth(e) ==
  IF e.annual = Missing \/ ~MoreThanZero(e.annual.revenue) THEN 0
  ELSE LET b == Baseline(e) IN
       IF b = Missing THEN 0
       ELSE 10 * Max({g \in -5 .. 15 : \/ g = -5
                                       \/ b.revenue * (100 + g) ^ b.periods
                                            <= e.annual.revenue * 100 ^ b.periods})

(* RequiredReturnPolicy: the hurdle of the bucket, in SEK only.            *)
Hurdle(cap) ==
  CASE cap < 1 -> 150 [] cap \in 1 .. 4 -> 135 [] cap \in 5 .. 29 -> 115 [] OTHER -> 100

Currency(e) ==
  CASE e.price # Missing /\ e.price.currency # Missing -> e.price.currency
    [] OTHER -> IF e.current = Missing \/ e.current.currency = Missing
                THEN "SEK" ELSE e.current.currency
Shares(e) == IF e.current = Missing THEN Missing ELSE e.current.shares
MarketCap(e) ==
  IF e.price = Missing \/ ~MoreThanZero(Shares(e)) THEN Missing
  ELSE e.price.close * Shares(e)

(* build: what stops it, in this order, and the assumptions.               *)
PolicyGaps(e) ==
  CASE e.current = Missing \/ ~MoreThanZero(e.current.revenue) -> {"revenue"}
    [] OTHER ->
       CASE Currency(e) # "SEK" \/ ~MoreThanZero(MarketCap(e)) -> {"required_return"}
         [] OTHER -> IF Selected(e) = << >> THEN {"ebit_history"} ELSE {}

Assumptions(e) ==
  LET roic == IF MoreThanZero(e.roic) THEN e.roic ELSE Missing
      margin == MarginOf(Selected(e), "ebit")
      share == IF roic = Missing THEN 0 ELSE Within(Ratio(Growth(e), roic), 0, 1000)
  IN [growth |-> Growth(e), fadeTo |-> MatureGrowth, margin |-> margin,
      start |-> MarginOf(<<e.current>>, "ebit"), rate |-> Hurdle(MarketCap(e)),
      terminal |-> MatureGrowth, roic |-> roic,
      reinvestment |-> Within(Times(Times(margin, 1000 - TaxRate), share), -50, 150)]
-----------------------------------------------------------------------------
(* ReverseDcfEngine.value: five years of cash flow and what follows them.  *)
Fade(start, end, year) ==
  IF start = Missing THEN end ELSE start + ((end - start) * (year - 1)) \div (Years - 1)

CashFlow(revenue, nopat, a, growth) ==
  IF a.roic = Missing THEN nopat - Times(revenue, a.reinvestment)
  ELSE Times(nopat, 1000 - Min({1000, Ratio(Max({growth, 0}), a.roic)}))

AfterTax(revenue, margin) == Times(Times(revenue, margin), 1000 - TaxRate)

GrowthIn(a, y) == Fade(a.growth, a.fadeTo, y)
Sales(revenue, a) ==
  LET sales[y \in 0 .. Years] ==
        IF y = 0 THEN revenue ELSE Times(sales[y - 1], 1000 + GrowthIn(a, y))
  IN sales
Flow(sales, a, y) ==
  CashFlow(sales[y], AfterTax(sales[y], Fade(a.start, a.margin, y)), a, GrowthIn(a, y))
AfterYears(sales, a) ==
  LET last == Times(sales[Years], 1000 + a.terminal) IN
  Ratio(CashFlow(last, AfterTax(last, a.margin), a, a.terminal), a.rate - a.terminal)
Worth(sales, a) ==
  LET worth[y \in 1 .. Years + 1] ==
        IF y > Years THEN AfterYears(sales, a)
        ELSE Ratio(Flow(sales, a, y) + worth[y + 1], 1000 + a.rate)
  IN worth
EnterpriseValue(revenue, a) == Worth(Sales(revenue, a), a)[1]

(* _validate, of what the policy may hand over.                            *)
Calculable(a) ==
  /\ a.growth > -1000 /\ a.fadeTo > -1000 /\ a.terminal > -1000
  /\ a.rate > a.terminal /\ a.rate > -1000
  /\ a.roic # Missing => a.roic > 0

(* What the modeled price is above the current one, times the shares.      *)
Excess(e, a, name, value) ==
  EnterpriseValue(1000 * e.current.revenue, [a EXCEPT ![name] = value])
    - 1000 * (e.current.debt + MarketCap(e))
-----------------------------------------------------------------------------
(* solve: an end of the bounds, or bisection between ends on either side   *)
(* of the price.                                                           *)
SameSide(x, y) == (x > 0 /\ y > 0) \/ (x < 0 /\ y < 0)

VariantHalve(e, a, name, b) ==        \* the price is assumed to rise with the value
  LET implied == (b.low + b.high) \div 2
      excess == Excess(e, a, name, implied)
  IN CASE excess = 0 \/ b.high - b.low <= 1 -> [b EXCEPT !.implied = implied]
       [] excess # 0 /\ b.high - b.low > 1 /\ excess > 0 -> [b EXCEPT !.high = implied]
       [] OTHER -> [b EXCEPT !.low = implied, !.excess = excess]

Halve(e, a, name, b) ==
  LET implied == (b.low + b.high) \div 2
      excess == Excess(e, a, name, implied)
  IN CASE excess = 0 \/ b.high - b.low <= 1 -> [b EXCEPT !.implied = implied]
       [] excess # 0 /\ b.high - b.low > 1 /\ ~SameSide(b.excess, excess) ->
            [b EXCEPT !.high = implied]
       [] OTHER -> [b EXCEPT !.low = implied, !.excess = excess]

(* Ten halvings close the widest bounds on the grid; the code allows 200.  *)
Halvings == 12
Bisected(e, a, name, b) ==
  LET at[i \in 0 .. Halvings] ==
        IF i = 0 THEN b
        ELSE LET last == at[i - 1] IN
             IF last.implied # Missing THEN last ELSE Halve(e, a, name, last)
  IN at[Halvings].implied

(* _outside_direction, from the excess at the ends of the bounds.          *)
Direction(low, high) ==
  CASE low = high -> "not_determined"
    [] low # high /\ low < 0 -> IF high > low THEN "above_upper_bound" ELSE "below_lower_bound"
    [] OTHER -> IF high > low THEN "below_lower_bound" ELSE "above_upper_bound"

Solve(e, a, name) ==
  LET bounds == SolveBounds[name]
      low == Excess(e, a, name, bounds[1])
      high == Excess(e, a, name, bounds[2])
      Solved(value) == [status |-> "solved", implied |-> value]
  IN CASE low = 0 -> Solved(bounds[1])
       [] low # 0 /\ high = 0 -> Solved(bounds[2])
       [] SameSide(low, high) -> [status |-> "outside_bounds", direction |-> Direction(low, high)]
       [] OTHER -> Solved(Bisected(e, a, name,
                     [low |-> bounds[1], high |-> bounds[2], excess |-> low, implied |-> Missing]))
-----------------------------------------------------------------------------
(* analyze_reports: what is missing, or everything the price implies.      *)
Unsupported(e) == e.branch # "general"

PriceGaps(e) ==
  IF e.price = Missing THEN {"price"}
  ELSE {gap \in {"later_price"} : e.price.age < 0}
       \cup {gap \in {"old_price"} : e.price.age > MaxPriceDays}
       \cup {gap \in {"no_price"} : e.price.close <= 0}
       \cup {gap \in {"currencies"} :
               /\ e.current # Missing /\ Missing \notin {e.price.currency, e.current.currency}
               /\ e.price.currency # e.current.currency}
ReportGaps(e) ==
  IF e.current = Missing THEN {}
  ELSE {gap \in {"shares"} : ~MoreThanZero(e.current.shares)}
       \cup {gap \in {"debt"} : e.current.debt = Missing}

Analyze ==
  LET e == dossier
      gaps == PriceGaps(e) \cup PolicyGaps(e) \cup ReportGaps(e)
      a == Assumptions(e)
  IN /\ analysis = Missing
     /\ analysis' =
          CASE Unsupported(e) -> [status |-> "unsupported_model"]
            [] ~Unsupported(e) /\ gaps # {} -> [status |-> "unavailable", missing |-> gaps]
            [] ~Unsupported(e) /\ gaps = {} /\ ~Calculable(a) -> [status |-> "raised"]
            [] OTHER ->
                 [status |-> "available", assumptions |-> a, confidence |-> Confidence(e),
                  expectations |-> [name \in DOMAIN SolveBounds |-> Solve(e, a, name)],
                  curve |-> [g \in CurveGrowth |-> Solve(e, [a EXCEPT !.growth = g], "margin")]]
     /\ UNCHANGED dossier

DcfInit == dossier \in Dossiers /\ analysis = Missing
DcfSpec == DcfInit /\ [][Analyze]_dcfVars
-----------------------------------------------------------------------------
Available == analysis # Missing /\ analysis.status = "available"

(* Some value on the grid between the bounds reproduces the price, or has  *)
(* the price between itself and the next.                                  *)
Reaches(a, name, value) ==
  ~SameSide(Excess(dossier, a, name, value), Excess(dossier, a, name, value + 1))
Attainable(a, name) ==
  \E value \in SolveBounds[name][1] .. SolveBounds[name][2] - 1 : Reaches(a, name, value)

SolutionHolds(a, name, solution) ==
  solution.status = "solved" =>
    /\ solution.implied \in SolveBounds[name][1] .. SolveBounds[name][2]
    /\ \/ Reaches(a, name, solution.implied)
       \/ Excess(dossier, a, name, solution.implied) = 0

(* An implied assumption explains the price, whichever way the price moves *)
(* with it; a margin of the expectation curve is reported as outside its   *)
(* bounds only if no margin within them does, and on the side it names     *)
(* (ReverseDcfEngine.solve, ReverseDcfSkill._solve).                       *)
ExpectationsExplainPrice ==
  Available =>
    /\ \A name \in DOMAIN SolveBounds :
         SolutionHolds(analysis.assumptions, name, analysis.expectations[name])
    /\ \A g \in CurveGrowth :
         LET a == [analysis.assumptions EXCEPT !.growth = g]
             point == analysis.curve[g]
         IN /\ SolutionHolds(a, "margin", point)
            /\ point.status = "outside_bounds" =>
                 /\ ~Attainable(a, "margin")
                 /\ point.direction = "above_upper_bound" => Excess(dossier, a, "margin", 500) < 0
                 /\ point.direction = "below_lower_bound" => Excess(dossier, a, "margin", 0) > 0

(* The annual reports with revenue and EBIT, the years they are of, and of *)
(* the five latest years (of the five last reports, where no year is       *)
(* known) the one that was stored last.                                    *)
Filed(e) == Append(e.history, e.annual)
Reported(e) == {i \in DOMAIN Filed(e) : HasEconomics(Filed(e)[i])}
YearsReported(e) == {Filed(e)[i].year : i \in Reported(e)} \ {Missing}
Recent(e) ==
  IF YearsReported(e) = {} THEN {i \in Reported(e) : Cardinality({k \in Reported(e) : k > i}) < 5}
  ELSE {i \in Reported(e) :
          LET year == Filed(e)[i].year IN
          /\ year # Missing
          /\ \A k \in Reported(e) : Filed(e)[k].year = year => k <= i
          /\ Cardinality({y \in YearsReported(e) : y > year}) < 5}

(* No analysis ends in an exception.  One that is not of low confidence    *)
(* rests on three distinct years, or on three reports where no report is   *)
(* dated; on a margin between theirs; on a positive return on capital; and *)
(* none of its five latest years told a free cash flow that was not        *)
(* positive.  A year that tells none lowers no confidence                  *)
(* (DcfAssumptionPolicy.build).                                            *)
ConfidenceRestsOnHistory ==
  /\ analysis # Missing => analysis.status # "raised"
  /\ (Available /\ analysis.confidence # "low") =>
       LET Of(i) == Filed(dossier)[i]
           margin == analysis.assumptions.margin
       IN /\ \/ Cardinality(YearsReported(dossier)) >= 3
             \/ YearsReported(dossier) = {} /\ Cardinality(Reported(dossier)) >= 3
          /\ \E i \in Reported(dossier) : Ratio(Of(i).ebit, Of(i).revenue) <= margin
          /\ \E i \in Reported(dossier) : Ratio(Of(i).ebit, Of(i).revenue) >= margin
          /\ \A i \in Recent(dossier) : Of(i).fcf # Missing => Of(i).fcf > 0
          /\ analysis.assumptions.roic # Missing

(* A price that some value within the bounds explains is not reported as   *)
(* outside them.                                                           *)
OutsideIsUnattainable ==
  Available =>
    \A name \in DOMAIN SolveBounds :
      analysis.expectations[name].status = "outside_bounds" =>
        ~Attainable(analysis.assumptions, name)
=============================================================================
