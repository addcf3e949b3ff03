-------------------------- MODULE RankingPerformance --------------------------
(***************************************************************************)
(* The realized performance of a monthly ranking.  RankingPerformanceJob   *)
(* runs every day, computes the gross total return of each company of the  *)
(* ranking up to every horizon that has passed, and stores one evaluation  *)
(* per horizon, which it replaces until one is complete.  Meanwhile prices *)
(* and dividend calendars are synchronised, an operator reviews dividend   *)
(* events, and a comparative review adds its members to the ranking.       *)
(*                                                                         *)
(* One call of the job is one step, except that prices, which are only     *)
(* added, are read together.  Prices keep the value Price, so the return   *)
(* of a company is the number of shares one share becomes when dividends   *)
(* are reinvested.                                                         *)
(***************************************************************************)
EXTENDS Integers, Sequences, FiniteSetsExt

CONSTANTS
  Holdings,      \* the companies of the ranking
  Price,
  PriceAge,      \* MAX_PRICE_AGE_DAYS
  MonthDays,     \* days in a month
  LastDay,       \* bound on the days
  LastHorizon,   \* max_horizon_months
  Dividends,     \* the events a calendar may have: [day, amount, foreign]
  MaxChanges     \* bound on calendars, decisions, failures and attached members

ASSUME PerformanceAssumption ==
  /\ {Price, MonthDays, LastDay, LastHorizon} \subseteq Nat \ {0}
  /\ {PriceAge, MaxChanges} \subseteq Nat
  /\ Dividends \subseteq [day : 1 .. LastDay, amount : Nat \ {0}, foreign : BOOLEAN]

VARIABLES
  today,
  priced,       \* the days with a price, per company
  calendar,     \* company_dividends, per company
  covered,      \* dividend_data_coverage: covered_through, 0 for no row
  decisions,    \* dividend_event_reviews, per company and event
  benchmarked,  \* the days with a gross-total-return value of OMXS30GI
  members,      \* {comparative_final_actionable_company_ids}, or {} without the key
  evaluations,  \* ranking_performance_evaluations, by horizon
  evaluator,    \* the memory of the job
  changes

market == <<today, priced, calendar, covered, decisions, benchmarked, members, changes>>
perfVars == <<market, evaluations, evaluator>>
-----------------------------------------------------------------------------
TradingDays == 1 .. LastDay
Horizons == 1 .. LastHorizon
Target(h) == 1 + h * MonthDays       \* the ranking is of day 1
Decisions == {"pending", "approved", "excluded"}

OnOrAfter(days, d) ==
  LET near == {k \in days : d <= k /\ k <= d + PriceAge} IN
  IF near = {} THEN 0 ELSE Min(near)
OnOrBefore(days, d) ==
  LET near == {k \in days : d - PriceAge <= k /\ k <= d} IN
  IF near = {} THEN 0 ELSE Max(near)

(* RealizedTotalReturnCalculator.calculate, after its calls: `events` are  *)
(* the dividends between the two prices, `reviews` what was decided.       *)
Decided(reviews, e, status) == e \in DOMAIN reviews /\ reviews[e] = status
Counted(events, reviews) == {e \in events : ~Decided(reviews, e, "excluded")}

Amount(e) == e.amount
PaidOn(events, d) == MapThenSumSet(Amount, {e \in events : e.day = d})

(* The shares after the events up to each day, as a fraction.              *)
Shares(events) ==
  LET shares[d \in 0 .. LastDay] ==
        IF d = 0 THEN <<1, 1>>
        ELSE IF PaidOn(events, d) = 0 THEN shares[d - 1]
        ELSE <<shares[d - 1][1] * (Price + PaidOn(events, d)), shares[d - 1][2] * Price>>
  IN  shares
MoreThanTwo(fraction) == fraction[1] > 2 * fraction[2]

VariantQuarantined(events, reviews, d) ==     \* each day judged by itself
  LET unreviewed == {e \in events : e \notin DOMAIN reviews /\ e.day = d} IN
  \/ \E e \in unreviewed : e.amount >= Price
  \/ unreviewed # {} /\ MoreThanTwo(Shares(events)[d])

(* The event, or the shares with any event not reviewed so far, is too     *)
(* much to be believed.                                                    *)
Quarantined(events, reviews, d) ==
  LET unreviewed == {e \in events : e \notin DOMAIN reviews /\ e.day <= d} IN
  \/ \E e \in unreviewed : e.day = d /\ e.amount >= Price
  \/ unreviewed # {} /\ MoreThanTwo(Shares(events)[d])

Unpriced(days, end, d) == OnOrAfter(days, d) = 0 \/ OnOrAfter(days, d) > end

Observation(events, reviews, days, end) ==
  LET counted == Counted(events, reviews)
      doubtful == {d \in {e.day : e \in counted} :
                     Unpriced(days, end, d) \/ Quarantined(counted, reviews, d)}
      issue ==
        CASE \E e \in counted : Decided(reviews, e, "pending") -> "dividend_review_required"
          [] \E e \in counted : e.foreign -> "currency_mismatch"
          [] doubtful # {} /\ Unpriced(days, end, Min(doubtful)) -> "missing_price"
          [] doubtful # {} -> "dividend_review_required"
          [] OTHER -> "none"
  IN  [issue |-> issue, counted |-> counted,
       unreviewed |-> {e \in counted : e \notin DOMAIN reviews}]

Unobserved(issue) == [issue |-> issue, counted |-> {}, unreviewed |-> {}]
-----------------------------------------------------------------------------
(* Of the five lists of a ranking, the reviewed one is `members`; the      *)
(* others hold every company and are not empty.  The job observes each     *)
(* company of each list, one after the other.                              *)
Lists == {"final", "individual", "deterministic", "universe"}
ListOf(list, final) == IF list = "final" THEN final ELSE Holdings
Pairs(final) == UNION {{list} \X ListOf(list, final) : list \in Lists}

FinalIds(row) == UNION row

NoMemory ==
  [pc |-> "idle", asOf |-> 0, row |-> {}, horizon |-> 0, todo |-> {}, pair |-> << >>,
   start |-> 0, end |-> 0, events |-> {}, seen |-> << >>, benchmark |-> FALSE]

PerfInit ==
  /\ today = 1
  /\ priced = [c \in Holdings |-> {}] /\ calendar = [c \in Holdings |-> {}]
  /\ covered = [c \in Holdings |-> 0] /\ decisions = [c \in Holdings |-> << >>]
  /\ benchmarked = {} /\ members = {}
  /\ evaluations = << >> /\ evaluator = NoMemory /\ changes = 0

EvaluatorAt(pc) == evaluator.pc = pc
Evaluator(memory) == evaluator' = memory

(* list_monthly_runs: the row of the ranking as it is now.                 *)
StartEvaluation ==
  /\ EvaluatorAt("idle")
  /\ Evaluator([NoMemory EXCEPT !.pc = "horizon", !.asOf = today, !.row = members])
  /\ UNCHANGED <<market, evaluations>>

(* The next horizon, unless it ends after today; the benchmark's basis.    *)
NextHorizon ==
  LET m == evaluator
      h == m.horizon + 1
  IN
  /\ EvaluatorAt("horizon")
  /\ Evaluator(IF h \notin Horizons \/ Target(h) > m.asOf THEN NoMemory
               ELSE [m EXCEPT !.pc = "prices", !.horizon = h,
                       !.todo = Pairs(FinalIds(m.row)), !.seen = << >>])
  /\ UNCHANGED <<market, evaluations>>

Observed(m, observation) ==
  [m EXCEPT !.pc = "prices", !.todo = m.todo \ {m.pair},
     !.seen = [pair \in DOMAIN m.seen \cup {m.pair} |->
                 IF pair = m.pair THEN observation ELSE m.seen[pair]]]

(* _company_total_return and the head of calculate: both prices.           *)
ReadPrices ==
  LET m == evaluator IN
  /\ EvaluatorAt("prices") /\ m.todo # {}
  /\ LET pair == CHOOSE pair \in m.todo : TRUE
         start == OnOrAfter(priced[pair[2]], 1)
         end == OnOrBefore(priced[pair[2]], Target(m.horizon))
         at == [m EXCEPT !.pair = pair, !.start = start, !.end = end]
     IN  Evaluator(IF start = 0 \/ end = 0 THEN Observed(at, Unobserved("missing_price"))
                   ELSE [at EXCEPT !.pc = "coverage"])
  /\ UNCHANGED <<market, evaluations>>

(* get_coverage *)
ReadCoverage ==
  LET m == evaluator IN
  /\ EvaluatorAt("coverage")
  /\ Evaluator(IF covered[m.pair[2]] < m.end THEN Observed(m, Unobserved("incomplete_dividends"))
               ELSE [m EXCEPT !.pc = "dividends"])
  /\ UNCHANGED <<market, evaluations>>

(* get_dividends *)
ReadDividends ==
  LET m == evaluator IN
  /\ EvaluatorAt("dividends")
  /\ Evaluator([m EXCEPT !.pc = "reviews",
       !.events = {e \in calendar[m.pair[2]] : m.start < e.day /\ e.day <= m.end}])
  /\ UNCHANGED <<market, evaluations>>

(* get_reviews, and the return of the company.                             *)
ReadReviews ==
  LET m == evaluator
      c == m.pair[2]
  IN
  /\ EvaluatorAt("reviews")
  /\ Evaluator(Observed([m EXCEPT !.events = {}],
                        Observation(m.events, decisions[c], priced[c], m.end)))
  /\ UNCHANGED <<market, evaluations>>

(* _benchmark_return *)
ReadBenchmark ==
  LET m == evaluator IN
  /\ EvaluatorAt("prices") /\ m.todo = {}
  /\ Evaluator([m EXCEPT !.pc = "save", !.pair = << >>, !.start = 0, !.end = 0,
                  !.benchmark = /\ OnOrAfter(benchmarked, 1) # 0
                                /\ OnOrBefore(benchmarked, Target(m.horizon)) # 0])
  /\ UNCHANGED <<market, evaluations>>

(* evaluate: the status.                                                   *)
StatusOf(m) ==
  CASE FinalIds(m.row) = {} -> "insufficient_membership"
    [] FinalIds(m.row) # {}
         /\ m.benchmark /\ \A pair \in DOMAIN m.seen : m.seen[pair].issue = "none" -> "complete"
    [] OTHER -> "pending"

EvaluationOf(m) == [status |-> StatusOf(m), seen |-> m.seen, asOf |-> m.asOf]

Stored(h, value) ==
  [k \in DOMAIN evaluations \cup {h} |-> IF k = h THEN value ELSE evaluations[k]]
AfterSaving(m) == [m EXCEPT !.pc = "horizon", !.seen = << >>, !.benchmark = FALSE]

(* save_performance_evaluation: inserted, or replaced unless complete.     *)
SaveEvaluation ==
  LET h == evaluator.horizon IN
  /\ EvaluatorAt("save")
  /\ evaluations' = IF h \in DOMAIN evaluations /\ evaluations[h].status = "complete"
                    THEN evaluations ELSE Stored(h, EvaluationOf(evaluator))
  /\ Evaluator(AfterSaving(evaluator))
  /\ UNCHANGED market

(* A call fails or the process is killed.                                  *)
StopEvaluation ==
  /\ ~EvaluatorAt("idle") /\ changes < MaxChanges /\ changes' = changes + 1
  /\ Evaluator(NoMemory)
  /\ UNCHANGED <<today, priced, calendar, covered, decisions, benchmarked, members, evaluations>>
-----------------------------------------------------------------------------
Changes == changes < MaxChanges /\ changes' = changes + 1 /\ UNCHANGED <<evaluations, evaluator>>

NextDay ==
  /\ today < LastDay /\ today' = today + 1
  /\ UNCHANGED <<priced, calendar, covered, decisions, benchmarked, members, changes,
                 evaluations, evaluator>>

(* The price synchronisation: every day up to today.                       *)
SyncPrices(c) ==
  /\ priced' = [priced EXCEPT ![c] = 1 .. today]
  /\ UNCHANGED <<today, calendar, covered, decisions, benchmarked, members, changes,
                 evaluations, evaluator>>

SyncBenchmark ==
  /\ benchmarked' = 1 .. today
  /\ UNCHANGED <<today, priced, calendar, covered, decisions, members, changes,
                 evaluations, evaluator>>

(* replace_calendar: events that are no longer reported go, what was       *)
(* decided about them stays.                                               *)
ReplaceCalendar(c, events) ==
  /\ Changes
  /\ calendar' = [calendar EXCEPT ![c] = events] /\ covered' = [covered EXCEPT ![c] = today]
  /\ UNCHANGED <<today, priced, decisions, benchmarked, members>>

(* review_events, of one stored event.                                     *)
ReviewEvent(c, e, status) ==
  /\ Changes /\ e \in calendar[c]
  /\ decisions' = [decisions EXCEPT ![c] =
       [x \in DOMAIN decisions[c] \cup {e} |-> IF x = e THEN status ELSE decisions[c][x]]]
  /\ UNCHANGED <<today, priced, calendar, covered, benchmarked, members>>

(* attach_to_ranking_run of a comparative review, once.                    *)
AttachMembers(final) ==
  /\ Changes /\ members = {} /\ members' = {final}
  /\ UNCHANGED <<today, priced, calendar, covered, decisions, benchmarked>>

EvaluatorStep ==
  \/ StartEvaluation \/ NextHorizon \/ ReadPrices \/ ReadCoverage \/ ReadDividends
  \/ ReadReviews \/ ReadBenchmark \/ SaveEvaluation

PerfNext ==
  \/ EvaluatorStep \/ StopEvaluation
  \/ NextDay \/ SyncBenchmark
  \/ \E c \in Holdings :
       \/ SyncPrices(c)
       \/ \E events \in SUBSET Dividends : ReplaceCalendar(c, events)
       \/ \E e \in Dividends, status \in Decisions : ReviewEvent(c, e, status)
  \/ \E final \in SUBSET Holdings : AttachMembers(final)

PerfSpec == PerfInit /\ [][PerfNext]_perfVars /\ WF_perfVars(EvaluatorStep)
-----------------------------------------------------------------------------
(* A total return that is stored as complete has no quarantined dividend:  *)
(* with an event in it that nobody reviewed, no event reaches the price    *)
(* and the shares at most double over the whole period.                    *)
NoQuarantinedReturn ==
  \A h \in DOMAIN evaluations : evaluations[h].status = "complete" =>
    \A pair \in DOMAIN evaluations[h].seen :
      LET seen == evaluations[h].seen[pair] IN
      seen.unreviewed # {} =>
        /\ \A e \in seen.unreviewed : e.amount < Price
        /\ ~MoreThanTwo(Shares(seen.counted)[LastDay])
=============================================================================
