---------------------------- MODULE Operations_proofs ----------------------------
(***************************************************************************)
(* Proofs about the jobs of the scheduler: a complete total return has no  *)
(* quarantined dividend in it, a release is announced by one run, and a    *)
(* completed synchronisation means fresh data.                             *)
(***************************************************************************)
EXTENDS RankingPerformance, ReleaseIngestion, MarketSync, BoundedSets

(* 1. RankingPerformance.  A return is judged when it is observed, and     *)
(* kept in memory and in the table as it is; so the invariant says that    *)
(* what was observed is sound, and the work is in the return itself: the   *)
(* quarantine of the last day with an event covers the whole period.       *)
(* No event of a day: nothing is paid on it.                               *)
LEMMA NothingPaid ==
  ASSUME NEW events, NEW d, \A e \in events : e.day # d
  PROVE  PaidOn(events, d) = 0
<1> DEFINE Sum(f) == [s \in SUBSET {} |->
                        IF s = {} THEN 0
                        ELSE LET x == CHOOSE x \in s : TRUE IN Amount(x) + f[s \ {x}]]
<1>1. {e \in events : e.day = d} = {}
  OBVIOUS
<1>2. PaidOn(events, d) = MapThenSumSet(Amount, {})
  BY <1>1 DEF PaidOn
<1>3. MapThenSumSet(Amount, {}) = (CHOOSE f : f = Sum(f))[{}]
  BY DEF MapThenSumSet, MapThenFoldSet
<1>4. Sum([s \in SUBSET {} |-> 0]) = [s \in SUBSET {} |-> 0]
  OBVIOUS
<1>5. \A f : Sum(f)[{}] = 0
  OBVIOUS
<1> HIDE DEF Sum
<1>6. (CHOOSE f : f = Sum(f)) = Sum(CHOOSE f : f = Sum(f))
  BY <1>4
<1> QED
  BY <1>2, <1>3, <1>5, <1>6

(* The shares after each day are what their recursive definition says:     *)
(* there is no first day up to which no function satisfies it.             *)
Grown(events, shares, d) ==
  IF d = 0 THEN <<1, 1>>
  ELSE IF PaidOn(events, d) = 0 THEN shares[d - 1]
  ELSE <<shares[d - 1][1] * (Price + PaidOn(events, d)), shares[d - 1][2] * Price>>

LEMMA SharesUpTo ==
  ASSUME NEW events, NEW n \in 0 .. LastDay
  PROVE  \E f : f = [d \in 0 .. n |-> Grown(events, f, d)]
<1> DEFINE Exists(k) == \E f : f = [d \in 0 .. k |-> Grown(events, f, d)]
           Missing == {k \in 0 .. LastDay : ~Exists(k)}
<1>1. LastDay \in Nat
  BY PerformanceAssumption
<1>2. SUFFICES ASSUME Missing # {} PROVE FALSE
  OBVIOUS
<1>3. PICK k \in Missing : \A i \in Missing : k <= i
  <2> HIDE DEF Exists
  <2> QED
    BY <1>1, <1>2, LeastOf
<1>4. CASE k = 0
  <2>1. [d \in 0 .. 0 |-> <<1, 1>>] = [d \in 0 .. 0 |-> Grown(events, [i \in 0 .. 0 |-> <<1, 1>>], d)]
    BY DEF Grown
  <2> QED
    BY <1>3, <1>4, <2>1
<1>5. CASE k # 0
  <2>1. k - 1 \in 0 .. LastDay /\ k - 1 \notin Missing
    BY <1>1, <1>3, <1>5
  <2>2. PICK f : \A d \in 0 .. k - 1 : f[d] = Grown(events, f, d)
    <3>1. PICK f : f = [d \in 0 .. k - 1 |-> Grown(events, f, d)]
      BY <2>1
    <3> DEFINE step == [d \in 0 .. k - 1 |-> Grown(events, f, d)]
    <3>2. \A d \in 0 .. k - 1 : step[d] = Grown(events, f, d)
      OBVIOUS
    <3>3. f = step
      BY <3>1
    <3> HIDE DEF step
    <3> QED
      BY <3>2, <3>3
  <2> DEFINE g == [d \in 0 .. k |-> IF d = k THEN Grown(events, f, k) ELSE f[d]]
  <2>3. \A d \in 0 .. k : g[d] = Grown(events, g, d)
    <3> TAKE d \in 0 .. k
    <3>1. d # 0 => d - 1 \in 0 .. k - 1 /\ g[d - 1] = f[d - 1]
      BY <1>1, <1>3, <1>5
    <3>2. Grown(events, g, d) = Grown(events, f, d)
      BY <3>1 DEF Grown
    <3>3. d # k => f[d] = Grown(events, f, d)
      BY <2>2, <1>1, <1>3
    <3> QED
      BY <3>2, <3>3
  <2>4. g = [d \in 0 .. k |-> g[d]]
    OBVIOUS
  <2> HIDE DEF g
  <2>5. [d \in 0 .. k |-> g[d]] = [d \in 0 .. k |-> Grown(events, g, d)]
    BY <2>3
  <2>6. Exists(k)
    BY <2>4, <2>5
  <2> QED
    BY <1>3, <2>6
<1> QED
  BY <1>4, <1>5

LEMMA SharesGrow ==
  ASSUME NEW events
  PROVE  \A d \in 0 .. LastDay : Shares(events)[d] = Grown(events, Shares(events), d)
<1> DEFINE Step(f) == [d \in 0 .. LastDay |-> Grown(events, f, d)]
<1>1. LastDay \in 0 .. LastDay
  BY PerformanceAssumption
<1>2. \E f : f = Step(f)
  BY <1>1, SharesUpTo
<1>3. Shares(events) = CHOOSE f : f = Step(f)
  BY DEF Shares, Grown
<1>4. \A f, d : d \in 0 .. LastDay => Step(f)[d] = Grown(events, f, d)
  OBVIOUS
<1> HIDE DEF Step
<1>5. Shares(events) = Step(Shares(events))
  BY <1>2, <1>3
<1> QED
  BY <1>4, <1>5

(* After the last event the shares stay what they are.                     *)
LEMMA SharesSettle ==
  ASSUME NEW events, NEW last \in 0 .. LastDay, \A e \in events : ~(e.day > last)
  PROVE  Shares(events)[LastDay] = Shares(events)[last]
<1> DEFINE Moved == {d \in 0 .. LastDay : d >= last /\ Shares(events)[d] # Shares(events)[last]}
<1>1. LastDay \in Nat
  BY PerformanceAssumption
<1>2. SUFFICES ASSUME Moved # {} PROVE FALSE
  BY <1>1
<1>3. PICK d \in Moved : \A i \in Moved : d <= i
  <2>1. Moved \in SUBSET (0 .. LastDay)
    OBVIOUS
  <2> HIDE DEF Moved
  <2> QED
    BY <1>1, <1>2, <2>1, LeastOf
<1>4. d > last /\ d - 1 \in 0 .. LastDay /\ d - 1 >= last /\ d - 1 \notin Moved
  BY <1>1, <1>3
<1>5. PaidOn(events, d) = 0
  <2>1. \A e \in events : e.day # d
    BY <1>4
  <2> QED
    BY <2>1, NothingPaid
<1>6. Shares(events)[d] = Shares(events)[d - 1]
  <2>1. Shares(events)[d] = Grown(events, Shares(events), d)
    BY <1>3, SharesGrow
  <2>2. d # 0
    BY <1>3, <1>4
  <2> QED
    BY <1>5, <2>1, <2>2 DEF Grown
<1> QED
  BY <1>3, <1>4, <1>6
-----------------------------------------------------------------------------
(* A return without an issue has no quarantined dividend, whatever was     *)
(* decided and priced.                                                     *)
SoundReturn(seen) ==
  seen.issue = "none" /\ seen.unreviewed # {} =>
    /\ \A e \in seen.unreviewed : e.amount < Price
    /\ ~MoreThanTwo(Shares(seen.counted)[LastDay])

LEMMA ObservationSound ==
  ASSUME NEW events \in SUBSET Dividends, NEW reviews, NEW days, NEW end
  PROVE  SoundReturn(Observation(events, reviews, days, end))
<1> DEFINE counted == Counted(events, reviews)
           unreviewed == {e \in counted : e \notin DOMAIN reviews}
           doubtful == {d \in {e.day : e \in counted} :
                          Unpriced(days, end, d) \/ Quarantined(counted, reviews, d)}
           seen == Observation(events, reviews, days, end)
<1>1. seen.counted = counted /\ seen.unreviewed = unreviewed
  BY DEF Observation
<1>2. SUFFICES ASSUME seen.issue = "none", unreviewed # {}
               PROVE  /\ \A e \in unreviewed : e.amount < Price
                      /\ ~MoreThanTwo(Shares(counted)[LastDay])
  BY <1>1 DEF SoundReturn
<1>3. doubtful = {}
  <2> HIDE DEF counted
  <2> SUFFICES ASSUME doubtful # {} PROVE FALSE
    OBVIOUS
  <2> QED
    BY <1>2 DEF Observation, counted
<1>4. counted \subseteq Dividends /\ LastDay \in Nat /\ Price \in Nat
      /\ \A e \in counted : e.day \in 1 .. LastDay /\ e.amount \in Nat
  BY PerformanceAssumption DEF Counted
<1>5. \A e \in counted : ~Quarantined(counted, reviews, e.day)
  BY <1>3
<1> HIDE DEF counted
<1>6. \A e \in unreviewed : e.amount < Price
  BY <1>4, <1>5 DEF Quarantined
<1> DEFINE eventDays == {e.day : e \in counted}
           last == Max(eventDays)
<1>7. last \in eventDays /\ \A d \in eventDays : d <= last
  <2>1. eventDays \in SUBSET (0 .. LastDay) /\ eventDays # {}
    BY <1>2, <1>4
  <2> HIDE DEF eventDays
  <2> QED
    BY <1>4, <2>1, MaxIsGreatest
<1> HIDE DEF last
<1>8. PICK x \in counted : x.day = last
  BY <1>7
<1>9. ~MoreThanTwo(Shares(counted)[last])
  <2>1. {e \in counted : e \notin DOMAIN reviews /\ e.day <= last} # {}
    BY <1>2, <1>7
  <2> QED
    BY <1>5, <1>8, <2>1 DEF Quarantined
<1>10. Shares(counted)[LastDay] = Shares(counted)[last]
  <2>1. last \in 0 .. LastDay /\ \A e \in counted : ~(e.day > last)
    BY <1>4, <1>7
  <2> QED
    BY <2>1, SharesSettle
<1> QED
  BY <1>6, <1>9, <1>10
-----------------------------------------------------------------------------
(* The memory of the job.  What it has seen is sound, and what it is about *)
(* to look at is a company of the ranking.                                 *)
IsMemory(m) == DOMAIN m = DOMAIN NoMemory

EvaluatorShape ==
  /\ IsMemory(evaluator)
  /\ evaluator.row \subseteq SUBSET Holdings
  /\ evaluator.todo \subseteq Lists \X Holdings
  /\ evaluator.pc \in {"coverage", "dividends", "reviews"} =>
       evaluator.pair \in Lists \X Holdings
  /\ evaluator.events \subseteq Dividends

SeenSound(seen) == \A pair \in DOMAIN seen : SoundReturn(seen[pair])

(* A complete evaluation has no issue, and so no quarantined dividend.     *)
CompleteSound(evaluation) ==
  SeenSound(evaluation.seen) /\
  (evaluation.status = "complete" =>
     \A pair \in DOMAIN evaluation.seen : evaluation.seen[pair].issue = "none")

PerfInv ==
  /\ members \subseteq SUBSET Holdings
  /\ calendar \in [Holdings -> SUBSET Dividends]
  /\ EvaluatorShape /\ SeenSound(evaluator.seen)
  /\ \A h \in DOMAIN evaluations : CompleteSound(evaluations[h])

(* What is left to observe is a part of the lists.                         *)
LEMMA PairsType ==
  ASSUME NEW row \in SUBSET SUBSET Holdings
  PROVE  Pairs(FinalIds(row)) \subseteq Lists \X Holdings
<1>1. FinalIds(row) \subseteq Holdings
  BY DEF FinalIds
<1>2. \A list \in Lists : {list} \X ListOf(list, FinalIds(row)) \subseteq Lists \X Holdings
  BY <1>1 DEF ListOf
<1> QED
  BY <1>2 DEF Pairs

(* A pair that was observed is added to what is sound already.             *)
LEMMA ObservedSound ==
  ASSUME NEW m, NEW observation, IsMemory(m), SeenSound(m.seen), SoundReturn(observation)
  PROVE  LET after == Observed(m, observation) IN
         /\ IsMemory(after) /\ SeenSound(after.seen)
         /\ after.pc = "prices" /\ after.row = m.row /\ after.todo = m.todo \ {m.pair}
         /\ after.pair = m.pair /\ after.events = m.events
<1> DEFINE seen == [pair \in DOMAIN m.seen \cup {m.pair} |->
                      IF pair = m.pair THEN observation ELSE m.seen[pair]]
           todo == m.todo \ {m.pair}
<1>1. SeenSound(seen)
  BY DEF SeenSound
<1>2. Observed(m, observation) = [m EXCEPT !.pc = "prices", !.todo = todo, !.seen = seen]
  BY DEF Observed
<1> HIDE DEF seen, todo
<1>3. LET after == [m EXCEPT !.pc = "prices", !.todo = todo, !.seen = seen] IN
      /\ IsMemory(after) /\ after.seen = seen
      /\ after.pc = "prices" /\ after.row = m.row /\ after.todo = todo
      /\ after.pair = m.pair /\ after.events = m.events
  BY DEF IsMemory, NoMemory
<1> QED
  BY <1>1, <1>2, <1>3 DEF todo

LEMMA UnobservedSound == \A issue : SoundReturn(Unobserved(issue))
BY DEF SoundReturn, Unobserved

(* A step of the job that only moves its memory keeps the invariant.       *)
LEMMA MemoryMoves ==
  ASSUME PerfInv, UNCHANGED <<market, evaluations>>, EvaluatorShape', SeenSound(evaluator.seen)'
  PROVE  PerfInv'
BY DEF PerfInv, market

LEMMA NoMemoryFits ==
  ASSUME evaluator' = NoMemory
  PROVE  EvaluatorShape' /\ SeenSound(evaluator.seen)'
BY DEF EvaluatorShape, IsMemory, NoMemory, SeenSound

LEMMA PerfInitially == PerfInit => PerfInv
<1> SUFFICES ASSUME PerfInit PROVE PerfInv
  OBVIOUS
<1>1. EvaluatorShape /\ SeenSound(evaluator.seen)
  BY DEF EvaluatorShape, IsMemory, NoMemory, SeenSound, PerfInit
<1> QED
  BY <1>1 DEF PerfInit, PerfInv

(* Each reading step of the job.                                           *)
LEMMA ReadingsKeep ==
  ASSUME PerfInv,
         StartEvaluation \/ NextHorizon \/ ReadPrices \/ ReadCoverage \/ ReadDividends
           \/ ReadReviews \/ ReadBenchmark
  PROVE  PerfInv'
<1> DEFINE m == evaluator
<1>1. EvaluatorShape /\ SeenSound(m.seen) /\ UNCHANGED <<market, evaluations>>
  BY DEF PerfInv, StartEvaluation, NextHorizon, ReadPrices, ReadCoverage, ReadDividends,
         ReadReviews, ReadBenchmark
<1>2. /\ IsMemory(m) /\ m.row \subseteq SUBSET Holdings /\ m.todo \subseteq Lists \X Holdings
      /\ m.pc \in {"coverage", "dividends", "reviews"} => m.pair \in Lists \X Holdings
      /\ m.events \subseteq Dividends
  BY <1>1 DEF EvaluatorShape
<1>3. SUFFICES EvaluatorShape' /\ SeenSound(evaluator.seen)'
  BY <1>1, MemoryMoves
<1>4. CASE StartEvaluation
  <2>1. evaluator' = [NoMemory EXCEPT !.pc = "horizon", !.asOf = today, !.row = members]
    BY <1>4 DEF StartEvaluation, Evaluator
  <2>2. members \subseteq SUBSET Holdings
    BY DEF PerfInv
  <2> QED
    BY <2>1, <2>2 DEF NoMemory, EvaluatorShape, IsMemory, SeenSound
<1>5. CASE NextHorizon
  <2> DEFINE h == m.horizon + 1
             todo == Pairs(FinalIds(m.row))
  <2>1. CASE evaluator' = NoMemory
    BY <2>1, NoMemoryFits
  <2>2. CASE evaluator' = [m EXCEPT !.pc = "prices", !.horizon = h, !.todo = todo, !.seen = << >>]
    <3>1. todo \subseteq Lists \X Holdings
      BY <1>2, PairsType
    <3> HIDE DEF h, todo
    <3> QED
      BY <1>2, <2>2, <3>1 DEF EvaluatorShape, IsMemory, NoMemory, SeenSound
  <2> QED
    BY <1>5, <2>1, <2>2 DEF NextHorizon, Evaluator
<1>6. CASE ReadPrices
  <2> DEFINE pair == CHOOSE pair \in m.todo : TRUE
             start == OnOrAfter(priced[pair[2]], 1)
             end == OnOrBefore(priced[pair[2]], Target(m.horizon))
             at == [m EXCEPT !.pair = pair, !.start = start, !.end = end]
  <2>1. pair \in m.todo
    BY <1>6 DEF ReadPrices
  <2>2. evaluator' = Observed(at, Unobserved("missing_price"))
        \/ evaluator' = [at EXCEPT !.pc = "coverage"]
    BY <1>6 DEF ReadPrices, Evaluator
  <2> HIDE DEF pair, start, end
  <2>3. /\ IsMemory(at) /\ at.row = m.row /\ at.todo = m.todo /\ at.pair = pair
        /\ at.events = m.events /\ at.seen = m.seen
    BY <1>2 DEF IsMemory, NoMemory
  <2> HIDE DEF at
  <2>4. CASE evaluator' = Observed(at, Unobserved("missing_price"))
    BY <1>1, <1>2, <2>3, <2>4, ObservedSound, UnobservedSound DEF EvaluatorShape
  <2>5. CASE evaluator' = [at EXCEPT !.pc = "coverage"]
    BY <1>1, <1>2, <2>1, <2>3, <2>5 DEF EvaluatorShape, IsMemory, NoMemory, SeenSound
  <2> QED
    BY <2>2, <2>4, <2>5
<1>7. CASE ReadCoverage
  <2>1. CASE evaluator' = Observed(m, Unobserved("incomplete_dividends"))
    BY <1>1, <1>2, <2>1, ObservedSound, UnobservedSound DEF EvaluatorShape
  <2>2. CASE evaluator' = [m EXCEPT !.pc = "dividends"]
    BY <1>1, <1>2, <1>7, <2>2
    DEF EvaluatorShape, IsMemory, NoMemory, SeenSound, ReadCoverage, EvaluatorAt
  <2> QED
    BY <1>7, <2>1, <2>2 DEF ReadCoverage, Evaluator
<1>8. CASE ReadDividends
  <2> DEFINE events == {e \in calendar[m.pair[2]] : m.start < e.day /\ e.day <= m.end}
  <2>1. m.pair \in Lists \X Holdings
    BY <1>2, <1>8 DEF ReadDividends, EvaluatorAt
  <2>2. events \subseteq Dividends
    BY <2>1 DEF PerfInv
  <2>3. evaluator' = [m EXCEPT !.pc = "reviews", !.events = events]
    BY <1>8 DEF ReadDividends, Evaluator
  <2> HIDE DEF events
  <2> QED
    BY <1>1, <1>2, <2>1, <2>2, <2>3 DEF EvaluatorShape, IsMemory, NoMemory, SeenSound
<1>9. CASE ReadReviews
  <2> DEFINE at == [m EXCEPT !.events = {}]
             observation == Observation(m.events, decisions[m.pair[2]], priced[m.pair[2]], m.end)
  <2>1. /\ IsMemory(at) /\ at.row = m.row /\ at.todo = m.todo /\ at.events = {}
        /\ at.seen = m.seen
    BY <1>2 DEF IsMemory, NoMemory
  <2>2. evaluator' = Observed(at, observation)
    BY <1>9 DEF ReadReviews, Evaluator
  <2>3. SoundReturn(observation)
    BY <1>2, ObservationSound
  <2> HIDE DEF observation, at
  <2> QED
    BY <1>1, <1>2, <2>1, <2>2, <2>3, ObservedSound DEF EvaluatorShape
<1>10. CASE ReadBenchmark
  <2>1. PICK held : evaluator' = [m EXCEPT !.pc = "save", !.pair = << >>, !.start = 0,
                                    !.end = 0, !.benchmark = held]
    BY <1>10 DEF ReadBenchmark, Evaluator
  <2> QED
    BY <1>1, <1>2, <2>1 DEF EvaluatorShape, IsMemory, NoMemory, SeenSound
<1> QED
  BY <1>4, <1>5, <1>6, <1>7, <1>8, <1>9, <1>10

(* What is saved as complete was observed without an issue.                *)
LEMMA SavingKeeps == PerfInv /\ SaveEvaluation => PerfInv'
<1> SUFFICES ASSUME PerfInv, SaveEvaluation PROVE PerfInv'
  OBVIOUS
<1> DEFINE m == evaluator
           value == EvaluationOf(m)
<1>1. EvaluatorShape' /\ SeenSound(evaluator.seen)'
  <2>1. evaluator' = [m EXCEPT !.pc = "horizon", !.seen = << >>, !.benchmark = FALSE]
    BY DEF SaveEvaluation, Evaluator, AfterSaving
  <2> QED
    BY <2>1 DEF PerfInv, EvaluatorShape, IsMemory, NoMemory, SeenSound
<1>2. CompleteSound(value)
  <2>1. value.status = "complete" => \A pair \in DOMAIN m.seen : m.seen[pair].issue = "none"
    BY DEF EvaluationOf, StatusOf
  <2> QED
    BY <2>1 DEF PerfInv, CompleteSound, EvaluationOf
<1> HIDE DEF value
<1>3. \A h \in DOMAIN evaluations' : CompleteSound(evaluations'[h])
  BY <1>2 DEF PerfInv, SaveEvaluation, Stored, value
<1> QED
  BY <1>1, <1>3 DEF PerfInv, SaveEvaluation, market

LEMMA PerfStep == PerfInv /\ [PerfNext]_perfVars => PerfInv'
<1> SUFFICES ASSUME PerfInv, [PerfNext]_perfVars PROVE PerfInv'
  OBVIOUS
<1>1. CASE EvaluatorStep
  BY <1>1, ReadingsKeep, SavingKeeps DEF EvaluatorStep
<1>2. CASE StopEvaluation
  BY <1>2, NoMemoryFits DEF StopEvaluation, Evaluator, PerfInv
<1>3. CASE NextDay \/ SyncBenchmark
  BY <1>3 DEF NextDay, SyncBenchmark, PerfInv, EvaluatorShape
<1>4. ASSUME NEW c \in Holdings, SyncPrices(c) PROVE PerfInv'
  BY <1>4 DEF SyncPrices, PerfInv, EvaluatorShape
<1>5. ASSUME NEW c \in Holdings, NEW events \in SUBSET Dividends, ReplaceCalendar(c, events)
      PROVE  PerfInv'
  BY <1>5 DEF ReplaceCalendar, Changes, PerfInv, EvaluatorShape
<1>6. ASSUME NEW c \in Holdings, NEW e, NEW status, ReviewEvent(c, e, status) PROVE PerfInv'
  BY <1>6 DEF ReviewEvent, Changes, PerfInv, EvaluatorShape
<1>7. ASSUME NEW final \in SUBSET Holdings, AttachMembers(final) PROVE PerfInv'
  BY <1>7 DEF AttachMembers, Changes, PerfInv, EvaluatorShape
<1>8. CASE UNCHANGED perfVars
  BY <1>8 DEF perfVars, market, PerfInv, EvaluatorShape
<1> QED
  BY <1>1, <1>2, <1>3, <1>4, <1>5, <1>6, <1>7, <1>8 DEF PerfNext

(* Whatever calendars, reviews and prices change between the reads of a    *)
(* run: no total return that is stored as complete has a dividend in it    *)
(* that the quarantine of extreme dividends should have held back.         *)
THEOREM CompleteIsNotQuarantined == PerfSpec => []NoQuarantinedReturn
<1>1. PerfInv => NoQuarantinedReturn
  BY DEF PerfInv, CompleteSound, SeenSound, SoundReturn, NoQuarantinedReturn
<1> QED
  BY <1>1, PerfInitially, PerfStep, PTL DEF PerfSpec
-----------------------------------------------------------------------------
(* 2. ReleaseIngestion, for any feed, any number of requests and any       *)
(* number of failures.  AnnouncedByOneRun alone is not inductive: what a   *)
(* run between "exists" and "save" has in hand must never have been        *)
(* announced, whatever the other process stores meanwhile.                 *)
(* The memory of NewsJob, without the articles in it: only their equality  *)
(* with a release matters.                                                 *)
NewsShape ==
  /\ messages \in [Releases -> Nat]
  /\ news = [pc |-> news.pc, todo |-> news.todo, request |-> news.request]
  /\ news.request \in 0..Retries - 1
  /\ news.pc \in {"idle", "check", "save", "notify"}
  /\ news.pc # "notify" => news.request = 0

(* What is about to be saved was never announced.                          *)
SavedIsNew ==
  news.pc = "save" => \A r \in Releases : r = Article(news) => messages[r] = 0

(* What is being announced is stored, and was announced by the requests of *)
(* this notification alone.                                                *)
AnnouncedIsStored ==
  news.pc = "notify" =>
    \A r \in Releases :
      r = Article(news) => r \in releases /\ messages[r] <= news.request

ReleaseInv == NewsShape /\ SavedIsNew /\ AnnouncedIsStored /\ AnnouncedByOneRun
-----------------------------------------------------------------------------
(* The invariant holds before the first article is published.              *)
LEMMA ReleaseInitially == ReleaseInit => ReleaseInv
  BY ReleaseAssumption
  DEF ReleaseInit, ReleaseInv, NewsShape, SavedIsNew, AnnouncedIsStored,
      AnnouncedByOneRun, NoNews

(* Steps that leave NewsJob and the webhook alone only add releases.       *)
LEMMA OtherStepsKeep ==
  ASSUME ReleaseInv, UNCHANGED <<messages, news>>, releases \subseteq releases'
  PROVE  ReleaseInv'
  BY DEF ReleaseInv, NewsShape, SavedIsNew, AnnouncedIsStored, AnnouncedByOneRun,
         Article

(* A job that goes to its next article, starts or ends holds nothing.      *)
LEMMA RestartKeeps ==
  ASSUME ReleaseInv, UNCHANGED <<messages, releases>>,
         NEW todo, NEW pc \in {"idle", "check"},
         news' = [pc |-> pc, todo |-> todo, request |-> 0]
  PROVE  ReleaseInv'
  BY ReleaseAssumption
  DEF ReleaseInv, NewsShape, SavedIsNew, AnnouncedIsStored, AnnouncedByOneRun

(* exists: an article that goes on to "save" is not stored, and what is    *)
(* not stored was not announced.                                           *)
LEMMA CheckKeeps == ReleaseInv /\ CheckArticle => ReleaseInv'
<1> SUFFICES ASSUME ReleaseInv, CheckArticle PROVE ReleaseInv'
  OBVIOUS
<1>1. UNCHANGED <<messages, releases>> /\ news.pc = "check" /\ news.request = 0
  BY DEF ReleaseInv, NewsShape, CheckArticle, NewsAt
<1>2. CASE news.todo = << >>
  <2>1. news' = [pc |-> "idle", todo |-> << >>, request |-> 0]
    BY <1>2 DEF CheckArticle, NoNews
  <2> QED
    BY <1>1, <2>1, RestartKeeps
<1>3. CASE news.todo # << >> /\ Article(news) \in releases
  <2>1. news' = [pc |-> "check", todo |-> Tail(news.todo), request |-> 0]
    BY <1>3 DEF CheckArticle, NextArticle, NoNews
  <2> QED
    BY <1>1, <2>1, RestartKeeps
<1>4. CASE news.todo # << >> /\ Article(news) \notin releases
  <2>1. news' = [news EXCEPT !.pc = "save"]
    BY <1>4 DEF CheckArticle
  <2>2. news' = [pc |-> "save", todo |-> news.todo, request |-> 0]
    BY <1>1, <2>1 DEF ReleaseInv, NewsShape
  <2>3. \A r \in Releases : r = Article(news) => messages[r] = 0
    BY <1>4 DEF ReleaseInv, NewsShape, AnnouncedByOneRun
  <2>4. Article(news') = Article(news)
    BY <2>2 DEF Article
  <2> QED
    BY <1>1, <2>2, <2>3, <2>4, ReleaseAssumption
    DEF ReleaseInv, NewsShape, SavedIsNew, AnnouncedIsStored, AnnouncedByOneRun
<1> QED
  BY <1>2, <1>3, <1>4

(* save: the article is stored, and was not announced yet.                 *)
LEMMA SaveKeeps == ReleaseInv /\ SaveArticle => ReleaseInv'
<1> SUFFICES ASSUME ReleaseInv, SaveArticle PROVE ReleaseInv'
  OBVIOUS
<1>1. news' = [pc |-> "notify", todo |-> news.todo, request |-> 0]
  BY DEF ReleaseInv, NewsShape, SaveArticle, NewsAt
<1>2. Article(news') = Article(news)
  BY <1>1 DEF Article
<1> QED
  BY <1>1, <1>2, ReleaseAssumption
  DEF ReleaseInv, NewsShape, SavedIsNew, AnnouncedIsStored, AnnouncedByOneRun,
      SaveArticle, NewsAt

(* One request adds at most one message, and the request is counted; the   *)
(* last one ends the notification, within Retries messages.                *)
LEMMA NotifyKeeps == ReleaseInv /\ Notify => ReleaseInv'
<1> SUFFICES ASSUME ReleaseInv, Notify PROVE ReleaseInv'
  OBVIOUS
<1>1. news.pc = "notify" /\ releases' = releases /\ Retries \in Nat
  BY ReleaseAssumption DEF Notify, NewsAt
<1>2. PICK answer \in {"ok", "late", "refused", "failed"} :
        /\ messages' = IF answer \in {"ok", "late"}
                       THEN [messages EXCEPT ![Article(news)] = @ + 1] ELSE messages
        /\ news' = AfterRequest(news, answer)
  BY DEF Notify
<1>3. messages' \in [Releases -> Nat]
  <2>1. messages \in [Releases -> Nat]
    BY DEF ReleaseInv, NewsShape
  <2> DEFINE a == Article(news)
             counted == [messages EXCEPT ![a] = messages[a] + 1]
  <2>2. counted \in [Releases -> Nat]
    <3> HIDE DEF a
    <3>1. \A r \in Releases : counted[r] = IF r = a THEN messages[r] + 1 ELSE messages[r]
      BY <2>1
    <3>2. \A r \in Releases : counted[r] \in Nat
      BY <2>1, <3>1
    <3>3. counted = [r \in Releases |-> counted[r]]
      BY <2>1
    <3> QED
      BY <3>2, <3>3
  <2> QED
    BY <1>2, <2>1, <2>2
<1>4. \A r \in Releases :
        IF r = Article(news)
        THEN r \in releases /\ messages'[r] <= news.request + 1
        ELSE messages'[r] = messages[r]
  BY <1>1, <1>2 DEF ReleaseInv, NewsShape, AnnouncedIsStored
<1>5. AnnouncedByOneRun'
  BY <1>1, <1>3, <1>4 DEF ReleaseInv, NewsShape, AnnouncedByOneRun
<1>6. CASE news' = NextArticle(news)
  <2>1. news' = [pc |-> "check", todo |-> Tail(news.todo), request |-> 0]
    BY <1>6 DEF NextArticle, NoNews
  <2> QED
    BY <1>1, <1>3, <1>5, <2>1
    DEF ReleaseInv, NewsShape, SavedIsNew, AnnouncedIsStored
<1>7. CASE news.request + 1 # Retries /\ news' = [news EXCEPT !.request = @ + 1]
  <2>1. news' = [pc |-> "notify", todo |-> news.todo, request |-> news.request + 1]
    BY <1>1, <1>7 DEF ReleaseInv, NewsShape
  <2>2. news.request + 1 \in 0..Retries - 1
    BY <1>1, <1>7 DEF ReleaseInv, NewsShape
  <2>3. Article(news') = Article(news)
    BY <2>1 DEF Article
  <2> QED
    BY <1>1, <1>3, <1>4, <1>5, <2>1, <2>2, <2>3
    DEF ReleaseInv, NewsShape, SavedIsNew, AnnouncedIsStored
<1> QED
  BY <1>2, <1>6, <1>7 DEF AfterRequest

(* Every step of the program keeps the invariant.                          *)
LEMMA ReleaseStep == ReleaseInv /\ [ReleaseNext]_releaseVars => ReleaseInv'
<1> SUFFICES ASSUME ReleaseInv, [ReleaseNext]_releaseVars PROVE ReleaseInv'
  OBVIOUS
<1>1. ASSUME NEW r \in Releases, Publish(r) PROVE ReleaseInv'
  BY <1>1, OtherStepsKeep DEF Publish
<1>2. CASE StartNews
  <2>1. PICK articles \in Scraped(Selected(feed)) :
          news' = [NoNews EXCEPT !.pc = "check", !.todo = articles]
    BY <1>2 DEF StartNews
  <2>2. news' = [pc |-> "check", todo |-> articles, request |-> 0]
    BY <2>1 DEF NoNews
  <2> QED
    BY <1>2, <2>2, RestartKeeps DEF StartNews
<1>3. CASE CheckArticle
  BY <1>3, CheckKeeps
<1>4. CASE SaveArticle
  BY <1>4, SaveKeeps
<1>5. CASE FailSave
  <2>1. news' = [pc |-> "check", todo |-> Tail(news.todo), request |-> 0]
    BY <1>5 DEF FailSave, NextArticle, NoNews
  <2> QED
    BY <1>5, <2>1, RestartKeeps DEF FailSave
<1>6. CASE Notify
  BY <1>6, NotifyKeeps
<1>7. CASE StopNews
  <2>1. news' = [pc |-> "idle", todo |-> << >>, request |-> 0]
    BY <1>7 DEF StopNews, NoNews
  <2> QED
    BY <1>7, <2>1, RestartKeeps DEF StopNews
<1>8. ASSUME NEW delta \in BOOLEAN, StartSync(delta) PROVE ReleaseInv'
  BY <1>8, OtherStepsKeep DEF StartSync
<1>9. CASE SyncStep
  BY <1>9, OtherStepsKeep
  DEF SyncStep, ListUnseen, ScrapeUnseen, PersistRelease, FinishSync, IngestReport
<1>10. CASE StopSync
  BY <1>10, OtherStepsKeep DEF StopSync
<1>11. CASE UNCHANGED releaseVars
  BY <1>11, OtherStepsKeep DEF releaseVars
<1> QED
  BY <1>1, <1>2, <1>3, <1>4, <1>5, <1>6, <1>7, <1>8, <1>9, <1>10, <1>11
  DEF ReleaseNext, NewsStep

(* However often the scheduler starts NewsJob, whatever the other process  *)
(* stores under it and wherever either is killed: a release is announced   *)
(* only once it is stored, and in all runs together no more often than one *)
(* notification is requested.                                              *)
THEOREM ReleasesAnnouncedByOneRun == ReleaseSpec => []AnnouncedByOneRun
<1>1. ReleaseInv => AnnouncedByOneRun
  BY DEF ReleaseInv
<1> QED
  BY <1>1, ReleaseInitially, ReleaseStep, PTL DEF ReleaseSpec
-----------------------------------------------------------------------------
(* 3. MarketSync, for any companies, batches, data versions and failures,  *)
(* while the nightly job and a refresh do not run at the same time.  The   *)
(* invariant says how far the writer at work has got, and that all it will *)
(* store is newer than every row there is.                                 *)
MarketTables == {"reports", "prices", "dividends", "kpis"}
Outcomes == {"success", "failed"}

(* Every domain of the job by its place, and of a refresh.                 *)
LEMMA DomainPlaces ==
  /\ Range(Domains) = MarketTables /\ Len(Domains) = 4
  /\ Domains[1] = "reports" /\ Domains[2] = "prices"
  /\ Domains[3] = "dividends" /\ Domains[4] = "kpis"
BY DEF Domains, Range, MarketTables

LEMMA RefreshPlaces ==
  /\ Len(RefreshDomains) = 7 /\ DOMAIN RefreshDomains = 1 .. 7
  /\ RefreshDomains[1] = "reports" /\ RefreshDomains[2] = "prices"
  /\ RefreshDomains[3] = "dividends" /\ RefreshDomains[4] = "kpis"
  /\ RefreshDomains[5] = "mfn" /\ RefreshDomains[6] = "insider"
  /\ RefreshDomains[7] = "holdings"
BY DEF RefreshDomains, Domains
-----------------------------------------------------------------------------
(* The rows and the memory of the two writers.  What batches hold does not *)
(* matter: a company that is not known has no row.                         *)
Statuses == {"none", "running", "failed", "completed"}
SyncRows == [status : Statuses, since : Nat]
RefreshRows == [status : Statuses, since : Nat, domains : Seq(Outcomes)]

RowsTyped ==
  /\ upstream \in Nat \ {0}
  /\ stored \in [Known -> [MarketTables -> Nat]]
  /\ syncRow \in [Known -> SyncRows] /\ refreshRow \in [Known -> RefreshRows]

JobPlaces == {"idle", "bundle", "fetch", "store", "complete"}
Jobs(todo, batch) ==
  [pc : JobPlaces, todo : {todo}, batch : {batch}, domain : Nat, bundle : Nat, version : Nat]

JobShape(j) ==
  /\ \E todo, batch : j \in Jobs(todo, batch)
  /\ 1 <= j.domain /\ j.domain <= 4
  /\ j.pc = "bundle" => j.domain = 1
  /\ j.pc = "complete" => j.domain = 4

RefreshPcs == {"idle", "fetch", "store", "finish"}
Refreshes(company) ==
  [pc : RefreshPcs, company : {company}, domain : Nat, version : Nat]

RefreshShape(r) ==
  /\ \E company : r \in Refreshes(company)
  /\ 1 <= r.domain /\ r.domain <= 7
  /\ r.pc # "idle" => r.company \in Known

(* No row began after version.                                             *)
Began(version) ==
  \A c \in Known : syncRow[c].since <= version /\ refreshRow[c].since <= version

OneAtATime == job.pc = "idle" \/ refresh.pc = "idle"

(* Only listed companies have prices, a completed row has a start, and     *)
(* dividends that were refreshed had prices to start from.                 *)
RowsSound ==
  /\ Began(upstream)
  /\ \A c \in Known :
       /\ c \notin Listed => stored[c]["prices"] = 0
       /\ job.pc # "idle" \/ syncRow[c].status = "completed" => syncRow[c].since # 0
       /\ \A i \in DOMAIN refreshRow[c].domains :
            refreshRow[c].domains[i] = "success" /\ RefreshDomains[i] = "dividends" =>
              HasPrices(c)

(* The job has stored the domains before its own, and stores nothing older *)
(* than any row.                                                           *)
StoredSoFar(j) == IF j.pc = "complete" THEN 4 ELSE j.domain - 1

SoFarFresh(j) ==
  \A c \in Known : c = Head(j.batch) =>
    \A i \in 1 .. StoredSoFar(j) : Fresh(c, Domains[i], syncRow[c].since)

JobSound ==
  job.pc \in {"fetch", "store", "complete"} =>
    /\ job.bundle # 0 /\ job.bundle <= upstream /\ Began(job.bundle)
    /\ job.pc = "store" => job.bundle <= job.version
    /\ SoFarFresh(job)

(* A refresh has an outcome for every domain before its own.               *)
RefreshSound ==
  refresh.pc # "idle" =>
    /\ refreshRow[refresh.company].status = "running"
    /\ Len(refreshRow[refresh.company].domains) =
         IF refresh.pc = "finish" THEN 7 ELSE refresh.domain - 1
    /\ refresh.pc = "store" =>
         /\ refresh.version # 0 /\ Began(refresh.version)
         /\ Refreshed = "dividends" => HasPrices(refresh.company)

MarketInv ==
  /\ RowsTyped /\ JobShape(job) /\ RefreshShape(refresh) /\ OneAtATime
  /\ RowsSound /\ JobSound /\ RefreshSound /\ CompletedIsFresh
-----------------------------------------------------------------------------
(* Fresh without its CASE, before and after a step.                        *)
LEMMA FreshCases ==
  ASSUME NEW c, NEW d, NEW since
  PROVE  /\ Fresh(c, d, since) <=>
              ((d = "prices" => c \in Listed) /\ (d = "dividends" => HasPrices(c))
                 => stored[c][d] >= since)
         /\ Fresh(c, d, since)' <=>
              ((d = "prices" => c \in Listed) /\ (d = "dividends" => HasPrices(c)')
                 => stored'[c][d] >= since)
<1>1. CASE d = "prices"
  BY <1>1 DEF Fresh, Stores
<1>2. CASE d = "dividends"
  BY <1>2 DEF Fresh, Stores
<1>3. CASE d \notin {"prices", "dividends"}
  BY <1>3 DEF Fresh, Stores
<1> QED
  BY <1>1, <1>2, <1>3

LEMMA NewBatchShape ==
  ASSUME NEW todo, NEW batch
  PROVE  LET n == [NoJob EXCEPT !.pc = "bundle", !.todo = todo, !.batch = batch]
         IN  JobShape(n) /\ n.pc = "bundle"
<1> DEFINE n == [NoJob EXCEPT !.pc = "bundle", !.todo = todo, !.batch = batch]
<1>1. n \in Jobs(todo, batch) /\ n.pc = "bundle" /\ n.domain = 1
  BY DEF NoJob, Jobs, JobPlaces
<1> QED
  BY <1>1 DEF JobShape

LEMMA NoJobShape == JobShape(NoJob) /\ NoJob.pc = "idle"
<1>1. NoJob \in Jobs(<< >>, << >>) /\ NoJob.pc = "idle" /\ NoJob.domain = 1
  BY DEF NoJob, Jobs, JobPlaces
<1> QED
  BY <1>1 DEF JobShape

LEMMA NextBatchShape ==
  ASSUME NEW todo
  PROVE  JobShape(NextBatch(todo)) /\ NextBatch(todo).pc \in {"idle", "bundle"}
BY NewBatchShape, NoJobShape, Zenon DEF NextBatch

LEMMA RestShape ==
  ASSUME JobShape(job), NEW rest
  PROVE  LET n == [job EXCEPT !.pc = "fetch", !.batch = rest, !.domain = 1]
         IN  JobShape(n) /\ n.pc = "fetch" /\ n.domain = 1 /\ n.bundle = job.bundle
<1> DEFINE n == [job EXCEPT !.pc = "fetch", !.batch = rest, !.domain = 1]
<1>1. PICK todo, batch : job \in Jobs(todo, batch)
  BY DEF JobShape
<1>2. /\ n \in Jobs(todo, rest) /\ n.pc = "fetch" /\ n.domain = 1
      /\ n.bundle = job.bundle
  BY <1>1 DEF Jobs, JobPlaces
<1> QED
  BY <1>2 DEF JobShape

LEMMA NextCompanyShape ==
  ASSUME JobShape(job)
  PROVE  /\ JobShape(NextCompany) /\ NextCompany.pc \in {"idle", "bundle", "fetch"}
         /\ NextCompany.pc = "fetch" =>
              NextCompany.domain = 1 /\ NextCompany.bundle = job.bundle
<1>1. CASE Len(job.batch) = 1
  BY <1>1, NextBatchShape DEF NextCompany
<1>2. CASE Len(job.batch) # 1
  BY <1>2, RestShape DEF NextCompany
<1> QED
  BY <1>1, <1>2

LEMMA NoRefreshShape == RefreshShape(NoRefresh) /\ NoRefresh.pc = "idle"
<1>1. /\ NoRefresh \in Refreshes(Head(Companies)) /\ NoRefresh.pc = "idle"
      /\ NoRefresh.domain = 1
  BY DEF NoRefresh, Refreshes, RefreshPcs
<1> QED
  BY <1>1 DEF RefreshShape

LEMMA MarketInitially == MarketInit => MarketInv
<1> SUFFICES ASSUME MarketInit PROVE MarketInv
  OBVIOUS
<1>1. RowsTyped /\ OneAtATime
  BY DomainPlaces
  DEF MarketInit, RowsTyped, SyncRows, RefreshRows, Statuses, OneAtATime, NoJob, SyncRow, RefreshRow
<1>2. JobShape(job) /\ RefreshShape(refresh)
  BY NoJobShape, NoRefreshShape DEF MarketInit
<1>3. RowsSound /\ JobSound /\ RefreshSound /\ CompletedIsFresh
  BY DomainPlaces
  DEF MarketInit, RowsSound, JobSound, RefreshSound, CompletedIsFresh, Began,
      NoJob, NoRefresh, SyncRow, RefreshRow, MarketTables
<1> QED
  BY <1>1, <1>2, <1>3 DEF MarketInv

(* A job that has nothing stored for its company yet.                      *)
LEMMA FreshStart ==
  ASSUME NEW j, j.domain = 1, j.pc # "complete"
  PROVE  SoFarFresh(j) /\ SoFarFresh(j)'
BY DEF SoFarFresh, StoredSoFar

(* What is fresh stays so while the tables stay as they are.               *)
LEMMA FreshStays ==
  ASSUME UNCHANGED <<stored, syncRow>>
  PROVE  \A c, d : Fresh(c, d, syncRow[c].since) => Fresh(c, d, syncRow[c].since)'
BY DEF Fresh, Stores, HasPrices

(* Steps that change no table and no row, only how far the job is.         *)
LEMMA JobMoves ==
  ASSUME MarketInv, JobShape(job'), UNCHANGED <<stored, syncRow, refreshRow, refresh>>,
         upstream' \in Nat, upstream <= upstream', job.pc = "idle" => job'.pc = "idle",
         JobSound'
  PROVE  MarketInv'
<1>1. RowsTyped' /\ RefreshShape(refresh)' /\ OneAtATime' /\ CompletedIsFresh' /\ RefreshSound'
  BY DEF MarketInv, RowsTyped, RefreshShape, OneAtATime, CompletedIsFresh, RefreshSound,
         Began, Fresh, Stores, HasPrices, Refreshed
<1>2. RowsSound'
  BY DEF MarketInv, RowsTyped, SyncRows, RefreshRows, RowsSound, Began, HasPrices
<1> QED
  BY <1>1, <1>2 DEF MarketInv, JobShape

LEMMA NewDataKeeps == MarketInv /\ NewData => MarketInv'
<1> SUFFICES ASSUME MarketInv, NewData PROVE MarketInv'
  OBVIOUS
<1>1. /\ UNCHANGED <<stored, syncRow, refreshRow, refresh, job>>
      /\ upstream' \in Nat /\ upstream <= upstream'
  BY DEF NewData, MarketInv, RowsTyped
<1>2. JobSound'
  <2>1. SoFarFresh(job) => SoFarFresh(job)'
    BY <1>1, FreshStays DEF SoFarFresh
  <2>2. job.bundle \in Nat
    BY DEF MarketInv, JobShape, Jobs
  <2> QED
    BY <1>1, <2>1, <2>2 DEF MarketInv, RowsTyped, JobSound, Began
<1>3. JobShape(job)'
  BY <1>1 DEF MarketInv
<1> QED
  BY <1>1, <1>2, <1>3, JobMoves

LEMMA FetchBundlesKeeps == MarketInv /\ FetchBundles => MarketInv'
<1> SUFFICES ASSUME MarketInv, FetchBundles PROVE MarketInv'
  OBVIOUS
<1> DEFINE n == [job EXCEPT !.pc = "fetch", !.bundle = upstream]
<1>1. /\ UNCHANGED <<upstream, stored, syncRow, refreshRow, refresh>>
      /\ job.pc = "bundle" /\ job' = n
  BY DEF FetchBundles, JobAt
<1>2. PICK todo, batch : job \in Jobs(todo, batch)
  BY DEF MarketInv, JobShape
<1>3. upstream \in Nat \ {0} /\ job.domain = 1 /\ Began(upstream)
  BY <1>1 DEF MarketInv, RowsTyped, JobShape, RowsSound
<1>4. /\ n \in Jobs(todo, batch) /\ n.pc = "fetch" /\ n.domain = 1
      /\ n.bundle = upstream
  BY <1>2, <1>3 DEF Jobs, JobPlaces
<1> HIDE DEF n
<1>5. JobShape(n)
  BY <1>4 DEF JobShape
<1>6. JobSound'
  <2>1. SoFarFresh(job)'
    BY <1>1, <1>4 DEF SoFarFresh, StoredSoFar
  <2> QED
    BY <1>1, <1>3, <1>4, <2>1 DEF JobSound, Began
<1>7. JobShape(job)' /\ upstream' \in Nat /\ upstream <= upstream'
  BY <1>1, <1>3, <1>5
<1> QED
  BY <1>1, <1>6, <1>7, JobMoves

LEMMA FetchDomainKeeps == MarketInv /\ FetchDomain => MarketInv'
<1> SUFFICES ASSUME MarketInv, FetchDomain PROVE MarketInv'
  OBVIOUS
<1> DEFINE v == IF Domain = "reports" THEN job.bundle ELSE upstream
           n == [job EXCEPT !.pc = "store", !.version = v]
<1>1. /\ UNCHANGED <<upstream, stored, syncRow, refreshRow, refresh>>
      /\ job.pc = "fetch" /\ job' = n
  BY DEF FetchDomain, JobAt
<1>2. PICK todo, batch : job \in Jobs(todo, batch)
  BY DEF MarketInv, JobShape
<1>3. /\ upstream \in Nat /\ job.bundle \in Nat /\ job.bundle <= upstream
      /\ 1 <= job.domain /\ job.domain <= 4
  BY <1>1, <1>2 DEF MarketInv, RowsTyped, JobShape, JobSound, Jobs
<1>4. v \in Nat /\ job.bundle <= v
  BY <1>3
<1> HIDE DEF v
<1>5. /\ n \in Jobs(todo, batch) /\ n.pc = "store" /\ n.domain = job.domain
      /\ n.bundle = job.bundle /\ n.version = v /\ n.batch = job.batch
  BY <1>2, <1>4 DEF Jobs, JobPlaces
<1> HIDE DEF n
<1>6. JobShape(n)
  BY <1>3, <1>5 DEF JobShape
<1>7. JobSound'
  <2>1. SoFarFresh(job)
    BY <1>1 DEF MarketInv, JobSound
  <2>2. SoFarFresh(job)'
    BY <1>1, <1>5, <2>1, FreshStays DEF SoFarFresh, StoredSoFar
  <2> QED
    BY <1>1, <1>4, <1>5, <2>2 DEF MarketInv, JobSound, Began
<1>8. JobShape(job)' /\ upstream' \in Nat /\ upstream <= upstream'
  BY <1>1, <1>3, <1>6
<1> QED
  BY <1>1, <1>7, <1>8, JobMoves

LEMMA KillJobKeeps == MarketInv /\ KillJob => MarketInv'
<1> SUFFICES ASSUME MarketInv, KillJob PROVE MarketInv'
  OBVIOUS
<1>1. UNCHANGED <<upstream, stored, syncRow, refreshRow, refresh>> /\ job' = NoJob
  BY DEF KillJob
<1>2. JobShape(job)' /\ JobSound' /\ job'.pc = "idle" /\ upstream' \in Nat /\ upstream <= upstream'
  BY <1>1, NoJobShape DEF JobSound, MarketInv, RowsTyped
<1> QED
  BY <1>1, <1>2, JobMoves
-----------------------------------------------------------------------------
(* Steps that settle rows of the job and go on to another company.         *)
LEMMA SettleKeeps ==
  ASSUME MarketInv, UNCHANGED <<upstream, stored, refreshRow, refresh>>,
         job.pc # "idle", JobShape(job)', job'.pc \in {"idle", "bundle", "fetch"},
         job'.pc = "fetch" =>
           /\ job.pc \in {"fetch", "store", "complete"}
           /\ job'.domain = 1 /\ job'.bundle = job.bundle,
         syncRow' \in [Known -> SyncRows],
         \A c \in Known :
           /\ syncRow'[c].since = syncRow[c].since
           /\ syncRow'[c].status = "completed" =>
                \/ syncRow[c].status = "completed"
                \/ \A d \in MarketTables : Fresh(c, d, syncRow[c].since)
  PROVE  MarketInv'
<1>1. RowsTyped' /\ RefreshShape(refresh)' /\ OneAtATime' /\ RefreshSound'
  BY DEF MarketInv, RowsTyped, RefreshShape, OneAtATime, RefreshSound
<1>2. RowsSound'
  BY DEF MarketInv, RowsSound, Began, HasPrices
<1>3. JobSound'
  <2>1. job'.pc = "fetch" => SoFarFresh(job)'
    BY DEF SoFarFresh, StoredSoFar
  <2> QED
    BY <2>1 DEF MarketInv, JobSound, Began
<1>4. CompletedIsFresh'
  <2>1. \A c \in Known : \A d, since : Fresh(c, d, since) => Fresh(c, d, since)'
    BY DEF Fresh, Stores, HasPrices
  <2> QED
    BY <2>1, DomainPlaces DEF MarketInv, CompletedIsFresh
<1> QED
  BY <1>1, <1>2, <1>3, <1>4 DEF MarketInv

LEMMA FailBundlesKeeps == MarketInv /\ FailBundles => MarketInv'
<1> SUFFICES ASSUME MarketInv, FailBundles PROVE MarketInv'
  OBVIOUS
<1>1. /\ UNCHANGED <<upstream, stored, refreshRow, refresh>> /\ job.pc = "bundle"
      /\ job' = NextBatch(job.todo)
  BY DEF FailBundles, JobAt
<1>2. JobShape(job)' /\ job'.pc \in {"idle", "bundle"}
  BY <1>1, NextBatchShape
<1>3. /\ syncRow' \in [Known -> SyncRows]
      /\ \A c \in Known : /\ syncRow'[c].since = syncRow[c].since
                          /\ syncRow'[c].status = "completed" =>
                               syncRow[c].status = "completed"
  BY DEF FailBundles, SyncRow, MarketInv, RowsTyped, SyncRows, Statuses
<1> QED
  BY <1>1, <1>2, <1>3, SettleKeeps

(* A company that fails or is complete has its row settled.                *)
LEMMA SettledRows ==
  ASSUME MarketInv, NEW s \in {"failed", "completed"}, syncRow' = Settled(Current, s)
  PROVE  /\ syncRow' \in [Known -> SyncRows]
         /\ \A c \in Known :
              /\ syncRow'[c].since = syncRow[c].since
              /\ syncRow'[c].status = IF c = Current THEN s ELSE syncRow[c].status
<1>1. PICK x : x = Current
  OBVIOUS
<1>2. syncRow' = [syncRow EXCEPT ![x].status = s]
  BY <1>1 DEF Settled
<1>3. \A c \in Known : syncRow'[c] = IF c = x THEN [syncRow[c] EXCEPT !.status = s]
                                      ELSE syncRow[c]
  BY <1>2 DEF MarketInv, RowsTyped
<1>4. \A c \in Known : syncRow[c] \in SyncRows
  BY DEF MarketInv, RowsTyped
<1>5. \A c \in Known :
        /\ syncRow'[c] \in SyncRows /\ syncRow'[c].since = syncRow[c].since
        /\ syncRow'[c].status = IF c = x THEN s ELSE syncRow[c].status
  BY <1>3, <1>4 DEF SyncRows, Statuses
<1>6. syncRow' \in [Known -> SyncRows]
  BY <1>2, <1>5 DEF MarketInv, RowsTyped
<1> QED
  BY <1>1, <1>5, <1>6

LEMMA FailCompanyKeeps == MarketInv /\ FailCompany => MarketInv'
<1> SUFFICES ASSUME MarketInv, FailCompany PROVE MarketInv'
  OBVIOUS
<1>1. /\ UNCHANGED <<upstream, stored, refreshRow, refresh>> /\ job.pc \in {"fetch", "store"}
      /\ job' = NextCompany /\ syncRow' = Settled(Current, "failed")
  BY DEF FailCompany
<1>2. /\ JobShape(job)' /\ job'.pc \in {"idle", "bundle", "fetch"}
      /\ job'.pc = "fetch" => job'.domain = 1 /\ job'.bundle = job.bundle
  BY <1>1, NextCompanyShape DEF MarketInv
<1>3. /\ syncRow' \in [Known -> SyncRows]
      /\ \A c \in Known : /\ syncRow'[c].since = syncRow[c].since
                          /\ syncRow'[c].status = "completed" =>
                               syncRow[c].status = "completed"
  BY <1>1, SettledRows
<1>4. job.pc # "idle" /\ job.pc \in {"fetch", "store", "complete"}
  BY <1>1
<1> QED
  BY <1>1, <1>2, <1>3, <1>4, SettleKeeps

LEMMA CompleteCompanyKeeps == MarketInv /\ CompleteCompany => MarketInv'
<1> SUFFICES ASSUME MarketInv, CompleteCompany PROVE MarketInv'
  OBVIOUS
<1>1. /\ UNCHANGED <<upstream, stored, refreshRow, refresh>> /\ job.pc = "complete"
      /\ job' = NextCompany /\ syncRow' = Settled(Current, "completed")
  BY DEF CompleteCompany, JobAt
<1>2. /\ JobShape(job)' /\ job'.pc \in {"idle", "bundle", "fetch"}
      /\ job'.pc = "fetch" => job'.domain = 1 /\ job'.bundle = job.bundle
  BY <1>1, NextCompanyShape DEF MarketInv
<1>3. /\ syncRow' \in [Known -> SyncRows]
      /\ \A c \in Known : /\ syncRow'[c].since = syncRow[c].since
                          /\ syncRow'[c].status = "completed" =>
                               syncRow[c].status = "completed" \/ c = Current
  BY <1>1, SettledRows
<1>4. ASSUME NEW c \in Known, c = Current, NEW d \in MarketTables
      PROVE  Fresh(c, d, syncRow[c].since)
  <2>1. \A i \in 1 .. 4 : Fresh(c, Domains[i], syncRow[c].since)
    BY <1>1, <1>4 DEF MarketInv, JobSound, SoFarFresh, StoredSoFar, Current
  <2>2. d \in {Domains[1], Domains[2], Domains[3], Domains[4]}
    BY DomainPlaces DEF MarketTables
  <2> QED
    BY <2>1, <2>2
<1>5. job.pc # "idle" /\ job.pc \in {"fetch", "store", "complete"}
  BY <1>1
<1> QED
  BY <1>1, <1>2, <1>3, <1>4, <1>5, SettleKeeps

LEMMA StartJobKeeps ==
  ASSUME OneWriter
  PROVE  MarketInv /\ StartJob => MarketInv'
<1> SUFFICES ASSUME MarketInv, StartJob PROVE MarketInv'
  OBVIOUS
<1>1. /\ UNCHANGED <<upstream, stored, refreshRow, refresh>> /\ refresh.pc = "idle"
      /\ \E todo : job' = NextBatch(todo)
  BY Zenon DEF StartJob
<1>2. JobShape(job)' /\ job'.pc \in {"idle", "bundle"}
  BY <1>1, NextBatchShape
<1>3. upstream \in Nat \ {0}
  BY DEF MarketInv, RowsTyped
<1>4. /\ syncRow' \in [Known -> SyncRows]
      /\ \A c \in Known : syncRow'[c].since = upstream /\ syncRow'[c].status # "completed"
  BY <1>3 DEF StartJob, SyncRow, SyncRows, Statuses
<1>5. RowsTyped' /\ RefreshShape(refresh)' /\ OneAtATime' /\ RefreshSound' /\ JobSound'
  BY <1>1, <1>2, <1>4 DEF MarketInv, RowsTyped, RefreshShape, OneAtATime, RefreshSound, JobSound
<1>6. RowsSound'
  BY <1>1, <1>3, <1>4 DEF MarketInv, RowsTyped, RowsSound, Began, HasPrices
<1>7. CompletedIsFresh'
  <2>1. \A c \in Known : \A d, since : Fresh(c, d, since) => Fresh(c, d, since)'
    BY <1>1 DEF Fresh, Stores, HasPrices
  <2> QED
    BY <1>1, <1>4, <2>1 DEF MarketInv, CompletedIsFresh
<1> QED
  BY <1>2, <1>5, <1>6, <1>7 DEF MarketInv
-----------------------------------------------------------------------------
(* A save of a version newer than every row: what was fresh stays fresh,   *)
(* and prices once stored stay.                                            *)
Holds(v) ==
  /\ stored' \in [Known -> [MarketTables -> Nat]]
  /\ \A c \in Known :
       /\ HasPrices(c) => HasPrices(c)'
       /\ c \notin Listed => stored'[c]["prices"] = 0
       /\ \A d \in MarketTables : \A since \in 0 .. v :
            Fresh(c, d, since) /\ (d = "dividends" => c \notin Listed \/ HasPrices(c)) =>
              Fresh(c, d, since)'

LEMMA SaveHolds ==
  ASSUME MarketInv, NEW c, NEW d \in MarketTables, NEW v \in Nat \ {0},
         stored' = IF Stores(c, d) THEN [stored EXCEPT ![c][d] = v] ELSE stored
  PROVE  /\ Holds(v)
         /\ c \in Known => \A since \in 0 .. v :
              (d = "dividends" => c \notin Listed \/ HasPrices(c)) => Fresh(c, d, since)'
<1>1. stored \in [Known -> [MarketTables -> Nat]] /\ \A x \in Known \ Listed : stored[x]["prices"] = 0
  BY DEF MarketInv, RowsTyped, RowsSound
<1>2. \A x \in Known, y \in MarketTables :
        stored'[x][y] = IF x = c /\ y = d /\ Stores(c, d) THEN v ELSE stored[x][y]
  BY <1>1
<1>3. stored' \in [Known -> [MarketTables -> Nat]]
  BY <1>1
<1>4. Stores(c, d) <=> (d = "prices" => c \in Listed) /\ (d = "dividends" => HasPrices(c))
  <2>1. CASE d = "prices"
    BY <2>1 DEF Stores
  <2>2. CASE d = "dividends"
    BY <2>2 DEF Stores
  <2>3. CASE d \notin {"prices", "dividends"}
    BY <2>3 DEF Stores
  <2> QED
    BY <2>1, <2>2, <2>3
<1>5. \A x \in Known :
        /\ HasPrices(x) => HasPrices(x)'
        /\ x \notin Listed => stored'[x]["prices"] = 0
  BY <1>1, <1>2, <1>4 DEF HasPrices, MarketTables
<1>6. ASSUME NEW x \in Known, NEW y \in MarketTables, NEW since \in 0 .. v,
             y = "dividends" => x \notin Listed \/ HasPrices(x),
             Fresh(x, y, since) \/ (x = c /\ y = d)
      PROVE  Fresh(x, y, since)'
  <2>1. HasPrices(x)' => x \in Listed
    BY <1>5 DEF HasPrices
  <2>2. stored[x][y] \in Nat /\ stored'[x][y] \in Nat
    BY <1>1, <1>3
  <2>3. CASE x = c /\ y = d
    BY <1>2, <1>4, <1>6, <2>1, <2>2, <2>3, FreshCases
  <2>4. CASE ~(x = c /\ y = d)
    BY <1>2, <1>6, <2>1, <2>2, <2>4, FreshCases
  <2> QED
    BY <2>3, <2>4
<1> QED
  BY <1>3, <1>5, <1>6 DEF Holds

LEMMA UnchangedHolds ==
  ASSUME MarketInv, UNCHANGED stored, NEW v
  PROVE  Holds(v)
BY DEF MarketInv, RowsTyped, RowsSound, Holds, Fresh, Stores, HasPrices

(* Every claim the rows make survives such a save.                         *)
LEMMA HeldRows ==
  ASSUME MarketInv, NEW v \in Nat \ {0}, Began(v), Holds(v), NEW c \in Known, NEW s \in Nat
  PROVE  /\ s = syncRow[c].since /\ syncRow[c].status = "completed" =>
              \A d \in MarketTables : Fresh(c, d, s)'
         /\ s = refreshRow[c].since =>
              \A i \in DOMAIN refreshRow[c].domains :
                refreshRow[c].domains[i] = "success" /\ RefreshDomains[i] \in MarketTables =>
                  Fresh(c, RefreshDomains[i], s)'
<1>1. ASSUME s = syncRow[c].since, syncRow[c].status = "completed", NEW d \in MarketTables
      PROVE  Fresh(c, d, s)'
  <2>1. s \in 0 .. v /\ s # 0
    BY <1>1 DEF Began, MarketInv, RowsSound
  <2>2. \A e \in MarketTables : Fresh(c, e, s)
    BY <1>1, DomainPlaces DEF MarketInv, CompletedIsFresh
  <2>3. c \notin Listed \/ HasPrices(c)
    <3>1. Fresh(c, "prices", s) /\ stored[c]["prices"] \in Nat
      BY <2>2 DEF MarketTables, MarketInv, RowsTyped
    <3> QED
      BY <2>1, <3>1, FreshCases DEF HasPrices
  <2> QED
    BY <2>1, <2>2, <2>3 DEF Holds
<1>2. ASSUME s = refreshRow[c].since, NEW i \in DOMAIN refreshRow[c].domains,
             refreshRow[c].domains[i] = "success", RefreshDomains[i] \in MarketTables
      PROVE  Fresh(c, RefreshDomains[i], s)'
  <2>1. s \in 0 .. v
    BY <1>2 DEF Began
  <2>2. Fresh(c, RefreshDomains[i], s)
    BY <1>2, DomainPlaces DEF MarketInv, CompletedIsFresh
  <2>3. RefreshDomains[i] = "dividends" => HasPrices(c)
    BY <1>2 DEF MarketInv, RowsSound
  <2> QED
    BY <1>2, <2>1, <2>2, <2>3 DEF Holds
<1> QED
  BY <1>1, <1>2

LEMMA StoreDomainKeeps == MarketInv /\ StoreDomain => MarketInv'
<1> SUFFICES ASSUME MarketInv, StoreDomain PROVE MarketInv'
  OBVIOUS
<1> DEFINE next == [job EXCEPT !.pc = "fetch", !.domain = job.domain + 1, !.version = 0]
           done == [job EXCEPT !.pc = "complete", !.version = 0]
<1>1. /\ UNCHANGED <<upstream, syncRow, refreshRow, refresh>> /\ job.pc = "store"
      /\ job' = IF job.domain < 4 THEN next ELSE done
  BY DomainPlaces DEF StoreDomain, AfterDomain, JobAt
<1>2. PICK todo, batch : job \in Jobs(todo, batch)
  BY DEF MarketInv, JobShape
<1>3. /\ upstream \in Nat /\ job.bundle \in Nat \ {0} /\ job.bundle <= upstream
      /\ job.domain \in Nat /\ 1 <= job.domain /\ job.domain <= 4
      /\ job.version \in Nat \ {0} /\ Began(job.version) /\ Began(job.bundle)
  BY <1>1, <1>2 DEF MarketInv, RowsTyped, SyncRows, RefreshRows, JobShape, JobSound, Jobs, Began
<1>4. /\ next \in Jobs(todo, batch) /\ next.pc = "fetch" /\ next.domain = job.domain + 1
      /\ next.bundle = job.bundle /\ next.batch = job.batch
  <2>1. PICK place \in Nat : place = job.domain + 1
    BY <1>3
  <2> DEFINE n == [job EXCEPT !.pc = "fetch", !.domain = place, !.version = 0]
  <2>2. /\ n \in Jobs(todo, batch) /\ n.pc = "fetch" /\ n.domain = place
        /\ n.bundle = job.bundle /\ n.batch = job.batch
    BY <1>2 DEF Jobs, JobPlaces
  <2> QED
    BY <2>1, <2>2
<1>5. /\ done \in Jobs(todo, batch) /\ done.pc = "complete" /\ done.domain = job.domain
      /\ done.bundle = job.bundle /\ done.batch = job.batch
  BY <1>2, <1>3 DEF Jobs, JobPlaces
<1> HIDE DEF next, done
<1>6. PICK n : /\ job' = n /\ n \in {next, done} /\ n \in Jobs(todo, batch)
               /\ n.pc = IF job.domain < 4 THEN "fetch" ELSE "complete"
               /\ n.domain = IF job.domain < 4 THEN job.domain + 1 ELSE job.domain
               /\ n.bundle = job.bundle /\ n.batch = job.batch
  BY <1>1, <1>4, <1>5
<1>7. JobShape(n) /\ StoredSoFar(n) = job.domain
  BY <1>3, <1>6 DEF JobShape, StoredSoFar
<1>8. PICK c, d, v : c = Current /\ d = Domain /\ v = job.version
  OBVIOUS
<1>9. stored' = IF Stores(c, d) THEN [stored EXCEPT ![c][d] = v] ELSE stored
  BY <1>8 DEF StoreDomain, Save
<1>10. d \in MarketTables /\ v \in Nat \ {0} /\ Began(v)
  BY <1>3, <1>8, DomainPlaces DEF Domain, MarketTables
<1>11. /\ Holds(v)
       /\ c \in Known => \A s \in 0 .. v :
            (d = "dividends" => c \notin Listed \/ HasPrices(c)) => Fresh(c, d, s)'
  BY <1>9, <1>10, SaveHolds
<1>12. RowsTyped' /\ RefreshShape(refresh)' /\ OneAtATime' /\ RefreshSound' /\ RowsSound'
  BY <1>1, <1>6, <1>11
  DEF Holds, MarketInv, RowsTyped, RefreshShape, OneAtATime, RefreshSound, RowsSound, Began
<1>13. ASSUME NEW x \in Known, x = c, NEW i \in 1 .. job.domain, NEW s \in Nat,
              s = syncRow[x].since
       PROVE  Fresh(x, Domains[i], s)'
  <2>1. s \in 0 .. v /\ s # 0 /\ Domains[i] \in MarketTables
    BY <1>1, <1>3, <1>10, <1>13, DomainPlaces DEF Began, MarketInv, RowsSound, MarketTables
  <2>2. \A k \in 1 .. job.domain - 1 : Fresh(x, Domains[k], s)
    BY <1>1, <1>8, <1>13 DEF MarketInv, JobSound, SoFarFresh, StoredSoFar, Current
  <2>3. Domains[i] = "dividends" => x \notin Listed \/ HasPrices(x)
    <3>1. SUFFICES ASSUME i = 3, x \in Listed PROVE HasPrices(x)
      BY <1>3, DomainPlaces
    <3>2. Fresh(x, "prices", s) /\ stored[x]["prices"] \in Nat
      BY <1>3, <2>2, <3>1, DomainPlaces DEF MarketInv, RowsTyped, MarketTables
    <3> QED
      BY <2>1, <3>1, <3>2, FreshCases DEF HasPrices
  <2>4. CASE i < job.domain
    BY <1>3, <1>11, <2>1, <2>2, <2>3, <2>4 DEF Holds
  <2>5. CASE i = job.domain
    BY <1>8, <1>11, <1>13, <2>1, <2>3, <2>5 DEF Domain
  <2> QED
    BY <1>3, <2>4, <2>5
<1>14. JobSound'
  <2>1. \A x \in Known : syncRow[x].since \in Nat
    BY DEF MarketInv, RowsTyped, SyncRows
  <2>2. SoFarFresh(job)'
    BY <1>1, <1>6, <1>7, <1>8, <1>13, <2>1 DEF SoFarFresh, Current
  <2> QED
    BY <1>1, <1>3, <1>6, <2>2 DEF JobSound, Began
<1>15. CompletedIsFresh'
  <2>1. \A x \in Known : syncRow[x].since \in Nat /\ refreshRow[x].since \in Nat
    BY DEF MarketInv, RowsTyped, SyncRows, RefreshRows
  <2> QED
    BY <1>1, <1>10, <1>11, <2>1, HeldRows, DomainPlaces DEF MarketInv, CompletedIsFresh
<1> QED
  BY <1>6, <1>7, <1>12, <1>14, <1>15 DEF MarketInv
-----------------------------------------------------------------------------
(* The steps of a refresh.  The job is idle, so its part is nothing.       *)
LEMMA RefreshMoves ==
  ASSUME MarketInv, RefreshShape(refresh'), UNCHANGED <<upstream, stored, syncRow, refreshRow, job>>,
         job.pc = "idle", RefreshSound'
  PROVE  MarketInv'
<1>1. RowsTyped' /\ JobShape(job)' /\ OneAtATime' /\ JobSound' /\ RowsSound'
  BY DEF MarketInv, RowsTyped, JobShape, OneAtATime, JobSound, RowsSound, Began, HasPrices
<1>2. CompletedIsFresh'
  <2>1. \A c \in Known : \A d, since : Fresh(c, d, since) => Fresh(c, d, since)'
    BY DEF Fresh, Stores, HasPrices
  <2> QED
    BY <2>1 DEF MarketInv, CompletedIsFresh
<1> QED
  BY <1>1, <1>2 DEF MarketInv, RefreshShape

LEMMA KillRefreshKeeps == MarketInv /\ KillRefresh => MarketInv'
<1> SUFFICES ASSUME MarketInv, KillRefresh PROVE MarketInv'
  OBVIOUS
<1>1. UNCHANGED <<upstream, stored, syncRow, refreshRow, job>> /\ refresh' = NoRefresh
      /\ job.pc = "idle"
  BY DEF KillRefresh, RefreshAt, MarketInv, OneAtATime
<1>2. RefreshSound' /\ RefreshShape(refresh')
  BY <1>1, NoRefreshShape DEF RefreshSound
<1> QED
  BY <1>1, <1>2, RefreshMoves

LEMMA FetchRefreshKeeps == MarketInv /\ FetchRefresh => MarketInv'
<1> SUFFICES ASSUME MarketInv, FetchRefresh PROVE MarketInv'
  OBVIOUS
<1> DEFINE n == [refresh EXCEPT !.pc = "store", !.version = upstream]
<1>1. /\ UNCHANGED <<upstream, stored, syncRow, refreshRow, job>> /\ refresh' = n
      /\ refresh.pc = "fetch" /\ job.pc = "idle" /\ ~Refusing(refresh.company, Refreshed)
  BY DEF FetchRefresh, RefreshAt, MarketInv, OneAtATime
<1>2. PICK company : refresh \in Refreshes(company)
  BY DEF MarketInv, RefreshShape
<1>3. upstream \in Nat \ {0} /\ Began(upstream)
  BY DEF MarketInv, RowsTyped, RowsSound
<1>4. /\ n \in Refreshes(company) /\ n.pc = "store" /\ n.company = refresh.company
      /\ n.domain = refresh.domain /\ n.version = upstream
  BY <1>2, <1>3 DEF Refreshes, RefreshPcs
<1> HIDE DEF n
<1>5. RefreshShape(n)
  BY <1>1, <1>4 DEF RefreshShape, MarketInv
<1>6. RefreshSound'
  <2>1. Refreshed = "dividends" => HasPrices(refresh.company)
    BY <1>1 DEF Refusing
  <2>2. Refreshed' = Refreshed /\ HasPrices(refresh.company)' = HasPrices(refresh.company)
    BY <1>1, <1>4 DEF Refreshed, HasPrices
  <2> QED
    BY <1>1, <1>3, <1>4, <2>1, <2>2 DEF MarketInv, RefreshSound, Began
<1> QED
  BY <1>1, <1>5, <1>6, RefreshMoves

(* The memory of a refresh that has reported a domain.                     *)
LEMMA ReportShape ==
  ASSUME MarketInv, NEW o, Report(o), refresh.pc # "idle"
  PROVE  /\ RefreshShape(refresh') /\ refresh'.company = refresh.company
         /\ refresh'.pc = (IF refresh.domain < 7 THEN "fetch" ELSE "finish")
         /\ refresh'.domain = IF refresh.domain < 7 THEN refresh.domain + 1 ELSE 7
<1> DEFINE next == [refresh EXCEPT !.pc = "fetch", !.domain = refresh.domain + 1, !.version = 0]
           done == [refresh EXCEPT !.pc = "finish", !.version = 0]
<1>1. refresh' = IF refresh.domain < 7 THEN next ELSE done
  BY RefreshPlaces DEF Report
<1>2. PICK company : refresh \in Refreshes(company)
  BY DEF MarketInv, RefreshShape
<1>3. /\ refresh.domain \in Nat /\ 1 <= refresh.domain /\ refresh.domain <= 7
      /\ refresh.company \in Known
  BY <1>2 DEF MarketInv, RefreshShape, Refreshes
<1>4. /\ next \in Refreshes(company) /\ next.pc = "fetch"
      /\ next.domain = refresh.domain + 1 /\ next.company = refresh.company
  <2>1. PICK place \in Nat : place = refresh.domain + 1
    BY <1>3
  <2> DEFINE n == [refresh EXCEPT !.pc = "fetch", !.domain = place, !.version = 0]
  <2>2. /\ n \in Refreshes(company) /\ n.pc = "fetch" /\ n.domain = place
        /\ n.company = refresh.company
    BY <1>2 DEF Refreshes, RefreshPcs
  <2> QED
    BY <2>1, <2>2
<1>5. /\ done \in Refreshes(company) /\ done.pc = "finish"
      /\ done.domain = refresh.domain /\ done.company = refresh.company
  BY <1>2 DEF Refreshes, RefreshPcs
<1> HIDE DEF next, done
<1> QED
  BY <1>1, <1>3, <1>4, <1>5 DEF RefreshShape

(* Reporting a domain: a success is stored, a failure claims nothing.      *)
LEMMA ReportKeeps ==
  ASSUME MarketInv, NEW o \in Outcomes, Report(o), refresh.pc \in {"fetch", "store"},
         UNCHANGED <<upstream, syncRow, job>>,
         NEW v \in Nat \ {0}, Began(v), Holds(v),
         NEW c \in Known, c = refresh.company, NEW d, d = Refreshed,
         o = "success" =>
           /\ d = "dividends" => HasPrices(c)
           /\ d \in MarketTables => \A s \in 0 .. v : Fresh(c, d, s)'
  PROVE  MarketInv'
<1>1. c = refresh.company
  OBVIOUS
<1>2. /\ refreshRow \in [Known -> RefreshRows] /\ refreshRow[c] \in RefreshRows
      /\ refreshRow[c].status = "running" /\ job.pc = "idle"
      /\ refresh.domain \in Nat /\ 1 <= refresh.domain /\ refresh.domain <= 7
      /\ Len(refreshRow[c].domains) = refresh.domain - 1
  <2>1. PICK company : refresh \in Refreshes(company)
    BY DEF MarketInv, RefreshShape
  <2> QED
    BY <1>1, <2>1 DEF MarketInv, RowsTyped, OneAtATime, RefreshSound, RefreshShape, Refreshes
<1> DEFINE old == refreshRow[c].domains
           new == Append(old, o)
<1>3. /\ old \in Seq(Outcomes) /\ new \in Seq(Outcomes) /\ Len(new) = refresh.domain
      /\ DOMAIN new = 1 .. refresh.domain /\ DOMAIN old = 1 .. refresh.domain - 1
      /\ \A i \in 1 .. refresh.domain - 1 : new[i] = old[i]
      /\ new[refresh.domain] = o
  BY <1>2 DEF RefreshRows
<1>4. refreshRow' = [refreshRow EXCEPT ![c] = [@ EXCEPT !.domains = new]]
  BY <1>1 DEF Report
<1> HIDE DEF new
<1>5. /\ refreshRow'[c].domains = new /\ refreshRow'[c].status = "running"
      /\ refreshRow'[c].since = refreshRow[c].since /\ refreshRow'[c] \in RefreshRows
      /\ \A x \in Known \ {c} : refreshRow'[x] = refreshRow[x]
  BY <1>2, <1>3, <1>4 DEF RefreshRows
<1>6. refreshRow' \in [Known -> RefreshRows]
  BY <1>2, <1>4, <1>5
<1>7. \A x \in Known : refreshRow'[x].since = refreshRow[x].since
  BY <1>5
<1>8. /\ RefreshShape(refresh') /\ refresh'.company = c
      /\ refresh'.pc = (IF refresh.domain < 7 THEN "fetch" ELSE "finish")
      /\ refresh'.domain = IF refresh.domain < 7 THEN refresh.domain + 1 ELSE 7
  BY <1>1, ReportShape
<1>9. RowsTyped' /\ JobShape(job)' /\ OneAtATime' /\ JobSound'
  BY <1>2, <1>6 DEF Holds, MarketInv, RowsTyped, JobShape, OneAtATime, JobSound
<1>10. RefreshSound'
  BY <1>2, <1>3, <1>5, <1>8 DEF RefreshSound
<1>11. RefreshDomains[refresh.domain] = d
  BY DEF Refreshed
<1>12. ASSUME NEW x \in Known, NEW i \in DOMAIN refreshRow'[x].domains,
              ~(x = c /\ i = refresh.domain)
       PROVE  /\ i \in DOMAIN refreshRow[x].domains
              /\ refreshRow'[x].domains[i] = refreshRow[x].domains[i]
  <2>1. CASE x # c
    BY <1>5, <2>1
  <2>2. CASE x = c
    <3>1. i \in DOMAIN new
      BY <1>5, <2>2
    <3>2. i \in 1 .. refresh.domain - 1
      BY <1>2, <1>3, <1>12, <2>2, <3>1
    <3>3. i \in DOMAIN old /\ new[i] = old[i]
      BY <1>3, <3>2
    <3> QED
      BY <1>5, <2>2, <3>3
  <2> QED
    BY <2>1, <2>2
<1>13. RowsSound'
  <2>1. Began(upstream)'
    BY <1>7 DEF MarketInv, RowsSound, Began
  <2>2. ASSUME NEW x \in Known, NEW i \in DOMAIN refreshRow'[x].domains,
               refreshRow'[x].domains[i] = "success", RefreshDomains[i] = "dividends"
        PROVE  HasPrices(x)'
    <3>1. CASE x = c /\ i = refresh.domain
      BY <1>1, <1>3, <1>5, <1>11, <2>2, <3>1 DEF Holds
    <3>2. CASE ~(x = c /\ i = refresh.domain)
      <4>1. i \in DOMAIN refreshRow[x].domains /\ refreshRow[x].domains[i] = "success"
        BY <1>12, <2>2, <3>2
      <4> QED
        BY <2>2, <4>1 DEF MarketInv, RowsSound, Holds
    <3> QED
      BY <3>1, <3>2
  <2> QED
    BY <1>2, <2>1, <2>2 DEF MarketInv, RowsSound, Holds
<1>14. CompletedIsFresh'
  <2>1. \A x \in Known : syncRow[x].since \in Nat /\ refreshRow[x].since \in Nat
    BY DEF MarketInv, RowsTyped, SyncRows, RefreshRows
  <2>2. \A x \in Known : syncRow[x].status = "completed" =>
           \A e \in MarketTables : Fresh(x, e, syncRow[x].since)'
    BY <2>1, HeldRows
  <2>3. ASSUME NEW x \in Known, NEW i \in DOMAIN refreshRow'[x].domains,
               refreshRow'[x].domains[i] = "success", RefreshDomains[i] \in MarketTables
        PROVE  Fresh(x, RefreshDomains[i], refreshRow[x].since)'
    <3>1. PICK s \in Nat : s = refreshRow[x].since
      BY <2>1
    <3>2. s \in 0 .. v
      BY <3>1 DEF Began
    <3>3. CASE x = c /\ i = refresh.domain
      <4>1. new[refresh.domain] = "success" /\ d \in MarketTables
        BY <1>5, <1>11, <2>3, <3>3
      <4>2. o = "success"
        BY <1>3, <4>1
      <4>3. Fresh(c, d, s)'
        BY <3>2, <4>1, <4>2
      <4> QED
        BY <1>7, <1>11, <3>1, <3>3, <4>3
    <3>4. CASE ~(x = c /\ i = refresh.domain)
      <4>1. i \in DOMAIN refreshRow[x].domains /\ refreshRow[x].domains[i] = "success"
        BY <1>12, <2>3, <3>4
      <4> QED
        BY <1>7, <2>3, <3>1, <4>1, HeldRows
    <3> QED
      BY <3>3, <3>4
  <2>4. \A x \in Known : refreshRow'[x].status = "completed" =>
          \A i \in DOMAIN RefreshDomains :
            RefreshDomains[i] \in Mandatory => refreshRow'[x].domains[i] = "success"
    BY <1>5 DEF MarketInv, CompletedIsFresh
  <2> QED
    BY <2>2, <2>3, <2>4, DomainPlaces DEF CompletedIsFresh
<1> QED
  BY <1>8, <1>9, <1>10, <1>13, <1>14 DEF MarketInv, RefreshShape

(* A report that stores nothing, and fails its domain.                     *)
LEMMA FailedReportKeeps ==
  ASSUME MarketInv, Report("failed"), refresh.pc \in {"fetch", "store"},
         UNCHANGED <<upstream, stored, syncRow, job>>
  PROVE  MarketInv'
<1>1. upstream \in Nat \ {0} /\ Began(upstream) /\ refresh.company \in Known
  BY DEF MarketInv, RowsTyped, RowsSound, RefreshShape
<1>2. Holds(upstream)
  BY UnchangedHolds
<1> QED
  BY <1>1, <1>2, ReportKeeps DEF Outcomes

LEMMA RefuseRefreshKeeps == MarketInv /\ RefuseRefresh => MarketInv'
BY FailedReportKeeps DEF RefuseRefresh, RefreshAt

LEMMA FailRefreshKeeps == MarketInv /\ FailRefresh => MarketInv'
BY FailedReportKeeps DEF FailRefresh

LEMMA StoreRefreshKeeps == MarketInv /\ StoreRefresh => MarketInv'
<1> SUFFICES ASSUME MarketInv, StoreRefresh PROVE MarketInv'
  OBVIOUS
<1>1. /\ UNCHANGED <<upstream, syncRow, job>> /\ refresh.pc = "store" /\ Report("success")
      /\ refresh.company \in Known
  BY DEF StoreRefresh, RefreshAt, MarketInv, RefreshShape
<1>2. PICK c, d, v : c = refresh.company /\ d = Refreshed /\ v = refresh.version
  OBVIOUS
<1>3. refresh.version \in Nat
  BY DEF MarketInv, RefreshShape, Refreshes
<1>4. /\ v \in Nat \ {0} /\ Began(v) /\ c \in Known
      /\ d = "dividends" => HasPrices(c)
  BY <1>1, <1>2, <1>3 DEF MarketInv, RefreshSound
<1>5. stored' = IF d \in MarketTables /\ Stores(c, d) THEN [stored EXCEPT ![c][d] = v] ELSE stored
  BY <1>2, DomainPlaces DEF StoreRefresh, Save
<1>6. Holds(v) /\ (d \in MarketTables => \A s \in 0 .. v : Fresh(c, d, s)')
  <2>1. CASE d \in MarketTables
    BY <1>4, <1>5, <2>1, SaveHolds
  <2>2. CASE d \notin MarketTables
    BY <1>5, <2>2, UnchangedHolds
  <2> QED
    BY <2>1, <2>2
<1> QED
  BY <1>1, <1>2, <1>4, <1>6, ReportKeeps DEF Outcomes

(* A start moves a row to running, with nothing claimed.                   *)
LEMMA StartRefreshKeeps ==
  ASSUME OneWriter, MarketInv, NEW c \in Known, StartRefresh(c)
  PROVE  MarketInv'
<1> DEFINE n == [pc |-> "fetch", company |-> c, domain |-> 1, version |-> 0]
           row == RefreshRow("running", upstream, << >>)
<1>1. /\ UNCHANGED <<upstream, stored, syncRow, job>> /\ refresh' = n /\ job.pc = "idle"
      /\ refreshRow' = [refreshRow EXCEPT ![c] = row]
  BY DEF StartRefresh, JobAt
<1>2. upstream \in Nat /\ row \in RefreshRows /\ refreshRow \in [Known -> RefreshRows]
  BY DEF MarketInv, RowsTyped, RefreshRow, RefreshRows, Statuses
<1>3. /\ row.status = "running" /\ row.since = upstream /\ row.domains = << >>
  BY DEF RefreshRow
<1>4. n \in Refreshes(c) /\ n.pc = "fetch" /\ n.domain = 1 /\ n.company = c
  BY DEF Refreshes, RefreshPcs
<1> HIDE DEF n, row
<1>5. /\ refreshRow' \in [Known -> RefreshRows] /\ refreshRow'[c] = row
      /\ \A x \in Known \ {c} : refreshRow'[x] = refreshRow[x]
  BY <1>1, <1>2
<1>6. RowsTyped' /\ JobShape(job)' /\ OneAtATime' /\ JobSound'
  BY <1>1, <1>5 DEF MarketInv, RowsTyped, JobShape, OneAtATime, JobSound
<1>7. RefreshShape(refresh)'
  BY <1>1, <1>4 DEF RefreshShape
<1>8. RefreshSound'
  BY <1>1, <1>3, <1>4, <1>5 DEF RefreshSound
<1>9. RowsSound'
  BY <1>1, <1>2, <1>3, <1>5 DEF MarketInv, RowsSound, Began, HasPrices
<1>10. CompletedIsFresh'
  <2>1. \A x \in Known : \A d, since : Fresh(x, d, since) => Fresh(x, d, since)'
    BY <1>1 DEF Fresh, Stores, HasPrices
  <2> QED
    BY <1>1, <1>3, <1>5, <2>1 DEF MarketInv, CompletedIsFresh
<1> QED
  BY <1>6, <1>7, <1>8, <1>9, <1>10 DEF MarketInv

(* A finish calls a refresh completed only if no mandatory domain failed.  *)
LEMMA FinishRefreshKeeps == MarketInv /\ FinishRefresh => MarketInv'
<1> SUFFICES ASSUME MarketInv, FinishRefresh PROVE MarketInv'
  OBVIOUS
<1>1. PICK c \in Known : c = refresh.company
  BY DEF FinishRefresh, RefreshAt, MarketInv, RefreshShape
<1>2. PICK s : s = IF Blocked(refreshRow[c].domains) THEN "failed" ELSE "completed"
  OBVIOUS
<1>3. /\ UNCHANGED <<upstream, stored, syncRow, job>> /\ refresh' = NoRefresh
      /\ refresh.pc = "finish"
      /\ refreshRow' = [refreshRow EXCEPT ![c] = [@ EXCEPT !.status = s]]
  BY <1>1, <1>2 DEF FinishRefresh, RefreshAt
<1>4. /\ refreshRow \in [Known -> RefreshRows] /\ refreshRow[c] \in RefreshRows
      /\ s \in Statuses /\ Len(refreshRow[c].domains) = 7
  BY <1>1, <1>2, <1>3 DEF MarketInv, RowsTyped, RefreshSound, Statuses
<1>5. /\ refreshRow'[c] \in RefreshRows /\ refreshRow'[c].status = s
      /\ refreshRow'[c].since = refreshRow[c].since
      /\ refreshRow'[c].domains = refreshRow[c].domains
      /\ \A x \in Known \ {c} : refreshRow'[x] = refreshRow[x]
  BY <1>3, <1>4 DEF RefreshRows
<1>6. refreshRow' \in [Known -> RefreshRows]
  BY <1>3, <1>4, <1>5
<1>7. \A x \in Known : /\ refreshRow'[x].since = refreshRow[x].since
                        /\ refreshRow'[x].domains = refreshRow[x].domains
                        /\ x # c => refreshRow'[x].status = refreshRow[x].status
  BY <1>5
<1>8. /\ RowsTyped' /\ JobShape(job)' /\ OneAtATime' /\ JobSound'
      /\ RefreshShape(refresh)' /\ RefreshSound'
  BY <1>3, <1>6, NoRefreshShape
  DEF MarketInv, RowsTyped, JobShape, OneAtATime, JobSound, RefreshSound
<1>9. RowsSound'
  BY <1>3, <1>7 DEF MarketInv, RowsSound, Began, HasPrices
<1>10. s = "completed" =>
         \A i \in DOMAIN RefreshDomains :
           RefreshDomains[i] \in Mandatory => refreshRow[c].domains[i] = "success"
  <2>1. \A i \in 1 .. 7 : refreshRow[c].domains[i] \in Outcomes
    BY <1>4 DEF RefreshRows
  <2>2. DOMAIN refreshRow[c].domains = 1 .. 7
    BY <1>4 DEF RefreshRows
  <2> QED
    BY <1>2, <2>1, <2>2, RefreshPlaces DEF Blocked, Outcomes
<1>11. CompletedIsFresh'
  <2>1. \A x \in Known : \A d, since : Fresh(x, d, since) => Fresh(x, d, since)'
    BY <1>3 DEF Fresh, Stores, HasPrices
  <2> QED
    BY <1>3, <1>5, <1>7, <1>10, <2>1 DEF MarketInv, CompletedIsFresh
<1> QED
  BY <1>8, <1>9, <1>11 DEF MarketInv
-----------------------------------------------------------------------------
LEMMA MarketNextKeeps ==
  ASSUME OneWriter
  PROVE  MarketInv /\ [MarketNext]_marketVars => MarketInv'
<1> SUFFICES ASSUME MarketInv, [MarketNext]_marketVars PROVE MarketInv'
  OBVIOUS
<1>1. CASE NewData
  BY <1>1, NewDataKeeps
<1>2. CASE JobStep
  BY <1>2, StartJobKeeps, FetchBundlesKeeps, FailBundlesKeeps, FetchDomainKeeps,
     StoreDomainKeeps, FailCompanyKeeps, CompleteCompanyKeeps DEF JobStep
<1>3. CASE RefreshStep
  BY <1>3, StartRefreshKeeps, FetchRefreshKeeps, StoreRefreshKeeps, RefuseRefreshKeeps,
     FailRefreshKeeps, FinishRefreshKeeps DEF RefreshStep
<1>4. CASE KillJob
  BY <1>4, KillJobKeeps
<1>5. CASE KillRefresh
  BY <1>5, KillRefreshKeeps
<1>6. CASE UNCHANGED marketVars
  <2>1. UNCHANGED <<upstream, stored, syncRow, refreshRow, job, refresh>>
    BY <1>6 DEF marketVars
  <2>2. \A x : \A d, since : Fresh(x, d, since) => Fresh(x, d, since)'
    BY <2>1 DEF Fresh, Stores, HasPrices
  <2>3. RowsTyped' /\ JobShape(job)' /\ RefreshShape(refresh)' /\ OneAtATime'
    BY <2>1 DEF MarketInv, RowsTyped, JobShape, RefreshShape, OneAtATime
  <2>4. RowsSound' /\ RefreshSound'
    BY <2>1 DEF MarketInv, RowsSound, RefreshSound, Began, HasPrices, Refreshed
  <2>5. JobSound' /\ CompletedIsFresh'
    BY <2>1, <2>2 DEF MarketInv, JobSound, SoFarFresh, StoredSoFar, Began, CompletedIsFresh
  <2> QED
    BY <2>3, <2>4, <2>5 DEF MarketInv
<1> QED
  BY <1>1, <1>2, <1>3, <1>4, <1>5, <1>6 DEF MarketNext

(* While the nightly job and a refresh do not overlap, a completed row of  *)
(* the job, a completed refresh and a success of a domain all mean data at *)
(* least as new as the run they came from.                                 *)
THEOREM SyncedIsFresh ==
  ASSUME OneWriter
  PROVE  MarketSpec => []CompletedIsFresh
<1>1. MarketInv => CompletedIsFresh
  BY DEF MarketInv
<1> QED
  BY <1>1, MarketInitially, MarketNextKeeps, PTL DEF MarketSpec
=============================================================================
