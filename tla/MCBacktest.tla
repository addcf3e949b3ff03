------------------------------- MODULE MCBacktest -------------------------------
(***************************************************************************)
(* Years of eight days and four months, with two interim reports: an empty *)
(* store that is filled, and a filled one whose periods are measured.      *)
(***************************************************************************)
EXTENDS Backtest

General5 == <<6, 5, 6, 3>>                     \* the frozen weights, in twentieths
(* In place of the coefficient: how many pairs agree; of less than three   *)
(* companies none is computed.                                             *)
Concordance(pairs) ==
  IF Cardinality(pairs) < 3 THEN 0
  ELSE Cardinality({<<p, q>> \in pairs \X pairs : p[2] < q[2] /\ p[3] < q[3]})
Empty == [reports |-> {}, snapshots |-> {}, prices |-> {}]
Filled ==
  [reports |-> {[type |-> "year", year |-> 0, period |-> 2, end |-> 7, date |-> 9]},
   snapshots |-> {}, prices |-> {3, 10, 11, 18, 19}]
Young ==
  [Empty EXCEPT !.prices = {7, 9},
     !.reports = {[type |-> "year", year |-> 0, period |-> 2, end |-> 7, date |-> 8],
                  [type |-> "interim", year |-> 0, period |-> 1, end |-> 3, date |-> None]}]
Stores ==
  {[today |-> 0, db |-> Empty], [today |-> 9, db |-> Young], [today |-> 28, db |-> Filled]}

ScoreSets == {<<60, 50, 60, 30>>, <<90, 20, 40, 50>>, <<30, 80, 40, 60>>, <<50, 50, 50, 50>>}
ReturnSet == {-2, 1, None}
Small == {s \in ScoreSets : s[1] # 50}
CaseOf(scores, returns, benchmark) == [scores |-> scores, returns |-> returns, benchmark |-> benchmark]
Attributing ==
  {CaseOf(s, r, None) : s \in [1 .. 4 -> {<<60, 50, 60, 30>>, <<90, 20, 40, 50>>, None}], r \in [1 .. 4 -> ReturnSet]}
Calibrating ==
  {CaseOf(s, r, 0) : s \in {x \in [1 .. 2 -> Small] : x[1] # x[2]}, r \in [1 .. 2 -> {-2, 3}]}
Second ==
  {x \in Calibrating : x.scores[1] = <<90, 20, 40, 50>> /\ x.returns[1] # x.returns[2]}
Trio ==
  {CaseOf(<<<<60, 50, 60, 30>>, <<90, 20, 40, 50>>, <<30, 80, 40, 60>>>>, r, 0) : r \in [1 .. 3 -> {-2, 3}]}
MCCases == Attributing \cup Calibrating \cup Trio

BacktestStep ==
  \/ db # Filled /\ DayStep
  \/ /\ db = Filled
     /\ \/ Calibrate
        \/ periods = << >> /\ \E case \in MCCases : MeasurePeriod(case)
        \/ /\ periods # << >> /\ Cardinality(Usable) \in {2, 3}
           /\ \E case \in (IF Cardinality(Usable) = 2 THEN Second ELSE Trio) : MeasurePeriod(case)
MCBacktestSpec == BacktestInit /\ [][BacktestStep]_backtestVars
=============================================================================
