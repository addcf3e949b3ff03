----------------------------- MODULE MCReverseDcf -----------------------------
(***************************************************************************)
(* A company at many prices and returns on capital, everything that is one *)
(* slip from it, and histories of several lengths.                         *)
(***************************************************************************)
EXTENDS ReverseDcf, TLC

Report(year, revenue, ebit, fcf) ==
  [year |-> year, revenue |-> revenue, ebit |-> ebit, fcf |-> fcf, investing |-> -1]
ReportHistories ==
  {<< >>, <<Report(4, 18, 3, 2)>>, <<Report(3, 18, 2, 2), Report(4, 19, 3, 2)>>,
   <<Report(2, 17, 2, 2), Report(3, 18, 2, 2), Report(4, 19, 3, 2)>>,
   <<Report(4, 18, 2, 2), Report(4, 19, 3, 2)>>,
   <<Report(Missing, 18, 2, 2), Report(Missing, 19, 3, 2)>>,
   <<Report(1, 16, 5, 2), Report(2, 17, 5, 2), Report(3, 18, 2, 2), Report(4, 19, 2, 2)>>,
   <<Report(1, 16, 2, 2), Report(2, 17, 2, -2), Report(3, 18, 2, 6), Report(4, 19, 2, 2)>>,
   <<Report(1, 30, 4, 2), Report(3, 0, 2, 2), Report(4, 28, 4, Missing)>>,
   <<Report(3, 18, 2, 2), Report(4, 18, 2, -2), Report(4, 19, 3, 2)>>,
   <<Report(0, 18, 3, -2)>> \o [i \in 1 .. 4 |-> Report(i, 18, 3, 2)]}
CurrentReport ==
  [year |-> 5, revenue |-> 20, ebit |-> 3, fcf |-> 2, investing |-> -1,
   shares |-> 2, debt |-> 4, currency |-> "SEK"]
Quote(close) == [close |-> close, age |-> 1, currency |-> "SEK"]
Ordinary ==
  [branch |-> "general", price |-> Quote(12), current |-> CurrentReport,
   annual |-> Report(5, 20, 3, 2), roic |-> 120,
   history |-> <<Report(3, 18, 2, 2), Report(4, 19, 3, 2)>>]

DcfSlips ==
  [branch : {"bank", "property"}] \cup [roic : {Missing, -10, 20}]
  \cup [price : {Missing} \cup {slip @@ Quote(12) :
          slip \in [age : {-1, 0, 7, 8}] \cup [currency : {Missing, "EUR"}] \cup [close : {0}]}]
  \cup [current : {Missing} \cup {slip @@ CurrentReport :
          slip \in [revenue : {Missing, 0}] \cup [ebit : {Missing, -2, 6}] \cup [shares : {Missing, 0}]
                   \cup [debt : {Missing, -8, 30}] \cup [currency : {Missing, "EUR"}]}]
  \cup [annual : {Missing, Report(5, 0, 3, 2), Report(5, 20, Missing, 2), Report(5, 20, -3, -2),
                  Report(Missing, 20, 3, 2), [Report(5, 20, 3, 2) EXCEPT !.investing = 7]}]
  \cup [history : ReportHistories]
  \cup [annual : {Missing, Report(5, 20, Missing, 2)}, history : {<< >>},
        current : {CurrentReport, [CurrentReport EXCEPT !.ebit = Missing]}]
  \cup [annual : {Report(Missing, 20, 3, cash) : cash \in {Missing, -2, 2}},
        history : {<<Report(Missing, 18, 3, cash), Report(Missing, 19, 3, cash)>> :
                     cash \in {Missing, -2, 2}}]
PricesAndReturns == [price : {Quote(close) : close \in 1 .. 36}, roic : {Missing, 60, 120, 300}]
DcfEvidence == {slip @@ Ordinary : slip \in DcfSlips \cup PricesAndReturns}

(* The prices of one company, for what is reported as outside the bounds.  *)
DcfPrices == {slip @@ Ordinary : slip \in PricesAndReturns}
=============================================================================
