-------------------------- MODULE MCMonthlyRanking --------------------------
(***************************************************************************)
(* Instances of MonthlyRanking for TLC.  Tiers and cohort meet only in the *)
(* row that names both, so a behaviour varies one of them: the tiers of    *)
(* three months without a deterministic run; the cohort of four months,    *)
(* with an analysis that stays the same; of both, two months in which two  *)
(* processes race; or the reviews of two months, the second with a tier    *)
(* that may be held, by two reviewers and with a company that is analysed  *)
(* late.                                                                   *)
(***************************************************************************)
EXTENDS ComparativeReview, TLC

CONSTANTS c1, c2, p1, p2

VARIABLE topic

Case(low, high, confidence) ==
  [available |-> TRUE, base |-> <<low, high>>, confidence |-> confidence]
Plain == Case(3, 4, "low")
Missing == [Plain EXCEPT !.available = FALSE]

(* On either side of the hurdle, within the tolerance and beyond it.       *)
TierCases ==
  {Case(1, 3, "high"), Case(-1, 3, "high"), Case(-3, 1, "medium"),
   Case(-3, -1, "high"), Plain, Missing}

Topics == {"tiers", "cohort", "races", "reviews"}
SameThesis == blocked' = {} /\ \A c \in DOMAIN theses' : theses'[c] = Plain
OneProcess == \E p \in Processes : \A q \in Processes \ {p} : proc'[q] = Idle
OneCompany ==
  /\ DOMAIN theses' \subseteq {c1}
  /\ \A m \in DOMAIN screens' : screens'[m] \subseteq {c1}

(* In the reviews a ranking is made without failures, and nobody reviews   *)
(* meanwhile.  A review is about the ranking of the second month.          *)
Reviewed ==
  LET Reviewing == \E p \in Processes : reviewer[p] # NoReview IN
  /\ month' <= 2 /\ screens' = screens /\ blocked' \subseteq {c1}
  /\ proc' # proc =>
       /\ ~Reviewing /\ OneProcess
       /\ \A p \in Processes : proc'[p].ranks \/ (proc'[p] = Idle /\ At(p, "save"))
                                 \/ proc'[p] = proc[p]
  /\ month' # month => 1 \in DOMAIN rankings
  /\ month' = 1 => blocked' = {} /\ theses' = c1 :> Case(1, 3, "high")
  /\ \A p \in Processes : c2 \in DOMAIN reviewer'[p].raw.cases =>
                            reviewer'[p].raw.cases[c2].change = "unchanged"
  /\ \A p \in Processes : reviewer'[p].month \in {0, 2}
  /\ reviewer' # reviewer => \A p \in Processes : proc[p] = Idle
  /\ \A c \in DOMAIN theses' :
       theses'[c] \in IF c = c1 THEN {Case(1, 3, "high"), Case(-1, 3, "high")} ELSE {Plain}

Varies ==
  /\ OneCompany
  /\ topic = "tiers"  => OneProcess /\ screens' = screens /\ month' <= 3
  /\ topic = "cohort" => OneProcess /\ SameThesis
  /\ topic = "races"  => /\ month' <= 2 /\ blocked' = {}
                         /\ \A c \in DOMAIN theses' : theses'[c] \in {Plain, Missing}

TopicInit == Init /\ ReviewInit /\ topic \in Topics
TopicNext ==
  /\ UNCHANGED topic
  /\ \/ topic = "reviews" /\ ReviewNext /\ Reviewed
     \/ topic # "reviews" /\ Next /\ UNCHANGED reviewVars /\ Varies
TopicSpec == TopicInit /\ [][TopicNext]_<<vars, reviewVars, topic>>

ProcessSymmetry == Permutations(Processes)
=============================================================================
