--------------------------- MODULE RankingPolicies ---------------------------
(***************************************************************************)
(* The deterministic policies of the monthly ranking: tiers against the    *)
(* hurdle, the hysteresis that holds a small change of tier for one month, *)
(* and the membership of the research cohort.                              *)
(*                                                                         *)
(* A case is an accepted analysis as the ranking sees it.  Returns are     *)
(* whole numbers measured from the hurdle, so that a band is above, below  *)
(* or across 0; Tolerance is the width within which a change is small.     *)
(***************************************************************************)
EXTENDS Integers

CONSTANTS
  Tolerance,      \* MonthlyTierHysteresisPolicy.TOLERANCE
  GraceMonths     \* AGENT_COHORT_GRACE_MONTHS

ASSUME PolicyAssumption == Tolerance \in Nat /\ GraceMonths \in Nat \ {0}

Bands == {band \in Int \X Int : band[1] <= band[2]}
Economic == {"A", "B", "C", "IE"}
Tiers == Economic \cup {"RESEARCH"}
Ordered == {"A", "B", "C"}
Order(tier) == CASE tier = "A" -> 0 [] tier = "B" -> 1 [] tier = "C" -> 2

(* available: v3 card, current policy, a valid scenario and a hurdle.      *)
Cases == [available : BOOLEAN, base : Bands, confidence : {"low", "medium", "high"}]
-----------------------------------------------------------------------------
(* ForwardScenarioRanker: the economic tier, and the tier it is shown as.  *)
ProposedTier(case) ==
  CASE ~case.available   -> "IE"
    [] case.available /\ case.base[1] >= 0 -> "A"
    [] case.available /\ case.base[1] < 0 /\ case.base[2] >= 0 -> "B"
    [] OTHER             -> "C"

Lowered(tier) == IF tier = "A" THEN "B" ELSE "C"

FinalTier(economic, case, blocked) ==
  CASE blocked                            -> "RESEARCH"
    [] ~blocked /\ economic = "IE"        -> "IE"
    [] ~blocked /\ economic # "IE" /\ case.confidence = "low" -> Lowered(economic)
    [] OTHER                              -> economic

(* The end of the base band whose side of the hurdle decides between two   *)
(* adjacent tiers.                                                         *)
Boundary(from, to, base) ==
  IF {from, to} = {"A", "B"} THEN base[1] ELSE base[2]

(* _is_near_adjacent_move *)
NearAdjacentMove(from, to, base) ==
  /\ {from, to} \subseteq Ordered
  /\ Order(from) - Order(to) \in {-1, 1}
  /\ Boundary(from, to, base) \in -Tolerance .. Tolerance

VariantHeld(cases, blocked, previous) ==     \* the first signal not looked up
  {c \in DOMAIN cases \ blocked :
     LET proposed == ProposedTier(cases[c]) IN
     /\ proposed # "IE"
     /\ c \in DOMAIN previous.effective
     /\ NearAdjacentMove(previous.effective[c], proposed, cases[c].base)}

VariantHeldOnce(cases, blocked, previous) ==     \* any pending move counts as the signal
  {c \in DOMAIN cases \ blocked :
     LET proposed == ProposedTier(cases[c]) IN
     /\ proposed # "IE"
     /\ c \in DOMAIN previous.effective \ DOMAIN previous.pending
     /\ NearAdjacentMove(previous.effective[c], proposed, cases[c].base)}

(* MonthlyTierHysteresisPolicy.decide: the companies whose move is held,   *)
(* because the previous ranking did not already have it pending.           *)
Held(cases, blocked, previous) ==
  {c \in DOMAIN cases \ blocked :
     LET proposed == ProposedTier(cases[c]) IN
     /\ proposed # "IE"
     /\ c \in DOMAIN previous.effective
     /\ NearAdjacentMove(previous.effective[c], proposed, cases[c].base)
     /\ ~(c \in DOMAIN previous.pending /\ previous.pending[c] = proposed)}

(* A ranking of the cases: ComparativeRankingService.build, once for the   *)
(* proposed tiers and once with those that are held.  Its cohort is added  *)
(* where it is saved.                                                      *)
NoRanking == [effective |-> << >>, pending |-> << >>]

RankingOf(cases, blocked, previous) ==
  LET held == Held(cases, blocked, previous)
      proposed == [c \in DOMAIN cases |-> ProposedTier(cases[c])]
      effective == [c \in DOMAIN cases |->
                      IF c \in held THEN previous.effective[c] ELSE proposed[c]]
  IN  [cases |-> cases, proposed |-> proposed, effective |-> effective,
       pending |-> [c \in held |-> proposed[c]], cohort |-> 0, members |-> {},
       tier |-> [c \in DOMAIN cases |-> FinalTier(effective[c], cases[c], c \in blocked)]]
-----------------------------------------------------------------------------
VariantMembers(month, top, prior) ==     \* one month of grace too many
  LET stay == {c \in DOMAIN prior : c \in top \/ prior[c].misses + 1 <= GraceMonths} IN
  [c \in top \cup stay |->
     [misses |-> IF c \in top THEN 0 ELSE prior[c].misses + 1,
      entered |-> IF c \in DOMAIN prior THEN prior[c].entered ELSE month]]

(* AgentCohortService.refresh: the members of the month, from the top of   *)
(* the deterministic ranking and the members of the snapshot before.       *)
Members(month, top, prior) ==
  LET stay == {c \in DOMAIN prior : c \in top \/ prior[c].misses + 1 < GraceMonths} IN
  [c \in top \cup stay |->
     [misses |-> IF c \in top THEN 0 ELSE prior[c].misses + 1,
      entered |-> IF c \in DOMAIN prior THEN prior[c].entered ELSE month]]
=============================================================================
