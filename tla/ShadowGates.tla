------------------------------ MODULE ShadowGates ------------------------------
(***************************************************************************)
(* What the shadow graph makes of its answers: the sell conditions are     *)
(* traced to the claims of the first wave, the aggregator's candidate to   *)
(* the claims of all, the conflicts between specialists are found, and the *)
(* philosophy gates take an activation back.  The job that is resumed      *)
(* judges the stored candidate once more.                                  *)
(*                                                                         *)
(* A claim is its id, its domain, its sources, its direction and whether   *)
(* its predicate and value are of the kind a thesis break may rest on; a   *)
(* ledger row its result, an assumption of a scenario bundle its field.    *)
(* Returns are measured from the required one, which is 0 when there is    *)
(* one; an optional value is a set of at most one.                         *)
(***************************************************************************)
EXTENDS Integers

CONSTANT Hands     \* specialists, deterministic results and a candidate

Agents == {"business_model", "management_credibility", "margin", "insider_ownership",
           "growth_valuation", "sell_conditions"}
FirstAgents == Agents \ {"sell_conditions"}
CapRank == [low |-> 0, medium |-> 1, high |-> 2]

(* _CAUSAL_CLAIM_DOMAINS, of the claims that support a break of a type.    *)
CausalDomains ==
  [revenue_or_demand |-> {"revenue", "demand"}, margin_or_execution |-> {"margin", "execution"},
   balance_sheet_or_dilution |->
     {"balance_sheet", "capital_allocation", "dilution", "insider_ownership"},
   management_credibility |-> {"management_credibility"},
   valuation_overshoot |-> {"growth_valuation", "valuation"},
   superior_evidence_or_opportunity |->
     {"balance_sheet", "business_model", "capital_allocation", "demand", "dilution", "evidence",
      "execution", "insider_ownership", "management", "management_credibility", "margin",
      "opportunity", "revenue", "valuation"}]
BreakTypes == DOMAIN CausalDomains

Untested == {"unverifiable", "too_vague_to_test"}     \* of a promise of the management
LedgerResults == {"kept", "delayed", "missed", "external_shock"} \cup Untested

(* scenario_domains, of the assumptions of a scenario bundle.              *)
BundleDomains ==
  [revenue_cagr |-> "revenue", ebit_margin |-> "margin", terminal_ev_ebit_low |-> "valuation",
   terminal_ev_ebit_high |-> "valuation", net_debt_change |-> "balance_sheet",
   share_count_growth |-> "valuation", distributions_per_share |-> "valuation"]

(* What the parsers of the answers let through.                            *)
SellTests ==
  [status : {"not_triggered", "triggered", "unassessable"}, claims : SUBSET STRING,
   sources : SUBSET STRING, basis : BOOLEAN]
HandTypes ==
  [status : [Agents -> {"complete", "insufficient", "failed"}], core : [Agents -> BOOLEAN],
   cap : [Agents -> DOMAIN CapRank], coverage : DOMAIN CapRank,
   claims : [FirstAgents ->
               SUBSET [id : STRING, domain : STRING, sources : SUBSET STRING,
                       direction : STRING, structured : BOOLEAN]],
   ledger : SUBSET [id : STRING, sources : SUBSET STRING, result : LedgerResults],
   supporting : SUBSET STRING, contrary : SUBSET STRING,
   bundles : SUBSET [id : STRING, field : DOMAIN BundleDomains, sources : SUBSET STRING],
   view : [circle : STRING, profit : STRING, margin : STRING, dependency : STRING,
           mechanism : STRING, signal : STRING, growth : STRING, engine : STRING],
   tests : [BreakTypes -> SellTests],
   blockers : SUBSET [code : STRING, claims : SUBSET STRING, sources : SUBSET STRING],
   scenario : [status : STRING, base : SUBSET (Int \X Int)], reverse : STRING,
   hurdle : BOOLEAN, known : SUBSET STRING, deterministic : SUBSET STRING]
CandidateTypes ==
  [verdict : {"reject", "watch", "latent_case", "activated_case"}, latent : STRING, confidence : DOMAIN CapRank, investable : BOOLEAN,
   core : BOOLEAN,
   claims : SUBSET [id : STRING, domain : STRING, sources : SUBSET STRING, kind : STRING,
                    bound : BOOLEAN, amount : BOOLEAN]]

ASSUME GateAssumption == \A x \in Hands : x.hand \in HandTypes /\ x.candidate \in CandidateTypes

VARIABLES
  hand,       \* what the specialists found and the engines calculated
  proposal,   \* the candidate as the model wrote it
  verdict,    \* the candidate as it stands
  blocked,    \* activation_decision.blocked_by
  gate        \* "asked", "traced", "accepted", "refused" or "reused"

gateVars == <<hand, proposal, verdict, blocked, gate>>
-----------------------------------------------------------------------------
(* _SELL_RECORD_DOMAINS, of the conclusions the test of a break supports.  *)
RecordDomains ==
  [revenue_or_demand |-> {"revenue", "risk"}, margin_or_execution |-> {"margin", "risk"},
   balance_sheet_or_dilution |-> {"balance_sheet", "risk"},
   management_credibility |-> {"management", "risk"},
   valuation_overshoot |-> {"valuation", "risk"},
   superior_evidence_or_opportunity |-> {"business_model", "risk"}]

(* _UPSTREAM_DOMAIN_ALIASES: the domains of the final claims that may rest *)
(* on one of this domain.                                                  *)
Widened(domain) ==
  {domain} \cup
  CASE domain \in {"offering", "customer_need", "distribution", "business_understandability"} ->
         {"business_model"}
    [] domain \in {"revenue_mechanics", "recurring_revenue"} -> {"business_model", "revenue"}
    [] domain = "cost_structure" -> {"business_model", "margin"}
    [] domain \in {"reinvestment", "reinvestment_requirements"} ->
         {"business_model", "balance_sheet"}
    [] domain \in {"operating_leverage", "profitability"} -> {"business_model", "valuation"}
    [] domain \in {"management_credibility", "management_ledger_result"} -> {"management"}
    [] domain \in {"growth", "growth_mechanism", "growth_state", "revenue_quality",
                   "growth_evidence"} -> {"revenue"}
    [] domain = "growth_valuation" -> {"revenue", "valuation"}
    [] domain \in {"reverse_dcf", "valuation_dependency", "engine_dependency"} -> {"valuation"}
    [] domain = "margin_sustainability" -> {"margin", "valuation"}
    [] domain = "cash_conversion" -> {"balance_sheet", "risk", "valuation"}
    [] domain = "insider" -> {"timing"}
    [] domain \in {"insider_ownership", "ownership", "liquidity"} -> {"insider", "timing"}
    [] domain = "evidence" ->
         {"business_model", "revenue", "margin", "balance_sheet", "management", "insider",
          "valuation", "risk", "timing"}
    [] OTHER -> {}

Present(h, agent) == h.status[agent] \in {"complete", "insufficient"}
AllComplete(h) == \A a \in FirstAgents : h.status[a] = "complete"
Triggered(h) == {t \in DOMAIN h.tests : h.tests[t].status = "triggered"}
-----------------------------------------------------------------------------
(* _upstream_references: the claims a sell condition may cite, and the rows *)
(* of the management ledger, which no thesis break can be inferred from.   *)
LedgerClaim(row) ==
  [id |-> row.id, domain |-> "management_credibility", sources |-> row.sources,
   direction |-> IF row.result = "missed" THEN "negative" ELSE "neutral", structured |-> FALSE]
Upstream(h) ==
  (UNION {h.claims[a] : a \in {x \in FirstAgents : Present(h, x)}})
  \cup {LedgerClaim(row) : row \in {x \in h.ledger : Present(h, "management_credibility")}}
CitedClaims(h, test) == {k \in Upstream(h) : k.id \in test.claims}

(* _causal_reference_matches *)
Causal(h, type, test, k) ==
  /\ k.sources \cap test.sources # {} /\ k.sources # {} /\ k.sources \subseteq h.known
  /\ test.basis
  /\ k.direction \in IF type = "superior_evidence_or_opportunity" THEN {"positive", "mixed"}
                     ELSE {"negative", "mixed"}
  /\ k.domain \in CausalDomains[type] /\ k.structured

(* _validate_sell_traceability, of one test and of one blocker.            *)
Supported(h, cited) ==
  /\ cited.claims \subseteq {k.id : k \in Upstream(h)}
  /\ cited.sources \subseteq h.known
  /\ cited.sources \subseteq (UNION {k.sources : k \in CitedClaims(h, cited)})

TestHolds(h, type) ==
  LET test == h.tests[type] IN
  /\ Supported(h, test)
  /\ test.status # "unassessable" =>
       /\ test.claims # {} /\ test.sources # {}
       /\ \A k \in CitedClaims(h, test) : k.domain \in CausalDomains[type]
  /\ test.status = "triggered" => \E k \in CitedClaims(h, test) : Causal(h, type, test, k)

BlockerHolds(h, b) ==
  /\ Supported(h, b)
  /\ b.code \in BreakTypes => \A k \in CitedClaims(h, b) : k.domain \in CausalDomains[b.code]

(* _validate_sell_dependency_blockers: without either calculation the      *)
(* valuation test stays open, a blocker says why, the confidence is low.   *)
DependenciesHold(h) ==
  LET missing == \E b \in h.blockers : b.code = "deterministic_scenario_unavailable" IN
  /\ ~\E b \in h.blockers : b.code = "upstream_specialist_unavailable"
  /\ IF "available" \in {h.scenario.status, h.reverse} THEN ~missing
     ELSE /\ missing /\ h.cap["sell_conditions"] = "low"
          /\ h.tests["valuation_overshoot"].status = "unassessable"

SellHolds(h) ==
  /\ \A t \in BreakTypes : TestHolds(h, t)
  /\ \A b \in h.blockers : BlockerHolds(h, b)
  /\ DependenciesHold(h)

(* _unassessable_sell_result *)
OpenTest == [status |-> "unassessable", claims |-> {}, sources |-> {}, basis |-> FALSE]
Unassessed(h) ==
  [h EXCEPT !.status["sell_conditions"] = "insufficient", !.core["sell_conditions"] = TRUE,
            !.cap["sell_conditions"] = "low", !.tests = [t \in BreakTypes |-> OpenTest],
            !.blockers = {}]
FailedSell(h) == [h EXCEPT !.status["sell_conditions"] = "failed", !.core["sell_conditions"] = FALSE]
-----------------------------------------------------------------------------
(* evaluate_specialist_conflicts *)
FieldsOf(h, agent, name) == IF Present(h, agent) THEN h.view[name] ELSE "absent"
View(h, name) ==
  FieldsOf(h, CASE name \in {"circle", "profit"} -> "business_model"
                [] name \in {"margin", "dependency", "mechanism"} -> "margin"
                [] name \in {"signal"} -> "insider_ownership"
                [] OTHER -> "growth_valuation", name)

MarginConflict(h) ==
  /\ View(h, "margin") \in {"stalled", "invalidated"}
  /\ View(h, "dependency") \in {"material", "primary"}
  /\ Present(h, "sell_conditions")
  /\ \/ "margin_or_execution" \in Triggered(h)
     \/ \E b \in h.blockers : b.code = "margin_or_execution"

CircleConflict(h) ==
  /\ View(h, "circle") \in {"outside", "unassessable"}
  /\ Present(h, "growth_valuation")
  /\ \E k \in h.claims["growth_valuation"] :
       k.domain = "valuation" /\ k.direction = "unassessable" /\ k.sources # {}

(* _has_supported_fundamental_engine *)
FundamentalEngine(h) ==
  \/ /\ View(h, "margin") = "active" /\ View(h, "mechanism") = "described"
     /\ h.supporting # {}
  \/ \E a \in {"growth_valuation", "margin", "business_model"} :
       /\ Present(h, a)
       /\ \E k \in h.claims[a] : /\ k.domain \in {"revenue", "margin"}
                                 /\ k.sources # {} /\ k.direction = "positive"

MultipleConflict(h, direction) ==
  /\ direction \in {"latent_case", "activated_case"}
  /\ View(h, "engine") \in {"multiple_primary", "multiple_only"}
  /\ ~FundamentalEngine(h)

HighConflict(h, direction) ==
  MarginConflict(h) \/ CircleConflict(h) \/ MultipleConflict(h, direction)
-----------------------------------------------------------------------------
(* _specialist_evidence_records: what a specialist found, as the records a *)
(* final claim may rest on.                                                *)
Record(id, sources, domains, assessable) ==
  [id |-> id, sources |-> sources, domains |-> domains, assessable |-> assessable]

ClaimRecords(h, agent) ==
  {Record(k.id, k.sources, Widened(k.domain), k.direction # "unassessable") : k \in h.claims[agent]}
LedgerRecords(h) ==
  {Record(row.id, row.sources, {"management"}, row.result \notin Untested) : row \in h.ledger}
MarginRecords(h) ==
  {Record("supporting_source_ids", h.supporting, {"margin"}, TRUE),
   Record("contrary_source_ids", h.contrary, {"margin"}, TRUE)}
BundleRecords(h) == {Record(x.id, x.sources, {BundleDomains[x.field]}, TRUE) : x \in h.bundles}
SellRecords(h) ==
  {Record(t, h.tests[t].sources, RecordDomains[t], h.tests[t].status # "unassessable") :
     t \in BreakTypes}
  \cup {Record(b.code, b.sources,
               IF b.code \in BreakTypes THEN RecordDomains[b.code] ELSE {"risk"}, TRUE) :
          b \in h.blockers}

Records(h, agent) ==
  CASE agent = "sell_conditions" -> SellRecords(h)
    [] agent = "management_credibility" -> ClaimRecords(h, agent) \cup LedgerRecords(h)
    [] agent = "margin" -> ClaimRecords(h, agent) \cup MarginRecords(h)
    [] agent = "growth_valuation" -> ClaimRecords(h, agent) \cup BundleRecords(h)
    [] OTHER -> ClaimRecords(h, agent)

(* _specialist_claim_references: those of the complete specialists that    *)
(* were assessed, or all.                                                  *)
References(h, open) ==
  UNION {{r \in Records(h, a) : open \/ r.assessable} :
           a \in {x \in Agents : IF open THEN Present(h, x) ELSE h.status[x] = "complete"}}

(* _matching_references *)
Matching(k, references) ==
  {r \in references : /\ k.id = "none" \/ k.kind = "ownership" \/ r.id = k.id
                      /\ r.sources \cap k.sources # {}
                      /\ k.domain = "evidence" \/ k.domain \in r.domains}

Backing(h, k) ==
  UNION {r.sources : r \in Matching(k, References(h, k.kind = "limited"))}

(* _validate_aggregator_sources and _validate_no_model_arithmetic, of one  *)
(* claim of the candidate.                                                 *)
ClaimHolds(h, k) ==
  /\ ~k.amount
  /\ k.kind = "ownership" => k.bound
  /\ k.sources = {} => k.kind = "limited"
  /\ k.sources \subseteq h.known
  /\ k.sources \subseteq IF k.kind = "deterministic" THEN h.deterministic ELSE Backing(h, k)

(* _hurdle_is_satisfied *)
HurdleHolds(h, c) ==
  LET measured == h.scenario.base # {} /\ h.hurdle
      low  == {b[1] : b \in h.scenario.base}
      high == {b[2] : b \in h.scenario.base}
  IN  CASE c.verdict = "activated_case" -> measured /\ \A x \in low : x >= 0
        [] c.verdict = "latent_case" /\ c.latent = "operating" ->
             measured /\ \A x \in high : x >= 0
        [] c.verdict = "latent_case" /\ c.latent = "price" -> measured /\ \A x \in low : x < 0
        [] OTHER -> TRUE

When(condition, code) == IF condition THEN {code} ELSE {}

AgentBlockers(h) ==
  UNION {When(h.status[a] # "complete", "incomplete_specialist")
           \cup When(Present(h, a) /\ h.core[a], "core_evidence_missing") : a \in Agents}

SellBlockers(h) ==
  LET found == Present(h, "sell_conditions")
      statuses == IF found THEN {h.tests[t].status : t \in BreakTypes} ELSE {} IN
  When("triggered" \in statuses, "causal_sell_break_triggered")
  \cup When(found /\ h.blockers # {}, "causal_activation_blocker")
  \cup When(~found, "sell_conditions_incomplete")
  \cup When("unassessable" \in statuses, "sell_conditions_unassessable")

FundamentalBlockers(h) ==
  When(View(h, "circle") \in {"absent", "outside", "unassessable"}, "circle_of_competence")
  \cup When(View(h, "profit") \in {"absent", "unassessable"}, "fundamental_case_unsupported")
  \cup When(View(h, "growth") \in {"absent", "weak", "unassessable"},
            "unsupported_growth_mechanism")
  \cup When(View(h, "margin") \in {"absent", "unassessable"}, "unsupported_margin_mechanism")
  \cup When(View(h, "engine") = "multiple_only", "multiple_only_economics")
  \cup When(/\ \/ View(h, "growth") \in {"weak", "unassessable"}
               \/ View(h, "margin") \in {"invalidated", "stalled"}
            /\ View(h, "signal") = "positive", "fundamentals_override_positive_flow")

VariantBlockers(h, c) ==     \* the conflicts are found without the verdict
  AgentBlockers(h) \cup FundamentalBlockers(h) \cup SellBlockers(h)
  \cup When(c.core, "candidate_core_evidence_missing")
  \cup When(h.scenario.status # "available", "deterministic_valuation_unavailable")
  \cup When(h.reverse # "available", "reverse_dcf_unavailable")
  \cup When(h.scenario.status = "available" /\ h.reverse = "available" /\ ~HurdleHolds(h, c),
            "required_return_hurdle_unsatisfied")
  \cup When(HighConflict(h, "watch"), "high_severity_conflict")
  \cup When(\E k \in c.claims : k.kind = "limited", "unassessable_final_evidence")

(* enforce_aggregation_constraints: what stands against an activation.     *)
Blockers(h, c) ==
  AgentBlockers(h) \cup FundamentalBlockers(h) \cup SellBlockers(h)
  \cup When(c.core, "candidate_core_evidence_missing")
  \cup When(h.scenario.status # "available", "deterministic_valuation_unavailable")
  \cup When(h.reverse # "available", "reverse_dcf_unavailable")
  \cup When(h.scenario.status = "available" /\ h.reverse = "available" /\ ~HurdleHolds(h, c),
            "required_return_hurdle_unsatisfied")
  \cup When(HighConflict(h, c.verdict), "high_severity_conflict")
  \cup When(\E k \in c.claims : k.kind = "limited", "unassessable_final_evidence")

(* _apply_confidence_cap *)
Caps(h) ==
  {h.cap[a] : a \in {x \in Agents : Present(h, x)}}
  \cup IF Present(h, "management_credibility") THEN {h.coverage} ELSE {"low"}
CappedConfidence(h, c) ==
  CHOOSE x \in Caps(h) \cup {c.confidence} :
    \A y \in Caps(h) \cup {c.confidence} : CapRank[x] <= CapRank[y]

Constrained(h, c) ==
  LET against == Blockers(h, c)
      capped  == [c EXCEPT !.confidence = CappedConfidence(h, c)]
  IN  IF c.verdict # "activated_case" THEN [capped EXCEPT !.investable = FALSE]
      ELSE IF against = {} THEN capped
      ELSE [capped EXCEPT !.investable = FALSE,
              !.verdict = IF "causal_sell_break_triggered" \in against THEN "reject" ELSE "watch"]
-----------------------------------------------------------------------------
Dealt(x) ==
  /\ hand = x.hand /\ verdict = x.candidate /\ proposal = x.candidate
  /\ blocked = {} /\ gate = "asked"
GateInit == \E x \in Hands : Dealt(x)

(* The answer about the sell conditions is traced; one that does not hold, *)
(* and does not after its repair, leaves a failed stage.                   *)
Trace ==
  /\ gate = "asked" /\ gate' = "traced"
  /\ hand' = IF ~AllComplete(hand) THEN Unassessed(hand)
             ELSE IF SellHolds(hand) THEN hand ELSE FailedSell(hand)
  /\ UNCHANGED <<proposal, verdict, blocked>>

(* validate_aggregator_output *)
Decide(outcome) ==
  IF \A k \in verdict.claims : ClaimHolds(hand, k)
  THEN /\ gate' = outcome
       /\ verdict' = Constrained(hand, verdict) /\ blocked' = Blockers(hand, verdict)
  ELSE gate' = "refused" /\ UNCHANGED <<verdict, blocked>>

Judge == gate = "traced" /\ Decide("accepted") /\ UNCHANGED <<hand, proposal>>

(* _reuse_completed: the stored candidate is judged as it was stored.      *)
ReuseVerdict == gate = "accepted" /\ Decide("reused") /\ UNCHANGED <<hand, proposal>>

GateNext == Trace \/ Judge \/ ReuseVerdict

GateSpec == GateInit /\ [][GateNext]_gateVars
-----------------------------------------------------------------------------
Concluded == gate \in {"accepted", "reused"}

(* What was supplied to a final claim as assessed: by a claim that has a   *)
(* direction, a promise whose outcome is known, a test of a thesis break   *)
(* that was decided, and what margin and scenarios were derived from.      *)
AssessedSources(h) ==
  UNION ({x.sources : x \in {k \in UNION {h.claims[a] : a \in FirstAgents} :
                               k.direction # "unassessable"}}
         \cup {row.sources : row \in {x \in h.ledger : x.result \notin Untested}}
         \cup {h.tests[t].sources : t \in {x \in BreakTypes : h.tests[x].status # "unassessable"}}
         \cup {h.supporting, h.contrary} \cup {x.sources : x \in h.bundles})

(* An activation that stands, also after it was judged again: every agent  *)
(* is complete, the whole return band lies at the hurdle or above it, no   *)
(* thesis break is triggered or open, its multiples rest on an engine, its *)
(* confidence is within every cap, and each of its claims rests on sources *)
(* that a specialist assessed, in any of the records it leaves, or that    *)
(* are calculated.  Nothing else is investable.                            *)
ActivationIsEarned ==
  /\ Concluded /\ verdict.verdict = "activated_case" =>
       /\ \A a \in Agents : /\ hand.status[a] = "complete"
                            /\ CapRank[verdict.confidence] <= CapRank[hand.cap[a]]
       /\ \E b \in hand.scenario.base : b[1] >= 0
       /\ \A t \in BreakTypes : hand.tests[t].status = "not_triggered"
       /\ hand.view["engine"] \in {"multiple_primary", "multiple_only"} =>
            FundamentalEngine(hand)
       /\ \A k \in verdict.claims : k.sources \ hand.deterministic \subseteq AssessedSources(hand)
  /\ Concluded /\ verdict.investable => verdict.verdict = "activated_case"

(* A proposed activation that ends as a rejection has a cause somebody     *)
(* found: a triggered test, and a claim it cites, made by a specialist on  *)
(* sources that were supplied, that speaks against the company, unless the *)
(* break is a better opportunity.                                          *)
RejectionHasACause ==
  Concluded /\ proposal.verdict = "activated_case" /\ verdict.verdict = "reject" =>
    \E t \in Triggered(hand), a \in FirstAgents : \E k \in hand.claims[a] :
      /\ k.id \in hand.tests[t].claims /\ k.sources # {} /\ k.sources \subseteq hand.known
      /\ k.direction \in {"negative", "mixed"} \/ t = "superior_evidence_or_opportunity"

(* The gates decide an activation: what stands was earned, and what is     *)
(* rejected has a cause (PetterAggregator's philosophy gates).             *)
ActivationIsDecidedByGates == ActivationIsEarned /\ RejectionHasACause
=============================================================================
