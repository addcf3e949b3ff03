------------------------- MODULE ExecutionBoundary -------------------------
(***************************************************************************)
(* AgentExecutionBoundary: what stands between a model's answer and the    *)
(* stored analysis.  A card is checked once without scenarios, mutated in  *)
(* place by the normalisation, and checked again with the calculated       *)
(* scenario before it is saved; an update is parsed and saved in one call. *)
(*                                                                         *)
(* A card is a record of what the checks tell apart.  Prose is the set of  *)
(* its slips: the checks of text and citation its sections fail.  A source *)
(* is a name, "invented" for one nobody supplied; an optional value is a   *)
(* set of at most one.  Returns are measured from the hurdle, as they are  *)
(* in RankingPolicies, so that 0 is the required return.                   *)
(***************************************************************************)
EXTENDS Integers, Sequences, FiniteSets, Functions

CONSTANTS
  Drafts,       \* pairs of a packet and the card a model answers it with
  Outcomes      \* what the scenario engine makes of the authored bundles

VARIABLES packet, card, draft, stage, refusals, forward

boundaryVars == <<packet, card, draft, stage, refusals, forward>>

Ranked == INSTANCE RankingPolicies WITH Tolerance <- 1, GraceMonths <- 1

Confidences == {"low", "medium", "high"}
Rank == [low |-> 0, medium |-> 1, high |-> 2]
Assessed == {"kept", "delayed", "missed", "changed", "external_shock"}

(* No forward scenario yet, and what the engine makes of no bundles.       *)
NoScenario == [status |-> "none", base |-> {}, bundles |-> 0, bands |-> 0,
               sources |-> {}, limitations |-> {}]
NoBundles == [NoScenario EXCEPT !.status = "insufficient_evidence"]
-----------------------------------------------------------------------------
(* build_evidence_catalog and resolve_source_id: a canonical name stays; a *)
(* permitted alias stands for one canonical source, an exact path resolves *)
(* to a deterministic one, and any other name is left, to be found unknown.*)
MeasureSources(p) == UNION {p.ownership[m].sources : m \in DOMAIN p.ownership}

Citable(p) == p.documents \cup p.insiders \cup p.flow \cup p.figures \cup Range(p.aliases)
KnownSources(p) == Citable(p) \cup p.prior

Resolve(p, source) ==
  IF source \in DOMAIN p.aliases \ Citable(p) THEN p.aliases[source] ELSE source
Resolved(p, sources) == {Resolve(p, s) : s \in sources}

(* scenario_source_whitelist: what the packet itself names as a source.    *)
Whitelist(p) == p.documents \cup p.insiders \cup p.flow \cup p.figures

(* The types the parsers build, and what the evidence builders guarantee:  *)
(* a measure's source is among those of ownership and flow, only evidence  *)
(* that is ready makes a scenario mandatory, an item has one detail, and   *)
(* the engine has three bands, one of them the base, where it is available.*)
Items == STRING \cup {"omitted_claims"}
Details == [item : Items, class : {"core", "supplemental"}]
Claimed == [claim : SUBSET STRING, outcome : SUBSET STRING, result : STRING, observed : BOOLEAN]
CompanyFacts == [about : STRING, sources : SUBSET STRING, gap : BOOLEAN]
OwnershipClaims == [typed : BOOLEAN, measure : STRING, value : Int, sources : SUBSET STRING]
Resiliences ==
  [assessment : STRING, sources : SUBSET STRING, recurring : SUBSET STRING,
   variable : SUBSET STRING, driver : STRING, variation : STRING, models : SUBSET STRING,
   profile : STRING, limits : BOOLEAN]
Cards ==
  [version : STRING, verdict : STRING, confidence : Confidences, investable : BOOLEAN,
   reason : STRING, ownership : SUBSET OwnershipClaims, reverse : STRING,
   reconsider : BOOLEAN, evidence : SUBSET STRING, latent : STRING, trigger : STRING,
   threshold : BOOLEAN, resilience : Resiliences, ledger : SUBSET Claimed, omitted : Nat,
   reasons : BOOLEAN, facts : Seq(CompanyFacts), cites : SUBSET STRING,
   thesis : SUBSET STRING, texts : SUBSET STRING, management : SUBSET STRING,
   insider : SUBSET STRING, slips : SUBSET STRING, missing : SUBSET Items,
   details : SUBSET Details,
   typed : [breaks : BOOLEAN, oneCase : BOOLEAN, triggerCited : BOOLEAN]]
Scenarios ==
  [status : {"none", "available", "insufficient_evidence", "method_not_supported"},
   base : SUBSET (Int \X Int), bundles : Nat, bands : Nat, sources : SUBSET STRING,
   limitations : SUBSET STRING]

OneDetail(c) == \A d, e \in c.details : d.item = e.item => d = e

ASSUME BoundaryAssumption ==
  /\ \A d \in Drafts :
       /\ d.card \in Cards /\ OneDetail(d.card)
       /\ Range(d.packet.aliases) \subseteq STRING
       /\ d.packet.missing \subseteq STRING
       /\ MeasureSources(d.packet) \subseteq d.packet.flow
       /\ d.packet.mandatory => d.packet.readiness = "required"
  /\ Outcomes \subseteq Scenarios
  /\ \A o \in Outcomes :
       o.status = "available" => o.bundles = 3 /\ o.bands = 3 /\ o.base # {}

(* v3 cards may cite only the sources of the typed measures.               *)
OwnershipSources(c, p) == IF c.version = "v3" THEN MeasureSources(p) ELSE p.flow
-----------------------------------------------------------------------------
(* _default_missing_information_impact *)
DefaultClass(item) ==
  IF item \in {"annual_report", "table_rows"} THEN "core" ELSE "supplemental"

Defaults(items) == [i \in items |-> DefaultClass(i)]
Supplemental(c) ==
  [Defaults(c.missing \cup {"omitted_claims"}) EXCEPT !["omitted_claims"] = "supplemental"]

(* _merge_missing_information: the card keeps its own class of an item; an *)
(* item without one takes the class of its kind.                           *)
Merge(c, items, class) ==
  LET missing == c.missing \cup items
      undetailed == {i \in missing : \A d \in c.details : d.item # i}
  IN  [c EXCEPT !.missing = missing,
                !.details = {d \in c.details : d.item \in missing}
                            \cup {[item |-> i, class |-> class[i]] : i \in undetailed}]

(* A claim about management that cites anything but a supplied document    *)
(* is dropped from the ledger without a word.                              *)
KeptLedger(c, p) == {k \in c.ledger : k.claim \cup k.outcome \subseteq p.documents}

(* _validate_management_ledger, the part of it that rewrites the claims.   *)
SettledLedger(ledger) ==
  {IF k.result \in Assessed THEN k
   ELSE [k EXCEPT !.outcome = {}, !.observed = FALSE] : k \in ledger}

(* What the boundary makes of an answer: the packet's gaps are added, the  *)
(* aliases resolved, the ledger filtered and the repeated details dropped. *)
(* (The claims it clears where there is no evidence are refused before.)   *)
Normalized(c, p) ==
  LET merged == Merge(c, p.missing, Defaults(c.missing \cup p.missing))
      ledger == SettledLedger(KeptLedger(c, p))
      full   == IF c.omitted > 0
                THEN Merge(merged, {"omitted_claims"}, Supplemental(merged))
                ELSE merged
  IN  [full EXCEPT
         !.cites = Resolved(p, c.cites),
         !.management = Resolved(p, c.management),
         !.insider = Resolved(p, c.insider),
         !.slips = c.slips \ {"repeated_detail"},
         !.thesis = Resolved(p, c.thesis),
         !.facts = [i \in DOMAIN c.facts |->
                      [c.facts[i] EXCEPT !.sources = Resolved(p, c.facts[i].sources)]],
         !.resilience = [c.resilience EXCEPT
                           !.recurring = Resolved(p, c.resilience.recurring),
                           !.variable = Resolved(p, c.resilience.variable),
                           !.sources = Resolved(p, c.resilience.sources \cup
                             c.resilience.recurring \cup c.resilience.variable)],
         !.ledger = ledger]
-----------------------------------------------------------------------------
(* _validate_activation_trigger: a price trigger names a price, a multiple *)
(* or a valuation, an operating one does not, and a vague one names        *)
(* nothing.  A threshold is a level or a direction the wording states.     *)
TriggerHolds(c) ==
  /\ c.trigger \in {"price", "operating"}
  /\ c.threshold
  /\ c.latent = "operating" => c.trigger = "operating"

(* _validate_thesis_card: a case horizon other than the card's is a slip   *)
(* only of a card that has no typed conclusions, and decisive evidence on  *)
(* one side only of a card that has them and something to cite.            *)
ThesisHolds(c, p) ==
  /\ \A s \in c.slips :
        \/ s = "case_horizon" /\ c.version = "v3"
        \/ s = "one_sided" /\ (c.version # "v3" \/ Citable(p) = {})
        \/ s \in {"upside_claimed", "probable_base", "unreasoned"}   \* checked elsewhere
  /\ IF c.verdict = "latent_case"
     THEN c.latent \in {"price", "operating"} /\ c.trigger # "none" /\ TriggerHolds(c)
     ELSE c.latent = "none"
  /\ c.verdict = "activated_case" => c.trigger = "none"
  /\ c.details # {} => {d.item : d \in c.details} = c.missing

(* _validate_management_ledger and _validate_management_sources *)
LedgerHolds(c) ==
  /\ \A k \in c.ledger : k.result \in Assessed => k.observed /\ k.outcome # {}
  /\ c.omitted > 0 <=> c.reasons

LedgerCites(c, p) ==
  \A k \in c.ledger : k.claim # {} /\ k.claim \cup k.outcome \subseteq p.documents

VariantClaimBound(claim, p) ==     \* the value is not compared with the packet
  /\ claim.typed
  /\ claim.measure \in DOMAIN p.ownership
  /\ claim.sources # {} /\ claim.sources = p.ownership[claim.measure].sources

(* _validate_typed_ownership_claim *)
ClaimBound(claim, p) ==
  /\ claim.typed
  /\ claim.measure \in DOMAIN p.ownership
  /\ claim.value = p.ownership[claim.measure].value
  /\ claim.sources # {} /\ claim.sources = p.ownership[claim.measure].sources

(* _validate_assessment_sections *)
AssessmentsHold(c, p) ==
  /\ "management" \in c.texts => c.management # {}
  /\ c.management \subseteq p.documents
  /\ "ownership" \in c.texts /\ OwnershipSources(c, p) # {} => c.ownership # {}
  /\ \A claim \in c.ownership : ClaimBound(claim, p)
  /\ (UNION {claim.sources : claim \in c.ownership}) \subseteq OwnershipSources(c, p)
  /\ "insider" \in c.texts /\ p.insiders # {} => c.insider # {}
  /\ c.insider # {} => c.insider \cap p.insiders # {}

(* _validate_activated_case *)
ActivatedHolds(c, p) ==
  c.verdict = "activated_case" => p.reverse = "available" /\ p.implied

RecurringModels == {"subscription", "interest_spread", "rental"}
VariableModels == {"transaction", "usage", "product_sales", "project"}

(* _validate_revenue_resilience: a driver is the kind of revenue its       *)
(* wording names, "none" when it is left empty.                            *)
ResilienceHolds(c) ==
  LET r == c.resilience
      recurs == r.models \cap RecurringModels # {}
      varies == r.models \cap VariableModels # {}
  IN  \/ r.assessment = "unassessable" /\ r.limits
      \/ /\ r.assessment # "unassessable"
         /\ r.sources # {} /\ r.driver # "none" /\ r.variation # "none"
         /\ r.assessment = "resilient" =>
              /\ r.driver = "persistent" /\ (r.models # {} => recurs)
         /\ r.assessment = "mixed" =>
              /\ r.driver \in {"persistent", "recurring"} /\ r.variation = "variable"
              /\ r.models # {} => recurs /\ varies
              /\ r.variable # {}
         /\ r.assessment \in {"resilient", "mixed"} =>
              r.recurring # {} /\ r.profile # "none"
         /\ r.assessment = "variable" => ~recurs /\ r.profile # "majority"

(* _validate_reverse_dcf_assessment *)
ReverseHolds(c, p) ==
  /\ "unreasoned" \notin c.slips
  /\ (p.reverse # "available" \/ ~p.curve) => c.reverse = "unassessable"

(* _validate_portfolio_eligibility *)
EligibilityHolds(c, scenario, required) ==
  IF c.investable
  THEN /\ c.verdict = "activated_case"
       /\ c.reason = "investable"
       /\ ~c.reconsider
       /\ required => scenario.status = "available"
  ELSE /\ c.reason # "investable"
       /\ c.reason \in {"valuation_only", "thesis_not_activated"} => c.reconsider

(* _validate_structured_conclusions: one typed test of each kind, with its *)
(* baseline, a headline and a falsifiable case that are one case, and a    *)
(* source for every claim that is not a declared gap.                      *)
StructuredHolds(c) ==
  c.version = "v3" =>
    /\ c.typed.breaks /\ c.typed.oneCase
    /\ \A i \in DOMAIN c.facts : c.facts[i].sources # {} \/ c.facts[i].gap
    /\ c.trigger # "none" => c.typed.triggerCited

(* The company facts, checked as their aliases are resolved.               *)
FactsHold(c) ==
  /\ \A i \in DOMAIN c.facts : c.facts[i].sources # {}
  /\ \A i, j \in DOMAIN c.facts : c.facts[i].about = c.facts[j].about => i = j

(* _validate_known_sources, over every group of citations.                 *)
Cited(c, scenario) ==
  c.cites \cup c.thesis \cup c.resilience.sources \cup c.management \cup c.insider
    \cup scenario.sources
    \cup (UNION {c.facts[i].sources : i \in DOMAIN c.facts})
    \cup (UNION {claim.sources : claim \in c.ownership})

InsidersCited(c, p) ==
  p.insiders # {} =>
    (c.cites \cup c.insider \cup (UNION {c.facts[i].sources : i \in DOMAIN c.facts}))
      \cap p.insiders # {}
-----------------------------------------------------------------------------
VariantCoherenceHolds(c, p, scenario, required) ==     \* the upper end of the band is enough
  LET supported == p.reverse = "available" /\ c.reverse # "unsupported"
      available == required => scenario.status = "available" /\ scenario.base # {} /\ p.hurdle
      hurdled(end) == p.hurdle => \A b \in scenario.base : b[end] >= 0
  IN  /\ c.verdict = "activated_case" =>
           /\ supported /\ available
           /\ "unresolved" \notin c.evidence
           /\ hurdled(2)
      /\ c.verdict = "latent_case" /\ c.latent = "operating" =>
           supported /\ available /\ hurdled(2)
      /\ c.verdict = "latent_case" /\ c.latent = "price" =>
           /\ c.trigger = "price"
           /\ p.hurdle => \A b \in scenario.base : b[1] < 0

(* _validate_verdict_coherence: a verdict may not contradict the returns   *)
(* that were calculated; without a band a price case is left alone.        *)
CoherenceHolds(c, p, scenario, required) ==
  LET supported == p.reverse = "available" /\ c.reverse # "unsupported"
      available == required => scenario.status = "available" /\ scenario.base # {} /\ p.hurdle
      hurdled(end) == p.hurdle => \A b \in scenario.base : b[end] >= 0
  IN  /\ c.verdict = "activated_case" =>
           /\ supported /\ available
           /\ "unresolved" \notin c.evidence
           /\ (required => hurdled(1)) /\ hurdled(2)
      /\ c.verdict = "latent_case" /\ c.latent = "operating" =>
           supported /\ available /\ hurdled(2)
      /\ c.verdict = "latent_case" /\ c.latent = "price" =>
           /\ c.trigger = "price"
           /\ p.hurdle => \A b \in scenario.base : b[1] < 0

(* _require_completed_forward_scenario, for companies of the general model *)
(* whose evidence makes a scenario mandatory.                              *)
CompletedScenario(p, scenario) ==
  p.mandatory =>
    scenario.status = "available" /\ scenario.bundles = 3 /\ scenario.bands = 3

(* _confidence_cap_details *)
Cap(c, p, scenario) ==
  CASE p.documents = {} -> "low"
    [] /\ p.documents # {}
       /\ \/ \E d \in c.details : d.class = "core"
          \/ p.reverse # "available" \/ ~p.curve
          \/ p.shaky
          \/ scenario.status \notin {"none", "available"} -> "medium"
    [] OTHER -> "high"

(* _apply_confidence_cap *)
Capped(c, p, scenario) ==
  LET cap == Cap(c, p, scenario) IN
  [c EXCEPT !.confidence = IF Rank[@] > Rank[cap] THEN cap ELSE @]
-----------------------------------------------------------------------------
Failing(checks) == {name \in DOMAIN checks : ~checks[name]}

(* _raise_qualitative_validation_violations: every check of the answer as  *)
(* it came, with the ledger filtered and no alias resolved but the card's. *)
QualitativeFaults(c, p) ==
  LET kept == [c EXCEPT !.ledger = KeptLedger(c, p)] IN
  Failing([thesis |-> ThesisHolds(c, p),
           upside |-> "upside_claimed" \notin c.slips,
           characterization |-> "probable_base" \notin c.slips,
           ledger |-> LedgerHolds(kept),
           ledger_sources |-> LedgerCites(kept, p),
           assessments |-> AssessmentsHold(c, p),
           activated |-> ActivatedHolds(c, p),
           resilience |-> ResilienceHolds(c),
           reverse_dcf |-> ReverseHolds(c, p),
           eligibility |-> EligibilityHolds(c, NoScenario, FALSE)])

(* _persist_validated_response: the checks of a normalised card, without   *)
(* or with the scenario that was calculated for it.                        *)
BoundaryFaults(c, p, scenario, required) ==
  Failing([facts |-> FactsHold(c),
           thesis |-> ThesisHolds(c, p),
           forward_sources |-> scenario.sources \subseteq KnownSources(p),
           structured |-> StructuredHolds(c),
           assessments |-> AssessmentsHold(c, p),
           known_sources |-> Cited(c, NoScenario) \subseteq KnownSources(p),
           upside |-> "upside_claimed" \notin c.slips,
           characterization |-> "probable_base" \notin c.slips,
           ledger |-> LedgerHolds(c) /\ LedgerCites(c, p),
           activated |-> ActivatedHolds(c, p),
           resilience |-> ResilienceHolds(c),
           reverse_dcf |-> ReverseHolds(c, p),
           scenario |-> required => CompletedScenario(p, scenario),
           coherence |-> CoherenceHolds(c, p, scenario, required),
           eligibility |-> EligibilityHolds(c, scenario, required),
           insiders_cited |-> InsidersCited(c, p)])
-----------------------------------------------------------------------------
(* project_structured_conclusions: the card a typed answer t is read as.   *)
(* Its ledger is never verifiable, its resilience has no drivers, and a    *)
(* threshold is a code: only some of them are a level or a direction.      *)
Project(t) ==
  [version |-> "v3", verdict |-> t.verdict, confidence |-> t.confidence,
   investable |-> t.investable, reason |-> t.reason, ownership |-> t.ownership,
   reverse |-> t.reverse, reconsider |-> t.reconsider, evidence |-> t.evidence,
   latent |-> t.trigger.type, trigger |-> t.trigger.metric,
   threshold |-> t.trigger.code \in {"increases", "at_least", "positive"},
   resilience |->
     [assessment |-> t.resilience, sources |-> t.resilienceSources, recurring |-> {},
      variable |-> {}, driver |-> "none", variation |-> "none", models |-> {},
      profile |-> "unassessable", limits |-> t.limited],
   ledger |-> {[claim |-> s, outcome |-> {}, result |-> "unverifiable", observed |-> FALSE]
                 : s \in t.ledger},
   omitted |-> 0, reasons |-> FALSE,
   facts |-> t.facts, cites |-> {}, thesis |-> t.baseline,
   texts |-> {"ownership"} \cup (IF t.management # {} THEN {"management"} ELSE {})
                          \cup (IF t.insider # {} THEN {"insider"} ELSE {}),
   management |-> t.management, insider |-> t.insider, slips |-> t.slips,
   missing |-> {d.item : d \in t.details}, details |-> t.details,
   typed |-> [breaks |-> t.breaks, oneCase |-> t.oneCase, triggerCited |-> t.triggerCited]]
-----------------------------------------------------------------------------
Drafted(d) ==
  /\ packet = d.packet /\ card = d.card /\ draft = d.card
  /\ stage = "drafted" /\ refusals = {} /\ forward = NoScenario
BoundaryInit == \E d \in Drafts : Drafted(d)

(* validate_qualitative_response, behind the readiness gate; the answer is *)
(* mutated in place, which is what the later stages work on.               *)
Qualify ==
  LET early == QualitativeFaults(card, packet)
      ready == Normalized(card, packet)
      late  == BoundaryFaults(ready, packet, NoScenario, FALSE)
  IN  /\ stage = "drafted" /\ packet.documents # {}
      /\ refusals' = IF early # {} THEN early ELSE late
      /\ IF refusals' = {}
         THEN stage' = "qualified" /\ card' = Capped(ready, packet, NoScenario)
         ELSE stage' = "rejected" /\ card' = card
      /\ UNCHANGED <<packet, draft, forward>>

VariantAuthored(c, p, o) ==     \* the verdict is not checked while a repair is possible
  /\ o.sources \subseteq Whitelist(p)
  /\ o.status = "available"

(* _enrich_with_scenarios: the bundles its author is let through with.     *)
Authored(c, p, o) ==
  /\ o.sources \subseteq Whitelist(p)
  /\ o.base # {} => CoherenceHolds(c, p, o, o.status = "available")
  /\ o.status = "available"

(* run_scenario, when the evidence requires one.                           *)
Author ==
  /\ stage = "qualified" /\ packet.readiness = "required"
  /\ \E o \in Outcomes : Authored(card, packet, o) /\ forward' = o
  /\ stage' = "authored"
  /\ UNCHANGED <<packet, card, draft, refusals>>

(* The limitations of the tables the scenario is compared with.            *)
Limited(c, scenario) ==
  LET found == IF scenario.bundles > 0 THEN scenario.limitations ELSE {}
  IN  Merge(c, found, Defaults(c.missing \cup found))

VariantAcceptCard(c, scenario, otherwise) ==     \* the confidence is capped before the limitations are known
  LET failing == BoundaryFaults(c, packet, scenario, TRUE)
  IN  /\ refusals' = failing
      /\ forward' = scenario
      /\ IF failing = {}
         THEN /\ stage' = "saved"
              /\ card' = Limited(Capped(c, packet, scenario), scenario)
         ELSE stage' = otherwise /\ card' = c
      /\ UNCHANGED <<packet, draft>>

(* The last of it: the checks, the limitations, the cap, and the row.      *)
AcceptCard(c, scenario, otherwise) ==
  LET failing == BoundaryFaults(c, packet, scenario, TRUE)
      full == Limited(c, scenario)
  IN  /\ refusals' = failing
      /\ forward' = scenario
      /\ IF failing = {}
         THEN stage' = "saved" /\ card' = Capped(full, packet, scenario)
         ELSE stage' = otherwise /\ card' = c
      /\ UNCHANGED <<packet, draft>>

(* persist_validated_result *)
Persist ==
  \/ stage = "authored" /\ AcceptCard(Normalized(card, packet), forward, "refused")
  \/ /\ stage = "qualified" /\ packet.readiness # "required"
     /\ AcceptCard(Normalized(card, packet), NoBundles, "refused")

(* persist_response: an updated or challenged thesis, in one call, with    *)
(* the scenario of the bundles it came with.                               *)
PersistResponse ==
  /\ stage = "drafted"
  /\ \E o \in Outcomes \cup {NoBundles} :
       AcceptCard(Normalized(card, packet), [o EXCEPT !.sources = Resolved(packet, @)], "rejected")

BoundaryNext == Qualify \/ Author \/ Persist \/ PersistResponse

BoundarySpec == BoundaryInit /\ [][BoundaryNext]_boundaryVars
-----------------------------------------------------------------------------
(* A card the qualitative stage accepted, with a scenario its author was   *)
(* let through with, is never refused where it is saved: nobody is left to *)
(* repair it.  What can be refused there is a verdict that needs the       *)
(* scenario no evidence required.                                          *)
PaidWorkIsSaved ==
  stage = "refused" =>
    /\ packet.readiness # "required"
    /\ card.verdict = "activated_case" \/ card.latent = "operating"

(* Every gap of the packet, and every limitation of the tables compared    *)
(* with the scenario, is in the saved card, and a card of high confidence  *)
(* has none that is core, but for the class its model gave it; the         *)
(* confidence is the model's or below it.                                  *)
GapsLimitConfidence ==
  stage = "saved" =>
    /\ packet.missing \subseteq card.missing
    /\ forward.bundles > 0 => forward.limitations \subseteq card.missing
    /\ \A i \in card.missing : Cardinality({d \in card.details : d.item = i}) = 1
    /\ \A i \in card.missing \ {d.item : d \in draft.details} :
         DefaultClass(i) = "core" => card.confidence # "high"
    /\ Rank[card.confidence] <= Rank[draft.confidence]
    /\ packet.documents = {} => card.confidence = "low"

(* A saved verdict and the tier the monthly ranking will give the card do  *)
(* not contradict each other: the same band against the same hurdle.       *)
VerdictAgreesWithTier ==
  stage = "saved" =>
    LET banded == packet.hurdle /\ forward.status = "available"
        tier == IF banded /\ forward.base # {}
                THEN Ranked!ProposedTier([available |-> TRUE, confidence |-> card.confidence,
                                          base |-> CHOOSE b \in forward.base : TRUE])
                ELSE "IE"
    IN  /\ card.verdict = "activated_case" => tier = "A"
        /\ card.latent = "operating" => tier \in {"A", "B"}
        /\ card.latent = "price" => tier # "A"
        /\ card.investable => tier = "A"

(* What a saved card cites was supplied, by its canonical name; claims on  *)
(* management rest on documents, and ownership is what the packet says.    *)
SavedEvidenceIsSupplied ==
  stage = "saved" =>
    /\ Cited(card, forward) \subseteq KnownSources(packet)
    /\ Cited(card, NoScenario) \cap DOMAIN packet.aliases \subseteq Citable(packet)
    /\ card.management \subseteq packet.documents
    /\ \A claim \in card.ownership :
         /\ claim.measure \in DOMAIN packet.ownership
         /\ claim.value = packet.ownership[claim.measure].value
    /\ packet.insiders # {} => InsidersCited(card, packet)
=============================================================================
