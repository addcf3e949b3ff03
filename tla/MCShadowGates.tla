------------------------------ MODULE MCShadowGates ------------------------------
(***************************************************************************)
(* Instances of the philosophy gates.                                      *)
(***************************************************************************)
EXTENDS ShadowGates

Made(id, domain, direction) ==
  [id |-> id, domain |-> domain, sources |-> {id}, direction |-> direction, structured |-> TRUE]

(* One claim of each first specialist, with a source of its own.           *)
Growing == Made("g", "growth", "positive")
ClaimsOf ==
  [business_model |-> {Made("b", "business_model", "positive")},
   management_credibility |-> {Made("c", "management_credibility", "positive")},
   margin |-> {Made("m", "margin", "positive")},
   insider_ownership |-> {Made("o", "insider_ownership", "positive")},
   growth_valuation |-> {Growing, Made("d", "revenue", "positive"), Made("v", "valuation", "positive")}]

Ids == {"b", "c", "m", "o", "g", "d", "v"}
Passed(ids) == [status |-> "not_triggered", claims |-> ids, sources |-> ids, basis |-> TRUE]
TestsOf ==
  [revenue_or_demand |-> Passed({"d"}), margin_or_execution |-> Passed({"m"}),
   balance_sheet_or_dilution |-> Passed({"o"}), management_credibility |-> Passed({"c"}),
   valuation_overshoot |-> Passed({"v"}), superior_evidence_or_opportunity |-> Passed({"b"})]

(* A promise kept and one that cannot be tested, the sources of the margin *)
(* mechanism, and those of two assumptions.                                *)
Promised == {[id |-> "l", sources |-> {"kept"}, result |-> "kept"],
             [id |-> "u", sources |-> {"vague"}, result |-> "too_vague_to_test"]}
Assumed == {[id |-> "x", field |-> "revenue_cagr", sources |-> {"cagr"}],
            [id |-> "y", field |-> "net_debt_change", sources |-> {"debt"}]}
OtherSources == {"kept", "vague", "pro", "con", "cagr", "debt"}

(* A company that nothing stands against, and its activation.              *)
Sound ==
  [status |-> [a \in Agents |-> "complete"], core |-> [a \in Agents |-> FALSE],
   cap |-> [a \in Agents |-> "high"], claims |-> ClaimsOf, ledger |-> Promised,
   supporting |-> {"pro"}, contrary |-> {"con"}, bundles |-> Assumed,
   view |-> [circle |-> "inside", profit |-> "supported", margin |-> "active",
             dependency |-> "material", mechanism |-> "described", signal |-> "neutral",
             growth |-> "supported", engine |-> "fundamental"],
   tests |-> TestsOf, blockers |-> {}, scenario |-> [status |-> "available", base |-> {<<0, 1>>}],
   reverse |-> "available", hurdle |-> TRUE, known |-> Ids \cup {"s", "f"} \cup OtherSources,
   deterministic |-> {"s"}, coverage |-> "high"]

Said(id, domain, kind) ==
  [id |-> id, domain |-> domain, sources |-> {id}, kind |-> kind, bound |-> TRUE, amount |-> FALSE]
Computed == Said("s", "evidence", "deterministic")
Activation ==
  [verdict |-> "activated_case", latent |-> "none", confidence |-> "high", investable |-> TRUE,
   core |-> FALSE, claims |-> {Said("g", "growth", "claim"), Computed}]
Candidates ==
  {Activation,
   [Activation EXCEPT !.verdict = "latent_case", !.latent = "operating", !.core = TRUE],
   [Activation EXCEPT !.verdict = "latent_case", !.latent = "price", !.confidence = "low"]}

With(hands, candidates) == [hand : hands, candidate : candidates]

(* What the specialists answered, and how sure they were.                  *)
AgentStatuses ==
  With({[Sound EXCEPT !.status[a] = s, !.core[a] = c, !.cap[a] = k, !.coverage = l] :
          a \in {"business_model", "management_credibility", "sell_conditions"},
          s \in {"complete", "insufficient", "failed"}, c \in BOOLEAN,
          k \in {"low", "high"}, l \in {"medium", "high"}}, Candidates)

(* Specialists that disagree.                                              *)
Views ==
  With({[Sound EXCEPT !.view =
           [Sound.view EXCEPT !.circle = c, !.margin = m, !.engine = e, !.growth = g, !.signal = s],
                      !.claims["growth_valuation"] = v, !.claims["margin"] = w,
                      !.claims["business_model"] = {Made("b", "business_model", d)}] :
          c \in {"inside", "borderline", "outside"}, m \in {"active", "stalled"}, s \in {"neutral", "positive"},
          e \in {"fundamental", "fundamental_plus_multiple", "multiple_primary", "multiple_only"},
          g \in {"supported", "weak"},
          v \in {ClaimsOf["growth_valuation"],
                 {Growing, Made("d", "revenue", "mixed"), Made("v", "valuation", "unassessable")}},
          w \in {ClaimsOf["margin"], {Made("m", "margin", "negative")}},
          d \in {"positive"}}, Candidates)

(* What the engines calculated.                                            *)
Returns ==
  With({[Sound EXCEPT !.scenario = [status |-> s, base |-> b], !.reverse = r, !.hurdle = h,
                      !.cap["sell_conditions"] = "low",
                      !.tests["valuation_overshoot"] =
                         IF o THEN OpenTest ELSE TestsOf["valuation_overshoot"],
                      !.blockers = IF o THEN {[code |-> "deterministic_scenario_unavailable",
                                               claims |-> {}, sources |-> {}]}
                                   ELSE {}] :
          s \in {"available", "unavailable"}, r \in {"available", "unavailable"}, h \in BOOLEAN,
          o \in BOOLEAN,
          b \in {{}, {<<-2, -1>>}, {<<-1, 1>>}, {<<0, 1>>}}}, Candidates)

(* Thesis breaks, their claims and their blockers.                         *)
Broken(status, claims, sources, basis) ==
  [status |-> status, claims |-> claims, sources |-> sources, basis |-> basis]
Breaks ==
  With({[Sound EXCEPT !.claims["margin"] = {[Made("m", "margin", d) EXCEPT !.structured = u]},
                      !.view["margin"] = m,
                      !.tests["margin_or_execution"] = Broken(s, c, c \cup x, u \/ y),
                      !.tests["superior_evidence_or_opportunity"].status = z,
                      !.blockers = b] :
          d \in {"positive", "negative", "mixed"}, u \in BOOLEAN, y \in BOOLEAN,
          m \in {"active", "stalled"}, s \in {"triggered", "not_triggered", "unassessable"},
          c \in {{}, {"m"}, {"m", "o"}}, x \in {{}, {"invented"}},
          z \in {"not_triggered", "triggered"},
          b \in {{}, {[code |-> "margin_or_execution", claims |-> {"m"}, sources |-> {"m"}]},
                 {[code |-> "upstream_specialist_unavailable", claims |-> {}, sources |-> {}]}}},
       {Activation})

(* Promises of the management, and tests that cite them.                   *)
Promises ==
  With({[Sound EXCEPT !.ledger = {[id |-> "l", sources |-> {"kept"}, result |-> r]},
                      !.tests["management_credibility"] = Broken(s, c, x, TRUE),
                      !.claims["management_credibility"] =
                         {Made("c", "management_credibility", d)}] :
          r \in LedgerResults, s \in {"triggered", "not_triggered"}, d \in {"positive", "negative"},
          c \in {{"l"}, {"c", "l"}}, x \in {{"kept"}, {"c"}, {"c", "kept"}}},
       {Activation,
        [Activation EXCEPT !.claims = {[Said("l", "management", "claim") EXCEPT !.sources = {"kept"}]}]})

(* What the candidate claims: sources of every kind, bound to figures or   *)
(* not, with an amount or without.                                         *)
Quoted == {{}, {"g"}, {"m"}, {"s"}, {"f"}, {"invented"}} \cup {{x} : x \in OtherSources}
           \cup {{"pro", "con"}, {"kept", "vague"}, {"cagr", "debt"}}
ClaimsWith(sources, kinds, bound, amount) ==
  [id : {"g", "none", "margin_or_execution", "l", "x", "supporting_source_ids", "invented"},
   domain : {"growth", "revenue", "margin", "management", "balance_sheet", "evidence"},
   sources : sources, kind : kinds, bound : bound, amount : amount]
Kinds == {"claim", "ownership", "deterministic", "limited"}
Proposing(claims) == {[Activation EXCEPT !.claims = {k}] : k \in claims}
Claiming ==
  With({Sound}, Proposing(ClaimsWith(Quoted, Kinds, {TRUE}, {FALSE})
                        \cup ClaimsWith({{}, {"g"}, {"s"}, {"kept"}}, Kinds, BOOLEAN, BOOLEAN)))
  \cup
  With({[Sound EXCEPT !.claims["growth_valuation"] = {Made("g", "growth", "unassessable")},
                             !.tests["revenue_or_demand"] = OpenTest,
                             !.tests["valuation_overshoot"] = OpenTest],
        [Sound EXCEPT !.claims["margin"] = {Made("m", "margin", "unassessable")},
                      !.status["growth_valuation"] = "insufficient"],
        [Sound EXCEPT !.supporting = {}, !.claims["margin"] = {},
                      !.status["management_credibility"] = "insufficient"]},
       Proposing(ClaimsWith(Quoted, {"claim", "deterministic"}, {TRUE}, {FALSE})))

GateHands == AgentStatuses \cup Views \cup Returns \cup Breaks \cup Promises \cup Claiming
=============================================================================
