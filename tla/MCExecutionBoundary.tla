---------------------------- MODULE MCExecutionBoundary ----------------------------
(***************************************************************************)
(* Instances of the checks on a card and of the scenario engine between.   *)
(***************************************************************************)
EXTENDS ExecutionBoundary

(* A packet with one source of each kind, and the answers to it.           *)
Packet ==
  [documents |-> {"doc"}, insiders |-> {"trade"}, flow |-> {"free_float"}, prior |-> {},
   figures |-> {"sales"}, aliases |-> [copy |-> "doc", path |-> "deterministic"],
   ownership |-> [float |-> [value |-> 1, sources |-> {"free_float"}]],
   missing |-> {}, reverse |-> "available", curve |-> TRUE, implied |-> TRUE,
   shaky |-> FALSE, hurdle |-> TRUE, mandatory |-> TRUE, readiness |-> "required"]

Float == [typed |-> TRUE, measure |-> "float", value |-> 1, sources |-> {"free_float"}]

Typed ==
  [verdict |-> "watch", confidence |-> "high", investable |-> FALSE, reason |-> "other",
   ownership |-> {Float}, reverse |-> "plausible", reconsider |-> FALSE, evidence |-> {},
   trigger |-> [type |-> "none", metric |-> "none", code |-> "none"],
   resilience |-> "unassessable", resilienceSources |-> {}, limited |-> TRUE,
   ledger |-> {}, facts |-> <<[about |-> "demand", sources |-> {"sales"}, gap |-> FALSE]>>,
   baseline |-> {"sales"}, management |-> {"doc"}, insider |-> {"trade"}, slips |-> {},
   details |-> {}, breaks |-> TRUE, oneCase |-> TRUE, triggerCited |-> TRUE]

Plain ==
  [Project(Typed) EXCEPT !.version = "v2", !.ownership = {}, !.texts = {"management", "insider"},
                         !.cites = {"sales"}]

Unready == [Packet EXCEPT !.readiness = "blocked", !.mandatory = FALSE]
Bare == [Packet EXCEPT !.documents = {}, !.prior = {"doc"}]

Triggers ==
  [type : {"price", "operating"}, metric : {"price", "operating", "vague"},
   code : {"at_least", "improves"}]
   \cup {Typed.trigger}

(* The verdict and what it has to agree with.                              *)
Verdicts ==
  {[packet |-> [p EXCEPT !.reverse = r, !.curve = (r = "available"),
                         !.implied = (r = "available"), !.hurdle = h],
    card |-> Project([Typed EXCEPT !.verdict = v, !.trigger = t, !.reverse = a,
                                   !.evidence = e, !.investable = i,
                                   !.reason = IF i THEN "investable" ELSE "thesis_not_activated",
                                   !.reconsider = (v # "activated_case")])] :
     p \in {Packet, Unready}, r \in {"available", "unavailable"}, h \in BOOLEAN,
     v \in {"watch", "latent_case", "activated_case"}, t \in Triggers,
     a \in {"plausible", "unsupported"}, e \in {{"met"}, {"unresolved"}}, i \in BOOLEAN}

(* Gaps, their classes, and the confidence they leave.                     *)
Gaps ==
  {[packet |-> [p EXCEPT !.missing = m, !.shaky = s],
    card |-> [Plain EXCEPT !.confidence = k, !.missing = own, !.details = d,
                           !.omitted = o, !.reasons = (o > 0)]] :
     p \in {Packet, Bare, Unready}, s \in BOOLEAN, k \in Confidences,
     m \in {{}, {"annual_report"}, {"annual_report", "free_float_history"}},
     own \in {{}, {"annual_report"}, {"segment_data"}}, o \in 0 .. 1,
     d \in {{}, {[item |-> "annual_report", class |-> "supplemental"]},
             {[item |-> "segment_data", class |-> "core"]}}}

(* Who cites what.                                                         *)
Claims == {Float, [Float EXCEPT !.value = 2], [Float EXCEPT !.measure = "shorts"],
           [Float EXCEPT !.sources = {"doc"}], [Float EXCEPT !.typed = FALSE]}
Citations ==
  {[packet |-> p,
    card |-> [c EXCEPT !.management = {m}, !.insider = w, !.cites = q, !.ownership = o,
                       !.facts[1].sources = f]] :
     p \in {Packet, [Bare EXCEPT !.prior = {"old"}]},
     c \in {Plain, Project(Typed)}, m \in {"doc", "copy", "sales"},
     w \in {{}, {"trade"}, {"trade", "invented"}}, q \in {{}, {"path"}, {"old"}},
     o \in {{}} \cup {{x} : x \in Claims}, f \in {{"sales"}, {"invented"}}}
   \cup
  {[packet |-> Packet, card |-> [Plain EXCEPT !.ledger = {k}, !.cites = {"trade"}]] :
     k \in [claim : {{}, {"doc"}, {"copy"}}, outcome : {{}, {"doc"}, {"copy"}},
            result : {"kept", "unverifiable"}, observed : BOOLEAN]}

(* Revenue resilience, and the slips of the prose.                         *)
Resilience ==
  {[packet |-> Packet,
    card |-> [c EXCEPT !.resilience =
                [assessment |-> a, sources |-> s, recurring |-> s, variable |-> s,
                 driver |-> d, variation |-> v, models |-> m, profile |-> f, limits |-> l]]] :
     c \in {Plain}, a \in {"resilient", "mixed", "variable", "unassessable"},
     s \in {{}, {"doc"}, {"copy"}}, d \in {"none", "persistent", "recurring"},
     v \in {"none", "variable"}, m \in {{}, {"subscription"}, {"usage", "rental"}, {"project"}},
     f \in {"none", "majority"}, l \in BOOLEAN}

(* A slip alone, or the structural faults in every combination.            *)
ProseSlips ==
  [slips : {{}} \cup {{y} : y \in {"case_horizon", "one_sided", "upside_claimed",
                                 "probable_base", "unreasoned", "uncited_profile"}},
   breaks : {TRUE}, oneCase : {TRUE}, triggerCited : {TRUE}]
  \cup [slips : {{}}, breaks : BOOLEAN, oneCase : BOOLEAN, triggerCited : BOOLEAN]
Prose ==
  {[packet |-> Packet,
    card |-> Project([Typed EXCEPT !.slips = x.slips, !.breaks = x.breaks,
                                   !.oneCase = x.oneCase, !.triggerCited = x.triggerCited,
                                   !.resilience = r, !.resilienceSources = s, !.ledger = l])] :
     x \in ProseSlips, r \in {"resilient", "unassessable"},
     s \in {{}, {"doc"}}, l \in {{}, {{"doc"}}, {{"copy"}}, {{}}}}

Answers == Verdicts \cup Gaps \cup Citations \cup Resilience \cup Prose

Scenario(status, low, high, bundles, sources, limitations) ==
  [status |-> status, base |-> {<<low, high>>}, bundles |-> bundles, bands |-> bundles,
   sources |-> sources, limitations |-> limitations]

(* An engine without evidence keeps its bundles: one range stands for it.  *)
Engine ==
  {Scenario(s, b[1], b[2], 3, x[1], x[2]) :
     <<s, b>> \in {<<"available", <<-2, -1>>>>, <<"available", <<-1, 1>>>>,
                  <<"available", <<0, 1>>>>, <<"insufficient_evidence", <<-1, 1>>>>},
     x \in {<<{"sales"}, {}>>, <<{"old"}, {}>>, <<{"sales"}, {"table_rows"}>>}}
=============================================================================
