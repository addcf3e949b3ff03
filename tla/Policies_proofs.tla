-------------------------- MODULE Policies_proofs --------------------------
(***************************************************************************)
(* What is proved of the decisions about one company: the invariants of    *)
(* the execution boundary (every packet, card and scenario of the types    *)
(* the parsers build), of the shadow graph (any number of specialists,     *)
(* artifacts and failures), of the gates of an activation, and of a        *)
(* backtest (any store, any periods and any scores).                       *)
(***************************************************************************)
EXTENDS ExecutionBoundary, ShadowGraph, ShadowGates, Backtest, BoundedSets,
        SequenceTheorems, FiniteSetTheorems, TLAPS
-----------------------------------------------------------------------------
(* A later pass is over a card whose gaps all have their detail.           *)
Detailed(c) == c.missing = {d.item : d \in c.details}

(* Every source the card cites is canonical or no alias.                   *)
Canonical(c, p) == Cited(c, NoScenario) \cap DOMAIN p.aliases \subseteq Citable(p)

(* The classes of the gaps its model did not name.                         *)
ClassedByKind(c, named) ==
  \A d \in c.details : d.item \notin named => d.class = DefaultClass(d.item)

(* What two versions of a card say but for its gaps and its confidence.    *)
SameCase(c, e) ==
  /\ c.version = e.version /\ c.verdict = e.verdict /\ c.investable = e.investable
  /\ c.reason = e.reason /\ c.ownership = e.ownership /\ c.reverse = e.reverse
  /\ c.reconsider = e.reconsider /\ c.evidence = e.evidence /\ c.latent = e.latent
  /\ c.trigger = e.trigger /\ c.threshold = e.threshold /\ c.resilience = e.resilience
  /\ c.ledger = e.ledger /\ c.omitted = e.omitted /\ c.reasons = e.reasons
  /\ c.facts = e.facts /\ c.cites = e.cites /\ c.thesis = e.thesis /\ c.texts = e.texts
  /\ c.management = e.management /\ c.insider = e.insider /\ c.slips = e.slips
  /\ c.typed = e.typed

Packed(p) ==
  /\ Range(p.aliases) \subseteq STRING /\ p.missing \subseteq STRING
  /\ MeasureSources(p) \subseteq p.flow
  /\ p.mandatory => p.readiness = "required"

(* Resolving a source twice is resolving it once.                          *)
LEMMA ResolveFacts ==
  ASSUME NEW p, NEW s
  PROVE  /\ Resolve(p, s) \in DOMAIN p.aliases => Resolve(p, s) \in Citable(p)
         /\ Resolve(p, Resolve(p, s)) = Resolve(p, s)
         /\ Range(p.aliases) \subseteq STRING /\ s \in STRING => Resolve(p, s) \in STRING
  BY DEF Resolve, Citable, Range

LEMMA ResolvedFacts ==
  ASSUME NEW p, NEW S
  PROVE  /\ Resolved(p, S) \cap DOMAIN p.aliases \subseteq Citable(p)
         /\ Resolved(p, Resolved(p, S)) = Resolved(p, S)
         /\ Range(p.aliases) \subseteq STRING /\ S \in SUBSET STRING
              => Resolved(p, S) \in SUBSET STRING
  BY ResolveFacts DEF Resolved

LEMMA ResolvedUnion ==
  ASSUME NEW p, NEW S, NEW T
  PROVE  Resolved(p, S \cup T) = Resolved(p, S) \cup Resolved(p, T)
  BY DEF Resolved

Merged(m, c, items, class) ==
  /\ m \in Cards /\ OneDetail(m) /\ SameCase(m, c) /\ m.confidence = c.confidence
  /\ m.missing = c.missing \cup items
  /\ Detailed(m)
  /\ \A d \in m.details \ c.details : d.class = class[d.item]

(* Merging gaps touches nothing else, and leaves each gap with one detail. *)
LEMMA MergeFacts ==
  ASSUME NEW c \in Cards, OneDetail(c), NEW items \in SUBSET Items,
         NEW class, \A i \in c.missing \cup items : class[i] \in {"core", "supplemental"}
  PROVE  Merged(Merge(c, items, class), c, items, class)
<1> DEFINE missing == c.missing \cup items
           undetailed == {i \in missing : \A d \in c.details : d.item # i}
           details == {d \in c.details : d.item \in missing}
                        \cup {[item |-> i, class |-> class[i]] : i \in undetailed}
           m == [c EXCEPT !.missing = missing, !.details = details]
<1>1. Merge(c, items, class) = m
  BY DEF Merge
<1>2. missing \in SUBSET Items
  BY DEF Cards
<1>3. details \in SUBSET Details
  BY <1>2 DEF Cards, Details
<1>4. \A d, e \in details : d.item = e.item => d = e
  BY DEF OneDetail
<1>5. missing = {d.item : d \in details}
  <2>1. \A i \in missing : \E d \in details : d.item = i
    <3> TAKE i \in missing
    <3>1. CASE i \in undetailed
      <4>1. [item |-> i, class |-> class[i]] \in details
        BY <3>1
      <4> QED
        BY <4>1
    <3>2. CASE i \notin undetailed
      BY <3>2
    <3> QED
      BY <3>1, <3>2
  <2>2. \A d \in details : d.item \in missing
    OBVIOUS
  <2> HIDE DEF details, missing
  <2> QED
    BY <2>1, <2>2
<1>6. \A d \in details \ c.details : d.class = class[d.item]
  OBVIOUS
<1>7. /\ m.missing = missing /\ m.details = details
  BY DEF Cards
<1> HIDE DEF missing, details
<1>8. m \in Cards
  BY <1>2, <1>3 DEF Cards
<1>9. SameCase(m, c) /\ m.confidence = c.confidence
  BY DEF Cards, SameCase
<1> HIDE DEF m
<1> QED
  BY <1>1, <1>4, <1>5, <1>6, <1>7, <1>8, <1>9 DEF OneDetail, Detailed, missing, Merged

(* The classes the boundary itself gives.                                  *)
LEMMA ClassFacts ==
  /\ \A i : DefaultClass(i) \in {"core", "supplemental"}
  /\ \A S : \A i \in S : Defaults(S)[i] = DefaultClass(i)
  /\ \A c : \A i \in c.missing \cup {"omitted_claims"} : Supplemental(c)[i] = DefaultClass(i)
<1>1. /\ \A i : DefaultClass(i) \in {"core", "supplemental"}
      /\ DefaultClass("omitted_claims") = "supplemental"
  BY DEF DefaultClass
<1>2. \A S : Defaults(S) = [i \in S |-> DefaultClass(i)]
  BY DEF Defaults
<1> QED
  BY <1>1, <1>2 DEF Supplemental

(* A card that the normalisation has nothing to change in.                 *)
Settled(c, p) ==
  /\ Resolved(p, c.cites) = c.cites /\ Resolved(p, c.management) = c.management
  /\ Resolved(p, c.insider) = c.insider /\ Resolved(p, c.thesis) = c.thesis
  /\ "repeated_detail" \notin c.slips
  /\ \A i \in DOMAIN c.facts : Resolved(p, c.facts[i].sources) = c.facts[i].sources
  /\ Resolved(p, c.resilience.recurring) = c.resilience.recurring
  /\ Resolved(p, c.resilience.variable) = c.resilience.variable
  /\ Resolved(p, c.resilience.sources \cup c.resilience.recurring \cup c.resilience.variable)
       = c.resilience.sources
  /\ SettledLedger(KeptLedger(c, p)) = c.ledger
  /\ p.missing \subseteq c.missing /\ Detailed(c)
  /\ c.omitted > 0 => "omitted_claims" \in c.missing

LEMMA LedgerFacts ==
  ASSUME NEW c \in Cards, NEW p
  PROVE  LET kept == SettledLedger(KeptLedger(c, p)) IN
         /\ kept \in SUBSET Claimed
         /\ \A k \in kept : k.claim \cup k.outcome \subseteq p.documents
         /\ SettledLedger(kept) = kept
<1> DEFINE Cleared(k) == IF k.result \in Assessed THEN k
                         ELSE [k EXCEPT !.outcome = {}, !.observed = FALSE]
<1>1. /\ KeptLedger(c, p) \in SUBSET Claimed
      /\ \A k \in KeptLedger(c, p) : k.claim \cup k.outcome \subseteq p.documents
  BY DEF KeptLedger, Cards
<1>2. \A k \in Claimed :
        /\ Cleared(k) \in Claimed /\ Cleared(Cleared(k)) = Cleared(k)
        /\ Cleared(k).claim = k.claim
        /\ Cleared(k).outcome = k.outcome \/ Cleared(k).outcome = {}
  <2> TAKE k \in Claimed
  <2>1. CASE k.result \in Assessed
    BY <2>1
  <2>2. CASE k.result \notin Assessed
    <3> DEFINE e == [k EXCEPT !.outcome = {}, !.observed = FALSE]
    <3>1. /\ e \in Claimed /\ e.outcome = {} /\ e.observed = FALSE
          /\ e.claim = k.claim /\ e.result = k.result
      BY DEF Claimed
    <3>2. Cleared(k) = e
      BY <2>2
    <3> HIDE DEF e
    <3>3. [e EXCEPT !.outcome = {}, !.observed = FALSE] = e
      BY <3>1 DEF Claimed
    <3> QED
      BY <2>2, <3>1, <3>2, <3>3
  <2> QED
    BY <2>1, <2>2
<1>3. \A L : SettledLedger(L) = {Cleared(k) : k \in L}
  BY DEF SettledLedger
<1> HIDE DEF Cleared
<1> DEFINE kept == SettledLedger(KeptLedger(c, p))
<1>4. kept = {Cleared(k) : k \in KeptLedger(c, p)}
  BY <1>3
<1>5. \A k \in kept : /\ k \in Claimed /\ Cleared(k) = k
                     /\ k.claim \cup k.outcome \subseteq p.documents
  BY <1>1, <1>2, <1>4
<1>6. SettledLedger(kept) = kept
  <2> HIDE DEF kept
  <2> QED
    BY <1>3, <1>5
<1> QED
  BY <1>5, <1>6

(* What the normalisation makes of a card, and that once is enough.        *)
LEMMA NormalizedFacts ==
  ASSUME NEW c \in Cards, OneDetail(c), NEW p, Packed(p)
  PROVE  LET n == Normalized(c, p) IN
         /\ n \in Cards /\ OneDetail(n) /\ Settled(n, p)
         /\ n.confidence = c.confidence /\ n.verdict = c.verdict /\ n.latent = c.latent
         /\ \A d \in n.details \ c.details : d.class = DefaultClass(d.item)
<1> DEFINE merged == Merge(c, p.missing, Defaults(c.missing \cup p.missing))
           full == IF c.omitted > 0
                   THEN Merge(merged, {"omitted_claims"}, Supplemental(merged)) ELSE merged
           ledger == SettledLedger(KeptLedger(c, p))
           facts == [i \in DOMAIN c.facts |->
                       [c.facts[i] EXCEPT !.sources = Resolved(p, c.facts[i].sources)]]
           resilience == [c.resilience EXCEPT
                            !.recurring = Resolved(p, c.resilience.recurring),
                            !.variable = Resolved(p, c.resilience.variable),
                            !.sources = Resolved(p, c.resilience.sources \cup
                               c.resilience.recurring \cup c.resilience.variable)]
           n == [full EXCEPT !.cites = Resolved(p, c.cites),
                             !.management = Resolved(p, c.management),
                             !.insider = Resolved(p, c.insider),
                             !.slips = c.slips \ {"repeated_detail"},
                             !.thesis = Resolved(p, c.thesis),
                             !.facts = facts, !.resilience = resilience, !.ledger = ledger]
<1>1. Normalized(c, p) = n
  BY DEF Normalized
<1>2. /\ merged \in Cards /\ OneDetail(merged) /\ SameCase(merged, c)
      /\ merged.confidence = c.confidence /\ merged.missing = c.missing \cup p.missing
      /\ Detailed(merged)
      /\ \A d \in merged.details \ c.details : d.class = DefaultClass(d.item)
  <2>1. p.missing \in SUBSET Items
    BY DEF Packed, Items
  <2> DEFINE class == Defaults(c.missing \cup p.missing)
  <2>2. \A i \in c.missing \cup p.missing :
          class[i] = DefaultClass(i) /\ class[i] \in {"core", "supplemental"}
    BY ClassFacts
  <2> HIDE DEF class
  <2>3. Merged(Merge(c, p.missing, class), c, p.missing, class)
    BY <2>1, <2>2, MergeFacts
  <2>4. Merged(merged, c, p.missing, class)
    BY <2>3 DEF class
  <2> HIDE DEF merged
  <2>5. \A d \in merged.details : d.item \in c.missing \cup p.missing
    BY <2>4 DEF Detailed, Merged
  <2> QED
    BY <2>2, <2>4, <2>5 DEF Merged
<1> HIDE DEF merged
<1>3. /\ full \in Cards /\ OneDetail(full) /\ SameCase(full, c)
      /\ full.confidence = c.confidence /\ c.missing \cup p.missing \subseteq full.missing
      /\ c.omitted > 0 => "omitted_claims" \in full.missing
      /\ Detailed(full)
      /\ \A d \in full.details \ c.details : d.class = DefaultClass(d.item)
  <2>1. CASE c.omitted > 0
    <3> DEFINE class == Supplemental(merged)
    <3>1. \A i \in merged.missing \cup {"omitted_claims"} :
            class[i] = DefaultClass(i) /\ class[i] \in {"core", "supplemental"}
      BY ClassFacts
    <3>2. {"omitted_claims"} \in SUBSET Items
      BY DEF Items
    <3> HIDE DEF class
    <3> DEFINE m == Merge(merged, {"omitted_claims"}, class)
    <3>3. Merged(m, merged, {"omitted_claims"}, class)
      BY <1>2, <3>1, <3>2, MergeFacts
    <3>4. full = m
      BY <2>1 DEF class
    <3> HIDE DEF full, m
    <3>5. \A d \in m.details : d.item \in merged.missing \cup {"omitted_claims"}
      BY <3>3 DEF Detailed, Merged
    <3>6. \A d \in m.details \ c.details : d.class = DefaultClass(d.item)
      BY <1>2, <3>1, <3>3, <3>5 DEF Merged
    <3>7. SameCase(m, c)
      BY <1>2, <3>3 DEF SameCase, Merged
    <3> QED
      BY <1>2, <3>3, <3>4, <3>6, <3>7 DEF Merged
  <2>2. CASE ~(c.omitted > 0)
    BY <1>2, <2>2
  <2> QED
    BY <2>1, <2>2
<1> HIDE DEF full
<1>4. facts \in Seq(CompanyFacts)
  <2>1. c.facts \in Seq(CompanyFacts)
    BY DEF Cards
  <2>2. \A i \in DOMAIN c.facts :
          [c.facts[i] EXCEPT !.sources = Resolved(p, c.facts[i].sources)] \in CompanyFacts
    <3> TAKE i \in DOMAIN c.facts
    <3> DEFINE f == c.facts[i]
               s == Resolved(p, f.sources)
    <3>1. f \in CompanyFacts
      BY <2>1
    <3>2. s \in SUBSET STRING
      BY <3>1, ResolvedFacts DEF CompanyFacts, Packed
    <3> HIDE DEF f, s
    <3>3. [f EXCEPT !.sources = s] \in CompanyFacts
      BY <3>1, <3>2 DEF CompanyFacts
    <3> QED
      BY <3>3 DEF f, s
  <2> QED
    BY <2>1, <2>2
<1>5. /\ resilience \in Resiliences
      /\ resilience.recurring = Resolved(p, c.resilience.recurring)
      /\ resilience.variable = Resolved(p, c.resilience.variable)
      /\ resilience.sources = Resolved(p, c.resilience.sources \cup
                               c.resilience.recurring \cup c.resilience.variable)
  <2> DEFINE r == c.resilience
             a == Resolved(p, r.recurring)
             b == Resolved(p, r.variable)
             s == Resolved(p, c.resilience.sources \cup
                               c.resilience.recurring \cup c.resilience.variable)
  <2>1. r \in Resiliences
    BY DEF Cards
  <2>2. a \in SUBSET STRING /\ b \in SUBSET STRING /\ s \in SUBSET STRING
    BY <2>1, ResolvedFacts DEF Resiliences, Packed
  <2>3. resilience = [r EXCEPT !.recurring = a, !.variable = b, !.sources = s]
    OBVIOUS
  <2>4. a = Resolved(p, c.resilience.recurring) /\ b = Resolved(p, c.resilience.variable)
    BY <2>1
  <2> HIDE DEF a, b, s, r, resilience
  <2>5. /\ resilience \in Resiliences /\ resilience.recurring = a
        /\ resilience.variable = b /\ resilience.sources = s
    BY <2>1, <2>2, <2>3 DEF Resiliences
  <2> QED
    BY <2>4, <2>5 DEF s
<1>6. /\ ledger \in SUBSET Claimed /\ SettledLedger(ledger) = ledger
      /\ \A k \in ledger : k.claim \cup k.outcome \subseteq p.documents
  BY LedgerFacts
<1> HIDE DEF facts, resilience, ledger
<1>7. /\ n \in Cards
      /\ n.cites = Resolved(p, c.cites) /\ n.management = Resolved(p, c.management)
      /\ n.insider = Resolved(p, c.insider) /\ n.slips = c.slips \ {"repeated_detail"}
      /\ n.thesis = Resolved(p, c.thesis) /\ n.facts = facts
      /\ n.resilience = resilience /\ n.ledger = ledger
      /\ n.missing = full.missing /\ n.details = full.details /\ n.omitted = full.omitted
      /\ n.confidence = full.confidence /\ n.verdict = full.verdict /\ n.latent = full.latent
  <2> DEFINE cites == Resolved(p, c.cites)
             management == Resolved(p, c.management)
             insider == Resolved(p, c.insider)
             thesis == Resolved(p, c.thesis)
             slips == c.slips \ {"repeated_detail"}
  <2>1. /\ cites \in SUBSET STRING /\ management \in SUBSET STRING
        /\ insider \in SUBSET STRING /\ thesis \in SUBSET STRING
        /\ slips \in SUBSET STRING
    BY <1>3, ResolvedFacts DEF Cards, Packed
  <2>2. n = [full EXCEPT !.cites = cites, !.management = management, !.insider = insider,
                         !.slips = slips, !.thesis = thesis,
                         !.facts = facts, !.resilience = resilience, !.ledger = ledger]
    OBVIOUS
  <2> HIDE DEF n, cites, management, insider, thesis, slips
  <2>3. n \in Cards
    BY <1>3, <1>4, <1>5, <1>6, <2>1, <2>2 DEF Cards
  <2>4. /\ n.cites = cites /\ n.management = management /\ n.insider = insider
        /\ n.slips = slips /\ n.thesis = thesis /\ n.facts = facts
        /\ n.resilience = resilience /\ n.ledger = ledger
    BY <1>3, <2>2 DEF Cards
  <2>5. /\ n.missing = full.missing /\ n.details = full.details /\ n.omitted = full.omitted
        /\ n.confidence = full.confidence /\ n.verdict = full.verdict /\ n.latent = full.latent
    BY <1>3, <2>2 DEF Cards
  <2> QED
    BY <2>3, <2>4, <2>5 DEF cites, management, insider, thesis, slips
<1> HIDE DEF n
<1>8. OneDetail(n) /\ Detailed(n)
  BY <1>3, <1>7 DEF OneDetail, Detailed
<1>9. Settled(n, p)
  <2>1. /\ Resolved(p, n.cites) = n.cites /\ Resolved(p, n.management) = n.management
        /\ Resolved(p, n.insider) = n.insider /\ Resolved(p, n.thesis) = n.thesis
        /\ "repeated_detail" \notin n.slips
    BY <1>7, ResolvedFacts
  <2>2. \A i \in DOMAIN n.facts : Resolved(p, n.facts[i].sources) = n.facts[i].sources
    <3>1. \A i \in DOMAIN facts : facts[i].sources = Resolved(p, c.facts[i].sources)
      <4>1. c.facts \in Seq(CompanyFacts)
        BY DEF Cards
      <4> QED
        BY <4>1 DEF facts, CompanyFacts
    <3> QED
      BY <1>7, <3>1, ResolvedFacts
  <2>3. /\ Resolved(p, n.resilience.recurring) = n.resilience.recurring
        /\ Resolved(p, n.resilience.variable) = n.resilience.variable
        /\ Resolved(p, n.resilience.sources \cup n.resilience.recurring
                         \cup n.resilience.variable) = n.resilience.sources
    <3> DEFINE a == c.resilience.recurring
               b == c.resilience.variable
               s == c.resilience.sources
               r == n.resilience
    <3>1. /\ r.recurring = Resolved(p, a) /\ r.variable = Resolved(p, b)
          /\ r.sources = Resolved(p, (s \cup a) \cup b)
      BY <1>5, <1>7
    <3> HIDE DEF a, b, s, r
    <3>2. r.sources = Resolved(p, s) \cup Resolved(p, a) \cup Resolved(p, b)
      <4>1. Resolved(p, (s \cup a) \cup b) = Resolved(p, s \cup a) \cup Resolved(p, b)
        BY ResolvedUnion
      <4>2. Resolved(p, s \cup a) = Resolved(p, s) \cup Resolved(p, a)
        BY ResolvedUnion
      <4> QED
        BY <3>1, <4>1, <4>2
    <3>3. r.sources \cup r.recurring \cup r.variable = r.sources
      BY <3>1, <3>2
    <3>4. /\ Resolved(p, r.recurring) = r.recurring /\ Resolved(p, r.variable) = r.variable
          /\ Resolved(p, r.sources) = r.sources
      BY <3>1, ResolvedFacts
    <3> QED
      BY <3>3, <3>4 DEF r
  <2>4. SettledLedger(KeptLedger(n, p)) = n.ledger
    <3>1. KeptLedger(n, p) = ledger
      BY <1>6, <1>7 DEF KeptLedger
    <3> QED
      BY <1>6, <1>7, <3>1
  <2>5. p.missing \subseteq n.missing /\ (n.omitted > 0 => "omitted_claims" \in n.missing)
    BY <1>3, <1>7 DEF SameCase
  <2> QED
    BY <1>8, <2>1, <2>2, <2>3, <2>4, <2>5 DEF Settled
<1>10. n.confidence = c.confidence /\ n.verdict = c.verdict /\ n.latent = c.latent
  BY <1>3, <1>7 DEF SameCase
<1>11. \A d \in n.details \ c.details : d.class = DefaultClass(d.item)
  BY <1>3, <1>7
<1> QED
  BY <1>1, <1>7, <1>8, <1>9, <1>10, <1>11

(* The confidence is lowered to the cap, and nothing else changes.         *)
LEMMA CappedFacts ==
  ASSUME NEW c \in Cards, NEW p, NEW outlook
  PROVE  LET k == Capped(c, p, outlook) IN
         /\ k \in Cards /\ SameCase(k, c) /\ k.missing = c.missing /\ k.details = c.details
         /\ Cap(c, p, outlook) \in Confidences
         /\ Rank[k.confidence] <= Rank[c.confidence]
         /\ Rank[k.confidence] <= Rank[Cap(c, p, outlook)]
<1> DEFINE cap == Cap(c, p, outlook)
           x == IF Rank[c.confidence] > Rank[cap] THEN cap ELSE c.confidence
           k == [c EXCEPT !.confidence = x]
<1>1. cap \in Confidences
  BY DEF Cap, Confidences
<1>2. Capped(c, p, outlook) = k
  BY DEF Capped
<1> HIDE DEF cap
<1>3. c.confidence \in Confidences
  BY DEF Cards
<1>4. \A y \in Confidences : Rank[y] \in Int
  BY DEF Rank, Confidences
<1>5. x \in Confidences /\ Rank[x] <= Rank[c.confidence] /\ Rank[x] <= Rank[cap]
  BY <1>1, <1>3, <1>4
<1> HIDE DEF x
<1>6. k \in Cards /\ k.confidence = x
  BY <1>5 DEF Cards
<1>7. SameCase(k, c) /\ k.missing = c.missing /\ k.details = c.details
  BY DEF SameCase, Cards
<1> HIDE DEF k
<1> QED
  BY <1>1, <1>2, <1>5, <1>6, <1>7 DEF cap

(* No check fails: every one of them holds.                                *)
BoundaryHolds(c, p, outlook, required) ==
  /\ FactsHold(c) /\ ThesisHolds(c, p) /\ outlook.sources \subseteq KnownSources(p)
  /\ StructuredHolds(c) /\ AssessmentsHold(c, p)
  /\ Cited(c, NoScenario) \subseteq KnownSources(p)
  /\ "upside_claimed" \notin c.slips /\ "probable_base" \notin c.slips
  /\ LedgerHolds(c) /\ LedgerCites(c, p) /\ ActivatedHolds(c, p) /\ ResilienceHolds(c)
  /\ ReverseHolds(c, p) /\ (required => CompletedScenario(p, outlook))
  /\ CoherenceHolds(c, p, outlook, required) /\ EligibilityHolds(c, outlook, required)
  /\ InsidersCited(c, p)

LEMMA BoundaryChecks ==
  ASSUME NEW c, NEW p, NEW outlook, NEW required \in BOOLEAN
  PROVE  BoundaryFaults(c, p, outlook, required) = {}
           <=> BoundaryHolds(c, p, outlook, required)
<1> DEFINE a == FactsHold(c)
           b == ThesisHolds(c, p)
           d == outlook.sources \subseteq KnownSources(p)
           e == StructuredHolds(c)
           f == AssessmentsHold(c, p)
           g == Cited(c, NoScenario) \subseteq KnownSources(p)
           h == "upside_claimed" \notin c.slips
           i == "probable_base" \notin c.slips
           j == LedgerHolds(c) /\ LedgerCites(c, p)
           k == ActivatedHolds(c, p)
           l == ResilienceHolds(c)
           m == ReverseHolds(c, p)
           n == required => CompletedScenario(p, outlook)
           o == CoherenceHolds(c, p, outlook, required)
           q == EligibilityHolds(c, outlook, required)
           r == InsidersCited(c, p)
           checks ==
             [facts |-> a, thesis |-> b, forward_sources |-> d, structured |-> e,
              assessments |-> f, known_sources |-> g, upside |-> h, characterization |-> i,
              ledger |-> j, activated |-> k, resilience |-> l, reverse_dcf |-> m,
              scenario |-> n, coherence |-> o, eligibility |-> q, insiders_cited |-> r]
<1>1. BoundaryFaults(c, p, outlook, required) = {name \in DOMAIN checks : ~checks[name]}
  BY DEF BoundaryFaults, Failing
<1>2. BoundaryHolds(c, p, outlook, required)
        <=> a /\ b /\ d /\ e /\ f /\ g /\ h /\ i /\ j /\ k /\ l /\ m /\ n /\ o /\ q /\ r
  BY DEF BoundaryHolds
<1> HIDE DEF a, b, d, e, f, g, h, i, j, k, l, m, n, o, q, r
<1>3. DOMAIN checks = {"facts", "thesis", "forward_sources", "structured", "assessments",
                       "known_sources", "upside", "characterization", "ledger", "activated",
                       "resilience", "reverse_dcf", "scenario", "coherence", "eligibility",
                       "insiders_cited"}
  OBVIOUS
<1>4. /\ checks.facts = a /\ checks.thesis = b /\ checks.forward_sources = d
      /\ checks.structured = e /\ checks.assessments = f /\ checks.known_sources = g
      /\ checks.upside = h /\ checks.characterization = i /\ checks.ledger = j
      /\ checks.activated = k /\ checks.resilience = l /\ checks.reverse_dcf = m
      /\ checks.scenario = n /\ checks.coherence = o /\ checks.eligibility = q
      /\ checks.insiders_cited = r
  OBVIOUS
<1> HIDE DEF checks
<1>5. {name \in DOMAIN checks : ~checks[name]} = {}
        <=> a /\ b /\ d /\ e /\ f /\ g /\ h /\ i /\ j /\ k /\ l /\ m /\ n /\ o /\ q /\ r
  <2>1. {name \in DOMAIN checks : ~checks[name]} = {} <=> \A name \in DOMAIN checks : checks[name]
    OBVIOUS
  <2>2. (\A name \in DOMAIN checks : checks[name])
          <=> /\ checks["facts"] /\ checks["thesis"] /\ checks["forward_sources"]
              /\ checks["structured"] /\ checks["assessments"] /\ checks["known_sources"]
              /\ checks["upside"] /\ checks["characterization"] /\ checks["ledger"]
              /\ checks["activated"] /\ checks["resilience"] /\ checks["reverse_dcf"]
              /\ checks["scenario"] /\ checks["coherence"] /\ checks["eligibility"]
              /\ checks["insiders_cited"]
    BY <1>3
  <2> QED
    BY <1>4, <2>1, <2>2
<1> QED
  BY <1>1, <1>2, <1>5

(* The checks read what SameCase compares, and the gaps.                   *)
LEMMA ChecksStay ==
  ASSUME NEW c, NEW e, SameCase(c, e), c.missing = e.missing, c.details = e.details,
         NEW p, NEW outlook, NEW required \in BOOLEAN
  PROVE  /\ BoundaryHolds(c, p, outlook, required) => BoundaryHolds(e, p, outlook, required)
         /\ Settled(c, p) => Settled(e, p)
<1>1. FactsHold(c) => FactsHold(e)
  BY DEF SameCase, FactsHold
<1>2. ThesisHolds(c, p) => ThesisHolds(e, p)
  BY DEF SameCase, ThesisHolds, TriggerHolds
<1>3. StructuredHolds(c) => StructuredHolds(e)
  BY DEF SameCase, StructuredHolds
<1>4. AssessmentsHold(c, p) => AssessmentsHold(e, p)
  BY DEF SameCase, AssessmentsHold, OwnershipSources
<1>5. Cited(e, NoScenario) = Cited(c, NoScenario)
  BY DEF SameCase, Cited
<1>6. (LedgerHolds(c) => LedgerHolds(e)) /\ (LedgerCites(c, p) => LedgerCites(e, p))
  BY DEF SameCase, LedgerHolds, LedgerCites
<1>7. (ActivatedHolds(c, p) => ActivatedHolds(e, p)) /\ (ReverseHolds(c, p) => ReverseHolds(e, p))
  BY DEF SameCase, ActivatedHolds, ReverseHolds
<1>8. ResilienceHolds(c) => ResilienceHolds(e)
  BY DEF SameCase, ResilienceHolds
<1>9. CoherenceHolds(c, p, outlook, required) => CoherenceHolds(e, p, outlook, required)
  BY DEF SameCase, CoherenceHolds
<1>10. EligibilityHolds(c, outlook, required) => EligibilityHolds(e, outlook, required)
  BY DEF SameCase, EligibilityHolds
<1>11. InsidersCited(c, p) => InsidersCited(e, p)
  BY DEF SameCase, InsidersCited
<1>12. c.slips = e.slips
  BY DEF SameCase
<1>13. Settled(c, p) => Settled(e, p)
  BY DEF SameCase, Settled, Detailed, KeptLedger
<1> QED
  BY <1>1, <1>2, <1>3, <1>4, <1>5, <1>6, <1>7, <1>8, <1>9, <1>10, <1>11, <1>12, <1>13
     DEF BoundaryHolds

(* A second normalisation changes nothing.                                 *)
LEMMA NothingToMerge ==
  ASSUME NEW c \in Cards, Detailed(c), NEW items, items \subseteq c.missing, NEW class
  PROVE  Merge(c, items, class) = c
<1>1. c.missing \cup items = c.missing
  OBVIOUS
<1>2. {d \in c.details : d.item \in c.missing} = c.details
  BY DEF Detailed
<1>3. {[item |-> i, class |-> class[i]] :
         i \in {j \in c.missing : \A d \in c.details : d.item # j}} = {}
  BY DEF Detailed
<1>4. Merge(c, items, class) =
        [c EXCEPT !.missing = c.missing \cup items,
           !.details = {d \in c.details : d.item \in c.missing \cup items}
             \cup {[item |-> i, class |-> class[i]] :
                     i \in {j \in c.missing \cup items : \A d \in c.details : d.item # j}}]
  BY DEF Merge
<1>5. Merge(c, items, class) = [c EXCEPT !.missing = c.missing, !.details = c.details]
  BY <1>1, <1>2, <1>3, <1>4
<1>6. [c EXCEPT !.missing = c.missing, !.details = c.details] = c
  BY DEF Cards
<1> QED
  BY <1>5, <1>6

LEMMA SettledStays ==
  ASSUME NEW c \in Cards, NEW p, Settled(c, p)
  PROVE  Normalized(c, p) = c
<1>1. Merge(c, p.missing, Defaults(c.missing \cup p.missing)) = c
  BY NothingToMerge DEF Settled
<1>2. c.omitted > 0 => Merge(c, {"omitted_claims"}, Supplemental(c)) = c
  BY NothingToMerge DEF Settled
<1>3. c.facts = [i \in DOMAIN c.facts |->
                   [c.facts[i] EXCEPT !.sources = Resolved(p, c.facts[i].sources)]]
  <2>1. c.facts \in Seq(CompanyFacts)
    BY DEF Cards
  <2>2. \A i \in DOMAIN c.facts :
          [c.facts[i] EXCEPT !.sources = Resolved(p, c.facts[i].sources)] = c.facts[i]
    <3> TAKE i \in DOMAIN c.facts
    <3> DEFINE f == c.facts[i]
    <3>1. f \in CompanyFacts /\ Resolved(p, f.sources) = f.sources
      BY <2>1 DEF Settled
    <3> HIDE DEF f
    <3>2. [f EXCEPT !.sources = f.sources] = f
      BY <3>1 DEF CompanyFacts
    <3> QED
      BY <3>1, <3>2 DEF f
  <2> DEFINE F(i) == [c.facts[i] EXCEPT !.sources = Resolved(p, c.facts[i].sources)]
  <2>3. c.facts = [i \in DOMAIN c.facts |-> c.facts[i]]
    BY <2>1
  <2>4. \A i \in DOMAIN c.facts : F(i) = c.facts[i]
    BY <2>2
  <2> HIDE DEF F
  <2>5. [i \in DOMAIN c.facts |-> F(i)] = [i \in DOMAIN c.facts |-> c.facts[i]]
    BY <2>4
  <2> QED
    BY <2>3, <2>5 DEF F
<1>4. c.resilience = [c.resilience EXCEPT
                        !.recurring = Resolved(p, c.resilience.recurring),
                        !.variable = Resolved(p, c.resilience.variable),
                        !.sources = Resolved(p, c.resilience.sources \cup
                           c.resilience.recurring \cup c.resilience.variable)]
  <2> DEFINE r == c.resilience
  <2>1. r \in Resiliences
    BY DEF Cards
  <2>2. /\ Resolved(p, r.recurring) = r.recurring /\ Resolved(p, r.variable) = r.variable
        /\ Resolved(p, r.sources \cup r.recurring \cup r.variable) = r.sources
    BY DEF Settled
  <2> HIDE DEF r
  <2>3. [r EXCEPT !.recurring = r.recurring, !.variable = r.variable, !.sources = r.sources] = r
    BY <2>1 DEF Resiliences
  <2> QED
    BY <2>2, <2>3 DEF r
<1>5. /\ SettledLedger(KeptLedger(c, p)) = c.ledger /\ c.slips \ {"repeated_detail"} = c.slips
      /\ Resolved(p, c.cites) = c.cites /\ Resolved(p, c.management) = c.management
      /\ Resolved(p, c.insider) = c.insider /\ Resolved(p, c.thesis) = c.thesis
  BY DEF Settled
<1>6. Normalized(c, p) =
        [c EXCEPT !.cites = c.cites, !.management = c.management, !.insider = c.insider,
                  !.slips = c.slips, !.thesis = c.thesis, !.facts = c.facts,
                  !.resilience = c.resilience, !.ledger = c.ledger]
  <2> DEFINE full(m) == IF c.omitted > 0
                        THEN Merge(m, {"omitted_claims"}, Supplemental(m)) ELSE m
  <2>1. full(c) = c
    BY <1>2
  <2>2. Normalized(c, p) =
          [full(Merge(c, p.missing, Defaults(c.missing \cup p.missing))) EXCEPT
             !.cites = Resolved(p, c.cites),
             !.management = Resolved(p, c.management),
             !.insider = Resolved(p, c.insider),
             !.slips = c.slips \ {"repeated_detail"},
             !.thesis = Resolved(p, c.thesis),
             !.facts = [i \in DOMAIN c.facts |->
                          [c.facts[i] EXCEPT !.sources = Resolved(p, c.facts[i].sources)]],
             !.resilience = [c.resilience EXCEPT
                               !.recurring = Resolved(p, c.resilience.recurring),
                               !.variable = Resolved(p, c.resilience.variable),
                               !.sources = Resolved(p, c.resilience.sources \cup
                                 c.resilience.recurring \cup c.resilience.variable)],
             !.ledger = SettledLedger(KeptLedger(c, p))]
    BY DEF Normalized
  <2> HIDE DEF full
  <2> QED
    BY <1>1, <1>3, <1>4, <1>5, <2>1, <2>2
<1>7. [c EXCEPT !.cites = c.cites, !.management = c.management, !.insider = c.insider,
                !.slips = c.slips, !.thesis = c.thesis, !.facts = c.facts,
                !.resilience = c.resilience, !.ledger = c.ledger] = c
  BY DEF Cards
<1> QED
  BY <1>6, <1>7

(* The card that is saved: its gaps complete, its confidence capped.       *)
LEMMA SavedCard ==
  ASSUME NEW c \in Cards, OneDetail(c), Detailed(c), NEW p, NEW named,
         ClassedByKind(c, named), NEW outlook \in Scenarios
  PROVE  LET k == Capped(Limited(c, outlook), p, outlook) IN
         /\ k \in Cards /\ OneDetail(k) /\ Detailed(k) /\ ClassedByKind(k, named)
         /\ SameCase(k, c) /\ Rank[k.confidence] <= Rank[c.confidence]
         /\ c.missing \subseteq k.missing
         /\ outlook.bundles > 0 => outlook.limitations \subseteq k.missing
         /\ (\E d \in k.details : d.class = "core") => k.confidence # "high"
         /\ p.documents = {} => k.confidence = "low"
<1> DEFINE found == IF outlook.bundles > 0 THEN outlook.limitations ELSE {}
           class == Defaults(c.missing \cup found)
           full == Merge(c, found, class)
           k == Capped(full, p, outlook)
<1>1. Limited(c, outlook) = full
  BY DEF Limited
<1>2. found \in SUBSET Items
  BY DEF Scenarios, Items
<1>3. \A i \in c.missing \cup found :
        class[i] = DefaultClass(i) /\ class[i] \in {"core", "supplemental"}
  BY ClassFacts
<1>4. outlook.bundles > 0 => found = outlook.limitations
  OBVIOUS
<1> HIDE DEF found, class
<1>5. Merged(full, c, found, class)
  BY <1>2, <1>3, MergeFacts
<1> HIDE DEF full
<1>6. /\ k \in Cards /\ SameCase(k, full) /\ k.missing = full.missing
      /\ k.details = full.details /\ Cap(full, p, outlook) \in Confidences
      /\ Rank[k.confidence] <= Rank[full.confidence]
      /\ Rank[k.confidence] <= Rank[Cap(full, p, outlook)]
  BY <1>5, CappedFacts DEF Merged
<1> HIDE DEF k
<1>7. OneDetail(k) /\ Detailed(k)
  BY <1>5, <1>6 DEF Merged, OneDetail, Detailed
<1>8. ClassedByKind(k, named)
  <2>1. \A d \in full.details : d.item \in c.missing \cup found
    BY <1>5 DEF Merged, Detailed
  <2> QED
    BY <1>3, <1>5, <1>6, <2>1 DEF ClassedByKind, Merged
<1>9. SameCase(k, c)
  BY <1>5, <1>6 DEF Merged, SameCase
<1>10. /\ c.missing \subseteq k.missing
       /\ outlook.bundles > 0 => outlook.limitations \subseteq k.missing
  BY <1>4, <1>5, <1>6 DEF Merged
<1>11. /\ (\E d \in k.details : d.class = "core") => Cap(full, p, outlook) # "high"
       /\ p.documents = {} => Cap(full, p, outlook) = "low"
  BY <1>6 DEF Cap
<1>12. k.confidence \in Confidences
  BY <1>6 DEF Cards
<1>13. /\ (\E d \in k.details : d.class = "core") => k.confidence # "high"
       /\ p.documents = {} => k.confidence = "low"
  BY <1>6, <1>11, <1>12 DEF Rank, Confidences
<1>14. Rank[k.confidence] <= Rank[c.confidence]
  BY <1>5, <1>6 DEF Merged
<1> QED
  BY <1>1, <1>6, <1>7, <1>8, <1>9, <1>10, <1>13, <1>14 DEF k

(* Nothing a checked card cites is an alias, and all of it was supplied.   *)
LEMMA SuppliedFacts ==
  ASSUME NEW c, NEW p, Packed(p), Settled(c, p),
         NEW outlook, NEW required \in BOOLEAN, BoundaryHolds(c, p, outlook, required)
  PROVE  /\ Cited(c, outlook) \subseteq KnownSources(p)
         /\ Cited(c, NoScenario) \cap DOMAIN p.aliases \subseteq Citable(p)
         /\ c.management \subseteq p.documents
         /\ \A claim \in c.ownership :
              /\ claim.measure \in DOMAIN p.ownership
              /\ claim.value = p.ownership[claim.measure].value
<1>1. Cited(c, outlook) \subseteq KnownSources(p)
  BY DEF BoundaryHolds, Cited
<1>2. /\ c.management \subseteq p.documents
      /\ \A claim \in c.ownership : ClaimBound(claim, p)
      /\ (UNION {claim.sources : claim \in c.ownership}) \subseteq OwnershipSources(c, p)
  BY DEF BoundaryHolds, AssessmentsHold
<1>3. OwnershipSources(c, p) \subseteq Citable(p)
  BY DEF OwnershipSources, Packed, Citable
<1> DEFINE Plainly(S) == S \cap DOMAIN p.aliases \subseteq Citable(p)
<1>4. \A S : Resolved(p, S) = S => Plainly(S)
  BY ResolvedFacts
<1>5. /\ Plainly(c.cites) /\ Plainly(c.thesis) /\ Plainly(c.management) /\ Plainly(c.insider)
      /\ Plainly(c.resilience.sources)
  <2>1. Plainly(c.cites) /\ Plainly(c.thesis) /\ Plainly(c.management) /\ Plainly(c.insider)
    BY <1>4 DEF Settled
  <2>2. Plainly(Resolved(p, c.resilience.sources \cup c.resilience.recurring
                             \cup c.resilience.variable))
    BY ResolvedFacts
  <2>3. Plainly(c.resilience.sources)
    BY <2>2 DEF Settled
  <2> QED
    BY <2>1, <2>3
<1>6. Plainly(UNION {c.facts[i].sources : i \in DOMAIN c.facts})
  <2>1. \A i \in DOMAIN c.facts : Plainly(c.facts[i].sources)
    BY <1>4 DEF Settled
  <2> QED
    BY <2>1
<1>7. Plainly(UNION {claim.sources : claim \in c.ownership})
  BY <1>2, <1>3
<1>8. NoScenario.sources = {}
  BY DEF NoScenario
<1>9. Cited(c, NoScenario) \cap DOMAIN p.aliases \subseteq Citable(p)
  BY <1>5, <1>6, <1>7, <1>8 DEF Cited
<1> QED
  BY <1>1, <1>2, <1>9 DEF ClaimBound

(* A verdict that is coherent with the scenario is coherent with its tier. *)
Tier(p, outlook, confidence) ==
  IF p.hurdle /\ outlook.status = "available" /\ outlook.base # {}
  THEN Ranked!ProposedTier([available |-> TRUE, confidence |-> confidence,
                            base |-> CHOOSE b \in outlook.base : TRUE])
  ELSE "IE"

Agrees(c, tier) ==
  /\ c.verdict = "activated_case" => tier = "A"
  /\ c.latent = "operating" => tier \in {"A", "B"}
  /\ c.latent = "price" => tier # "A"
  /\ c.investable => tier = "A"

LEMMA TierFacts ==
  ASSUME NEW c, NEW p, NEW outlook \in Scenarios, BoundaryHolds(c, p, outlook, TRUE),
         NEW confidence
  PROVE  Agrees(c, Tier(p, outlook, confidence))
<1> DEFINE base == CHOOSE b \in outlook.base : TRUE
           case == [available |-> TRUE, confidence |-> confidence, base |-> base]
           banded == p.hurdle /\ outlook.status = "available"
           tier == IF banded /\ outlook.base # {} THEN Ranked!ProposedTier(case) ELSE "IE"
<1>1. outlook.base # {} => base \in outlook.base /\ base \in Int \X Int
  BY DEF Scenarios
<1>2. case.available = TRUE /\ case.base = base
  OBVIOUS
<1> HIDE DEF base, case
<1>3. /\ base \in Int \X Int /\ base[1] >= 0 => Ranked!ProposedTier(case) = "A"
      /\ base \in Int \X Int /\ base[2] >= 0 => Ranked!ProposedTier(case) \in {"A", "B"}
      /\ base \in Int \X Int /\ base[1] < 0 => Ranked!ProposedTier(case) # "A"
  BY <1>2 DEF Ranked!ProposedTier
<1>4. c.verdict # "latent_case" => c.latent = "none"
  BY DEF BoundaryHolds, ThesisHolds
<1>5. c.verdict = "activated_case" =>
        banded /\ outlook.base # {} /\ \A b \in outlook.base : b[1] >= 0
  BY DEF BoundaryHolds, CoherenceHolds
<1>6. c.latent = "operating" =>
        banded /\ outlook.base # {} /\ \A b \in outlook.base : b[2] >= 0
  BY <1>4 DEF BoundaryHolds, CoherenceHolds
<1>7. c.latent = "price" => (p.hurdle => \A b \in outlook.base : b[1] < 0)
  BY <1>4 DEF BoundaryHolds, CoherenceHolds
<1>8. c.investable => c.verdict = "activated_case"
  BY DEF BoundaryHolds, EligibilityHolds
<1> HIDE DEF banded
<1>9. c.verdict = "activated_case" => tier = "A"
  BY <1>1, <1>3, <1>5
<1>10. c.latent = "operating" => tier \in {"A", "B"}
  BY <1>1, <1>3, <1>6
<1>11. c.latent = "price" => tier # "A"
  BY <1>1, <1>3, <1>7 DEF banded
<1> HIDE DEF tier
<1>12. /\ c.verdict = "activated_case" => tier = "A"
       /\ c.latent = "operating" => tier \in {"A", "B"}
       /\ c.latent = "price" => tier # "A"
       /\ c.investable => tier = "A"
  BY <1>8, <1>9, <1>10, <1>11
<1> QED
  BY <1>12 DEF tier, banded, case, base, Tier, Agrees

(* A card checked without scenarios needs no more of the one its author    *)
(* was let through with, and none where nothing rests on the returns.      *)
LEMMA AuthoredHolds ==
  ASSUME NEW c, NEW p, BoundaryHolds(c, p, NoScenario, FALSE),
         NEW o \in Outcomes, Authored(c, p, o)
  PROVE  BoundaryHolds(c, p, o, TRUE)
<1>1. /\ o.status = "available" /\ o.bundles = 3 /\ o.bands = 3 /\ o.base # {}
      /\ o.sources \subseteq Whitelist(p)
  BY BoundaryAssumption DEF Authored
<1>2. CoherenceHolds(c, p, o, TRUE)
  BY <1>1 DEF Authored
<1>3. o.sources \subseteq KnownSources(p)
  BY <1>1 DEF Whitelist, KnownSources, Citable
<1>4. CompletedScenario(p, o)
  BY <1>1 DEF CompletedScenario
<1>5. EligibilityHolds(c, o, TRUE)
  BY <1>1 DEF BoundaryHolds, EligibilityHolds
<1> QED
  BY <1>2, <1>3, <1>4, <1>5 DEF BoundaryHolds

LEMMA UnscenariedHolds ==
  ASSUME NEW c, NEW p, BoundaryHolds(c, p, NoScenario, FALSE), Packed(p),
         p.readiness # "required", c.verdict # "activated_case", c.latent # "operating"
  PROVE  BoundaryHolds(c, p, NoBundles, TRUE)
<1>1. NoBundles.sources = {} /\ NoBundles.base = {}
  BY DEF NoBundles, NoScenario
<1>2. CompletedScenario(p, NoBundles)
  BY DEF CompletedScenario, Packed
<1>3. CoherenceHolds(c, p, NoBundles, TRUE)
  <2>1. c.verdict = "latent_case" /\ c.latent = "price" => c.trigger = "price"
    BY DEF BoundaryHolds, CoherenceHolds
  <2> QED
    BY <1>1, <2>1 DEF CoherenceHolds
<1>4. EligibilityHolds(c, NoBundles, TRUE)
  BY DEF BoundaryHolds, EligibilityHolds
<1> QED
  BY <1>1, <1>2, <1>3, <1>4 DEF BoundaryHolds

Named == {d.item : d \in draft.details}

(* The card between the stages: typed, its classes its model's or those of *)
(* the kind, and, once qualified, left alone by another normalisation and  *)
(* passing every check that needs no scenario.                             *)
CardInv ==
  /\ draft \in Cards /\ card \in Cards /\ OneDetail(card) /\ Packed(packet)
  /\ ClassedByKind(card, Named) /\ Rank[card.confidence] <= Rank[draft.confidence]
StageInv ==
  /\ stage \in {"qualified", "authored"} =>
       Settled(card, packet) /\ BoundaryHolds(card, packet, NoScenario, FALSE)
  /\ stage = "authored" => forward \in Outcomes /\ Authored(card, packet, forward)
BoundaryInv ==
  /\ CardInv /\ StageInv
  /\ PaidWorkIsSaved /\ GapsLimitConfidence /\ VerdictAgreesWithTier
  /\ SavedEvidenceIsSupplied

(* The four properties say nothing of a stage before the last.             *)
LEMMA Unsaved ==
  ASSUME stage \notin {"saved", "refused"}
  PROVE  /\ PaidWorkIsSaved /\ GapsLimitConfidence /\ VerdictAgreesWithTier
         /\ SavedEvidenceIsSupplied
  BY DEF PaidWorkIsSaved, GapsLimitConfidence, VerdictAgreesWithTier, SavedEvidenceIsSupplied

LEMMA BoundaryInitInv == BoundaryInit => BoundaryInv
<1> SUFFICES ASSUME NEW d \in Drafts, Drafted(d)
             PROVE  BoundaryInv
  BY DEF BoundaryInit
<1>1. /\ card \in Cards /\ OneDetail(card) /\ Packed(packet) /\ draft = card
      /\ stage = "drafted"
  BY BoundaryAssumption DEF Drafted, Packed
<1>2. ClassedByKind(card, Named)
  BY <1>1 DEF ClassedByKind, Named
<1>3. Rank[card.confidence] \in Int
  BY <1>1 DEF Cards, Confidences, Rank
<1>4. CardInv
  BY <1>1, <1>2, <1>3 DEF CardInv
<1> QED
  BY <1>1, <1>4, Unsaved DEF BoundaryInv, StageInv

(* What the normalisation leaves of the invariant.                         *)
LEMMA NormalizedCard ==
  ASSUME CardInv
  PROVE  LET n == Normalized(card, packet) IN
         /\ n \in Cards /\ OneDetail(n) /\ Settled(n, packet) /\ n.confidence = card.confidence
         /\ ClassedByKind(n, Named)
<1> DEFINE n == Normalized(card, packet)
<1>1. /\ n \in Cards /\ OneDetail(n) /\ Settled(n, packet) /\ n.confidence = card.confidence
      /\ \A d \in n.details \ card.details : d.class = DefaultClass(d.item)
  BY NormalizedFacts DEF CardInv
<1> HIDE DEF n
<1>2. ClassedByKind(n, Named)
  BY <1>1 DEF CardInv, ClassedByKind
<1> QED
  BY <1>1, <1>2 DEF n

LEMMA QualifyStep ==
  ASSUME BoundaryInv, Qualify
  PROVE  BoundaryInv'
<1> DEFINE n == Normalized(card, packet)
           k == Capped(n, packet, NoScenario)
<1> USE DEF BoundaryInv
<1>1. UNCHANGED <<packet, draft, forward>> /\ Named' = Named
  BY DEF Qualify, Named
<1>2. CASE stage' = "rejected"
  <2>1. card' = card
    BY <1>2 DEF Qualify
  <2>2. CardInv'
    BY <1>1, <2>1 DEF CardInv
  <2> QED
    BY <1>2, <2>2 DEF StageInv, PaidWorkIsSaved, GapsLimitConfidence,
       VerdictAgreesWithTier, SavedEvidenceIsSupplied
<1>3. CASE stage' # "rejected"
  <2>1. /\ stage' = "qualified" /\ card' = k
        /\ BoundaryFaults(n, packet, NoScenario, FALSE) = {}
    BY <1>3 DEF Qualify
  <2>2. /\ n \in Cards /\ OneDetail(n) /\ Settled(n, packet) /\ n.confidence = card.confidence
        /\ ClassedByKind(n, Named)
    BY NormalizedCard
  <2>3. BoundaryHolds(n, packet, NoScenario, FALSE)
    BY <2>1, BoundaryChecks
  <2> HIDE DEF n
  <2>4. /\ k \in Cards /\ SameCase(k, n) /\ k.missing = n.missing /\ k.details = n.details
        /\ Rank[k.confidence] <= Rank[n.confidence]
    BY <2>2, CappedFacts
  <2> HIDE DEF k
  <2>5. SameCase(n, k)
    BY <2>4 DEF SameCase
  <2>6. Settled(k, packet) /\ BoundaryHolds(k, packet, NoScenario, FALSE)
    BY <2>2, <2>3, <2>4, <2>5, ChecksStay
  <2>7. OneDetail(k) /\ ClassedByKind(k, Named)
    BY <2>2, <2>4 DEF OneDetail, ClassedByKind
  <2>8. Rank[k.confidence] <= Rank[draft.confidence]
    <3>1. \A x \in Confidences : Rank[x] \in Int
      BY DEF Rank, Confidences
    <3>2. k.confidence \in Confidences /\ card.confidence \in Confidences
          /\ draft.confidence \in Confidences
      BY <2>4 DEF Cards, CardInv
    <3> QED
      BY <2>2, <2>4, <3>1, <3>2 DEF CardInv
  <2>9. CardInv' /\ StageInv'
    BY <1>1, <2>1, <2>4, <2>6, <2>7, <2>8 DEF CardInv, StageInv
  <2> QED
    BY <2>1, <2>9 DEF PaidWorkIsSaved, GapsLimitConfidence, VerdictAgreesWithTier,
       SavedEvidenceIsSupplied
<1> QED
  BY <1>2, <1>3

(* The last of it: a card that is saved, or one that is sent back.         *)
LEMMA AcceptStep ==
  ASSUME CardInv, NEW outlook \in Scenarios, NEW otherwise \in {"refused", "rejected"},
         AcceptCard(Normalized(card, packet), outlook, otherwise),
         LET n == Normalized(card, packet) IN
           otherwise = "refused" /\ BoundaryFaults(n, packet, outlook, TRUE) # {} =>
             /\ packet.readiness # "required"
             /\ n.verdict = "activated_case" \/ n.latent = "operating"
  PROVE  BoundaryInv'
<1> DEFINE n == Normalized(card, packet)
           k == Capped(Limited(n, outlook), packet, outlook)
           failing == BoundaryFaults(n, packet, outlook, TRUE)
<1>1. /\ packet' = packet /\ draft' = draft /\ forward' = outlook /\ Named' = Named
  BY DEF AcceptCard, Named
<1>2. /\ n \in Cards /\ OneDetail(n) /\ Settled(n, packet) /\ n.confidence = card.confidence
      /\ ClassedByKind(n, Named)
  BY NormalizedCard
<1>3. Detailed(n) /\ packet.missing \subseteq n.missing
  BY <1>2 DEF Settled
<1>4. \A x \in Confidences : Rank[x] \in Int
  BY DEF Rank, Confidences
<1>5. CASE failing # {}
  <2>1. stage' = otherwise /\ card' = n
    BY <1>5 DEF AcceptCard
  <2>2. /\ otherwise = "refused" =>
             /\ packet.readiness # "required"
             /\ n.verdict = "activated_case" \/ n.latent = "operating"
    BY <1>5
  <2> HIDE DEF n, failing
  <2>3. CardInv'
    BY <1>1, <1>2, <2>1 DEF CardInv
  <2>4. PaidWorkIsSaved'
    BY <1>1, <2>1, <2>2 DEF PaidWorkIsSaved
  <2> QED
    BY <2>1, <2>3, <2>4 DEF BoundaryInv, StageInv, GapsLimitConfidence, VerdictAgreesWithTier,
       SavedEvidenceIsSupplied
<1>6. CASE failing = {}
  <2>1. stage' = "saved" /\ card' = k
    BY <1>6 DEF AcceptCard
  <2>2. BoundaryHolds(n, packet, outlook, TRUE)
    BY <1>6, BoundaryChecks
  <2> HIDE DEF n, failing
  <2>3. /\ k \in Cards /\ OneDetail(k) /\ Detailed(k) /\ ClassedByKind(k, Named)
        /\ SameCase(k, n) /\ Rank[k.confidence] <= Rank[n.confidence]
        /\ n.missing \subseteq k.missing
        /\ outlook.bundles > 0 => outlook.limitations \subseteq k.missing
        /\ (\E d \in k.details : d.class = "core") => k.confidence # "high"
        /\ packet.documents = {} => k.confidence = "low"
    BY <1>2, <1>3, SavedCard
  <2> HIDE DEF k
  <2>4. Rank[k.confidence] <= Rank[draft.confidence]
    <3>1. /\ k.confidence \in Confidences /\ card.confidence \in Confidences
          /\ draft.confidence \in Confidences
      BY <2>3 DEF Cards, CardInv
    <3> QED
      BY <1>2, <1>4, <2>3, <3>1 DEF CardInv
  <2>5. CardInv' /\ StageInv'
    BY <1>1, <2>1, <2>3, <2>4 DEF CardInv, StageInv
  <2>6. GapsLimitConfidence'
    <3>1. \A i \in k.missing : Cardinality({d \in k.details : d.item = i}) = 1
      <4> TAKE i \in k.missing
      <4>1. PICK e \in k.details : e.item = i
        BY <2>3 DEF Detailed
      <4>2. {d \in k.details : d.item = i} = {e}
        BY <2>3, <4>1 DEF OneDetail
      <4> QED
        BY <4>2, FS_Singleton
    <3>2. \A i \in k.missing \ Named : DefaultClass(i) = "core" => k.confidence # "high"
      BY <2>3 DEF Detailed, ClassedByKind
    <3>3. packet.missing \subseteq k.missing
      BY <1>3, <2>3
    <3> QED
      BY <1>1, <2>1, <2>3, <2>4, <3>1, <3>2, <3>3 DEF GapsLimitConfidence, Named
  <2>7. k.verdict = n.verdict /\ k.latent = n.latent /\ k.investable = n.investable
    BY <2>3 DEF SameCase
  <2>8. VerdictAgreesWithTier'
    <3> DEFINE tier == Tier(packet, outlook, k.confidence)
    <3>1. Agrees(n, tier)
      BY <2>2, TierFacts
    <3>2. Agrees(k, tier)
      BY <2>7, <3>1 DEF Agrees
    <3>3. VerdictAgreesWithTier' <=>
            (stage' = "saved" => Agrees(card', Tier(packet', forward', card'.confidence)))
      BY DEF VerdictAgreesWithTier, Agrees, Tier
    <3> QED
      BY <1>1, <2>1, <3>2, <3>3
  <2>9. SavedEvidenceIsSupplied'
    <3>1. SameCase(n, k)
      BY <2>3 DEF SameCase
    <3>2. Cited(k, outlook) = Cited(n, outlook) /\ Cited(k, NoScenario) = Cited(n, NoScenario)
      BY <3>1 DEF SameCase, Cited
    <3>3. InsidersCited(k, packet)
      BY <2>2, <3>1 DEF BoundaryHolds, SameCase, InsidersCited
    <3>4. /\ Cited(n, outlook) \subseteq KnownSources(packet)
          /\ Cited(n, NoScenario) \cap DOMAIN packet.aliases \subseteq Citable(packet)
          /\ n.management \subseteq packet.documents
          /\ \A claim \in n.ownership :
               /\ claim.measure \in DOMAIN packet.ownership
               /\ claim.value = packet.ownership[claim.measure].value
      BY <1>2, <2>2, SuppliedFacts DEF CardInv
    <3>5. k.management = n.management /\ k.ownership = n.ownership
      BY <3>1 DEF SameCase
    <3> QED
      BY <1>1, <2>1, <3>2, <3>3, <3>4, <3>5 DEF SavedEvidenceIsSupplied
  <2>10. PaidWorkIsSaved'
    BY <2>1 DEF PaidWorkIsSaved
  <2> QED
    BY <2>5, <2>6, <2>8, <2>9, <2>10 DEF BoundaryInv
<1> QED
  BY <1>5, <1>6

LEMMA ScenarioTypes ==
  /\ NoBundles \in Scenarios /\ Outcomes \subseteq Scenarios
  /\ \A p : \A o \in Scenarios :
       Packed(p) => [o EXCEPT !.sources = Resolved(p, @)] \in Scenarios
<1>1. NoBundles \in Scenarios
  BY DEF NoBundles, NoScenario, Scenarios
<1>2. ASSUME NEW p, NEW o \in Scenarios, Packed(p)
      PROVE  [o EXCEPT !.sources = Resolved(p, o.sources)] \in Scenarios
  <2> DEFINE s == Resolved(p, o.sources)
  <2>1. s \in SUBSET STRING
    BY <1>2, ResolvedFacts DEF Packed, Scenarios
  <2> HIDE DEF s
  <2>2. [o EXCEPT !.sources = s] \in Scenarios
    BY <2>1 DEF Scenarios
  <2> QED
    BY <2>2 DEF s
<1> QED
  BY <1>1, <1>2, BoundaryAssumption

LEMMA PersistStep ==
  ASSUME BoundaryInv, Persist
  PROVE  BoundaryInv'
<1> DEFINE n == Normalized(card, packet)
<1>1. CardInv
  BY DEF BoundaryInv
<1>2. stage \in {"authored", "qualified"} =>
        n = card /\ BoundaryHolds(card, packet, NoScenario, FALSE)
  BY SettledStays DEF BoundaryInv, StageInv, CardInv
<1>3. CASE stage = "authored" /\ AcceptCard(n, forward, "refused")
  <2>1. forward \in Outcomes /\ Authored(card, packet, forward)
    BY <1>3 DEF BoundaryInv, StageInv
  <2>2. BoundaryFaults(n, packet, forward, TRUE) = {}
    BY <1>2, <1>3, <2>1, AuthoredHolds, BoundaryChecks
  <2>3. forward \in Scenarios
    BY <2>1, ScenarioTypes
  <2> QED
    BY <1>1, <1>3, <2>2, <2>3, AcceptStep
<1>4. CASE /\ stage = "qualified" /\ packet.readiness # "required"
           /\ AcceptCard(n, NoBundles, "refused")
  <2>1. BoundaryFaults(n, packet, NoBundles, TRUE) # {} =>
          n.verdict = "activated_case" \/ n.latent = "operating"
    BY <1>1, <1>2, <1>4, UnscenariedHolds, BoundaryChecks DEF CardInv
  <2>2. NoBundles \in Scenarios
    BY ScenarioTypes
  <2> HIDE DEF n
  <2> QED
    BY <1>1, <1>4, <2>1, <2>2, AcceptStep DEF n
<1> QED
  BY <1>3, <1>4 DEF Persist

LEMMA PersistResponseStep ==
  ASSUME BoundaryInv, PersistResponse
  PROVE  BoundaryInv'
<1>1. PICK o \in Outcomes \cup {NoBundles} :
        AcceptCard(Normalized(card, packet), [o EXCEPT !.sources = Resolved(packet, @)], "rejected")
  BY DEF PersistResponse
<1> DEFINE outlook == [o EXCEPT !.sources = Resolved(packet, @)]
<1>2. CardInv
  BY DEF BoundaryInv
<1>3. outlook \in Scenarios
  BY <1>2, ScenarioTypes DEF CardInv
<1> HIDE DEF outlook
<1> QED
  BY <1>1, <1>2, <1>3, AcceptStep DEF outlook

LEMMA BoundaryInvariant == BoundarySpec => []BoundaryInv
<1>1. BoundaryInit => BoundaryInv
  BY BoundaryInitInv
<1>2. BoundaryInv /\ [BoundaryNext]_boundaryVars => BoundaryInv'
  <2> SUFFICES ASSUME BoundaryInv, [BoundaryNext]_boundaryVars
               PROVE  BoundaryInv'
    OBVIOUS
  <2>1. CASE Qualify
    BY <2>1, QualifyStep
  <2>2. CASE Author
    <3>1. /\ stage = "qualified" /\ stage' = "authored"
          /\ packet' = packet /\ card' = card /\ draft' = draft
          /\ forward' \in Outcomes /\ Authored(card, packet, forward')
      BY <2>2 DEF Author
    <3>2. CardInv' /\ StageInv'
      BY <3>1 DEF BoundaryInv, CardInv, StageInv, Named
    <3> QED
      BY <3>1, <3>2 DEF BoundaryInv, PaidWorkIsSaved, GapsLimitConfidence,
         VerdictAgreesWithTier, SavedEvidenceIsSupplied
  <2>3. CASE Persist
    BY <2>3, PersistStep
  <2>4. CASE PersistResponse
    BY <2>4, PersistResponseStep
  <2>5. CASE UNCHANGED boundaryVars
    BY <2>5 DEF boundaryVars, BoundaryInv, CardInv, StageInv, Named, PaidWorkIsSaved,
       GapsLimitConfidence, VerdictAgreesWithTier, SavedEvidenceIsSupplied
  <2> QED
    BY <2>1, <2>2, <2>3, <2>4, <2>5 DEF BoundaryNext
<1> QED
  BY <1>1, <1>2, PTL DEF BoundarySpec

(* The work that was paid for up to a qualified card is not lost where the *)
(* card is saved: what its checks let through without a scenario, and with *)
(* the one its author was let through with, they let through again.        *)
THEOREM QualifiedCardIsSaved == BoundarySpec => []PaidWorkIsSaved
<1>1. BoundaryInv => PaidWorkIsSaved
  BY DEF BoundaryInv
<1> QED
  BY <1>1, BoundaryInvariant, PTL

(* A saved card names every gap of its packet and of its scenario once,    *)
(* and its confidence is below high where one of them is core.             *)
THEOREM ConfidenceKnowsTheGaps == BoundarySpec => []GapsLimitConfidence
<1>1. BoundaryInv => GapsLimitConfidence
  BY DEF BoundaryInv
<1> QED
  BY <1>1, BoundaryInvariant, PTL

(* A saved verdict never contradicts the tier of the monthly ranking.      *)
THEOREM VerdictMatchesTier == BoundarySpec => []VerdictAgreesWithTier
<1>1. BoundaryInv => VerdictAgreesWithTier
  BY DEF BoundaryInv
<1> QED
  BY <1>1, BoundaryInvariant, PTL

(* A saved card cites what its packet supplied, by its canonical name.     *)
THEOREM EvidenceIsSupplied == BoundarySpec => []SavedEvidenceIsSupplied
<1>1. BoundaryInv => SavedEvidenceIsSupplied
  BY DEF BoundaryInv
<1> QED
  BY <1>1, BoundaryInvariant, PTL
-----------------------------------------------------------------------------
(* The types of the shadow graph.                                          *)
Outputs ==
  [status : {"complete", "insufficient", "failed", "invalid", "none"},
   twice : BOOLEAN, tests : BOOLEAN]
Askable == Range(Specialists) \cup {Sell}
GraphPlaces ==
  {"idle", "pass", "agent", "call", "judge", "limit", "limited", "sell stage", "qualitative",
   "aggregate", "decide", "save", "accepted", "failed", "persist", "done"}
ResultStatuses == {"accepted", "limited", "failed"}
ScenarioNames == Calculated \cup {"packet", "unset"}

Answered == {"complete", "insufficient", "failed"}
Artifacts ==
  [agent : Askable, attempt : Nat,
   output : [status : Answered, twice : BOOLEAN, tests : BOOLEAN] \cup {Invalid},
   verdict : {"pending", "accepted", "rejected"},
   inputs : [upstream : Seq([status : ResultStatuses, output : Outputs]),
             scenario : ScenarioNames]]
SpecialistResults ==
  [status : ResultStatuses, attempts : Nat, ids : Seq(Nat), errors : Nat, output : Outputs]
Graphs ==
  [pc : GraphPlaces, pass : {1, 2}, results : Seq(SpecialistResults), ids : Seq(Nat),
   errors : Nat, run : Seq(SpecialistResults)]

Wave == Len(Specialists)

ArtifactsTyped ==
  /\ artifacts \in Seq(Artifacts)
  /\ \A i \in DOMAIN artifacts :
       artifacts[i].verdict = "accepted" => artifacts[i].output # Invalid
ShadowTyped == ArtifactsTyped /\ graph \in Graphs /\ scenario \in ScenarioNames

(* No complete answer about the present inputs is accepted.                *)
NothingToReuse == \A i \in Accepted(Asked) : artifacts[i].output.status # "complete"

(* The answer in hand: stored, not judged, with the present inputs.        *)
InHand(id, agent) ==
  /\ id \in DOMAIN artifacts /\ artifacts[id].verdict = "pending"
  /\ artifacts[id].agent = agent /\ artifacts[id].inputs = Inputs(agent)

(* The sell conditions of some results were found for their first wave and *)
(* for a scenario, in an artifact of A that is accepted.                   *)
OfOneGraph(A, results, for) ==
  LET sell == Last(results) IN
  sell.output # NoOutput =>
    /\ sell.ids # << >> /\ Last(sell.ids) \in DOMAIN A
    /\ A[Last(sell.ids)].verdict = "accepted"
    /\ A[Last(sell.ids)].inputs = [upstream |-> Stable(FirstWave(results)), scenario |-> for]

(* What each position may rely on.                                         *)
GraphPlaced ==
  /\ graph.pass = 2 => scenario \notin {"none", "unset"}
  /\ graph.pc \in {"call", "judge", "limit", "limited"} => Len(graph.results) <= Wave
  /\ graph.pc \in {"limit", "limited"} => Len(graph.results) = Wave
  /\ graph.pc \in {"call", "judge"} => NothingToReuse
  /\ graph.pc = "judge" =>
       /\ graph.ids # << >> /\ InHand(Last(graph.ids), Asked)
       /\ ~artifacts[Last(graph.ids)].output.tests => Asked = Sell
  /\ graph.pc = "limited" =>
       /\ Len(graph.ids) = 1 /\ InHand(graph.ids[1], Sell)
       /\ artifacts[graph.ids[1]].output = Unassessable
  /\ graph.pc \in {"agent", "sell stage"} =>
       /\ Len(graph.results) <= Wave + 1
       /\ Len(graph.results) = Wave + 1 => OfOneGraph(artifacts, graph.results, PassScenario)
  /\ graph.pc = "sell stage" => Len(graph.results) = Wave + 1
  /\ graph.pc = "qualitative" =>
       graph.pass = 1 /\ (graph.run # << >> => OfOneGraph(artifacts, graph.run, "packet"))
  /\ graph.pc \in {"aggregate", "decide", "save"} =>
       (graph.run # << >> => OfOneGraph(artifacts, graph.run, Aggregated))
  /\ graph.pc \in {"decide", "save"} => graph.run # << >>

ShadowInv == ShadowTyped /\ GraphPlaced
-----------------------------------------------------------------------------
(* The constants, and which agent is asked.                                *)
LEMMA WaveFacts ==
  /\ Wave \in Nat \ {0} /\ Wave' = Wave
  /\ \A i \in 1 .. Wave : Specialists[i] \in Askable /\ Specialists[i] # Sell
<1>1. Specialists \in Seq(STRING) /\ Specialists # << >>
  BY ShadowAssumption
<1>2. Wave \in Nat /\ DOMAIN Specialists = 1 .. Wave /\ Wave # 0
  BY <1>1 DEF Wave
<1>3. \A i \in 1 .. Wave : Specialists[i] \in Range(Specialists)
  BY <1>2 DEF Range
<1>4. \A i \in 1 .. Wave : Specialists[i] # Sell
  <2>1. Sell \notin Range(Specialists)
    BY ShadowAssumption DEF Sell
  <2> QED
    BY <1>3, <2>1
<1>5. Wave' = Wave
  BY DEF Wave
<1> QED
  BY <1>2, <1>3, <1>4, <1>5 DEF Askable

LEMMA AskedFacts ==
  ASSUME ShadowTyped
  PROVE  /\ Asked \in Askable
         /\ (Asked = Sell) <=> ~(Len(graph.results) < Wave)
<1>1. Len(graph.results) \in Nat
  BY DEF ShadowTyped, Graphs
<1> QED
  BY <1>1, WaveFacts DEF Asked, Waiting, Wave, Askable

(* The inputs of an artifact are typed, and so is what it makes.           *)
LEMMA InputsType ==
  ASSUME ShadowTyped, NEW agent
  PROVE  Inputs(agent) \in [upstream : Seq([status : ResultStatuses, output : Outputs]),
                            scenario : ScenarioNames]
<1> DEFINE U == [status : ResultStatuses, output : Outputs]
           n == Len(graph.results)
<1>1. n \in Nat /\ DOMAIN graph.results = 1 .. n
      /\ \A i \in 1 .. n : graph.results[i] \in SpecialistResults
  BY DEF ShadowTyped, Graphs
<1>2. \A i \in 1 .. n :
        [status |-> graph.results[i].status, output |-> graph.results[i].output] \in U
  BY <1>1 DEF SpecialistResults
<1>3. Stable(graph.results) \in [1 .. n -> U]
  BY <1>1, <1>2 DEF Stable
<1>4. Stable(graph.results) \in Seq(U)
  BY <1>1, <1>3, SeqDef
<1>5. << >> \in Seq(U)
  OBVIOUS
<1>6. PassScenario \in ScenarioNames /\ "packet" \in ScenarioNames
  BY DEF PassScenario, ShadowTyped, ScenarioNames
<1> QED
  BY <1>4, <1>5, <1>6 DEF Inputs

(* The first wave of one more result than it has.                          *)
LEMMA WaveOfAppend ==
  ASSUME NEW S, NEW results \in Seq(S), NEW x \in S, Len(results) = Wave
  PROVE  /\ FirstWave(Append(results, x)) = results
         /\ Last(Append(results, x)) = x /\ Len(Append(results, x)) = Wave + 1
<1> DEFINE more == Append(results, x)
<1>1. Wave \in Nat \ {0}
  BY WaveFacts
<1>2. more \in Seq(S) /\ Len(more) = Wave + 1 /\ more[Wave + 1] = x
      /\ \A i \in 1 .. Wave : more[i] = results[i]
  BY <1>1
<1> HIDE DEF more
<1>3. FirstWave(more) = SubSeq(more, 1, Wave)
  BY <1>1, <1>2 DEF FirstWave, Wave
<1>4. \A i \in 1 .. Wave : more[i] \in S
  BY <1>1, <1>2
<1>5. /\ SubSeq(more, 1, Wave) \in Seq(S) /\ Len(SubSeq(more, 1, Wave)) = Wave
      /\ \A i \in 1 .. Wave : SubSeq(more, 1, Wave)[i] = more[i]
  BY <1>1, <1>2, <1>4, SubSeqProperties
<1>6. SubSeq(more, 1, Wave) = results
  BY <1>2, <1>5, SeqEqual
<1> QED
  BY <1>2, <1>3, <1>6 DEF Last, more

(* Artifacts are added, and judged while they are pending.                 *)
Grew(A, B) ==
  \A i \in DOMAIN A :
    i \in DOMAIN B /\ B[i].inputs = A[i].inputs
      /\ (A[i].verdict = "accepted" => B[i].verdict = "accepted")

LEMMA OneGraphStays ==
  ASSUME NEW A, NEW B, Grew(A, B), NEW results, NEW for, OfOneGraph(A, results, for)
  PROVE  OfOneGraph(B, results, for)
BY DEF Grew, OfOneGraph

LEMMA GrewSelf == \A A : Grew(A, A)
BY DEF Grew

(* What is asked, and with what, depends on the results and the pass.      *)
LEMMA SameQuestion ==
  ASSUME graph'.results = graph.results, graph'.pass = graph.pass, scenario' = scenario
  PROVE  /\ Asked' = Asked /\ PassScenario' = PassScenario
         /\ \A agent : Inputs(agent)' = Inputs(agent)
BY DEF Asked, Waiting, PassScenario, Inputs

LEMMA SamePass ==
  ASSUME ShadowInv, graph'.pass = graph.pass, scenario' = scenario
  PROVE  graph'.pass = 2 => scenario' \notin {"none", "unset"}
BY DEF ShadowInv, GraphPlaced

(* What may be reused is accepted; a complete answer is not overlooked.    *)
LEMMA ReusableFacts ==
  ASSUME ArtifactsTyped, NEW agent
  PROVE  /\ Reusable(agent) \subseteq Accepted(agent)
         /\ agent # Sell /\ Reusable(agent) = {} => Accepted(agent) = {}
         /\ (\A i \in Reusable(Sell) : artifacts[i].output.status # "complete") =>
              \A i \in Accepted(Sell) : artifacts[i].output.status # "complete"
<1> DEFINE n == Len(artifacts)
<1>1. n \in Nat /\ DOMAIN artifacts = 1 .. n
  BY DEF ArtifactsTyped
<1>2. \A other : Accepted(other) \in SUBSET (0 .. n)
  BY <1>1 DEF Accepted
<1>3. \A ids, status : WithStatus(ids, status) \subseteq ids
  BY DEF WithStatus
<1> HIDE DEF n
<1>4. \A S \in SUBSET (0 .. n) : S # {} => Min(S) \in S /\ Max(S) \in S
  BY <1>1, MinIsLeast, MaxIsGreatest
<1>5. \A other, status : WithStatus(Accepted(other), status) \in SUBSET (0 .. n)
  BY <1>2, <1>3
<1>6. Reusable(agent) \subseteq Accepted(agent)
  BY <1>2, <1>3, <1>4, <1>5 DEF Reusable
<1>7. agent # Sell /\ Reusable(agent) = {} => Accepted(agent) = {}
  BY DEF Reusable
<1>8. ASSUME \A i \in Reusable(Sell) : artifacts[i].output.status # "complete",
             NEW k \in Accepted(Sell), artifacts[k].output.status = "complete"
      PROVE  FALSE
  <2> DEFINE complete == WithStatus(Accepted(Sell), "complete")
  <2>1. k \in complete
    BY <1>8 DEF WithStatus
  <2>2. Reusable(Sell) = {Max(complete)}
    BY <2>1 DEF Reusable
  <2>3. Max(complete) \in complete
    <3> HIDE DEF complete
    <3> QED
      BY <1>4, <1>5, <2>1 DEF complete
  <2> QED
    BY <1>8, <2>2, <2>3 DEF WithStatus
<1> QED
  BY <1>6, <1>7, <1>8

LEMMA ReusedType ==
  ASSUME ArtifactsTyped, NEW agent, NEW i \in Accepted(agent)
  PROVE  /\ Reused(i) \in SpecialistResults
         /\ Reused(i).ids = <<i>> /\ Last(<<i>>) = i
<1>1. /\ i \in DOMAIN artifacts /\ artifacts[i] \in Artifacts /\ i \in Nat
      /\ artifacts[i].output # Invalid
  BY DEF Accepted, ArtifactsTyped
<1>2. artifacts[i].output \in [status : Answered, twice : BOOLEAN, tests : BOOLEAN]
      /\ artifacts[i].attempt \in Nat
  BY <1>1 DEF Artifacts
<1>3. artifacts[i].output \in Outputs /\ artifacts[i].output.status \in Answered
  BY <1>2 DEF Outputs, Answered
<1>4. ResultStatus[artifacts[i].output.status] \in ResultStatuses
  BY <1>3 DEF Answered, ResultStatus, ResultStatuses
<1>5. <<i>> \in Seq(Nat) /\ Last(<<i>>) = i
  BY <1>1 DEF Last
<1> QED
  BY <1>2, <1>3, <1>4, <1>5 DEF Reused, Result, SpecialistResults

LEMMA FailureType ==
  ASSUME graph \in Graphs
  PROVE  /\ FailedAnswer(graph.errors + 1) \in SpecialistResults
         /\ FailedAnswer(graph.errors + 1).output = NoOutput
<1>1. graph.ids \in Seq(Nat) /\ graph.errors + 1 \in Nat /\ Len(graph.ids) \in Nat
  BY DEF Graphs
<1>2. NoOutput \in Outputs
  BY DEF NoOutput, Output, Outputs
<1> QED
  BY <1>1, <1>2 DEF FailedAnswer, Result, SpecialistResults, ResultStatuses

(* An artifact is added.                                                   *)
LEMMA StoreFacts ==
  ASSUME ShadowTyped, NEW agent \in Askable, NEW attempt \in Nat,
         NEW output \in [status : Answered, twice : BOOLEAN, tests : BOOLEAN] \cup {Invalid},
         artifacts' = Append(artifacts, Artifact(agent, attempt, output))
  PROVE  /\ ArtifactsTyped' /\ Grew(artifacts, artifacts')
         /\ Len(artifacts') \in DOMAIN artifacts' /\ Len(artifacts') \in Nat
         /\ artifacts'[Len(artifacts')] = Artifact(agent, attempt, output)
         /\ \A i \in DOMAIN artifacts' :
              (i \in DOMAIN artifacts /\ artifacts'[i] = artifacts[i]) \/ i = Len(artifacts')
<1> DEFINE a == Artifact(agent, attempt, output)
<1>1. a \in Artifacts /\ a.verdict = "pending"
  BY InputsType DEF Artifact, Artifacts
<1> HIDE DEF a
<1>2. artifacts \in Seq(Artifacts) /\ artifacts' = Append(artifacts, a)
  BY DEF ShadowTyped, ArtifactsTyped, a
<1>3. /\ artifacts' \in Seq(Artifacts) /\ Len(artifacts') = Len(artifacts) + 1
      /\ artifacts'[Len(artifacts')] = a /\ Len(artifacts) \in Nat
      /\ \A i \in 1 .. Len(artifacts) : artifacts'[i] = artifacts[i]
      /\ DOMAIN artifacts = 1 .. Len(artifacts) /\ DOMAIN artifacts' = 1 .. Len(artifacts')
  BY <1>1, <1>2, AppendProperties
<1>4. \A i \in DOMAIN artifacts' :
        (i \in DOMAIN artifacts /\ artifacts'[i] = artifacts[i]) \/ i = Len(artifacts')
  BY <1>3
<1>5. ArtifactsTyped'
  BY <1>1, <1>3, <1>4 DEF ShadowTyped, ArtifactsTyped
<1>6. Grew(artifacts, artifacts')
  BY <1>3 DEF Grew
<1> QED
  BY <1>3, <1>4, <1>5, <1>6 DEF a

(* The artifact in hand is judged.                                         *)
LEMMA JudgeFacts ==
  ASSUME ShadowTyped, NEW id, NEW agent, InHand(id, agent),
         NEW judgment \in {"accepted", "rejected"},
         judgment = "accepted" => artifacts[id].output # Invalid,
         artifacts' = [artifacts EXCEPT ![id].verdict = judgment]
  PROVE  /\ ArtifactsTyped' /\ Grew(artifacts, artifacts') /\ id \in DOMAIN artifacts'
         /\ artifacts'[id].verdict = judgment
         /\ artifacts'[id].inputs = Inputs(agent)
         /\ \A i \in DOMAIN artifacts' : i # id => artifacts'[i] = artifacts[i]
<1> DEFINE judged == [artifacts[id] EXCEPT !.verdict = judgment]
<1>1. artifacts \in Seq(Artifacts) /\ id \in DOMAIN artifacts /\ artifacts[id] \in Artifacts
  BY DEF ShadowTyped, ArtifactsTyped, InHand
<1>2. judged \in Artifacts /\ judged.verdict = judgment
      /\ judged.inputs = Inputs(agent) /\ judged.output = artifacts[id].output
  BY <1>1 DEF Artifacts, InHand
<1>3. artifacts' = [artifacts EXCEPT ![id] = judged]
  BY <1>1
<1> HIDE DEF judged
<1>4. /\ artifacts' \in Seq(Artifacts) /\ DOMAIN artifacts' = DOMAIN artifacts
      /\ artifacts'[id] = judged
      /\ \A i \in DOMAIN artifacts : i # id => artifacts'[i] = artifacts[i]
  BY <1>1, <1>2, <1>3, ExceptSeq
<1>5. ArtifactsTyped'
  BY <1>2, <1>4 DEF ShadowTyped, ArtifactsTyped
<1>6. Grew(artifacts, artifacts')
  BY <1>2, <1>4 DEF Grew, InHand
<1> QED
  BY <1>1, <1>2, <1>4, <1>5, <1>6
-----------------------------------------------------------------------------
(* A result is handed over; the one of the sell conditions was found with  *)
(* the present inputs.                                                     *)
SellFound(A, ids) ==
  /\ ids # << >> /\ Last(ids) \in DOMAIN A
  /\ A[Last(ids)].verdict = "accepted" /\ A[Last(ids)].inputs = Inputs(Sell)

LEMMA Given ==
  ASSUME ShadowInv, ArtifactsTyped', Grew(artifacts, artifacts'), scenario' = scenario,
         NEW r \in SpecialistResults, graph' = Give(r), Len(graph.results) <= Wave,
         Len(graph.results) = Wave /\ r.output # NoOutput => SellFound(artifacts', r.ids)
  PROVE  ShadowInv'
<1>1. graph \in Graphs /\ scenario \in ScenarioNames /\ Len(graph.results) \in Nat
      /\ graph.results \in Seq(SpecialistResults)
  BY DEF ShadowInv, ShadowTyped, Graphs
<1>2. graph' = [graph EXCEPT !.pc = "agent", !.results = Append(graph.results, r)]
  BY DEF Give
<1>3. graph'.pc = "agent" /\ graph'.pass = graph.pass
      /\ graph'.results = Append(graph.results, r) /\ graph'.run = graph.run
  BY <1>1, <1>2 DEF Graphs
<1>4. Append(graph.results, r) \in Seq(SpecialistResults)
      /\ Len(Append(graph.results, r)) = Len(graph.results) + 1
  BY <1>1
<1>5. graph' \in Graphs
  BY <1>1, <1>2, <1>4 DEF Graphs, GraphPlaces
<1>6. ASSUME Len(graph.results) = Wave
      PROVE  OfOneGraph(artifacts', graph'.results, PassScenario')
  <2>1. /\ FirstWave(graph'.results) = graph.results /\ Last(graph'.results) = r
    BY <1>1, <1>3, <1>6, WaveOfAppend
  <2>2. PassScenario' = PassScenario
    BY <1>3 DEF PassScenario
  <2>3. Inputs(Sell) = [upstream |-> Stable(graph.results), scenario |-> PassScenario]
    BY DEF Inputs
  <2> QED
    BY <1>6, <2>1, <2>2, <2>3 DEF OfOneGraph, SellFound
<1>7. GraphPlaced'
  <2>1. graph'.pass = 2 => scenario' \notin {"none", "unset"}
    BY <1>3, SamePass
  <2>2. /\ Wave' = Wave /\ Len(graph'.results) <= Wave' + 1
        /\ Len(graph'.results) = Wave' + 1 => Len(graph.results) = Wave
    BY <1>1, <1>3, <1>4, WaveFacts
  <2> QED
    BY <1>3, <1>6, <2>1, <2>2 DEF GraphPlaced
<1> QED
  BY <1>1, <1>5, <1>7 DEF ShadowInv, ShadowTyped

LEMMA AgentsTaken ==
  ASSUME ShadowInv, TakeSpecialist \/ ReuseSell \/ LimitSell \/ AskSell
  PROVE  ShadowInv'
<1>1. /\ ShadowTyped /\ ArtifactsTyped /\ graph \in Graphs /\ GraphAt("agent")
      /\ scenario' = scenario /\ artifacts' = artifacts /\ Grew(artifacts, artifacts')
      /\ graph.results \in Seq(SpecialistResults) /\ Len(graph.results) \in Nat
  BY GrewSelf DEF ShadowInv, ShadowTyped, Graphs, TakeSpecialist, ReuseSell, LimitSell, AskSell,
     AtSell, shadowStore
<1>2. ArtifactsTyped' /\ Wave \in Nat /\ Wave' = Wave
  BY <1>1, WaveFacts DEF ArtifactsTyped
<1>3. ASSUME graph' = Ask, Len(graph.results) <= Wave, NothingToReuse
      PROVE  ShadowInv'
  <2>1. graph' \in Graphs /\ graph'.pc = "call" /\ graph'.results = graph.results
        /\ graph'.pass = graph.pass
    <3>1. << >> \in Seq(Nat)
      OBVIOUS
    <3> QED
      BY <1>1, <1>3, <3>1 DEF Ask, Graphs, GraphPlaces
  <2>2. Asked' = Asked /\ Inputs(Asked)' = Inputs(Asked)
    BY <1>1, <2>1, SameQuestion
  <2>3. NothingToReuse'
    BY <1>1, <1>3, <2>2 DEF NothingToReuse, Accepted
  <2>4. GraphPlaced'
    BY <1>1, <1>2, <1>3, <2>1, <2>3 DEF GraphPlaced, ShadowInv
  <2> QED
    BY <1>1, <1>2, <2>1, <2>4 DEF ShadowInv, ShadowTyped
<1>4. CASE TakeSpecialist
  <2>1. Len(graph.results) < Wave /\ Asked # Sell
    BY <1>1, <1>4, AskedFacts DEF TakeSpecialist, Waiting, Wave
  <2>2. CASE Reusable(Asked) = {}
    <3>1. Accepted(Asked) = {}
      BY <1>1, <2>1, <2>2, ReusableFacts
    <3> QED
      BY <1>1, <1>2, <1>3, <1>4, <2>1, <2>2, <3>1 DEF TakeSpecialist, NothingToReuse
  <2>3. CASE Reusable(Asked) # {}
    <3>1. PICK i \in Reusable(Asked) : graph' = Give(Reused(i))
      BY <1>4, <2>3 DEF TakeSpecialist
    <3>2. i \in Accepted(Asked)
      BY <1>1, ReusableFacts
    <3>3. Reused(i) \in SpecialistResults
      BY <1>1, <3>2, ReusedType
    <3> QED
      BY <1>1, <1>2, <2>1, <3>1, <3>3, Given
  <2> QED
    BY <2>2, <2>3
<1>5. CASE ReuseSell
  <2>1. PICK i \in Reusable(Sell) : graph' = Give(Reused(i))
    BY <1>5 DEF ReuseSell
  <2>2. i \in Accepted(Sell)
    BY <1>1, ReusableFacts
  <2>3. Reused(i) \in SpecialistResults /\ Reused(i).ids = <<i>> /\ Last(<<i>>) = i
    BY <1>1, <2>2, ReusedType
  <2>4. SellFound(artifacts', Reused(i).ids)
    BY <1>1, <2>2, <2>3 DEF SellFound, Accepted
  <2>5. Len(graph.results) <= Wave
    BY <1>1, <1>2, <1>5 DEF ReuseSell, AtSell, Wave
  <2> QED
    BY <1>1, <1>2, <2>1, <2>3, <2>4, <2>5, Given
<1>6. CASE LimitSell
  <2>1. graph' \in Graphs /\ graph'.pc = "limit" /\ graph'.results = graph.results
        /\ graph'.pass = graph.pass /\ Len(graph.results) = Wave
    BY <1>1, <1>6 DEF LimitSell, AtSell, Wave, Graphs, GraphPlaces
  <2>2. GraphPlaced'
    <3>1. graph'.pass = 2 => scenario' \notin {"none", "unset"}
      BY <1>1, <2>1, SamePass
    <3>2. Len(graph'.results) = Wave' /\ Len(graph'.results) <= Wave'
      BY <1>1, <1>2, <2>1
    <3> QED
      BY <2>1, <3>1, <3>2 DEF GraphPlaced
  <2> QED
    BY <1>1, <1>2, <2>1, <2>2 DEF ShadowInv, ShadowTyped
<1>7. CASE AskSell
  <2>1. Len(graph.results) = Wave /\ Asked = Sell
    BY <1>1, <1>2, <1>7, AskedFacts DEF AskSell, AtSell, Wave
  <2>2. NothingToReuse
    BY <1>1, <1>7, <2>1, ReusableFacts DEF AskSell, NothingToReuse
  <2> QED
    BY <1>2, <1>3, <1>7, <2>1, <2>2 DEF AskSell
<1> QED
  BY <1>4, <1>5, <1>6, <1>7

(* The typed answers, and those without tests.                             *)
LEMMA AnswersType ==
  ASSUME NEW agent, NEW output \in AnswersOf(agent)
  PROVE  /\ output \in [status : Answered, twice : BOOLEAN, tests : BOOLEAN]
         /\ ~output.tests => agent = Sell
<1>1. CASE output \in {Output(s) : s \in {"complete", "insufficient", "failed"}}
  <2>1. PICK s \in {"complete", "insufficient", "failed"} : output = Output(s)
    BY <1>1
  <2> QED
    BY <2>1 DEF Output, Answered
<1>2. CASE agent = Sell /\ output = [Output("insufficient") EXCEPT !.tests = FALSE]
  BY <1>2 DEF Output, Answered
<1>3. CASE agent # Sell /\ output = [Output("complete") EXCEPT !.twice = TRUE]
  BY <1>3 DEF Output, Answered
<1> QED
  BY <1>1, <1>2, <1>3 DEF AnswersOf

LEMMA ArtifactStored ==
  ASSUME ShadowInv, AnswerSpecialist \/ SaveLimited
  PROVE  ShadowInv'
<1>1. /\ ShadowTyped /\ graph \in Graphs /\ graph.ids \in Seq(Nat) /\ scenario' = scenario
      /\ graph.results \in Seq(SpecialistResults) /\ Len(graph.ids) \in Nat
  BY DEF ShadowInv, ShadowTyped, Graphs, AnswerSpecialist, SaveLimited
<1>2. Sell \in Askable /\ Asked \in Askable
  BY <1>1, AskedFacts DEF Askable
<1>3. CASE AnswerSpecialist
  <2>1. PICK output \in AnswersOf(Asked) \cup {Invalid} :
          artifacts' = Append(artifacts, Artifact(Asked, Len(graph.ids) + 1, output))
    BY <1>3 DEF AnswerSpecialist
  <2>2. /\ output \in [status : Answered, twice : BOOLEAN, tests : BOOLEAN] \cup {Invalid}
        /\ ~output.tests => Asked = Sell
    BY AnswersType DEF Invalid, Output
  <2> DEFINE a == Artifact(Asked, Len(graph.ids) + 1, output)
             id == Len(artifacts')
  <2>3. /\ ArtifactsTyped' /\ id \in DOMAIN artifacts' /\ id \in Nat /\ artifacts'[id] = a
        /\ \A i \in DOMAIN artifacts' :
             (i \in DOMAIN artifacts /\ artifacts'[i] = artifacts[i]) \/ i = id
    <3> DEFINE attempt == Len(graph.ids) + 1
    <3>1. attempt \in Nat /\ artifacts' = Append(artifacts, Artifact(Asked, attempt, output))
      BY <1>1, <2>1
    <3>2. a = Artifact(Asked, attempt, output)
      OBVIOUS
    <3> HIDE DEF attempt, a
    <3> QED
      BY <1>1, <1>2, <2>2, <3>1, <3>2, StoreFacts
  <2>4. a.agent = Asked /\ a.verdict = "pending" /\ a.inputs = Inputs(Asked)
        /\ a.output = output
    BY DEF Artifact
  <2>5. graph' = [graph EXCEPT !.pc = "judge", !.ids = Append(graph.ids, id)]
    BY <1>3 DEF AnswerSpecialist
  <2> HIDE DEF a, id
  <2>6. Append(graph.ids, id) \in Seq(Nat) /\ Last(Append(graph.ids, id)) = id
        /\ Append(graph.ids, id) # << >>
    BY <1>1, <2>3 DEF Last
  <2>7. graph' \in Graphs /\ graph'.pc = "judge" /\ graph'.results = graph.results
        /\ graph'.pass = graph.pass /\ graph'.ids = Append(graph.ids, id)
    BY <1>1, <2>5, <2>6 DEF Graphs, GraphPlaces
  <2>8. Asked' = Asked /\ Inputs(Asked)' = Inputs(Asked)
    BY <1>1, <2>7, SameQuestion
  <2>9. Len(graph.results) <= Wave /\ NothingToReuse
    BY <1>3 DEF AnswerSpecialist, GraphAt, ShadowInv, GraphPlaced
  <2>10. NothingToReuse'
    BY <2>3, <2>4, <2>8, <2>9 DEF NothingToReuse, Accepted
  <2>11. InHand(Last(graph.ids), Asked)'
    BY <2>3, <2>4, <2>6, <2>7, <2>8 DEF InHand
  <2>12. ~artifacts'[Last(graph'.ids)].output.tests => Asked' = Sell
    BY <2>2, <2>3, <2>4, <2>6, <2>7, <2>8
  <2>13. GraphPlaced'
    BY <1>1, <2>6, <2>7, <2>9, <2>10, <2>11, <2>12, WaveFacts
    DEF GraphPlaced, ShadowInv
  <2> QED
    BY <1>1, <2>3, <2>7, <2>13 DEF ShadowInv, ShadowTyped
<1>4. CASE SaveLimited
  <2> DEFINE a == Artifact(Sell, 0, Unassessable)
             id == Len(artifacts')
  <2>1. artifacts' = Append(artifacts, a)
    BY <1>4 DEF SaveLimited
  <2>2. Unassessable \in [status : Answered, twice : BOOLEAN, tests : BOOLEAN]
    BY DEF Unassessable, Output, Answered
  <2>3. /\ ArtifactsTyped' /\ id \in DOMAIN artifacts' /\ id \in Nat /\ artifacts'[id] = a
    BY <1>1, <1>2, <2>1, <2>2, StoreFacts
  <2>4. a.agent = Sell /\ a.verdict = "pending" /\ a.inputs = Inputs(Sell)
        /\ a.output = Unassessable
    BY DEF Artifact
  <2>5. graph' = [graph EXCEPT !.pc = "limited", !.ids = <<id>>]
    BY <1>4 DEF SaveLimited
  <2> HIDE DEF a, id
  <2>6. graph' \in Graphs /\ graph'.pc = "limited" /\ graph'.results = graph.results
        /\ graph'.pass = graph.pass /\ graph'.ids = <<id>>
    <3>1. <<id>> \in Seq(Nat)
      BY <2>3
    <3> QED
      BY <1>1, <2>5, <3>1 DEF Graphs, GraphPlaces
  <2>7. Inputs(Sell)' = Inputs(Sell)
    BY <1>1, <2>6, SameQuestion
  <2>8. Len(graph.results) = Wave
    BY <1>4 DEF SaveLimited, GraphAt, ShadowInv, GraphPlaced
  <2>9. Len(graph'.ids) = 1 /\ InHand(graph.ids[1], Sell)'
        /\ artifacts'[graph'.ids[1]].output = Unassessable
    BY <2>3, <2>4, <2>6, <2>7 DEF InHand
  <2>10. GraphPlaced'
    <3>1. graph'.pass = 2 => scenario' \notin {"none", "unset"}
      BY <1>1, <2>6, SamePass
    <3>2. Len(graph'.results) = Wave' /\ Len(graph'.results) <= Wave'
      BY <2>6, <2>8, WaveFacts
    <3> QED
      BY <2>6, <2>9, <3>1, <3>2 DEF GraphPlaced
  <2> QED
    BY <1>1, <2>3, <2>6, <2>10 DEF ShadowInv, ShadowTyped
<1> QED
  BY <1>3, <1>4
LEMMA AnswerLost ==
  ASSUME ShadowInv, LoseAnswer
  PROVE  ShadowInv'
<1>1. /\ ArtifactsTyped /\ graph \in Graphs /\ scenario' = scenario
      /\ artifacts' = artifacts /\ Grew(artifacts, artifacts')
      /\ Len(graph.results) <= Wave /\ graph' = Give(FailedAnswer(graph.errors + 1))
  BY GrewSelf DEF ShadowInv, ShadowTyped, GraphPlaced, LoseAnswer, GraphAt, shadowStore
<1>2. ArtifactsTyped'
  BY <1>1 DEF ArtifactsTyped
<1>3. FailedAnswer(graph.errors + 1) \in SpecialistResults
      /\ FailedAnswer(graph.errors + 1).output = NoOutput
  BY <1>1, FailureType
<1> QED
  BY <1>1, <1>2, <1>3, Given

LEMMA Judged ==
  ASSUME ShadowInv, JudgeSpecialist
  PROVE  ShadowInv'
<1> DEFINE id == Last(graph.ids)
           output == artifacts[id].output
           judgment == IF output = Invalid THEN "rejected" ELSE "accepted"
<1>1. /\ ShadowTyped /\ graph \in Graphs /\ scenario' = scenario /\ GraphAt("judge")
      /\ graph.results \in Seq(SpecialistResults) /\ graph.ids \in Seq(Nat)
      /\ graph.errors \in Nat /\ Len(graph.results) \in Nat /\ Len(graph.ids) \in Nat
  BY DEF ShadowInv, ShadowTyped, Graphs, JudgeSpecialist
<1>2. /\ Len(graph.results) <= Wave /\ NothingToReuse /\ graph.ids # << >>
      /\ InHand(id, Asked) /\ (~output.tests => Asked = Sell)
  BY <1>1 DEF ShadowInv, GraphPlaced, GraphAt
<1>3. Wave \in Nat /\ Wave' = Wave /\ ((Asked = Sell) <=> ~(Len(graph.results) < Wave))
  BY <1>1, AskedFacts, WaveFacts
<1>4. /\ artifacts' = [artifacts EXCEPT ![id].verdict = judgment]
      /\ output = Invalid /\ Len(graph.ids) = 1 =>
           graph' = [graph EXCEPT !.pc = "call", !.errors = 1]
      /\ output = Invalid /\ Len(graph.ids) # 1 => graph' = Give(FailedAnswer(graph.errors + 1))
      /\ output # Invalid /\ ~output.tests => graph' = [graph EXCEPT !.pc = "limit"]
      /\ output # Invalid /\ output.tests =>
           graph' = Give(Result(ResultStatus[output.status], Len(graph.ids), graph.ids,
                                graph.errors, output))
  BY DEF JudgeSpecialist
<1>5. id \in DOMAIN artifacts /\ artifacts[id] \in Artifacts
  BY <1>1, <1>2 DEF InHand, ShadowTyped, ArtifactsTyped
<1>6. judgment \in {"accepted", "rejected"} /\ (judgment = "accepted" => output # Invalid)
  OBVIOUS
<1> HIDE DEF id, judgment
<1>7. /\ ArtifactsTyped' /\ Grew(artifacts, artifacts') /\ id \in DOMAIN artifacts'
      /\ artifacts'[id].verdict = judgment /\ artifacts'[id].inputs = Inputs(Asked)
      /\ \A i \in DOMAIN artifacts' : i # id => artifacts'[i] = artifacts[i]
  BY <1>1, <1>2, <1>4, <1>6, JudgeFacts
<1>8. CASE output = Invalid /\ Len(graph.ids) = 1
  <2>1. graph' \in Graphs /\ graph'.pc = "call" /\ graph'.results = graph.results
        /\ graph'.pass = graph.pass
    <3>1. graph' = [graph EXCEPT !.pc = "call", !.errors = 1]
      BY <1>4, <1>8
    <3> QED
      BY <1>1, <3>1 DEF Graphs, GraphPlaces
  <2>2. Asked' = Asked /\ Inputs(Asked)' = Inputs(Asked)
    BY <1>1, <2>1, SameQuestion
  <2>3. judgment = "rejected" /\ DOMAIN artifacts' = DOMAIN artifacts
    BY <1>4, <1>8 DEF judgment
  <2>4. NothingToReuse'
    BY <1>2, <1>7, <2>2, <2>3 DEF NothingToReuse, Accepted
  <2>5. graph'.pass = 2 => scenario' \notin {"none", "unset"}
    BY <1>1, <2>1, SamePass
  <2>6. GraphPlaced'
    BY <1>2, <1>3, <2>1, <2>4, <2>5 DEF GraphPlaced
  <2> QED
    BY <1>1, <1>7, <2>1, <2>6 DEF ShadowInv, ShadowTyped
<1>9. CASE output = Invalid /\ Len(graph.ids) # 1
  <2>1. FailedAnswer(graph.errors + 1) \in SpecialistResults
        /\ FailedAnswer(graph.errors + 1).output = NoOutput
    BY <1>1, FailureType
  <2> QED
    BY <1>1, <1>2, <1>4, <1>7, <1>9, <2>1, Given
<1>10. CASE output # Invalid /\ ~output.tests
  <2>1. graph' \in Graphs /\ graph'.pc = "limit" /\ graph'.results = graph.results
        /\ graph'.pass = graph.pass
    BY <1>1, <1>4, <1>10 DEF Graphs, GraphPlaces
  <2>2. graph'.pass = 2 => scenario' \notin {"none", "unset"}
    BY <1>1, <2>1, SamePass
  <2>3. Len(graph'.results) = Wave' /\ Len(graph'.results) <= Wave'
    BY <1>1, <1>2, <1>3, <1>10, <2>1
  <2>4. GraphPlaced'
    BY <2>1, <2>2, <2>3 DEF GraphPlaced
  <2> QED
    BY <1>1, <1>7, <2>1, <2>4 DEF ShadowInv, ShadowTyped
<1>11. CASE output # Invalid /\ output.tests
  <2> DEFINE r == Result(ResultStatus[output.status], Len(graph.ids), graph.ids,
                         graph.errors, output)
  <2>1. output \in Outputs /\ ResultStatus[output.status] \in ResultStatuses
    <3>1. output \in [status : Answered, twice : BOOLEAN, tests : BOOLEAN]
      BY <1>5, <1>11 DEF Artifacts
    <3> QED
      BY <3>1 DEF Outputs, Answered, ResultStatus, ResultStatuses
  <2>2. r \in SpecialistResults /\ r.ids = graph.ids
    BY <1>1, <2>1 DEF Result, SpecialistResults
  <2>3. Len(graph.results) = Wave => SellFound(artifacts', graph.ids)
    BY <1>2, <1>3, <1>7, <1>11 DEF SellFound, id, judgment
  <2>4. graph' = Give(r)
    BY <1>4, <1>11
  <2> HIDE DEF r
  <2> QED
    BY <1>1, <1>2, <1>7, <2>2, <2>3, <2>4, Given
<1> QED
  BY <1>8, <1>9, <1>10, <1>11

LEMMA LimitedAccepted ==
  ASSUME ShadowInv, AcceptLimited
  PROVE  ShadowInv'
<1> DEFINE id == graph.ids[1]
           r == Result("limited", 0, graph.ids, IF SellInputsAvailable THEN 0 ELSE 1,
                       Unassessable)
<1>1. /\ ShadowTyped /\ graph \in Graphs /\ scenario' = scenario /\ GraphAt("limited")
      /\ graph.ids \in Seq(Nat)
  BY DEF ShadowInv, ShadowTyped, Graphs, AcceptLimited
<1>2. /\ Len(graph.results) <= Wave /\ Len(graph.ids) = 1
      /\ InHand(id, Sell) /\ artifacts[id].output = Unassessable
  BY <1>1 DEF ShadowInv, GraphPlaced, GraphAt
<1>3. Unassessable # Invalid /\ Unassessable \in Outputs
  BY DEF Unassessable, Invalid, Output, Outputs
<1>4. artifacts' = [artifacts EXCEPT ![id].verdict = "accepted"] /\ graph' = Give(r)
  BY DEF AcceptLimited
<1>5. r \in SpecialistResults /\ r.ids = graph.ids
  BY <1>1, <1>3 DEF Result, SpecialistResults, ResultStatuses
<1>6. Last(graph.ids) = id /\ graph.ids # << >>
  BY <1>1, <1>2 DEF Last
<1> HIDE DEF id, r
<1>7. /\ ArtifactsTyped' /\ Grew(artifacts, artifacts') /\ id \in DOMAIN artifacts'
      /\ artifacts'[id].verdict = "accepted" /\ artifacts'[id].inputs = Inputs(Sell)
  BY <1>1, <1>2, <1>3, <1>4, JudgeFacts
<1>8. SellFound(artifacts', r.ids)
  BY <1>5, <1>6, <1>7 DEF SellFound
<1> QED
  BY <1>1, <1>2, <1>4, <1>5, <1>7, <1>8, Given
-----------------------------------------------------------------------------
(* The stages, the passes and the aggregator; the artifacts stay.          *)
LEMMA PassBegun ==
  ASSUME ShadowInv, StartGraph \/ BeginPass \/ BreakRunner \/ FinishGraph \/ StopGraph
  PROVE  ShadowInv'
<1>1. /\ ArtifactsTyped /\ graph \in Graphs /\ scenario \in ScenarioNames
      /\ scenario' = scenario /\ artifacts' = artifacts
  BY DEF ShadowInv, ShadowTyped, StartGraph, BeginPass, BreakRunner, FinishGraph, StopGraph,
         shadowStore
<1>2. ArtifactsTyped' /\ Wave \in Nat \ {0} /\ Wave' = Wave
  BY <1>1, WaveFacts DEF ArtifactsTyped
<1>3. << >> \in Seq(SpecialistResults) /\ << >> \in Seq(Nat) /\ Len(<< >>) = 0
  OBVIOUS
<1>4. CASE StartGraph \/ FinishGraph \/ StopGraph
  <2>1. NoProcess \in Graphs /\ NoProcess.pass = 1
    BY <1>3 DEF NoProcess, Graphs, GraphPlaces
  <2>2. PICK pc \in {"idle", "pass", "done"} : graph' = [NoProcess EXCEPT !.pc = pc]
    BY <1>4 DEF StartGraph, FinishGraph, StopGraph, NoProcess
  <2>3. graph' \in Graphs /\ graph'.pc \in {"idle", "pass", "done"} /\ graph'.pass = 1
    BY <2>1, <2>2 DEF Graphs, GraphPlaces
  <2>4. GraphPlaced'
    <3>1. graph'.pc \notin {"call", "judge", "limit", "limited", "agent", "sell stage",
                            "qualitative", "aggregate", "decide", "save"}
      BY <2>3
    <3>2. graph'.pass # 2
      BY <2>3
    <3> QED
      BY <3>1, <3>2 DEF GraphPlaced
  <2> QED
    BY <1>1, <1>2, <2>3, <2>4 DEF ShadowInv, ShadowTyped
<1>5. ASSUME graph' = AfterPass(<< >>) PROVE ShadowInv'
  <2>1. PICK pc \in {"qualitative", "aggregate"} :
          graph' = [graph EXCEPT !.pc = pc, !.run = << >>] /\ (pc = "qualitative" => graph.pass = 1)
    BY <1>5 DEF AfterPass
  <2>2. /\ graph' \in Graphs /\ graph'.pc = pc /\ graph'.run = << >>
        /\ graph'.pass = graph.pass
    BY <1>1, <1>3, <2>1 DEF Graphs, GraphPlaces
  <2>3. graph'.pass = 2 => scenario' \notin {"none", "unset"}
    BY <1>1, <2>2, SamePass
  <2>4. GraphPlaced'
    BY <2>1, <2>2, <2>3 DEF GraphPlaced
  <2> QED
    BY <1>1, <1>2, <2>2, <2>4 DEF ShadowInv, ShadowTyped
<1>6. ASSUME graph' = [graph EXCEPT !.pc = "agent", !.results = << >>] PROVE ShadowInv'
  <2>1. /\ graph' \in Graphs /\ graph'.pc = "agent" /\ graph'.results = << >>
        /\ graph'.pass = graph.pass
    BY <1>1, <1>3, <1>6 DEF Graphs, GraphPlaces
  <2>2. graph'.pass = 2 => scenario' \notin {"none", "unset"}
    BY <1>1, <2>1, SamePass
  <2>3. Len(graph'.results) <= Wave' + 1 /\ Len(graph'.results) # Wave' + 1
    BY <1>2, <1>3, <2>1
  <2>4. GraphPlaced'
    BY <2>1, <2>2, <2>3 DEF GraphPlaced
  <2> QED
    BY <1>1, <1>2, <2>1, <2>4 DEF ShadowInv, ShadowTyped
<1> QED
  BY <1>4, <1>5, <1>6 DEF BeginPass, BreakRunner

LEMMA StagesCompleted ==
  ASSUME ShadowInv, CompleteSpecialists \/ CompleteSell
  PROVE  ShadowInv'
<1>1. /\ ArtifactsTyped /\ graph \in Graphs /\ scenario \in ScenarioNames
      /\ scenario' = scenario /\ artifacts' = artifacts
      /\ graph.results \in Seq(SpecialistResults) /\ Len(graph.results) \in Nat
  <2>1. ArtifactsTyped /\ graph \in Graphs /\ scenario \in ScenarioNames
    BY DEF ShadowInv, ShadowTyped
  <2>2. scenario' = scenario /\ artifacts' = artifacts
    BY DEF CompleteSpecialists, CompleteSell
  <2>3. graph.results \in Seq(SpecialistResults) /\ Len(graph.results) \in Nat
    BY <2>1 DEF Graphs
  <2> QED
    BY <2>1, <2>2, <2>3
<1>2. ArtifactsTyped' /\ Wave \in Nat /\ Wave' = Wave
  BY <1>1, WaveFacts DEF ArtifactsTyped
<1>3. graph.pc \in {"agent", "sell stage"} /\ Len(graph.results) = Wave + 1
  <2>1. graph.pc = "agent" => Len(graph.results) > Wave /\ Len(graph.results) <= Wave + 1
    BY DEF CompleteSpecialists, CompleteSell, GraphAt, Wave, ShadowInv, GraphPlaced
  <2>2. graph.pc = "sell stage" => Len(graph.results) = Wave + 1
    BY DEF ShadowInv, GraphPlaced
  <2>3. graph.pc \in {"agent", "sell stage"}
    BY DEF CompleteSpecialists, CompleteSell, GraphAt
  <2>4. Len(graph.results) > Wave /\ Len(graph.results) <= Wave + 1 =>
          Len(graph.results) = Wave + 1
    BY <1>1, <1>2
  <2> QED
    BY <2>1, <2>2, <2>3, <2>4
<1>4. OfOneGraph(artifacts, graph.results, PassScenario)
  BY <1>3 DEF ShadowInv, GraphPlaced
<1>5. CASE CompleteSpecialists
  <2>1. /\ graph' \in Graphs /\ graph'.pc = "sell stage" /\ graph'.results = graph.results
        /\ graph'.pass = graph.pass
    BY <1>1, <1>5 DEF Graphs, GraphPlaces, CompleteSpecialists
  <2>2. graph'.pass = 2 => scenario' \notin {"none", "unset"}
    BY <1>1, <2>1, SamePass
  <2>3. OfOneGraph(artifacts', graph'.results, PassScenario')
    BY <1>1, <1>4, <2>1 DEF PassScenario
  <2>4. Len(graph'.results) = Wave' + 1 /\ Len(graph'.results) <= Wave' + 1
    <3>1. Len(graph'.results) = Wave + 1 /\ Len(graph'.results) \in Nat
      BY <1>1, <1>3, <2>1
    <3> QED
      BY <1>2, <3>1
  <2>5. GraphPlaced'
    BY <2>1, <2>2, <2>3, <2>4 DEF GraphPlaced
  <2> QED
    BY <1>1, <1>2, <2>1, <2>5 DEF ShadowInv, ShadowTyped
<1>6. CASE CompleteSell
  <2> DEFINE next == IF graph.pass = 1 THEN "qualitative" ELSE "aggregate"
  <2>1. graph' = [graph EXCEPT !.pc = next, !.run = graph.results]
    BY <1>6 DEF CompleteSell, AfterPass
  <2>2. /\ graph' \in Graphs /\ graph'.pc = next /\ graph'.run = graph.results
        /\ graph'.pass = graph.pass /\ graph.pass \in {1, 2}
    BY <1>1, <2>1 DEF Graphs, GraphPlaces
  <2>3. graph'.pass = 2 => scenario' \notin {"none", "unset"}
    BY <1>1, <2>2, SamePass
  <2>4. graph.pass = 1 => PassScenario = "packet"
    BY DEF PassScenario
  <2>5. graph.pass = 2 => PassScenario = Aggregated'
    BY <1>1, <2>2, <2>3 DEF PassScenario, Aggregated
  <2>6. graph'.pc = "qualitative" => graph'.pass = 1 /\ OfOneGraph(artifacts', graph'.run, "packet")
    BY <1>1, <1>4, <2>2, <2>4
  <2>7. graph'.pc = "aggregate" => OfOneGraph(artifacts', graph'.run, Aggregated')
    BY <1>1, <1>4, <2>2, <2>5
  <2>8. GraphPlaced'
    BY <2>2, <2>3, <2>6, <2>7 DEF GraphPlaced
  <2> QED
    BY <1>1, <1>2, <2>2, <2>8 DEF ShadowInv, ShadowTyped
<1> QED
  BY <1>5, <1>6

(* The scenario is calculated once, and the second pass is made with it.   *)
LEMMA ScenarioSettled ==
  ASSUME ShadowInv, Qualitative
  PROVE  ShadowInv'
<1>1. /\ ArtifactsTyped /\ graph \in Graphs /\ scenario \in ScenarioNames
      /\ artifacts' = artifacts /\ graph.pass = 1
      /\ (graph.run # << >> => OfOneGraph(artifacts, graph.run, "packet"))
  BY DEF ShadowInv, ShadowTyped, GraphPlaced, Qualitative, GraphAt
<1>2. ArtifactsTyped'
  BY <1>1 DEF ArtifactsTyped
<1>3. scenario' \in ScenarioNames /\ scenario' # "unset"
  BY <1>1, ShadowAssumption DEF Qualitative, ScenarioNames
<1>4. CASE scenario' = "none"
  <2>1. graph' = [graph EXCEPT !.pc = "aggregate"]
    BY <1>4 DEF Qualitative
  <2>2. /\ graph' \in Graphs /\ graph'.pc = "aggregate" /\ graph'.run = graph.run
        /\ graph'.pass = 1
    BY <1>1, <2>1 DEF Graphs, GraphPlaces
  <2>3. Aggregated' = "packet"
    BY <1>4 DEF Aggregated
  <2>4. GraphPlaced'
    BY <1>1, <2>2, <2>3 DEF GraphPlaced
  <2> QED
    BY <1>2, <1>3, <2>2, <2>4 DEF ShadowInv, ShadowTyped
<1>5. CASE scenario' # "none"
  <2>1. graph' = [graph EXCEPT !.pc = "pass", !.pass = 2]
    BY <1>5 DEF Qualitative
  <2>2. graph' \in Graphs /\ graph'.pc = "pass"
    BY <1>1, <2>1 DEF Graphs, GraphPlaces
  <2>3. GraphPlaced'
    BY <1>3, <1>5, <2>2 DEF GraphPlaced
  <2> QED
    BY <1>2, <1>3, <2>2, <2>3 DEF ShadowInv, ShadowTyped
<1> QED
  BY <1>4, <1>5

LEMMA Aggregating ==
  ASSUME ShadowInv, AggregateStep
  PROVE  ShadowInv'
<1>1. /\ ArtifactsTyped /\ graph \in Graphs /\ scenario \in ScenarioNames
      /\ scenario' = scenario /\ artifacts' = artifacts
  BY DEF ShadowInv, ShadowTyped, AggregateStep, BeginAggregate, AnswerAggregate, SaveAggregate,
         CompleteAggregate, shadowStore
<1>2. ArtifactsTyped' /\ Aggregated' = Aggregated
  BY <1>1 DEF ArtifactsTyped, Aggregated
<1>3. PICK pc \in {"persist", "accepted", "decide", "failed", "save"} :
        /\ \/ graph' = [graph EXCEPT !.pc = pc]
           \/ \E n \in Nat : graph' = [graph EXCEPT !.pc = pc, !.errors = n]
        /\ pc \in {"decide", "save"} =>
             graph.pc \in {"aggregate", "decide"} /\ graph.run # << >>
  <2>1. graph.errors \in Nat
    BY <1>1 DEF Graphs
  <2>2. graph.pc = "decide" => graph.run # << >>
    BY DEF ShadowInv, GraphPlaced
  <2>3. CASE BeginAggregate
    <3>1. CASE graph' = [graph EXCEPT !.pc = "persist"]
      BY <3>1
    <3>2. CASE graph.run # << >> /\ graph' =
                 [graph EXCEPT
                    !.pc = IF AggregateKey \in Range(aggregates) THEN "accepted" ELSE "decide",
                    !.errors = 0]
      <4> DEFINE pc == IF AggregateKey \in Range(aggregates) THEN "accepted" ELSE "decide"
      <4>1. pc \in {"accepted", "decide"} /\ graph' = [graph EXCEPT !.pc = pc, !.errors = 0]
        BY <3>2
      <4> HIDE DEF pc
      <4> QED
        BY <2>3, <3>2, <4>1 DEF BeginAggregate, GraphAt
    <3> QED
      BY <2>3, <3>1, <3>2 DEF BeginAggregate
  <2>4. CASE AnswerAggregate
    <3>1. CASE graph' = [graph EXCEPT !.pc = "save"]
      BY <2>2, <2>4, <3>1 DEF AnswerAggregate, GraphAt
    <3>2. CASE graph' = [graph EXCEPT !.pc = "failed"]
      BY <3>2
    <3>3. CASE graph' = [graph EXCEPT !.pc = IF graph.errors = 0 THEN "decide" ELSE "failed",
                                      !.errors = graph.errors + 1]
      <4> DEFINE pc == IF graph.errors = 0 THEN "decide" ELSE "failed"
      <4>1. pc \in {"failed", "decide"} /\ graph.errors + 1 \in Nat
            /\ graph' = [graph EXCEPT !.pc = pc, !.errors = graph.errors + 1]
        BY <2>1, <3>3
      <4> HIDE DEF pc
      <4> QED
        BY <2>2, <2>4, <4>1 DEF AnswerAggregate, GraphAt
    <3> QED
      BY <2>4, <3>1, <3>2, <3>3 DEF AnswerAggregate
  <2>5. CASE SaveAggregate
    BY <2>5 DEF SaveAggregate
  <2>6. CASE CompleteAggregate
    BY <2>6 DEF CompleteAggregate
  <2> QED
    BY <2>3, <2>4, <2>5, <2>6 DEF AggregateStep
<1>4. /\ graph' \in Graphs /\ graph'.pc = pc /\ graph'.run = graph.run
      /\ graph'.pass = graph.pass
  BY <1>1, <1>3 DEF Graphs, GraphPlaces
<1>5. graph'.pass = 2 => scenario' \notin {"none", "unset"}
  BY <1>1, <1>4, SamePass
<1>6. pc \in {"decide", "save"} => OfOneGraph(artifacts', graph'.run, Aggregated')
  <2>1. graph.pc \in {"aggregate", "decide"} /\ graph.run # << >> =>
          OfOneGraph(artifacts, graph.run, Aggregated)
    BY DEF ShadowInv, GraphPlaced
  <2> QED
    BY <1>1, <1>2, <1>3, <1>4, <2>1
<1>7. GraphPlaced'
  BY <1>3, <1>4, <1>5, <1>6 DEF GraphPlaced
<1> QED
  BY <1>1, <1>2, <1>4, <1>7 DEF ShadowInv, ShadowTyped

LEMMA ShadowInitInv ==
  ASSUME ShadowInit
  PROVE  ShadowInv
<1>1. << >> \in Seq(SpecialistResults) /\ << >> \in Seq(Nat) /\ << >> \in Seq(Artifacts)
  OBVIOUS
<1>2. NoProcess \in Graphs
  BY <1>1 DEF NoProcess, Graphs, GraphPlaces
<1>3. ShadowTyped
  BY <1>1, <1>2 DEF ShadowInit, ShadowTyped, ArtifactsTyped, ScenarioNames
<1>4. graph.pc = "idle" /\ graph.pass = 1
  BY DEF ShadowInit, NoProcess
<1> QED
  BY <1>3, <1>4 DEF ShadowInv, GraphPlaced

LEMMA ShadowStepInv ==
  ASSUME ShadowInv, [ShadowNext]_shadowVars
  PROVE  ShadowInv'
<1>1. CASE SpecialistStep
  BY <1>1, AgentsTaken, ArtifactStored, AnswerLost, Judged, LimitedAccepted DEF SpecialistStep
<1>2. CASE AggregateStep
  BY <1>2, Aggregating
<1>3. CASE StartGraph \/ BeginPass \/ BreakRunner \/ FinishGraph \/ StopGraph
  BY <1>3, PassBegun
<1>4. CASE CompleteSpecialists \/ CompleteSell
  BY <1>4, StagesCompleted
<1>5. CASE Qualitative
  BY <1>5, ScenarioSettled
<1>6. CASE UNCHANGED shadowVars
  <2>1. artifacts' = artifacts /\ graph' = graph /\ scenario' = scenario
    BY <1>6 DEF shadowVars
  <2>2. ShadowTyped'
    BY <2>1 DEF ShadowInv, ShadowTyped, ArtifactsTyped
  <2>3. \A agent : Inputs(agent)' = Inputs(agent)
    BY <2>1, SameQuestion
  <2>4. /\ Asked' = Asked /\ PassScenario' = PassScenario /\ Aggregated' = Aggregated
        /\ Wave' = Wave
    BY <2>1, SameQuestion DEF Aggregated, Wave
  <2>5. NothingToReuse' = NothingToReuse
    BY <2>1, <2>3, <2>4 DEF NothingToReuse, Accepted
  <2>6. /\ InHand(Last(graph.ids), Asked)' <=> InHand(Last(graph.ids), Asked)
        /\ InHand(graph.ids[1], Sell)' <=> InHand(graph.ids[1], Sell)
    BY <2>1, <2>3, <2>4 DEF InHand
  <2>7. GraphPlaced'
    BY <2>1, <2>4, <2>5, <2>6 DEF ShadowInv, GraphPlaced
  <2> QED
    BY <2>2, <2>7 DEF ShadowInv
<1> QED
  BY <1>1, <1>2, <1>3, <1>4, <1>5, <1>6 DEF ShadowNext

LEMMA ShadowInvariant == ShadowSpec => []ShadowInv
<1>1. ShadowInit => ShadowInv
  BY ShadowInitInv
<1>2. ShadowInv /\ [ShadowNext]_shadowVars => ShadowInv'
  BY ShadowStepInv
<1> QED
  BY <1>1, <1>2, PTL DEF ShadowSpec

(* While a complete answer about the same inputs is accepted, no model is  *)
(* asked again, whatever was killed, rejected or resumed in between.       *)
THEOREM AcceptedIsPaidOnce == ShadowSpec => []AcceptedIsNotBoughtAgain
<1>1. ShadowInv => AcceptedIsNotBoughtAgain
  BY DEF ShadowInv, GraphPlaced, NothingToReuse, AcceptedIsNotBoughtAgain, GraphAt
<1> QED
  BY <1>1, ShadowInvariant, PTL

(* The sell conditions the aggregator judges were found for the first wave *)
(* and the scenario it is given with them, in an accepted artifact.        *)
THEOREM AggregateSeesOneGraph == ShadowSpec => []AggregateOfOneGraph
<1>1. ShadowInv => AggregateOfOneGraph
  BY DEF ShadowInv, GraphPlaced, OfOneGraph, AggregateOfOneGraph
<1> QED
  BY <1>1, ShadowInvariant, PTL
-----------------------------------------------------------------------------
(* The sell conditions hold, or nothing they say counts.                   *)
Traced(h) ==
  \/ SellHolds(h)
  \/ h.status["sell_conditions"] = "failed"
  \/ \A t \in BreakTypes : h.tests[t].status # "triggered"

Broke(h) ==
  /\ Present(h, "sell_conditions")
  /\ \E t \in BreakTypes : h.tests[t].status = "triggered"

(* A verdict that an activation passed the gates with.                     *)
Passing(h, v) ==
  \E c \in CandidateTypes :
    /\ c.verdict = "activated_case" /\ c.claims = v.claims /\ Blockers(h, c) = {}
    /\ \A k \in c.claims : ClaimHolds(h, k)
    /\ \A cap \in Caps(h) : CapRank[v.confidence] <= CapRank[cap]

GateInv ==
  /\ hand \in HandTypes /\ verdict \in CandidateTypes
  /\ gate = "asked" \/ Traced(hand)
  /\ gate \in {"asked", "traced"} => verdict = proposal
  /\ Concluded =>
       /\ verdict.verdict = "activated_case" => Passing(hand, verdict)
       /\ verdict.investable => verdict.verdict = "activated_case"
       /\ proposal.verdict = "activated_case" /\ verdict.verdict = "reject" => Broke(hand)

LEMMA CapOrder ==
  ASSUME NEW h \in HandTypes, NEW c \in CandidateTypes
  PROVE  /\ CappedConfidence(h, c) \in DOMAIN CapRank
         /\ \A cap \in Caps(h) : CapRank[CappedConfidence(h, c)] <= CapRank[cap]
<1> DEFINE S == Caps(h) \cup {c.confidence}
           least == CappedConfidence(h, c)
<1>1. DOMAIN CapRank = {"low", "medium", "high"} /\ CapRank["low"] = 0
      /\ CapRank["medium"] = 1 /\ CapRank["high"] = 2
  BY DEF CapRank
<1>2. S \subseteq {"low", "medium", "high"} /\ S # {}
  <2>1. c.confidence \in {"low", "medium", "high"} /\ h.coverage \in {"low", "medium", "high"}
        /\ \A a \in Agents : h.cap[a] \in {"low", "medium", "high"}
    BY <1>1 DEF HandTypes, CandidateTypes
  <2> QED
    BY <2>1 DEF Caps
<1>3. \E x \in S : \A y \in S : CapRank[x] <= CapRank[y]
  <2>1. CASE "low" \in S
    BY <1>1, <1>2, <2>1
  <2>2. CASE "low" \notin S /\ "medium" \in S
    BY <1>1, <1>2, <2>2
  <2>3. CASE S = {"high"}
    BY <1>1, <2>3
  <2> QED
    BY <1>2, <2>1, <2>2, <2>3
<1> HIDE DEF S
<1>4. least \in S /\ \A y \in S : CapRank[least] <= CapRank[y]
  BY <1>3 DEF CappedConfidence, S
<1> QED
  BY <1>1, <1>2, <1>4 DEF S

(* What the gates make of a candidate.                                     *)
LEMMA ConstrainedFacts ==
  ASSUME NEW h \in HandTypes, NEW c \in CandidateTypes
  PROVE  LET v == Constrained(h, c) IN
         /\ v \in CandidateTypes /\ v.claims = c.claims
         /\ v.verdict = "activated_case" => c.verdict = "activated_case" /\ Blockers(h, c) = {}
         /\ v.investable => v.verdict = "activated_case"
         /\ v.confidence = CappedConfidence(h, c)
         /\ c.verdict # "activated_case" => v.verdict = c.verdict
         /\ c.verdict = "activated_case" /\ v.verdict = "reject" =>
              "causal_sell_break_triggered" \in Blockers(h, c)
<1> DEFINE capped == [c EXCEPT !.confidence = CappedConfidence(h, c)]
<1>1. capped \in CandidateTypes /\ capped.claims = c.claims /\ capped.verdict = c.verdict
      /\ capped.confidence = CappedConfidence(h, c)
  BY CapOrder DEF CandidateTypes
<1> HIDE DEF capped
<1>2. Constrained(h, c) =
        IF c.verdict # "activated_case" THEN [capped EXCEPT !.investable = FALSE]
        ELSE IF Blockers(h, c) = {} THEN capped
        ELSE [capped EXCEPT !.investable = FALSE,
                !.verdict = IF "causal_sell_break_triggered" \in Blockers(h, c)
                            THEN "reject" ELSE "watch"]
  BY DEF Constrained, capped
<1>3. CASE c.verdict # "activated_case"
  <2>1. Constrained(h, c) = [capped EXCEPT !.investable = FALSE]
    BY <1>2, <1>3
  <2> QED
    BY <1>1, <1>3, <2>1 DEF CandidateTypes
<1>4. CASE c.verdict = "activated_case" /\ Blockers(h, c) = {}
  BY <1>1, <1>2, <1>4
<1>5. CASE c.verdict = "activated_case" /\ Blockers(h, c) # {}
  <2> DEFINE w == IF "causal_sell_break_triggered" \in Blockers(h, c) THEN "reject" ELSE "watch"
  <2>1. Constrained(h, c) = [capped EXCEPT !.investable = FALSE, !.verdict = w]
    BY <1>2, <1>5
  <2>2. w \in {"reject", "watch"}
        /\ (w = "reject" => "causal_sell_break_triggered" \in Blockers(h, c))
    OBVIOUS
  <2> HIDE DEF w
  <2> QED
    BY <1>1, <1>5, <2>1, <2>2 DEF CandidateTypes
<1> QED
  BY <1>3, <1>4, <1>5

(* The one blocker that makes a rejection, and what causes it.             *)
LEMMA RejectingBlocker ==
  ASSUME NEW h, NEW c, "causal_sell_break_triggered" \in Blockers(h, c)
  PROVE  Broke(h)
<1>1. \A condition, code : code # "causal_sell_break_triggered" =>
        "causal_sell_break_triggered" \notin When(condition, code)
  BY DEF When
<1>2. "causal_sell_break_triggered" \notin AgentBlockers(h)
  BY <1>1 DEF AgentBlockers
<1>3. "causal_sell_break_triggered" \notin FundamentalBlockers(h)
  BY <1>1 DEF FundamentalBlockers
<1>4. "causal_sell_break_triggered" \in SellBlockers(h)
  BY <1>1, <1>2, <1>3 DEF Blockers
<1> DEFINE found == Present(h, "sell_conditions")
           statuses == IF found THEN {h.tests[t].status : t \in BreakTypes} ELSE {}
<1>5. "causal_sell_break_triggered" \in When("triggered" \in statuses, "causal_sell_break_triggered")
  BY <1>1, <1>4 DEF SellBlockers
<1>6. "triggered" \in statuses
  BY <1>5 DEF When
<1> QED
  BY <1>6 DEF Broke
(* Whatever the answer about the sell conditions is, it is traced.         *)
LEMMA TraceFacts ==
  ASSUME NEW h \in HandTypes
  PROVE  LET traced == IF ~AllComplete(h) THEN Unassessed(h)
                       ELSE IF SellHolds(h) THEN h ELSE FailedSell(h)
         IN  traced \in HandTypes /\ Traced(traced)
<1>1. "sell_conditions" \in Agents
  BY DEF Agents
<1>2. FailedSell(h) \in HandTypes /\ FailedSell(h).status["sell_conditions"] = "failed"
  <2> DEFINE S == [h.status EXCEPT !["sell_conditions"] = "failed"]
             C == [h.core EXCEPT !["sell_conditions"] = FALSE]
  <2>1. /\ S \in [Agents -> {"complete", "insufficient", "failed"}]
        /\ C \in [Agents -> BOOLEAN] /\ S["sell_conditions"] = "failed"
    BY <1>1 DEF HandTypes
  <2>2. FailedSell(h) = [h EXCEPT !.status = S, !.core = C]
    BY DEF FailedSell
  <2> HIDE DEF S, C
  <2> QED
    BY <2>1, <2>2, ZenonT(60) DEF HandTypes
<1>3. /\ Unassessed(h) \in HandTypes
      /\ \A t \in BreakTypes : Unassessed(h).tests[t].status # "triggered"
  <2> DEFINE S == [h.status EXCEPT !["sell_conditions"] = "insufficient"]
             C == [h.core EXCEPT !["sell_conditions"] = TRUE]
             K == [h.cap EXCEPT !["sell_conditions"] = "low"]
             T == [t \in BreakTypes |-> OpenTest]
  <2>1. /\ S \in [Agents -> {"complete", "insufficient", "failed"}]
        /\ C \in [Agents -> BOOLEAN] /\ K \in [Agents -> DOMAIN CapRank]
    BY <1>1 DEF HandTypes, CapRank
  <2>2. OpenTest \in SellTests /\ OpenTest.status = "unassessable"
    BY DEF OpenTest, SellTests
  <2>3. T \in [BreakTypes -> SellTests] /\ \A t \in BreakTypes : T[t].status # "triggered"
    BY <2>2
  <2>4. Unassessed(h) = [h EXCEPT !.status = S, !.core = C, !.cap = K, !.tests = T,
                                  !.blockers = {}]
    BY DEF Unassessed
  <2> HIDE DEF S, C, K, T
  <2> DEFINE g == [h EXCEPT !.status = S, !.core = C, !.cap = K]
  <2>5. g \in HandTypes
    BY <2>1, ZenonT(60) DEF HandTypes
  <2>6. Unassessed(h) = [g EXCEPT !.tests = T, !.blockers = {}]
    BY <2>4, ZenonT(60) DEF HandTypes
  <2> HIDE DEF g
  <2>7. Unassessed(h) \in HandTypes /\ Unassessed(h).tests = T
    BY <2>3, <2>5, <2>6, ZenonT(60) DEF HandTypes
  <2> QED
    BY <2>3, <2>7
<1> QED
  BY <1>2, <1>3 DEF Traced

(* The candidate is judged as it stands.                                   *)
LEMMA DecisionKeeps ==
  ASSUME GateInv, NEW outcome \in {"accepted", "reused"}, gate # "asked",
         gate = "traced" \/ Concluded, Decide(outcome), UNCHANGED <<hand, proposal>>
  PROVE  GateInv'
<1>1. hand \in HandTypes /\ verdict \in CandidateTypes /\ Traced(hand)
      /\ hand' = hand /\ proposal' = proposal
  BY DEF GateInv
<1>2. CASE \A k \in verdict.claims : ClaimHolds(hand, k)
  <2> DEFINE v == Constrained(hand, verdict)
  <2>1. gate' = outcome /\ verdict' = v
    BY <1>2 DEF Decide
  <2>2. /\ v \in CandidateTypes /\ v.claims = verdict.claims
        /\ v.verdict = "activated_case" =>
             verdict.verdict = "activated_case" /\ Blockers(hand, verdict) = {}
        /\ v.investable => v.verdict = "activated_case"
        /\ v.confidence = CappedConfidence(hand, verdict)
        /\ verdict.verdict # "activated_case" => v.verdict = verdict.verdict
        /\ verdict.verdict = "activated_case" /\ v.verdict = "reject" =>
             "causal_sell_break_triggered" \in Blockers(hand, verdict)
    BY <1>1, ConstrainedFacts
  <2> HIDE DEF v
  <2>3. v.verdict = "activated_case" => Passing(hand, v)
    BY <1>1, <1>2, <2>2, CapOrder DEF Passing
  <2>4. proposal.verdict = "activated_case" /\ v.verdict = "reject" => Broke(hand)
    <3>1. CASE verdict.verdict = "activated_case"
      BY <2>2, <3>1, RejectingBlocker
    <3>2. CASE verdict.verdict # "activated_case"
      BY <2>2, <3>2 DEF GateInv
    <3> QED
      BY <3>1, <3>2
  <2> QED
    BY <1>1, <2>1, <2>2, <2>3, <2>4 DEF GateInv, Concluded
<1>3. CASE ~\A k \in verdict.claims : ClaimHolds(hand, k)
  <2>1. gate' = "refused" /\ verdict' = verdict
    BY <1>3 DEF Decide
  <2> QED
    BY <1>1, <2>1 DEF GateInv, Concluded
<1> QED
  BY <1>2, <1>3

LEMMA GateInvariant == GateSpec => []GateInv
<1>1. GateInit => GateInv
  BY GateAssumption DEF GateInit, Dealt, GateInv, Concluded
<1>2. ASSUME GateInv, [GateNext]_gateVars PROVE GateInv'
  <2>1. CASE Trace
    BY <1>2, <2>1, TraceFacts DEF Trace, GateInv, Concluded
  <2>2. CASE Judge
    BY <1>2, <2>2, DecisionKeeps DEF Judge
  <2>3. CASE ReuseVerdict
    BY <1>2, <2>3, DecisionKeeps DEF ReuseVerdict, Concluded
  <2>4. CASE UNCHANGED gateVars
    BY <1>2, <2>4 DEF gateVars, GateInv, Concluded
  <2> QED
    BY <1>2, <2>1, <2>2, <2>3, <2>4 DEF GateNext
<1> QED
  BY <1>1, <1>2, PTL DEF GateSpec

(* Nothing stands against an activation: what that means.                  *)
LEMMA NothingAgainst ==
  ASSUME NEW h \in HandTypes, NEW c, Blockers(h, c) = {}, c.verdict = "activated_case"
  PROVE  /\ \A a \in Agents : h.status[a] = "complete"
         /\ \E b \in h.scenario.base : b[1] >= 0
         /\ \A t \in BreakTypes : h.tests[t].status = "not_triggered"
         /\ h.blockers = {}
         /\ h.view["engine"] \in {"multiple_primary", "multiple_only"} => FundamentalEngine(h)
         /\ \A k \in c.claims : k.kind # "limited"
<1>1. \A condition, code : When(condition, code) = {} => ~condition
  BY DEF When
<1>2. /\ AgentBlockers(h) = {} /\ SellBlockers(h) = {}
      /\ When(h.scenario.status # "available", "deterministic_valuation_unavailable") = {}
      /\ When(h.reverse # "available", "reverse_dcf_unavailable") = {}
      /\ When(h.scenario.status = "available" /\ h.reverse = "available" /\ ~HurdleHolds(h, c),
              "required_return_hurdle_unsatisfied") = {}
      /\ When(HighConflict(h, c.verdict), "high_severity_conflict") = {}
      /\ When(\E k \in c.claims : k.kind = "limited", "unassessable_final_evidence") = {}
  BY DEF Blockers
<1>3. \A a \in Agents : h.status[a] = "complete"
  <2>1. \A a \in Agents : When(h.status[a] # "complete", "incomplete_specialist") = {}
    BY <1>2 DEF AgentBlockers
  <2> QED
    BY <1>1, <2>1
<1>4. Present(h, "sell_conditions") /\ Present(h, "growth_valuation")
  BY <1>3 DEF Present, Agents
<1>5. HurdleHolds(h, c)
  BY <1>1, <1>2
<1>6. \E b \in h.scenario.base : b[1] >= 0
  <2> DEFINE measured == h.scenario.base # {} /\ h.hurdle
             low == {b[1] : b \in h.scenario.base}
  <2>1. measured /\ \A x \in low : x >= 0
    BY <1>5 DEF HurdleHolds
  <2> QED
    BY <2>1
<1>7. /\ "triggered" \notin {h.tests[t].status : t \in BreakTypes}
      /\ "unassessable" \notin {h.tests[t].status : t \in BreakTypes}
      /\ h.blockers = {}
  <2> DEFINE statuses == {h.tests[t].status : t \in BreakTypes}
  <2>1. /\ When("triggered" \in statuses, "causal_sell_break_triggered") = {}
        /\ When(h.blockers # {}, "causal_activation_blocker") = {}
        /\ When("unassessable" \in statuses, "sell_conditions_unassessable") = {}
    BY <1>2, <1>4 DEF SellBlockers
  <2> HIDE DEF statuses
  <2>2. "triggered" \notin statuses /\ "unassessable" \notin statuses /\ h.blockers = {}
    BY <1>1, <2>1
  <2> QED
    BY <2>2 DEF statuses
<1>8. \A t \in BreakTypes : h.tests[t].status = "not_triggered"
  <2>1. \A t \in BreakTypes : h.tests[t].status \in {"not_triggered", "triggered", "unassessable"}
    BY DEF HandTypes, SellTests
  <2> QED
    BY <1>7, <2>1
<1>9. h.view["engine"] \in {"multiple_primary", "multiple_only"} => FundamentalEngine(h)
  <2>1. ~MultipleConflict(h, "activated_case")
    BY <1>1, <1>2 DEF HighConflict
  <2>2. View(h, "engine") = h.view["engine"]
    BY <1>4 DEF View, FieldsOf
  <2> QED
    BY <2>1, <2>2 DEF MultipleConflict
<1> QED
  BY <1>1, <1>2, <1>3, <1>6, <1>7, <1>8, <1>9

(* The records of a claim that is not limited were assessed.               *)
LEMMA RecordsAssessed ==
  ASSUME NEW h \in HandTypes, h.blockers = {}, NEW a \in Agents, NEW r \in Records(h, a),
         r.assessable, NEW s \in r.sources
  PROVE  s \in AssessedSources(h)
<1>1. ASSUME r \in SellRecords(h) PROVE s \in AssessedSources(h)
  <2>1. PICK t \in BreakTypes :
          r = Record(t, h.tests[t].sources, RecordDomains[t], h.tests[t].status # "unassessable")
    BY <1>1 DEF SellRecords
  <2>2. s \in h.tests[t].sources /\ h.tests[t].status # "unassessable"
    BY <2>1 DEF Record
  <2> QED
    BY <2>2 DEF AssessedSources
<1>2. ASSUME a \in FirstAgents, r \in ClaimRecords(h, a) PROVE s \in AssessedSources(h)
  <2>1. PICK k \in h.claims[a] :
          r = Record(k.id, k.sources, Widened(k.domain), k.direction # "unassessable")
    BY <1>2 DEF ClaimRecords
  <2>2. s \in k.sources /\ k.direction # "unassessable"
    BY <2>1 DEF Record
  <2>3. k \in UNION {h.claims[x] : x \in FirstAgents}
    BY <1>2
  <2> QED
    BY <2>2, <2>3 DEF AssessedSources
<1>3. ASSUME r \in LedgerRecords(h) PROVE s \in AssessedSources(h)
  <2>1. PICK row \in h.ledger :
          r = Record(row.id, row.sources, {"management"}, row.result \notin Untested)
    BY <1>3 DEF LedgerRecords
  <2>2. s \in row.sources /\ row.result \notin Untested
    BY <2>1 DEF Record
  <2> QED
    BY <2>2 DEF AssessedSources
<1>4. ASSUME r \in MarginRecords(h) PROVE s \in AssessedSources(h)
  <2>1. s \in h.supporting \/ s \in h.contrary
    BY <1>4 DEF MarginRecords, Record
  <2> QED
    BY <2>1 DEF AssessedSources
<1>5. ASSUME r \in BundleRecords(h) PROVE s \in AssessedSources(h)
  <2>1. PICK x \in h.bundles : r = Record(x.id, x.sources, {BundleDomains[x.field]}, TRUE)
    BY <1>5 DEF BundleRecords
  <2>2. s \in x.sources
    BY <2>1 DEF Record
  <2> QED
    BY <2>2 DEF AssessedSources
<1>6. CASE a = "sell_conditions"
  BY <1>1, <1>6 DEF Records
<1>7. CASE a # "sell_conditions"
  <2>1. a \in FirstAgents
    BY <1>7 DEF FirstAgents
  <2>2. r \in ClaimRecords(h, a) \cup LedgerRecords(h) \cup MarginRecords(h) \cup BundleRecords(h)
    BY <1>7 DEF Records
  <2> QED
    BY <1>2, <1>3, <1>4, <1>5, <2>1, <2>2
<1> QED
  BY <1>6, <1>7

(* What a claim that is not limited may rest on.                           *)
LEMMA SourcesAssessed ==
  ASSUME NEW h \in HandTypes, NEW k, ClaimHolds(h, k), k.kind # "limited", h.blockers = {}
  PROVE  k.sources \ h.deterministic \subseteq AssessedSources(h)
<1> DEFINE open == k.kind = "limited"
<1> SUFFICES ASSUME NEW s \in k.sources \ h.deterministic PROVE s \in AssessedSources(h)
  OBVIOUS
<1>1. s \in Backing(h, k)
  BY DEF ClaimHolds
<1>2. PICK r \in References(h, open) : s \in r.sources
  BY <1>1 DEF Backing, Matching
<1>3. PICK a \in Agents : r \in Records(h, a) /\ r.assessable
  BY <1>2 DEF References
<1> QED
  BY <1>2, <1>3, RecordsAssessed

(* An activation that stands has passed every gate, also when it was       *)
(* judged again, and a proposed activation that ends as a rejection has a  *)
(* cause that a specialist found, whatever was answered.                   *)
THEOREM GatesDecideActivation == GateSpec => []ActivationIsDecidedByGates
<1>1. GateInv => ActivationIsEarned
  <2> SUFFICES ASSUME GateInv, Concluded PROVE ActivationIsEarned
    BY DEF ActivationIsEarned
  <2>1. hand \in HandTypes /\ (verdict.investable => verdict.verdict = "activated_case")
    BY DEF GateInv
  <2>2. ASSUME verdict.verdict = "activated_case"
        PROVE  /\ \A a \in Agents : /\ hand.status[a] = "complete"
                                     /\ CapRank[verdict.confidence] <= CapRank[hand.cap[a]]
               /\ \E b \in hand.scenario.base : b[1] >= 0
               /\ \A t \in BreakTypes : hand.tests[t].status = "not_triggered"
               /\ hand.view["engine"] \in {"multiple_primary", "multiple_only"} =>
                    FundamentalEngine(hand)
               /\ \A k \in verdict.claims :
                    k.sources \ hand.deterministic \subseteq AssessedSources(hand)
    <3>1. PICK c \in CandidateTypes :
            /\ c.verdict = "activated_case" /\ c.claims = verdict.claims /\ Blockers(hand, c) = {}
            /\ \A k \in c.claims : ClaimHolds(hand, k)
            /\ \A cap \in Caps(hand) : CapRank[verdict.confidence] <= CapRank[cap]
      BY <2>2 DEF GateInv, Passing
    <3>2. /\ \A a \in Agents : hand.status[a] = "complete"
          /\ \E b \in hand.scenario.base : b[1] >= 0
          /\ \A t \in BreakTypes : hand.tests[t].status = "not_triggered"
          /\ hand.blockers = {}
          /\ hand.view["engine"] \in {"multiple_primary", "multiple_only"} =>
               FundamentalEngine(hand)
          /\ \A k \in c.claims : k.kind # "limited"
      BY <2>1, <3>1, NothingAgainst
    <3>3. \A a \in Agents : hand.cap[a] \in Caps(hand)
      BY <3>2 DEF Caps, Present
    <3>4. ASSUME NEW k \in verdict.claims
          PROVE  k.sources \ hand.deterministic \subseteq AssessedSources(hand)
      BY <2>1, <3>1, <3>2, <3>4, SourcesAssessed
    <3> QED
      BY <3>1, <3>2, <3>3, <3>4
  <2> QED
    BY <2>1, <2>2 DEF ActivationIsEarned
<1>2. GateInv => RejectionHasACause
  <2> SUFFICES ASSUME GateInv, Concluded, proposal.verdict = "activated_case",
                      verdict.verdict = "reject"
               PROVE  \E t \in Triggered(hand), a \in FirstAgents : \E k \in hand.claims[a] :
                        /\ k.id \in hand.tests[t].claims /\ k.sources # {}
                        /\ k.sources \subseteq hand.known
                        /\ \/ k.direction \in {"negative", "mixed"}
                           \/ t = "superior_evidence_or_opportunity"
    BY DEF RejectionHasACause
  <2>1. hand \in HandTypes /\ Traced(hand) /\ Broke(hand)
    BY DEF GateInv, Concluded
  <2>2. PICK t \in BreakTypes : hand.tests[t].status = "triggered"
    BY <2>1 DEF Broke
  <2>3. SellHolds(hand)
    BY <2>1, <2>2 DEF Traced, Broke, Present
  <2>4. PICK k \in CitedClaims(hand, hand.tests[t]) : Causal(hand, t, hand.tests[t], k)
    BY <2>2, <2>3 DEF SellHolds, TestHolds
  <2>5. PICK a \in FirstAgents : k \in hand.claims[a]
    <3>1. k \in Upstream(hand) /\ k.structured
      BY <2>4 DEF CitedClaims, Causal
    <3>2. \A row : ~LedgerClaim(row).structured
      BY DEF LedgerClaim
    <3> QED
      BY <3>1, <3>2 DEF Upstream
  <2>6. k.id \in hand.tests[t].claims
    BY <2>4 DEF CitedClaims
  <2>7. /\ k.sources # {} /\ k.sources \subseteq hand.known
        /\ k.direction \in {"negative", "mixed"} \/ t = "superior_evidence_or_opportunity"
    BY <2>4 DEF Causal
  <2>8. t \in Triggered(hand)
    BY <2>1, <2>2 DEF Triggered, HandTypes
  <2> QED
    BY <2>5, <2>6, <2>7, <2>8
<1> QED
  BY <1>1, <1>2, GateInvariant, PTL DEF ActivationIsDecidedByGates
-----------------------------------------------------------------------------
(* The backtest.  What is stored of a company is dated by the day it is    *)
(* stored on; a report without a date ended before.                        *)
StoreOK ==
  /\ today \in Nat
  /\ db \in [reports : SUBSET Reports, snapshots : SUBSET (0 .. today),
             prices : SUBSET (0 .. today)]
PeriodsOK ==
  /\ periods \in Seq({periods[i] : i \in DOMAIN periods})
  /\ \A i \in DOMAIN periods : periods[i].date \in Nat
BacktestInv ==
  /\ StoreOK /\ PeriodsOK
  /\ calibration # None => calibration = Calibrated(Usable)

(* What a step of a day adds is not known the day before.                  *)
OnlyAdds(reports, snapshots, prices) ==
  /\ today' >= today
  /\ db' = [reports |-> db.reports \cup reports, snapshots |-> db.snapshots \cup snapshots,
            prices |-> db.prices \cup prices]
  /\ snapshots \cup prices \subseteq {today}
  /\ reports \subseteq Reports
  /\ \A r \in reports : \A day \in 0 .. today - 1 : ~Public(r, day)

LEMMA PublishAdds ==
  ASSUME StoreOK, NEW type \in {"interim", "year"}, NEW year \in Nat, NEW period \in 1 .. Interims,
         NEW dated \in BOOLEAN, Publish(type, year, period, dated)
  PROVE  \E reports : OnlyAdds(reports, {}, {}) /\ today' = today
<1> DEFINE end == year * YearDays + (period * YearDays) \div Interims - 1
           report == [type |-> type, year |-> year, period |-> period, end |-> end,
                      date |-> IF dated THEN today ELSE None]
<1>1. end \in Int
  <2>1. Interims \in Nat \ {0} /\ YearDays \in Nat
    BY BacktestAssumption
  <2>2. period * YearDays \in Int /\ year * YearDays \in Int
    BY <2>1
  <2>3. (period * YearDays) \div Interims \in Int
    BY <2>1, <2>2
  <2> QED
    BY <2>2, <2>3
<1>2. /\ ~dated => today <= end + (IF type = "year" THEN AnnualLag ELSE InterimLag)
      /\ today' = today
      /\ db' = [db EXCEPT !.reports = db.reports \cup {report}]
  BY DEF Publish, Stored
<1> HIDE DEF end
<1>3. report \in Reports
  BY <1>1 DEF Reports, StoreOK
<1>4. ASSUME NEW day \in 0 .. today - 1 PROVE ~Public(report, day)
  <2>1. AnnualLag \in Nat /\ InterimLag \in Nat /\ today \in Nat /\ None \notin Int
    BY BacktestAssumption DEF StoreOK
  <2>2. CASE dated
    BY <2>1, <2>2 DEF Public
  <2>3. CASE ~dated
    BY <2>1, <2>3, <1>1, <1>2 DEF Public
  <2> QED
    BY <2>2, <2>3
<1>5. db' = [reports |-> db.reports \cup {report}, snapshots |-> db.snapshots \cup {},
             prices |-> db.prices \cup {}]
  BY <1>2 DEF StoreOK
<1>6. today' >= today
  BY <1>2 DEF StoreOK
<1> HIDE DEF report
<1>7. OnlyAdds({report}, {}, {})
  BY <1>3, <1>4, <1>5, <1>6 DEF OnlyAdds
<1> QED
  BY <1>2, <1>7

LEMMA DayStepAdds ==
  ASSUME StoreOK, DayStep
  PROVE  \E reports, snapshots, prices : OnlyAdds(reports, snapshots, prices)
<1>1. CASE Pass
  <2>1. OnlyAdds({}, {}, {})
    BY <1>1 DEF Pass, OnlyAdds, StoreOK
  <2> QED
    BY <2>1
<1>2. CASE SaveSnapshot
  <2>1. OnlyAdds({}, {today}, {})
    BY <1>2 DEF SaveSnapshot, Stored, OnlyAdds, StoreOK
  <2> QED
    BY <2>1
<1>3. CASE SavePrice
  <2>1. OnlyAdds({}, {}, {today})
    BY <1>3 DEF SavePrice, Stored, OnlyAdds, StoreOK
  <2> QED
    BY <2>1
<1>4. ASSUME NEW year \in 0 .. YearOf(LastDay), NEW period \in 1 .. Interims, NEW dated \in BOOLEAN,
             NEW type \in {"interim", "year"}, Publish(type, year, period, dated)
      PROVE  \E reports, snapshots, prices : OnlyAdds(reports, snapshots, prices)
  <2>1. year \in Nat
    OBVIOUS
  <2> QED
    BY <1>4, <2>1, PublishAdds
<1> QED
  BY <1>1, <1>2, <1>3, <1>4 DEF DayStep

LEMMA StepAdds ==
  ASSUME StoreOK, [BacktestNext]_backtestVars
  PROVE  \E reports, snapshots, prices : OnlyAdds(reports, snapshots, prices)
<1>1. CASE UNCHANGED <<today, db>>
  <2>1. OnlyAdds({}, {}, {})
    BY <1>1 DEF OnlyAdds, StoreOK
  <2> QED
    BY <2>1
<1>2. CASE DayStep
  BY <1>2, DayStepAdds
<1> QED
  BY <1>1, <1>2 DEF BacktestNext, Calibrate, MeasurePeriod, backtestVars

LEMMA AddsKeepStore ==
  ASSUME StoreOK, NEW reports, NEW snapshots, NEW prices, OnlyAdds(reports, snapshots, prices),
         today' \in Nat
  PROVE  StoreOK'
<1>1. Reports' = Reports
  BY DEF Reports
<1>2. 0 .. today \subseteq 0 .. today' /\ {today} \subseteq 0 .. today'
  BY DEF StoreOK, OnlyAdds
<1>3. /\ db.reports \cup reports \in SUBSET Reports
      /\ db.snapshots \cup snapshots \in SUBSET (0 .. today')
      /\ db.prices \cup prices \in SUBSET (0 .. today')
  BY <1>2 DEF StoreOK, OnlyAdds
<1> QED
  BY <1>1, <1>3 DEF StoreOK, OnlyAdds

(* Nothing that is added changes what is known of a day before.            *)
LEMMA AddsKeepThePast ==
  ASSUME StoreOK, NEW reports, NEW snapshots, NEW prices, OnlyAdds(reports, snapshots, prices),
         NEW day \in 0 .. today - 1
  PROVE  Reconstructed(day)' = Reconstructed(day)
<1>1. ASSUME NEW type PROVE ReportsAsOf(type, day)' = ReportsAsOf(type, day)
  <2>1. \A r : Public(r, day)' <=> Public(r, day)
    BY DEF Public
  <2> QED
    BY <2>1 DEF ReportsAsOf, OnlyAdds
<1>2. today \in Nat /\ day \in Int /\ ~(today <= day)
  BY DEF StoreOK
<1>3. PriceAsOf(day)' = PriceAsOf(day)
  <2>1. {d \in db.prices : d <= day /\ day - d <= PriceAge}'
          = {d \in db.prices : d <= day /\ day - d <= PriceAge}
    BY <1>2 DEF OnlyAdds
  <2> QED
    BY <2>1 DEF PriceAsOf
<1>4. SnapshotAsOf(day)' = SnapshotAsOf(day)
  <2>1. {d \in db.snapshots : d <= day}' = {d \in db.snapshots : d <= day}
    BY <1>2 DEF OnlyAdds
  <2> QED
    BY <2>1 DEF SnapshotAsOf
<1>5. Quarters(day)' = Quarters(day)
  <2>1. ReportsAsOf("interim", day)' = ReportsAsOf("interim", day)
    BY <1>1
  <2> QED
    BY <2>1 DEF Quarters
<1>6. /\ ReportsAsOf("interim", day)' = ReportsAsOf("interim", day)
      /\ ReportsAsOf("year", day)' = ReportsAsOf("year", day)
  BY <1>1
<1> QED
  BY <1>3, <1>4, <1>5, <1>6 DEF Reconstructed

(* Periods are measured on stored days, in their order.                    *)
LEMMA PeriodIsADay ==
  ASSUME StoreOK, PeriodsOK, NEW case, MeasurePeriod(case)
  PROVE  \E day \in Nat : periods' = Append(periods, Measured(day, case))
<1> DEFINE due == {d \in PeriodDates : \A i \in DOMAIN periods : periods[i].date < d}
<1>1. due # {} /\ periods' = Append(periods, Measured(Min(due), case))
  BY DEF MeasurePeriod
<1>2. due \in SUBSET (0 .. today) /\ today \in Nat
  BY DEF StoreOK, PeriodDates
<1>3. Min(due) \in due
  BY <1>1, <1>2, MinIsLeast
<1>4. \A d \in due : d \in Nat
  BY <1>2
<1> HIDE DEF due
<1>5. Min(due) \in Nat
  BY <1>3, <1>4
<1> QED
  BY <1>1, <1>5

LEMMA AppendKeepsPeriods ==
  ASSUME PeriodsOK, NEW period, period.date \in Nat, periods' = Append(periods, period)
  PROVE  PeriodsOK'
<1> DEFINE S == {periods[i] : i \in DOMAIN periods} \cup {period}
<1>1. periods \in Seq(S)
  BY DEF PeriodsOK
<1>2. /\ periods' \in Seq(S)
      /\ Len(periods') = Len(periods) + 1
      /\ \A i \in 1 .. Len(periods) : periods'[i] = periods[i]
      /\ periods'[Len(periods) + 1] = period
  BY <1>1, AppendProperties
<1>3. DOMAIN periods' = 1 .. Len(periods) + 1 /\ DOMAIN periods = 1 .. Len(periods) /\ Len(periods) \in Nat
  BY <1>1, <1>2
<1>4. \A i \in DOMAIN periods' : periods'[i].date \in Nat
  BY <1>2, <1>3 DEF PeriodsOK
<1>5. periods' \in Seq({periods'[i] : i \in DOMAIN periods'})
  <2> DEFINE T == {periods'[i] : i \in DOMAIN periods'}
  <2>1. periods' \in [1 .. Len(periods) + 1 -> S]
    BY <1>2, LenProperties
  <2>2. periods' \in [1 .. Len(periods) + 1 -> T]
    BY <1>3, <2>1
  <2>3. Len(periods) + 1 \in Nat
    BY <1>3
  <2> HIDE DEF T
  <2>4. periods' \in Seq(T)
    BY <2>2, <2>3, SeqDef
  <2> QED
    BY <2>4 DEF T
<1> QED
  BY <1>4, <1>5 DEF PeriodsOK

LEMMA BacktestInvStep ==
  ASSUME BacktestInv, [BacktestNext]_backtestVars
  PROVE  BacktestInv'
<1>1. StoreOK'
  <2>1. today' \in Nat
    <3>1. today \in Nat
      BY DEF BacktestInv, StoreOK
    <3>2. CASE DayStep
      <4>1. today' = today \/ today' = today + 1
        BY <3>2 DEF DayStep, Pass, SaveSnapshot, SavePrice, Publish, Stored
      <4> QED
        BY <3>1, <4>1
    <3>3. CASE ~DayStep
      BY <3>1, <3>3 DEF BacktestNext, Calibrate, MeasurePeriod, backtestVars
    <3> QED
      BY <3>2, <3>3
  <2> QED
    BY <2>1, StepAdds, AddsKeepStore DEF BacktestInv
<1>2. CASE UNCHANGED <<periods, calibration>>
  <2>1. PeriodsOK'
    BY <1>2 DEF BacktestInv, PeriodsOK
  <2>2. Usable' = Usable
    BY <1>2 DEF Usable, CsvRows
  <2>3. Calibrated(Usable)' = Calibrated(Usable)
    BY <2>2 DEF Calibrated
  <2> QED
    BY <1>1, <1>2, <2>1, <2>3 DEF BacktestInv
<1>3. CASE Calibrate
  <2>1. PeriodsOK'
    BY <1>3 DEF BacktestInv, PeriodsOK, Calibrate
  <2>2. Usable' = Usable
    BY <1>3 DEF Usable, CsvRows, Calibrate
  <2>3. Calibrated(Usable)' = Calibrated(Usable)
    BY <2>2 DEF Calibrated
  <2> QED
    BY <1>1, <1>3, <2>1, <2>3 DEF BacktestInv, Calibrate
<1>4. ASSUME NEW case \in PeriodCases, MeasurePeriod(case)
      PROVE  BacktestInv'
  <2>1. PICK day \in Nat : periods' = Append(periods, Measured(day, case))
    BY <1>4, PeriodIsADay DEF BacktestInv
  <2>2. Measured(day, case).date \in Nat
    BY DEF Measured
  <2>3. PeriodsOK'
    BY <2>1, <2>2, AppendKeepsPeriods DEF BacktestInv
  <2>4. calibration' = None
    BY <1>4 DEF MeasurePeriod
  <2> QED
    BY <1>1, <2>3, <2>4 DEF BacktestInv
<1>5. CASE DayStep
  BY <1>2, <1>5 DEF DayStep, Pass, SaveSnapshot, SavePrice, Publish, Stored
<1> QED
  BY <1>2, <1>3, <1>4, <1>5 DEF BacktestNext, backtestVars

LEMMA BacktestInvariant == BacktestSpec => []BacktestInv
<1>1. BacktestInit => BacktestInv
  <2> SUFFICES ASSUME BacktestInit PROVE BacktestInv
    OBVIOUS
  <2>1. PICK start \in Databases : today = start.today /\ db = start.db
    BY DEF BacktestInit
  <2>2. StoreOK
    BY <2>1, BacktestAssumption DEF StoreOK
  <2>3. PeriodsOK
    BY DEF BacktestInit, PeriodsOK
  <2> QED
    BY <2>2, <2>3 DEF BacktestInv, BacktestInit
<1> QED
  BY <1>1, BacktestInvStep, PTL DEF BacktestSpec

(* Whatever is published, fetched or traded later, the reports, prices and *)
(* KPI values that a period of the past is ranked with stay the same.      *)
THEOREM PastIsReconstructed == BacktestSpec => PastIsFixed
<1>1. ASSUME BacktestInv, [BacktestNext]_backtestVars, NEW day \in 0 .. today - 1
      PROVE  Reconstructed(day)' = Reconstructed(day)
  BY <1>1, StepAdds, AddsKeepThePast DEF BacktestInv
<1>2. BacktestInv /\ [BacktestNext]_backtestVars
        => [\A day \in 0 .. today - 1 : Reconstructed(day)' = Reconstructed(day)]_backtestVars
  BY <1>1
<1> QED
  BY <1>2, BacktestInvariant, PTL DEF BacktestSpec, PastIsFixed

(* Of n days, a day and those before, and a day and those after, are n + 1.*)
LEMMA BeforeAndAfter ==
  ASSUME NEW D, IsFiniteSet(D), D \subseteq Int, NEW d \in D
  PROVE  /\ Cardinality({x \in D : x <= d}) + Cardinality({x \in D : x >= d}) = Cardinality(D) + 1
         /\ Cardinality({x \in D : x <= d}) \in Nat /\ Cardinality({x \in D : x >= d}) \in Nat
         /\ Cardinality(D) \in Nat
<1> DEFINE B == {x \in D : x <= d}
           A == {x \in D : x >= d}
<1>1. IsFiniteSet(A) /\ IsFiniteSet(B)
  BY FS_Subset, A \subseteq D, B \subseteq D
<1>2. B \cup A = D /\ B \cap A = {d}
  <2>1. \A x \in D : (x <= d \/ x >= d) /\ (x <= d /\ x >= d => x = d) /\ d <= d /\ d >= d
    <3>1. d \in Int /\ \A x \in D : x \in Int
      OBVIOUS
    <3> QED
      BY <3>1
  <2>2. B \cup A = D
    BY <2>1, Zenon
  <2>3. B \cap A = {d}
    BY <2>1, Zenon
  <2> QED
    BY <2>2, <2>3
<1>3. Cardinality(D) = Cardinality(B) + Cardinality(A) - Cardinality({d})
  <2> HIDE DEF A, B
  <2> QED
    BY <1>1, <1>2, FS_Union
<1>4. Cardinality({d}) = 1
  BY FS_Singleton
<1>5. Cardinality(A) \in Nat /\ Cardinality(B) \in Nat /\ Cardinality(D) \in Nat
  BY <1>1, FS_CardinalityType
<1> HIDE DEF A, B
<1>6. Cardinality(B) + Cardinality(A) = Cardinality(D) + 1
  BY <1>3, <1>4, <1>5
<1> QED
  BY <1>5, <1>6 DEF A, B

LEMMA DatesAreDays ==
  ASSUME PeriodsOK
  PROVE  Dates(Usable) \subseteq Int /\ IsFiniteSet(Dates(Usable))
<1> DEFINE days == {periods[i].date : i \in 1 .. Len(periods)}
<1>1. DOMAIN periods = 1 .. Len(periods) /\ Len(periods) \in Nat
  BY DEF PeriodsOK
<1>2. Dates(Usable) \subseteq days
  BY <1>1 DEF Dates, Usable, CsvRows
<1>3. days \subseteq Int
  BY <1>1 DEF PeriodsOK
<1>4. IsFiniteSet(days)
  <2> DEFINE date == [i \in 1 .. Len(periods) |-> periods[i].date]
  <2>1. date \in Surjection(1 .. Len(periods), days)
    BY DEF Surjection
  <2>2. IsFiniteSet(1 .. Len(periods))
    BY <1>1, FS_Interval
  <2> HIDE DEF date, days
  <2> QED
    BY <2>1, <2>2, FS_Surjection
<1> QED
  BY <1>2, <1>3, <1>4, FS_Subset

(* The weights are chosen before the holdout is looked at: whatever number *)
(* of dates there is, other returns on the later half leave the choice.    *)
THEOREM WeightsChosenBlind == BacktestSpec => []HoldoutStaysUnseen
<1>1. BacktestInv => HoldoutStaysUnseen
  <2> SUFFICES ASSUME BacktestInv, calibration # None, NEW gain \in {-1, 1}, NEW company
               PROVE  LET dates == Dates(Usable)
                          later == {d \in dates : 2 * Cardinality({x \in dates : x >= d})
                                                    <= Cardinality(dates) + 1}
                          other == {IF r.date \in later /\ r.company = company
                                    THEN [r EXCEPT !.return = r.return + 4 * gain]
                                    ELSE r : r \in Usable}
                      IN  Calibrated(other).weights = calibration.weights
    BY DEF HoldoutStaysUnseen
  <2> DEFINE dates == Dates(Usable)
             later == {d \in dates : 2 * Cardinality({x \in dates : x >= d}) <= Cardinality(dates) + 1}
             Changed(r) == IF r.date \in later /\ r.company = company
                           THEN [r EXCEPT !.return = r.return + 4 * gain] ELSE r
             other == {Changed(r) : r \in Usable}
  <2>1. dates \subseteq Int /\ IsFiniteSet(dates)
    BY DatesAreDays DEF BacktestInv
  <2>2. later \cap Split(dates).train = {}
    <3> HIDE DEF dates
    <3> SUFFICES ASSUME NEW d \in dates, 2 * Cardinality({x \in dates : x >= d}) <= Cardinality(dates) + 1,
                        2 * Cardinality({x \in dates : x <= d}) <= Cardinality(dates)
                 PROVE  FALSE
      BY DEF Split
    <3> DEFINE before == Cardinality({x \in dates : x <= d})
               after == Cardinality({x \in dates : x >= d})
               all == Cardinality(dates)
    <3>1. before + after = all + 1 /\ before \in Nat /\ after \in Nat /\ all \in Nat
      BY <2>1, BeforeAndAfter
    <3>2. 2 * after <= all + 1 /\ 2 * before <= all
      OBVIOUS
    <3> HIDE DEF before, after, all
    <3> QED
      BY <3>1, <3>2
  <2>3. \A r \in Usable : Changed(r).date = r.date
    BY DEF Usable, CsvRows
  <2>4. Dates(other) = dates
    <3> HIDE DEF Changed
    <3> QED
      BY <2>3 DEF Dates
  <2>5. {r \in other : r.date \in Split(dates).train} = {r \in Usable : r.date \in Split(dates).train}
    <3>1. \A r \in Usable : r.date \in Split(dates).train => Changed(r) = r
      BY <2>2
    <3> HIDE DEF Changed, dates
    <3> QED
      BY <2>3, <3>1
  <2> HIDE DEF other, dates, later
  <2>6. Calibrated(other).weights = Calibrated(Usable).weights
    BY <2>4, <2>5 DEF Calibrated, dates
  <2>7. Calibrated(other).weights = calibration.weights
    BY <2>6 DEF BacktestInv
  <2> QED
    BY <2>7 DEF other, dates, later
<1> QED
  BY <1>1, BacktestInvariant, PTL
=============================================================================
