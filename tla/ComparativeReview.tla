--------------------------- MODULE ComparativeReview ---------------------------
(***************************************************************************)
(* ComparativeReviewService beside the monthly ranking: a model compares   *)
(* the evidence behind the analyses of one ranking and calibrates their    *)
(* confidence, and the ranker runs again with the calibrated labels.  The  *)
(* response is stored once per ranking, accepted once, and what it leads   *)
(* to is then added to the row of the ranking.  Each call is a step, so    *)
(* that new analyses, challenges, a kill and a second reviewer fit between *)
(* any two of them.                                                        *)
(***************************************************************************)
EXTENDS MonthlyRanking

VARIABLES
  reviews,     \* comparative_agent_reviews, by the month of the ranking
  provenance,  \* comparative_final_actionable_company_ids merged into rankings
  reviewer     \* the memory of the process that reviews, per process

reviewVars == <<reviews, provenance, reviewer>>
-----------------------------------------------------------------------------
Confidence == {"low", "medium", "high"}
Level(confidence) ==
  CASE confidence = "low" -> 0 [] confidence = "medium" -> 1 [] confidence = "high" -> 2

(* _confidence_change *)
Change(original, calibrated) ==
  CASE Level(calibrated) < Level(original) -> "lowered"
    [] Level(calibrated) > Level(original) -> "raised"
    [] OTHER -> "unchanged"

(* sound: the contract, qualitative prose and known sources.               *)
Calibrations == [to : Confidence, change : {"lowered", "unchanged", "raised"}]
Responses == [cases : Partial(Companies, Calibrations), sound : BOOLEAN]

Ranks == Partial(Companies, [economic : Economic, tier : Tiers])
Actionable(ranks) == {c \in DOMAIN ranks : ranks[c].tier \in {"A", "B"}}

ReviewRows ==
  [status : {"pending", "rejected", "accepted"}, raw : Responses, ranks : Ranks]

ReviewPositions ==
  {"idle", "lookup", "ask", "save", "validate", "rerank", "reject", "accept", "attach"}

ReviewMemories ==
  [pc : ReviewPositions, month : Maybe, cases : Partial(Companies, Candidates),
   raw : Responses, ranks : Ranks]

Unread == [cases |-> << >>, sound |-> FALSE]
NoReview ==
  [pc |-> "idle", month |-> 0, cases |-> << >>, raw |-> Unread, ranks |-> << >>]

ReviewInit ==
  /\ reviews = << >> /\ provenance = << >>
  /\ reviewer = [p \in Processes |-> NoReview]

ReviewAt(p, pc) == reviewer[p].pc = pc
Review(p, memory) == reviewer' = [reviewer EXCEPT ![p] = memory]
-----------------------------------------------------------------------------
(* The ranking named by the command and the latest validated analyses.     *)
StartReview(p, m) ==
  /\ ReviewAt(p, "idle") /\ m \in DOMAIN rankings
  /\ Review(p, [NoReview EXCEPT !.pc = "lookup", !.month = m, !.cases = theses])
  /\ UNCHANGED <<reviews, provenance>>

(* get_by_ranking_run: an accepted review is only attached again, another  *)
(* one is validated again, and only without one the model is asked.        *)
LookUpReview(p) ==
  LET m == reviewer[p] IN
  /\ ReviewAt(p, "lookup")
  /\ Review(p,
       IF m.month \notin DOMAIN reviews THEN [m EXCEPT !.pc = "ask"]
       ELSE IF reviews[m.month].status = "accepted"
            THEN [m EXCEPT !.pc = "attach", !.ranks = reviews[m.month].ranks]
            ELSE [m EXCEPT !.pc = "validate", !.raw = reviews[m.month].raw])
  /\ UNCHANGED <<reviews, provenance>>

(* The prompt has the ranked companies of the analyses it was given; the   *)
(* model answers for some of them, or with something unsound.              *)
Prompted(m) == DOMAIN m.cases \cap DOMAIN rankings[m.month].cases

Answer(m, calibrated) ==
  [cases |-> [c \in DOMAIN calibrated |->
                [to |-> calibrated[c], change |-> Change(m.cases[c].confidence, calibrated[c])]],
   sound |-> TRUE]

AskReviewer(p) ==
  LET m == reviewer[p] IN
  /\ ReviewAt(p, "ask")
  /\ \E response \in {Answer(m, calibrated) : calibrated \in Partial(Prompted(m), Confidence)}
                       \cup {Unread} :
       Review(p, [m EXCEPT !.pc = "save", !.raw = response])
  /\ UNCHANGED <<reviews, provenance>>

(* save_attempt: raises if the ranking already has a response.             *)
SaveAttempt(p) ==
  LET m == reviewer[p] IN
  /\ ReviewAt(p, "save")
  /\ reviews' = InsertOrGet(reviews, m.month,
                            [status |-> "pending", raw |-> m.raw, ranks |-> << >>])
  /\ Review(p, IF m.month \in DOMAIN reviews THEN NoReview ELSE [m EXCEPT !.pc = "validate"])
  /\ UNCHANGED provenance

(* _parse_and_validate, against the analyses the service was given.        *)
Valid(raw, cases) ==
  /\ raw.sound /\ DOMAIN raw.cases = DOMAIN cases
  /\ \A c \in DOMAIN raw.cases :
       raw.cases[c].change = Change(cases[c].confidence, raw.cases[c].to)

ValidateReview(p) ==
  LET m == reviewer[p] IN
  /\ ReviewAt(p, "validate")
  /\ Review(p, [m EXCEPT !.pc = IF Valid(m.raw, m.cases) THEN "rerank" ELSE "reject"])
  /\ UNCHANGED <<reviews, provenance>>

(* _rerank: the calibrated labels, the tiers the ranking held back, and    *)
(* the challenges that are open now.                                       *)
Reranked(m, open) ==
  LET ranking == rankings[m.month]
      held == {c \in DOMAIN ranking.cases : ranking.effective[c] # ranking.proposed[c]}
      economic(c) == IF c \in held /\ ProposedTier(m.cases[c]) # "IE"
                     THEN ranking.effective[c] ELSE ProposedTier(m.cases[c])
  IN  [c \in DOMAIN m.raw.cases |->
         LET case == [m.cases[c] EXCEPT !.confidence = m.raw.cases[c].to] IN
         [economic |-> economic(c), tier |-> FinalTier(economic(c), case, c \in open)]]

Rerank(p) ==
  LET m == reviewer[p] IN
  /\ ReviewAt(p, "rerank")
  /\ Review(p, [m EXCEPT !.pc = "accept", !.ranks = Reranked(m, blocked)])
  /\ UNCHANGED <<reviews, provenance>>

Undecided(m) == reviews[m].status \in {"pending", "rejected"}

(* reject: nothing happens to a review that is accepted by now.            *)
RejectReview(p) ==
  LET m == reviewer[p].month IN
  /\ ReviewAt(p, "reject")
  /\ reviews' = IF Undecided(m) THEN [reviews EXCEPT ![m].status = "rejected"] ELSE reviews
  /\ Review(p, NoReview)
  /\ UNCHANGED provenance

VariantAcceptReview(p) ==     \* accepted again by whoever comes last
  LET m == reviewer[p] IN
  /\ ReviewAt(p, "accept")
  /\ reviews' = [reviews EXCEPT ![m.month].status = "accepted", ![m.month].ranks = m.ranks]
  /\ Review(p, [m EXCEPT !.pc = "attach"])
  /\ UNCHANGED provenance

(* accept: raises if another process accepted it first.                    *)
AcceptReview(p) ==
  LET m == reviewer[p] IN
  /\ ReviewAt(p, "accept")
  /\ IF Undecided(m.month)
     THEN /\ reviews' = [reviews EXCEPT ![m.month].status = "accepted", ![m.month].ranks = m.ranks]
          /\ Review(p, [m EXCEPT !.pc = "attach"])
     ELSE UNCHANGED reviews /\ Review(p, NoReview)
  /\ UNCHANGED provenance

(* attach_to_ranking_run: merged once, into a row without the key.         *)
AttachReview(p) ==
  LET m == reviewer[p] IN
  /\ ReviewAt(p, "attach")
  /\ provenance' = InsertOrGet(provenance, m.month, Actionable(m.ranks))
  /\ Review(p, NoReview)
  /\ UNCHANGED reviews

(* A call fails or the process is killed.                                  *)
StopReview(p) ==
  /\ ~ReviewAt(p, "idle") /\ Review(p, NoReview)
  /\ UNCHANGED <<reviews, provenance>>

ReviewStep(p) ==
  \/ \E m \in Months : StartReview(p, m)
  \/ LookUpReview(p) \/ AskReviewer(p) \/ SaveAttempt(p) \/ ValidateReview(p)
  \/ Rerank(p) \/ RejectReview(p) \/ AcceptReview(p) \/ AttachReview(p) \/ StopReview(p)

ReviewNext ==
  \/ Next /\ UNCHANGED reviewVars
  \/ UNCHANGED vars /\ \E p \in Processes : ReviewStep(p)

ReviewSpec == Init /\ ReviewInit /\ [][ReviewNext]_<<vars, reviewVars>>
-----------------------------------------------------------------------------
(* What a ranking says of its review is what the accepted review came to,  *)
(* whoever accepted it and whoever attached it after a kill.               *)
ProvenanceIsAccepted ==
  \A m \in DOMAIN provenance :
    /\ m \in DOMAIN reviews /\ reviews[m].status = "accepted"
    /\ provenance[m] = Actionable(reviews[m].ranks)
=============================================================================
