----------------------- MODULE ThesisChallenges_proofs -----------------------
(***************************************************************************)
(* Proofs about ThesisChallenges, for any commands and bounds: its types,  *)
(* that revisions use the attached response, that answers follow the       *)
(* challenged thesis, and that every step is one of ChallengeDesk or shows *)
(* nothing on the desk.  At the end, about the behaviours of MCOperations, *)
(* what kills, retries and races can cost, and what they cannot change.    *)
(***************************************************************************)
EXTENDS MCOperations, FiniteSetTheorems, TLAPS

Inv ==
  /\ TypeOK /\ RowsOK /\ CommandsOK
  /\ RevisionsUseAttachedResponse /\ AnswerFollowsChallengedThesis

(* What every step does to the rows: they stay, a challenge keeps the      *)
(* revision it is about and the response it has, a response its challenge. *)
Grows ==
  /\ DOMAIN theses \subseteq DOMAIN theses'
  /\ \A t \in DOMAIN theses : theses'[t] = theses[t]
  /\ DOMAIN challenges \subseteq DOMAIN challenges'
  /\ \A c \in DOMAIN challenges :
       /\ challenges'[c].thesis = challenges[c].thesis
       /\ challenges[c].response # 0 => challenges'[c].response = challenges[c].response
  /\ DOMAIN raws \subseteq DOMAIN raws'
  /\ \A i \in DOMAIN raws : raws'[i].challenge = raws[i].challenge

RowTypes ==
  theses \in Seq(Theses) /\ challenges \in Seq(Challenges) /\ raws \in Seq(Raws)

LEMMA AppendFacts ==
  ASSUME NEW S, NEW s \in Seq(S), NEW e \in S
  PROVE  /\ Append(s, e) \in Seq(S)
         /\ Len(Append(s, e)) = Len(s) + 1
         /\ DOMAIN Append(s, e) = 1 .. Len(s) + 1
         /\ \A i \in DOMAIN s : Append(s, e)[i] = s[i]
         /\ Append(s, e)[Len(s) + 1] = e
OBVIOUS

LEMMA ExceptFacts ==
  ASSUME NEW S, NEW s \in Seq(S), NEW i \in DOMAIN s, NEW e \in S
  PROVE  /\ [s EXCEPT ![i] = e] \in Seq(S)
         /\ Len([s EXCEPT ![i] = e]) = Len(s)
         /\ DOMAIN [s EXCEPT ![i] = e] = DOMAIN s
         /\ [s EXCEPT ![i] = e][i] = e
         /\ \A j \in DOMAIN s : j # i => [s EXCEPT ![i] = e][j] = s[j]
OBVIOUS

LEMMA IdleType == Idle \in Memories
BY DEF Idle, Memories, Positions, Impacts

(* A command that a step does not move keeps what it may rely on.          *)
LEMMA UnmovedOK ==
  ASSUME RowTypes, Grows, NEW p \in Commands, cmd[p] \in Memories,
         CommandOK(p), cmd'[p] = cmd[p]
  PROVE  CommandOK(p)'
<1> DEFINE m == cmd[p]
<1>1. m.raw \in DOMAIN raws => m.raw # 0
  BY DEF RowTypes
<1>2. m.challenge # 0 => /\ m.challenge \in DOMAIN challenges'
                         /\ challenges'[m.challenge].thesis = m.thesis
  BY DEF CommandOK, Grows
<1>3. m.pc # "idle" => m.thesis \in DOMAIN theses'
  BY DEF CommandOK, Grows
<1>4. m.pc \in {"attach", "judge", "reject", "accept", "resolve"} =>
        /\ m.raw \in DOMAIN raws'
        /\ m.challenge # 0 => raws'[m.raw].challenge = m.challenge
  BY DEF CommandOK, Grows
<1>5. (m.pc \in {"judge", "reject", "accept", "resolve"} /\ m.challenge # 0) =>
        challenges'[m.challenge].response = m.raw
  BY <1>1 DEF CommandOK, Grows
<1>6. ASSUME m.pc \in {"accept", "resolve"}, m.saved # 0
      PROVE  /\ m.saved \in DOMAIN theses' /\ theses'[m.saved] = theses[m.saved]
             /\ theses'[m.thesis] = theses[m.thesis]
  BY <1>6 DEF CommandOK, Grows
<1>7. QED BY <1>2, <1>3, <1>4, <1>5, <1>6 DEF CommandOK

LEMMA IdleOK ==
  ASSUME NEW p \in Commands, cmd'[p] = Idle
  PROVE  CommandOK(p)'
BY DEF CommandOK, Idle

(* Enough for a step that moves one command.                               *)
LEMMA CommandsStep ==
  ASSUME Inv, RowTypes', Grows, NEW p \in Commands, NEW m \in Memories,
         cmd' = [cmd EXCEPT ![p] = m], CommandOK(p)'
  PROVE  cmd' \in [Commands -> Memories] /\ CommandsOK'
<1>1. cmd' \in [Commands -> Memories]
  BY DEF Inv, TypeOK
<1>2. ASSUME NEW q \in Commands, q # p
      PROVE  CommandOK(q)'
  BY <1>2, UnmovedOK DEF Inv, TypeOK, RowTypes, CommandsOK
<1>3. QED BY <1>1, <1>2 DEF CommandsOK

(* A step that adds or closes nothing keeps the rows' invariants.          *)
LEMMA RowsUnchanged ==
  ASSUME Inv, UNCHANGED <<theses, challenges>>, Grows
  PROVE  RowsOK' /\ RevisionsUseAttachedResponse' /\ AnswerFollowsChallengedThesis'
<1>1. RowsOK'
  BY DEF Inv, Grows, RowsOK
<1>2. RevisionsUseAttachedResponse'
  BY DEF Inv, Grows, RevisionsUseAttachedResponse
<1>3. AnswerFollowsChallengedThesis'
  BY DEF Inv, AnswerFollowsChallengedThesis
<1>4. QED BY <1>1, <1>2, <1>3

(* A new revision keeps the rows' invariants when it is older than none of *)
(* its sources and, if it answers a challenge, uses its response.          *)
LEMMA RevisionAdded ==
  ASSUME Inv, NEW e \in Theses, theses' = Append(theses, e),
         UNCHANGED <<challenges, raws>>,
         e.previous = Len(theses), e.content \in 1 .. Len(theses) + 1,
         e.challenge # 0 => /\ e.challenge \in DOMAIN challenges
                            /\ challenges[e.challenge].response = e.raw
                            /\ e.raw \in DOMAIN raws
                            /\ raws[e.raw].challenge = e.challenge
  PROVE  /\ Grows /\ RowTypes'
         /\ RowsOK' /\ RevisionsUseAttachedResponse' /\ AnswerFollowsChallengedThesis'
<1>1. /\ theses \in Seq(Theses) /\ theses' \in Seq(Theses)
      /\ DOMAIN theses = 1 .. Len(theses) /\ DOMAIN theses' = 1 .. Len(theses) + 1
      /\ \A t \in DOMAIN theses : theses'[t] = theses[t]
      /\ theses'[Len(theses) + 1] = e
      /\ Len(theses) \in Nat
  BY AppendFacts DEF Inv, TypeOK
<1>2. Grows /\ RowTypes'
  BY <1>1 DEF Grows, RowTypes, Inv, TypeOK
<1>3. RowsOK'
  BY <1>1 DEF Inv, RowsOK
<1>4. RevisionsUseAttachedResponse'
  BY <1>1 DEF Inv, RevisionsUseAttachedResponse
<1>5. AnswerFollowsChallengedThesis'
  BY <1>1 DEF Inv, RowsOK, AnswerFollowsChallengedThesis
<1>6. QED BY <1>2, <1>3, <1>4, <1>5

LEMMA ChallengeFiled ==
  ASSUME Inv, NEW e \in Challenges, challenges' = Append(challenges, e),
         UNCHANGED <<theses, raws>>, Len(challenges) < MaxChallenges,
         e.thesis \in DOMAIN theses, e.response = 0, e.answer = 0
  PROVE  /\ Grows /\ RowTypes'
         /\ RowsOK' /\ RevisionsUseAttachedResponse' /\ AnswerFollowsChallengedThesis'
<1>1. /\ challenges \in Seq(Challenges) /\ challenges' \in Seq(Challenges)
      /\ Len(challenges') = Len(challenges) + 1
      /\ DOMAIN challenges = 1 .. Len(challenges)
      /\ DOMAIN challenges' = 1 .. Len(challenges) + 1
      /\ \A c \in DOMAIN challenges : challenges'[c] = challenges[c]
      /\ challenges'[Len(challenges) + 1] = e
      /\ Len(challenges) \in Nat
  BY AppendFacts DEF Inv, TypeOK
<1>2. Grows /\ RowTypes'
  BY <1>1 DEF Grows, RowTypes, Inv, TypeOK
<1>3. RowsOK'
  BY <1>1, BoundsAssumption DEF Inv, RowsOK
<1>4. RevisionsUseAttachedResponse'
  BY <1>1 DEF Inv, RevisionsUseAttachedResponse
<1>5. AnswerFollowsChallengedThesis'
  BY <1>1 DEF Inv, AnswerFollowsChallengedThesis
<1>6. QED BY <1>2, <1>3, <1>4, <1>5

(* A challenge changes into e: it receives a response, or it is closed.    *)
LEMMA ChallengeChanged ==
  ASSUME Inv, NEW c \in DOMAIN challenges, NEW e \in Challenges,
         challenges' = [challenges EXCEPT ![c] = e],
         UNCHANGED <<theses, raws>>,
         e.thesis = challenges[c].thesis,
         challenges[c].response # 0 => e.response = challenges[c].response,
         e.response # 0 => e.response \in DOMAIN raws /\ raws[e.response].challenge = c,
         e.answer # 0 =>
           LET t == theses[e.answer] IN
           /\ e.answer \in DOMAIN theses
           /\ t.challenge = c /\ t.raw = e.response /\ t.previous = e.thesis
           /\ e.status = (IF t.content = theses[e.thesis].content
                          THEN "upheld" ELSE "revised")
  PROVE  /\ Grows /\ RowTypes'
         /\ RowsOK' /\ RevisionsUseAttachedResponse' /\ AnswerFollowsChallengedThesis'
<1>1. /\ challenges \in Seq(Challenges) /\ challenges' \in Seq(Challenges)
      /\ Len(challenges') = Len(challenges)
      /\ DOMAIN challenges' = DOMAIN challenges
      /\ challenges'[c] = e
      /\ \A d \in DOMAIN challenges : d # c => challenges'[d] = challenges[d]
  BY ExceptFacts DEF Inv, TypeOK
<1>2. Grows /\ RowTypes'
  BY <1>1 DEF Grows, RowTypes, Inv, TypeOK
<1>3. RowsOK'
  BY <1>1 DEF Inv, RowsOK
<1>4. RevisionsUseAttachedResponse'
  <2> SUFFICES ASSUME NEW t \in DOMAIN theses, theses[t].challenge = c, c # 0
               PROVE  e.response = theses[t].raw
    BY <1>1 DEF Inv, RevisionsUseAttachedResponse
  <2>1. challenges[c].response = theses[t].raw /\ theses[t].raw \in DOMAIN raws
    BY DEF Inv, RevisionsUseAttachedResponse
  <2>2. theses[t].raw # 0
    BY <2>1 DEF Inv, TypeOK
  <2>3. QED BY <2>1, <2>2
<1>5. ASSUME NEW d \in DOMAIN challenges, challenges'[d].answer # 0
      PROVE  LET ch == challenges'[d]
                 t == theses[ch.answer]
             IN  /\ t.challenge = d /\ t.raw = ch.response /\ t.previous = ch.thesis
                 /\ ch.status = (IF t.content = theses[ch.thesis].content
                                 THEN "upheld" ELSE "revised")
  <2>1. CASE d = c
    BY <1>1, <1>5, <2>1
  <2>2. CASE d # c
    BY <1>1, <1>5, <2>2 DEF Inv, AnswerFollowsChallengedThesis
  <2>3. QED BY <2>1, <2>2
<1>6. AnswerFollowsChallengedThesis'
  BY <1>1, <1>5 DEF AnswerFollowsChallengedThesis
<1>7. QED BY <1>2, <1>3, <1>4, <1>6

LEMMA RawAdded ==
  ASSUME Inv, NEW e \in Raws, raws' = Append(raws, e), UNCHANGED <<theses, challenges>>
  PROVE  /\ Grows /\ RowTypes' /\ DOMAIN raws' = 1 .. Len(raws) + 1
         /\ Len(raws) \in Nat /\ raws'[Len(raws) + 1] = e
<1>1. /\ raws \in Seq(Raws) /\ raws' \in Seq(Raws)
      /\ DOMAIN raws = 1 .. Len(raws) /\ DOMAIN raws' = 1 .. Len(raws) + 1
      /\ \A i \in DOMAIN raws : raws'[i] = raws[i]
      /\ Len(raws) \in Nat /\ raws'[Len(raws) + 1] = e
  BY AppendFacts DEF Inv, TypeOK
<1>2. QED BY <1>1 DEF Grows, RowTypes, Inv, TypeOK

LEMMA RawJudged ==
  ASSUME Inv, NEW i \in DOMAIN raws, NEW verdict \in {"accepted", "rejected"},
         raws' = [raws EXCEPT ![i].verdict = verdict], UNCHANGED <<theses, challenges>>
  PROVE  Grows /\ RowTypes'
<1> DEFINE e == [raws[i] EXCEPT !.verdict = verdict]
<1>0. raws[i] \in Raws
  BY DEF Inv, TypeOK
<1>1. e \in Raws /\ e.challenge = raws[i].challenge
  BY <1>0 DEF Raws
<1>2. raws \in Seq(Raws) /\ i \in 1 .. Len(raws) /\ DOMAIN raws = 1 .. Len(raws)
  BY DEF Inv, TypeOK
<1>3. /\ raws' \in Seq(Raws) /\ DOMAIN raws' = DOMAIN raws
      /\ raws'[i] = e /\ \A j \in DOMAIN raws : j # i => raws'[j] = raws[j]
  BY <1>1, <1>2
<1>4. QED BY <1>1, <1>3 DEF Grows, RowTypes, Inv, TypeOK
-----------------------------------------------------------------------------
InBounds == entered' \in 0 .. MaxCommands /\ faults' \in 0 .. MaxFaults

LEMMA MoveStep ==
  ASSUME Inv, NEW p \in Commands, NEW m \in Memories, Move(p, m)
  PROVE  cmd' = [cmd EXCEPT ![p] = m] /\ cmd'[p] = m /\ InBounds
BY DEF Inv, TypeOK, Move, InBounds

LEMMA EnterStep ==
  ASSUME Inv, NEW p \in Commands, NEW m \in Memories, NEW kind, Enter(p, kind, m)
  PROVE  cmd' = [cmd EXCEPT ![p] = m] /\ cmd'[p] = m /\ InBounds
BY BoundsAssumption DEF Inv, TypeOK, Enter, InBounds

LEMMA Preserved ==
  ASSUME Inv, RowTypes', Grows, InBounds, NEW p \in Commands, NEW m \in Memories,
         cmd' = [cmd EXCEPT ![p] = m], CommandOK(p)',
         RowsOK', RevisionsUseAttachedResponse', AnswerFollowsChallengedThesis'
  PROVE  Inv'
BY CommandsStep DEF Inv, TypeOK, RowTypes, InBounds

(* Enough for a step that changes no row.                                  *)
LEMMA Quiet ==
  ASSUME Inv, UNCHANGED store, InBounds, NEW p \in Commands, NEW m \in Memories,
         cmd' = [cmd EXCEPT ![p] = m], CommandOK(p)'
  PROVE  Inv'
<1>1. Grows /\ RowTypes'
  BY DEF Grows, RowTypes, Inv, TypeOK, store
<1>2. QED BY <1>1, RowsUnchanged, Preserved DEF store

LEMMA Mem == ASSUME Inv, NEW p \in Commands PROVE cmd[p] \in Memories /\ CommandOK(p)
BY DEF Inv, TypeOK, CommandsOK

LEMMA LatestType == Inv => Latest \in Nat /\ DOMAIN theses = 1 .. Latest
BY DEF Inv, TypeOK, Latest

LEMMA IdleMoved ==
  ASSUME Inv, NEW p \in Commands, Move(p, Idle)
  PROVE  cmd' = [cmd EXCEPT ![p] = Idle] /\ InBounds /\ CommandOK(p)'
BY IdleType, MoveStep, IdleOK

LEMMA AnalyzeInv == ASSUME Inv, NEW p \in Commands, Analyze(p) PROVE Inv'
<1> DEFINE e == Revision([Idle EXCEPT !.impact = "change"])
<1>1. /\ e \in Theses /\ e.previous = Len(theses) /\ e.challenge = 0
      /\ e.content \in 1 .. Len(theses) + 1
  BY LatestType DEF Revision, Idle, Theses, Impacts, Latest
<1>2. /\ Grows /\ RowTypes'
      /\ RowsOK' /\ RevisionsUseAttachedResponse' /\ AnswerFollowsChallengedThesis'
  BY <1>1, RevisionAdded DEF Analyze
<1>3. cmd' = [cmd EXCEPT ![p] = Idle] /\ cmd'[p] = Idle /\ InBounds
  BY IdleType, EnterStep DEF Analyze
<1>4. QED BY <1>2, <1>3, IdleType, IdleOK, Preserved

LEMMA GrillInv == ASSUME Inv, NEW p \in Commands, Grill(p) PROVE Inv'
<1> DEFINE m == [Idle EXCEPT !.pc = "audit", !.thesis = Latest]
<1>1. Latest \in Nat /\ Latest \in DOMAIN theses
  BY LatestType DEF Grill
<1>2. /\ m \in Memories /\ m.pc = "audit" /\ m.challenge = 0
      /\ m.thesis = Latest /\ m.saved = 0
  BY <1>1 DEF Idle, Memories, Positions, Impacts
<1>3. cmd' = [cmd EXCEPT ![p] = m] /\ cmd'[p] = m /\ InBounds /\ theses' = theses
  BY <1>2, EnterStep DEF Grill, store
<1> HIDE DEF m
<1>4. CommandOK(p)'
  BY <1>1, <1>2, <1>3 DEF CommandOK
<1>5. QED BY <1>2, <1>3, <1>4, Quiet DEF Grill

LEMMA FileInv == ASSUME Inv, NEW p \in Commands, FileChallenge(p) PROVE Inv'
<1>1. PICK survives \in BOOLEAN :
        challenges' = Append(challenges,
          [thesis |-> cmd[p].thesis,
           status |-> IF survives THEN "upheld" ELSE "open",
           response |-> 0, answer |-> 0])
  BY DEF FileChallenge
<1> DEFINE e == [thesis |-> cmd[p].thesis,
                 status |-> IF survives THEN "upheld" ELSE "open",
                 response |-> 0, answer |-> 0]
<1>2. e \in Challenges /\ e.thesis \in DOMAIN theses
  BY Mem DEF FileChallenge, At, CommandOK, Challenges, Statuses, Resolutions, Memories
<1>3. /\ Grows /\ RowTypes'
      /\ RowsOK' /\ RevisionsUseAttachedResponse' /\ AnswerFollowsChallengedThesis'
  BY <1>1, <1>2, ChallengeFiled DEF FileChallenge
<1>4. QED BY <1>3, IdleMoved, IdleType, Preserved DEF FileChallenge

LEMMA EndInv ==
  ASSUME Inv, NEW p \in Commands, AbandonAudit(p) \/ NoAnswer(p) PROVE Inv'
BY IdleMoved, IdleType, Quiet DEF AbandonAudit, NoAnswer

LEMMA RespondInv ==
  ASSUME Inv, NEW p \in Commands, NEW c \in 1 .. MaxChallenges, Respond(p, c)
  PROVE  Inv'
<1> DEFINE ch == challenges[c]
           n == [Idle EXCEPT !.challenge = c, !.thesis = ch.thesis]
           m == IF ch.response = 0 THEN [n EXCEPT !.pc = "ask"]
                ELSE [n EXCEPT !.pc = "judge", !.raw = ch.response,
                        !.impact = raws[ch.response].impact,
                        !.content = raws[ch.response].content]
<1>0. c \in DOMAIN challenges /\ ch \in Challenges /\ c \in Nat \ {0}
  BY BoundsAssumption DEF Respond, Inv, TypeOK
<1>1. /\ c \in DOMAIN challenges /\ ch \in Challenges /\ c \in Nat \ {0}
      /\ ch.thesis \in DOMAIN theses /\ ch.thesis \in Nat
  BY <1>0 DEF Inv, RowsOK, Challenges
<1>2. ch.response # 0 => /\ ch.response \in DOMAIN raws /\ ch.response \in Nat
                         /\ raws[ch.response] \in Raws
                         /\ raws[ch.response].challenge = c
  BY <1>1 DEF Inv, TypeOK, RowsOK
<1>3. n \in Memories
  BY <1>1, IdleType DEF Memories
<1>4. m \in Memories
  BY <1>2, <1>3 DEF Memories, Raws, Positions
<1>5. cmd' = [cmd EXCEPT ![p] = m] /\ cmd'[p] = m /\ InBounds
  BY <1>4, EnterStep DEF Respond
<1>6. /\ m.challenge = c /\ m.thesis = ch.thesis /\ m.pc \in {"ask", "judge"}
      /\ m.pc = "judge" => ch.response # 0 /\ m.raw = ch.response
      /\ m.saved = 0
  BY DEF Idle
<1>7. CommandOK(p)'
  BY <1>1, <1>2, <1>5, <1>6 DEF CommandOK, Respond, store
<1>8. QED BY <1>4, <1>5, <1>7, Quiet DEF Respond

LEMMA UpdateInv == ASSUME Inv, NEW p \in Commands, Update(p) PROVE Inv'
<1> DEFINE m == [Idle EXCEPT !.pc = "ask", !.thesis = Latest]
<1>1. Latest \in Nat /\ Latest \in DOMAIN theses
  BY LatestType DEF Update
<1>2. /\ m \in Memories /\ m.pc = "ask" /\ m.challenge = 0
      /\ m.thesis = Latest /\ m.saved = 0
  BY <1>1 DEF Idle, Memories, Positions, Impacts
<1>3. cmd' = [cmd EXCEPT ![p] = m] /\ cmd'[p] = m /\ InBounds /\ theses' = theses
  BY <1>2, EnterStep DEF Update, store
<1> HIDE DEF m
<1>4. CommandOK(p)'
  BY <1>1, <1>2, <1>3 DEF CommandOK
<1>5. QED BY <1>2, <1>3, <1>4, Quiet DEF Update

LEMMA RetryInv == ASSUME Inv, NEW p \in Commands, RetryUpdate(p) PROVE Inv'
<1>1. PICK i \in Updates :
        Enter(p, "retry",
          [Idle EXCEPT !.pc = "judge", !.thesis = Latest,
             !.impact = raws[i].impact, !.content = raws[i].content, !.raw = i])
  BY DEF RetryUpdate
<1> DEFINE m == [Idle EXCEPT !.pc = "judge", !.thesis = Latest,
                   !.impact = raws[i].impact, !.content = raws[i].content, !.raw = i]
<1>2. i \in DOMAIN raws /\ i \in Nat /\ raws[i] \in Raws
  BY DEF Updates, Inv, TypeOK
<1>3. Latest \in Nat /\ Latest \in DOMAIN theses
  BY LatestType DEF RetryUpdate
<1>4. /\ m \in Memories /\ m.pc = "judge" /\ m.challenge = 0
      /\ m.thesis = Latest /\ m.raw = i /\ m.saved = 0
  BY <1>2, <1>3 DEF Idle, Memories, Positions, Impacts, Raws
<1>5. /\ cmd' = [cmd EXCEPT ![p] = m] /\ cmd'[p] = m /\ InBounds
      /\ theses' = theses /\ raws' = raws
  BY <1>1, <1>4, EnterStep DEF RetryUpdate, store
<1> HIDE DEF m
<1>6. CommandOK(p)'
  BY <1>2, <1>3, <1>4, <1>5 DEF CommandOK
<1>7. QED BY <1>4, <1>5, <1>6, Quiet DEF RetryUpdate
-----------------------------------------------------------------------------
LEMMA AskInv == ASSUME Inv, NEW p \in Commands, Ask(p) PROVE Inv'
<1>1. cmd[p] \in Memories /\ CommandOK(p) /\ cmd[p].pc = "ask"
  BY Mem DEF Ask, At
<1>2. theses[cmd[p].thesis].content \in Nat
  <2>1. theses[cmd[p].thesis] \in Theses
    BY <1>1 DEF CommandOK, Inv, TypeOK
  <2>2. QED BY <2>1 DEF Theses
<1>3. PICK impact \in Impacts, content \in {0, theses[cmd[p].thesis].content} :
        Move(p, [cmd[p] EXCEPT !.pc = "saveRaw", !.impact = impact, !.content = content])
  BY DEF Ask
<1> DEFINE m == [cmd[p] EXCEPT !.pc = "saveRaw", !.impact = impact, !.content = content]
<1>4. /\ m \in Memories /\ m.pc = "saveRaw" /\ m.challenge = cmd[p].challenge
      /\ m.thesis = cmd[p].thesis /\ m.saved = cmd[p].saved
  <2>1. content \in Nat /\ "saveRaw" \in Positions
    BY <1>2 DEF Positions
  <2>2. QED BY <1>1, <2>1 DEF Memories
<1>5. /\ cmd' = [cmd EXCEPT ![p] = m] /\ cmd'[p] = m /\ InBounds
      /\ theses' = theses /\ challenges' = challenges
  BY <1>3, <1>4, MoveStep DEF Ask, store
<1> HIDE DEF m
<1>6. CommandOK(p)'
  BY <1>1, <1>4, <1>5 DEF CommandOK
<1>7. QED BY <1>4, <1>5, <1>6, Quiet DEF Ask

LEMMA SaveRawInv == ASSUME Inv, NEW p \in Commands, SaveRaw(p) PROVE Inv'
<1> DEFINE o == cmd[p]
           e == [challenge |-> o.challenge, impact |-> o.impact,
                 content |-> o.content, verdict |-> "pending"]
           m == [o EXCEPT !.raw = Len(raws) + 1,
                          !.pc = IF o.challenge # 0 THEN "attach" ELSE "judge"]
<1>1. o \in Memories /\ CommandOK(p) /\ o.pc = "saveRaw"
  BY Mem DEF SaveRaw, At
<1>2. e \in Raws
  BY <1>1 DEF Memories, Raws
<1>3. /\ Grows /\ RowTypes' /\ DOMAIN raws' = 1 .. Len(raws) + 1
      /\ Len(raws) \in Nat /\ raws'[Len(raws) + 1] = e
      /\ theses' = theses /\ challenges' = challenges
  BY <1>2, RawAdded DEF SaveRaw
<1>4. /\ m \in Memories /\ m.challenge = o.challenge /\ m.thesis = o.thesis
      /\ m.pc = (IF o.challenge # 0 THEN "attach" ELSE "judge")
      /\ m.raw = Len(raws) + 1 /\ m.saved = o.saved
  <2>1. /\ Len(raws) + 1 \in Nat
        /\ (IF o.challenge # 0 THEN "attach" ELSE "judge") \in Positions
    BY <1>3 DEF Positions
  <2>2. QED BY <1>1, <2>1 DEF Memories
<1>5. cmd' = [cmd EXCEPT ![p] = m] /\ cmd'[p] = m /\ InBounds
  BY <1>4, MoveStep DEF SaveRaw
<1>6. e.challenge = o.challenge
  OBVIOUS
<1> HIDE DEF m, e
<1>7. CommandOK(p)'
  BY <1>1, <1>3, <1>4, <1>5, <1>6 DEF CommandOK
<1>8. QED BY <1>3, <1>4, <1>5, <1>7, RowsUnchanged, Preserved

LEMMA AttachInv == ASSUME Inv, NEW p \in Commands, Attach(p) PROVE Inv'
<1> DEFINE o == cmd[p]
           c == o.challenge
           e == [challenges[c] EXCEPT !.response = o.raw]
           m == [o EXCEPT !.pc = "judge"]
<1>1. o \in Memories /\ CommandOK(p) /\ o.pc = "attach"
  BY Mem DEF Attach, At
<1>2. /\ c # 0 /\ c \in DOMAIN challenges /\ challenges[c] \in Challenges
      /\ o.raw \in DOMAIN raws /\ raws[o.raw].challenge = c
      /\ o.thesis \in DOMAIN theses /\ challenges[c].thesis = o.thesis
  BY <1>1 DEF CommandOK, Inv, TypeOK
<1>3. CASE challenges[c].status = "open" /\ challenges[c].response = 0
  <2>1. /\ challenges' = [challenges EXCEPT ![c].response = o.raw]
        /\ Move(p, m) /\ UNCHANGED <<theses, raws>>
    BY <1>3 DEF Attach
  <2>2. /\ challenges \in Seq(Challenges) /\ o.raw \in Nat
    BY <1>1 DEF Inv, TypeOK, Memories
  <2>3. challenges' = [challenges EXCEPT ![c] = e]
    BY <2>1, <2>2, <1>2
  <2>4. /\ e \in Challenges /\ e.thesis = challenges[c].thesis
        /\ e.response = o.raw /\ e.answer = challenges[c].answer
        /\ e.status = "open"
    BY <1>2, <1>3, <2>2 DEF Challenges
  <2>5. challenges[c].answer = 0
    <3>1. SUFFICES ASSUME challenges[c].answer # 0 PROVE FALSE
      OBVIOUS
    <3>2. /\ challenges[c].answer \in DOMAIN theses
          /\ theses[challenges[c].answer].challenge = c
      BY <1>2, <3>1 DEF Inv, RowsOK, AnswerFollowsChallengedThesis
    <3>3. /\ challenges[c].response = theses[challenges[c].answer].raw
          /\ theses[challenges[c].answer].raw \in DOMAIN raws
      BY <1>2, <3>2 DEF Inv, RevisionsUseAttachedResponse
    <3>4. QED BY <1>3, <3>3 DEF Inv, TypeOK
  <2>6. /\ Grows /\ RowTypes'
        /\ RowsOK' /\ RevisionsUseAttachedResponse' /\ AnswerFollowsChallengedThesis'
    <3> HIDE DEF e
    <3>1. /\ challenges[c].response # 0 => e.response = challenges[c].response
          /\ e.response # 0 => e.response \in DOMAIN raws /\ raws[e.response].challenge = c
          /\ e.answer = 0
      BY <1>2, <1>3, <2>4, <2>5
    <3> HIDE DEF c
    <3>2. QED BY <1>2, <2>1, <2>3, <2>4, <3>1, ChallengeChanged
  <2>7. /\ m \in Memories /\ m.pc = "judge" /\ m.challenge = c
        /\ m.thesis = o.thesis /\ m.raw = o.raw /\ m.saved = o.saved
        /\ o.saved = 0
    BY <1>1 DEF Memories, Positions, CommandOK
  <2>8. cmd' = [cmd EXCEPT ![p] = m] /\ cmd'[p] = m /\ InBounds
    BY <2>1, <2>7, MoveStep
  <2>9. /\ DOMAIN challenges' = DOMAIN challenges /\ challenges'[c] = e
    BY <1>2, <2>2, <2>3, <2>4, ExceptFacts
  <2> HIDE DEF m, e
  <2>10. CommandOK(p)'
    BY <1>2, <2>1, <2>4, <2>7, <2>8, <2>9 DEF CommandOK
  <2>11. QED BY <2>6, <2>7, <2>8, <2>10, Preserved
<1>4. CASE ~(challenges[c].status = "open" /\ challenges[c].response = 0)
  BY <1>4, IdleMoved, IdleType, Quiet DEF Attach, store
<1>5. QED BY <1>3, <1>4

LEMMA JudgeInv == ASSUME Inv, NEW p \in Commands, Judge(p) PROVE Inv'
<1> DEFINE o == cmd[p]
<1>1. o \in Memories /\ CommandOK(p) /\ o.pc = "judge"
  BY Mem DEF Judge, At
<1>2. ASSUME NEW pc \in {"reject", "accept"}, Move(p, [o EXCEPT !.pc = pc]),
             UNCHANGED theses, pc = "accept" => o.impact = "reassess"
      PROVE  Inv'
  <2> DEFINE m == [o EXCEPT !.pc = pc]
  <2>1. /\ m \in Memories /\ m.pc = pc /\ m.challenge = o.challenge
        /\ m.thesis = o.thesis /\ m.raw = o.raw /\ m.saved = o.saved
        /\ o.saved = 0
    BY <1>1 DEF Memories, Positions, CommandOK
  <2>2. /\ cmd' = [cmd EXCEPT ![p] = m] /\ cmd'[p] = m /\ InBounds
        /\ theses' = theses /\ challenges' = challenges /\ raws' = raws
    BY <1>2, <2>1, MoveStep DEF Judge
  <2> HIDE DEF m
  <2>3. CommandOK(p)'
    BY <1>1, <1>2, <2>1, <2>2 DEF CommandOK
  <2>4. QED BY <2>1, <2>2, <2>3, Quiet DEF store
<1>3. ASSUME MayPass(o), o.impact # "reassess", theses' = Append(theses, Revision(o)),
             Move(p, [o EXCEPT !.pc = "accept", !.saved = Latest + 1])
      PROVE  Inv'
  <2> DEFINE e == Revision(o)
             m == [o EXCEPT !.pc = "accept", !.saved = Latest + 1]
  <2>1. /\ o.thesis \in DOMAIN theses /\ o.raw \in DOMAIN raws
        /\ o.challenge # 0 => /\ o.challenge \in DOMAIN challenges
                              /\ challenges[o.challenge].response = o.raw
                              /\ challenges[o.challenge].thesis = o.thesis
                              /\ raws[o.raw].challenge = o.challenge
    BY <1>1 DEF CommandOK
  <2>2. theses[o.thesis].content \in 1 .. o.thesis /\ o.thesis \in 1 .. Latest /\ Latest \in Nat
    BY <2>1, LatestType DEF Inv, RowsOK
  <2>3. /\ e.previous = Latest /\ e.challenge = o.challenge /\ e.raw = o.raw
        /\ e.content = IF o.impact = "keep" THEN theses[o.thesis].content ELSE Latest + 1
    BY <1>3 DEF Revision, MayPass
  <2>4. e.content \in 1 .. Len(theses) + 1 /\ e.previous = Len(theses)
    BY <2>2, <2>3 DEF Latest
  <2>5. e \in Theses
    BY <1>1, <2>2, <2>3, <2>4 DEF Revision, Theses, Memories
  <2> HIDE DEF e
  <2>6. /\ Grows /\ RowTypes'
        /\ RowsOK' /\ RevisionsUseAttachedResponse' /\ AnswerFollowsChallengedThesis'
    BY <1>3, <2>1, <2>3, <2>4, <2>5, RevisionAdded DEF Judge, e
  <2>7. /\ m \in Memories /\ m.pc = "accept" /\ m.challenge = o.challenge
        /\ m.thesis = o.thesis /\ m.raw = o.raw /\ m.saved = Latest + 1
        /\ m.impact = o.impact
    <3>1. Latest + 1 \in Nat /\ "accept" \in Positions
      BY <2>2 DEF Positions
    <3>2. QED BY <1>1, <3>1 DEF Memories
  <2>8. cmd' = [cmd EXCEPT ![p] = m] /\ cmd'[p] = m /\ InBounds
    BY <1>3, <2>7, MoveStep
  <2>9. /\ DOMAIN theses' = 1 .. Latest + 1 /\ theses'[Latest + 1] = e
        /\ \A t \in DOMAIN theses : theses'[t] = theses[t]
    BY <1>3, <2>5, AppendFacts DEF Inv, TypeOK, Latest, e
  <2> HIDE DEF m
  <2>10. CommandOK(p)'
    BY <1>3, <2>1, <2>2, <2>3, <2>7, <2>8, <2>9 DEF CommandOK, Judge
  <2>11. QED BY <2>6, <2>7, <2>8, <2>10, Preserved
<1>4. QED BY <1>2, <1>3 DEF Judge

LEMMA RejectInv == ASSUME Inv, NEW p \in Commands, Reject(p) PROVE Inv'
<1>1. cmd[p].raw \in DOMAIN raws
  BY Mem DEF Reject, At, CommandOK
<1>2. Grows /\ RowTypes' /\ UNCHANGED <<theses, challenges>>
  BY <1>1, RawJudged DEF Reject
<1>3. QED BY <1>2, IdleMoved, IdleType, RowsUnchanged, Preserved DEF Reject

LEMMA AcceptInv == ASSUME Inv, NEW p \in Commands, Accept(p) PROVE Inv'
<1> DEFINE o == cmd[p]
           m == [o EXCEPT !.pc = "resolve"]
<1>1. o \in Memories /\ CommandOK(p) /\ o.pc = "accept"
  BY Mem DEF Accept, At
<1>2. o.raw \in DOMAIN raws
  BY <1>1 DEF CommandOK
<1>3. Grows /\ RowTypes' /\ UNCHANGED <<theses, challenges>>
  BY <1>2, RawJudged DEF Accept
<1>4. CASE o.challenge # 0 /\ o.saved # 0
  <2>1. /\ m \in Memories /\ m.pc = "resolve" /\ m.challenge = o.challenge
        /\ m.thesis = o.thesis /\ m.raw = o.raw /\ m.saved = o.saved
        /\ m.impact = o.impact
    BY <1>1 DEF Memories, Positions
  <2>2. cmd' = [cmd EXCEPT ![p] = m] /\ cmd'[p] = m /\ InBounds
    BY <1>4, <2>1, MoveStep DEF Accept
  <2> HIDE DEF m
  <2>3. CommandOK(p)'
    BY <1>1, <1>3, <1>4, <2>1, <2>2 DEF CommandOK, Grows
  <2>4. QED BY <1>3, <2>1, <2>2, <2>3, RowsUnchanged, Preserved
<1>5. CASE ~(o.challenge # 0 /\ o.saved # 0)
  BY <1>3, <1>5, IdleMoved, IdleType, RowsUnchanged, Preserved DEF Accept
<1>6. QED BY <1>4, <1>5

(* What the response of a command that is about to resolve may do to its   *)
(* challenge.                                                              *)
LEMMA Resolving ==
  ASSUME Inv, NEW p \in Commands, At(p, "resolve"),
         theses[cmd[p].saved].previous = challenges[cmd[p].challenge].thesis
  PROVE  LET c == cmd[p].challenge
             e == Resolved(challenges[c], cmd[p])
             t == theses[e.answer]
         IN  /\ c # 0 /\ c \in DOMAIN challenges
             /\ challenges[c] \in Challenges /\ e \in Challenges
             /\ e.thesis = challenges[c].thesis
             /\ e.response = challenges[c].response /\ e.response # 0
             /\ e.response \in DOMAIN raws /\ raws[e.response].challenge = c
             /\ e.answer # 0 /\ e.answer \in DOMAIN theses
             /\ t.challenge = c /\ t.raw = e.response /\ t.previous = e.thesis
             /\ e.status = (IF t.content = theses[e.thesis].content
                            THEN "upheld" ELSE "revised")
<1> DEFINE o == cmd[p]
           c == o.challenge
           e == Resolved(challenges[c], o)
<1>1. o \in Memories /\ CommandOK(p) /\ o.pc = "resolve"
  BY Mem DEF At
<1>2. /\ c # 0 /\ c \in DOMAIN challenges /\ challenges[c].thesis = o.thesis
      /\ challenges[c].response = o.raw /\ o.raw \in DOMAIN raws
      /\ raws[o.raw].challenge = c
      /\ o.saved # 0 /\ o.saved \in DOMAIN theses /\ o.impact # "reassess"
      /\ theses[o.saved].challenge = c /\ theses[o.saved].raw = o.raw
      /\ theses[o.saved].content =
           (IF o.impact = "keep" THEN theses[o.thesis].content ELSE o.saved)
      /\ o.thesis \in DOMAIN theses
  BY <1>1 DEF CommandOK
<1>3. challenges[c] \in Challenges /\ o.raw # 0 /\ o.saved \in Nat
  BY <1>2 DEF Inv, TypeOK
<1>4. /\ e \in Challenges /\ e.thesis = challenges[c].thesis
      /\ e.response = challenges[c].response /\ e.answer = o.saved
      /\ e.status = (IF o.impact = "keep" THEN "upheld" ELSE "revised")
  BY <1>3 DEF Resolved, Verdict, Challenges, Statuses, Resolutions
<1>5. o.saved # o.thesis => theses[o.thesis].content # o.saved
  <2>1. /\ theses[o.saved].previous = o.thesis /\ theses[o.saved].previous < o.saved
        /\ theses[o.thesis].content \in 1 .. o.thesis /\ o.thesis \in Nat
    BY <1>2 DEF Inv, RowsOK, TypeOK
  <2>2. QED BY <2>1, <1>3
<1>6. o.saved # o.thesis
  <2>1. /\ theses[o.saved].previous = o.thesis /\ theses[o.saved].previous < o.saved
        /\ o.thesis \in Nat
    BY <1>2 DEF Inv, RowsOK, TypeOK
  <2>2. QED BY <2>1, <1>3
<1> HIDE DEF e
<1>7. QED BY <1>2, <1>3, <1>4, <1>5, <1>6 DEF e

LEMMA OpenIsUnanswered ==
  ASSUME Inv, NEW c \in DOMAIN challenges, challenges[c].status = "open"
  PROVE  challenges[c].answer = 0
BY DEF Inv, AnswerFollowsChallengedThesis

LEMMA ResolveWithResponseInv ==
  ASSUME Inv, NEW p \in Commands, ResolveWithResponse(p) PROVE Inv'
<1> DEFINE c == cmd[p].challenge
           e == Resolved(challenges[c], cmd[p])
           resolves == /\ challenges[c].status = "open"
                       /\ theses[cmd[p].saved].previous = challenges[c].thesis
<1>1. cmd' = [cmd EXCEPT ![p] = Idle] /\ InBounds /\ CommandOK(p)'
  BY IdleMoved DEF ResolveWithResponse
<1>2. CASE resolves
  <2>1. challenges' = [challenges EXCEPT ![c] = e] /\ UNCHANGED <<theses, raws>>
    BY <1>2 DEF ResolveWithResponse
  <2>2. /\ Grows /\ RowTypes'
        /\ RowsOK' /\ RevisionsUseAttachedResponse' /\ AnswerFollowsChallengedThesis'
    <3>1. At(p, "resolve")
      BY DEF ResolveWithResponse
    <3> HIDE DEF e
    <3>2. QED BY <1>2, <2>1, <3>1, Resolving, ChallengeChanged DEF e
  <2>3. QED BY <1>1, <2>2, IdleType, Preserved
<1>3. CASE ~resolves
  <2>1. UNCHANGED store
    BY <1>3 DEF ResolveWithResponse, store
  <2>2. QED BY <1>1, <2>1, IdleType, Quiet
<1>4. QED BY <1>2, <1>3

LEMMA ResolveInv ==
  ASSUME Inv, NEW p \in Commands, NEW c \in 1 .. MaxChallenges,
         NEW status \in Resolutions, Resolve(p, c, status)
  PROVE  Inv'
<1> DEFINE e == [challenges[c] EXCEPT !.status = status]
<1>1. c \in DOMAIN challenges /\ challenges[c] \in Challenges /\ challenges[c].answer = 0
  BY OpenIsUnanswered DEF Resolve, Inv, TypeOK
<1>2. /\ e \in Challenges /\ e.thesis = challenges[c].thesis
      /\ e.response = challenges[c].response /\ e.answer = 0
  BY <1>1 DEF Challenges, Statuses, Resolutions
<1>3. e.response # 0 => e.response \in DOMAIN raws /\ raws[e.response].challenge = c
  BY <1>1, <1>2 DEF Inv, RowsOK
<1>4. challenges' = [challenges EXCEPT ![c] = e] /\ UNCHANGED <<theses, raws>>
  BY <1>1 DEF Resolve, Inv, TypeOK
<1>5. /\ Grows /\ RowTypes'
      /\ RowsOK' /\ RevisionsUseAttachedResponse' /\ AnswerFollowsChallengedThesis'
  <2> HIDE DEF e
  <2>1. QED BY <1>1, <1>2, <1>3, <1>4, ChallengeChanged
<1>6. cmd' = [cmd EXCEPT ![p] = Idle] /\ cmd'[p] = Idle /\ InBounds
  BY IdleType, EnterStep DEF Resolve
<1>7. QED BY <1>5, <1>6, IdleType, IdleOK, Preserved

LEMMA StopInv == ASSUME Inv, NEW p \in Commands, Stop(p) PROVE Inv'
<1>1. cmd' = [cmd EXCEPT ![p] = Idle] /\ cmd'[p] = Idle /\ InBounds
  BY BoundsAssumption, IdleType DEF Stop, Inv, TypeOK, InBounds
<1>2. QED BY <1>1, IdleType, IdleOK, Quiet DEF Stop
-----------------------------------------------------------------------------
LEMMA InitInv == Init => Inv
<1> SUFFICES ASSUME Init PROVE Inv
  OBVIOUS
<1> USE DEF Init
<1>1. TypeOK
  <2>1. theses \in Seq(Theses)
    <3>1. FirstThesis("v2") \in Theses /\ FirstThesis("v3") \in Theses
      BY DEF FirstThesis, Theses, Impacts
    <3>2. \A e \in Theses : <<e>> \in Seq(Theses)
      OBVIOUS
    <3>3. <<>> \in Seq(Theses)
      OBVIOUS
    <3>4. QED BY <3>1, <3>2, <3>3
  <2>2. challenges \in Seq(Challenges) /\ raws \in Seq(Raws)
    OBVIOUS
  <2>3. QED BY <2>1, <2>2, IdleType, BoundsAssumption DEF TypeOK
<1>2. DOMAIN challenges = {} /\ Len(challenges) = 0
  OBVIOUS
<1>3. \A t \in DOMAIN theses : /\ t = 1 /\ theses[t].previous = 0
                              /\ theses[t].content = 1 /\ theses[t].challenge = 0
  BY DEF FirstThesis
<1>4. RowsOK
  BY <1>2, <1>3, BoundsAssumption DEF RowsOK
<1>5. CommandsOK
  BY DEF CommandsOK, CommandOK, Idle
<1>6. RevisionsUseAttachedResponse /\ AnswerFollowsChallengedThesis
  BY <1>2, <1>3 DEF RevisionsUseAttachedResponse, AnswerFollowsChallengedThesis
<1>7. QED BY <1>1, <1>4, <1>5, <1>6 DEF Inv

LEMMA NextInv == Inv /\ [Next]_vars => Inv'
<1> SUFFICES ASSUME Inv, [Next]_vars PROVE Inv'
  OBVIOUS
<1>1. CASE UNCHANGED vars
  BY <1>1 DEF vars, Inv, TypeOK, RowsOK, CommandsOK, CommandOK,
       RevisionsUseAttachedResponse, AnswerFollowsChallengedThesis
<1>2. ASSUME NEW p \in Commands, Step(p) PROVE Inv'
  BY <1>2, FileInv, EndInv, AskInv, SaveRawInv, AttachInv, JudgeInv, RejectInv,
     AcceptInv, ResolveWithResponseInv DEF Step
<1>3. ASSUME NEW p \in Commands, Command(p) PROVE Inv'
  BY <1>3, AnalyzeInv, GrillInv, UpdateInv, RetryInv, RespondInv, ResolveInv DEF Command
<1>4. QED BY <1>1, <1>2, <1>3, StopInv DEF Next

(* Every variable keeps its type, for any commands and bounds.             *)
THEOREM TypeCorrect == Spec => []TypeOK
<1>1. Inv => TypeOK
  BY DEF Inv
<1>2. QED BY InitInv, NextInv, <1>1, PTL DEF Spec

(* A revision made of a response to a challenge is made of the response    *)
(* attached to it.                                                         *)
THEOREM AttachedResponse == Spec => []RevisionsUseAttachedResponse
<1>1. Inv => RevisionsUseAttachedResponse
  BY DEF Inv
<1>2. QED BY InitInv, NextInv, <1>1, PTL DEF Spec

(* A challenge closed by a response is closed by the revision of it that   *)
(* follows the challenged one, and upheld when the content stands.         *)
THEOREM AnswerFollows == Spec => []AnswerFollowsChallengedThesis
<1>1. Inv => AnswerFollowsChallengedThesis
  BY DEF Inv
<1>2. QED BY InitInv, NextInv, <1>1, PTL DEF Spec
-----------------------------------------------------------------------------
(* The steps, seen on the desk.                                            *)
LEMMA ViewChanged ==
  ASSUME Inv, NEW c \in DOMAIN challenges, NEW e \in Challenges,
         challenges' = [challenges EXCEPT ![c] = e]
  PROVE  /\ DeskView' = [DeskView EXCEPT ![c] = Entry(e)]
         /\ DOMAIN DeskView = DOMAIN challenges
         /\ \A d \in DOMAIN challenges : DeskView[d] = Entry(challenges[d])
         /\ DeskView'[c] = Entry(e)
         /\ c \in 1 .. MaxChallenges
<1>1. DOMAIN challenges' = DOMAIN challenges /\ challenges'[c] = e
      /\ \A d \in DOMAIN challenges : d # c => challenges'[d] = challenges[d]
  BY ExceptFacts DEF Inv, TypeOK
<1>2. c \in 1 .. MaxChallenges
  BY BoundsAssumption DEF Inv, TypeOK, RowsOK
<1>3. QED BY <1>1, <1>2 DEF DeskView

LEMMA FileShown == ASSUME Inv, NEW p \in Commands, FileChallenge(p) PROVE Desk!Next
<1>1. PICK survives \in BOOLEAN :
        challenges' = Append(challenges,
          [thesis |-> cmd[p].thesis,
           status |-> IF survives THEN "upheld" ELSE "open",
           response |-> 0, answer |-> 0])
  BY DEF FileChallenge
<1> DEFINE e == [thesis |-> cmd[p].thesis,
                 status |-> IF survives THEN "upheld" ELSE "open",
                 response |-> 0, answer |-> 0]
           c == Len(challenges) + 1
<1>2. e \in Challenges
  BY Mem DEF Challenges, Statuses, Resolutions, Memories
<1>3. /\ DOMAIN challenges = 1 .. Len(challenges) /\ DOMAIN challenges' = 1 .. c
      /\ \A d \in DOMAIN challenges : challenges'[d] = challenges[d]
      /\ challenges'[c] = e /\ Len(challenges) \in Nat
  BY <1>1, <1>2, AppendFacts DEF Inv, TypeOK
<1>4. c \in 1 .. MaxChallenges /\ c \notin DOMAIN challenges
      /\ DOMAIN challenges' = DOMAIN challenges \cup {c}
  BY <1>3, BoundsAssumption DEF FileChallenge
<1>5. Entry(e) = [status |-> e.status, response |-> 0, answer |-> 0]
      /\ e.status \in {"open", "upheld"}
  BY DEF Entry
<1> HIDE DEF e, c
<1>6. DOMAIN DeskView = DOMAIN challenges
  BY DEF DeskView
<1>7. DeskView' = [d \in DOMAIN DeskView \cup {c} |->
                     IF d = c THEN [status |-> e.status, response |-> 0, answer |-> 0]
                              ELSE DeskView[d]]
  BY <1>3, <1>4, <1>5 DEF DeskView
<1>8. Desk!File(c)
  BY <1>4, <1>5, <1>6, <1>7 DEF Desk!File
<1>9. QED BY <1>4, <1>8 DEF Desk!Next

LEMMA AttachShown ==
  ASSUME Inv, NEW p \in Commands, Attach(p) PROVE Desk!Next \/ UNCHANGED challenges
<1> DEFINE o == cmd[p]
           c == o.challenge
           e == [challenges[c] EXCEPT !.response = o.raw]
<1>1. /\ c # 0 /\ c \in DOMAIN challenges /\ challenges[c] \in Challenges
      /\ o.raw \in DOMAIN raws /\ raws[o.raw].challenge = c /\ o.raw \in Nat \ {0}
  BY Mem DEF Attach, At, CommandOK, Inv, TypeOK
<1>2. CASE challenges[c].status = "open" /\ challenges[c].response = 0
  <2>1. challenges \in Seq(Challenges)
    BY DEF Inv, TypeOK
  <2>2. challenges' = [challenges EXCEPT ![c] = e]
    BY <1>1, <1>2, <2>1 DEF Attach
  <2>3. /\ e \in Challenges /\ e.response = o.raw
        /\ Entry(e) = [Entry(challenges[c]) EXCEPT !.response = o.raw]
    BY <1>1 DEF Challenges, Entry
  <2> HIDE DEF e, c
  <2>4. /\ DeskView' = [DeskView EXCEPT ![c] = Entry(e)]
        /\ DOMAIN DeskView = DOMAIN challenges
        /\ \A d \in DOMAIN challenges : DeskView[d] = Entry(challenges[d])
        /\ DeskView'[c] = Entry(e) /\ c \in 1 .. MaxChallenges
    BY <1>1, <2>2, <2>3, ViewChanged
  <2>5. DeskView'[c].response = o.raw
    BY <2>3, <2>4 DEF Entry
  <2>6. \A d \in DOMAIN challenges \ {c} : DeskView[d].response # o.raw
    BY <1>1, <2>4 DEF Inv, RowsOK, Entry
  <2>7. DeskView' = [DeskView EXCEPT ![c].response = o.raw]
    BY <1>1, <2>3, <2>4
  <2>8. Desk!Open(c) /\ DeskView[c].response = 0
    BY <1>1, <1>2, <2>4 DEF Desk!Open, Entry
  <2>9. Desk!Receive(c)
    BY <1>1, <2>4, <2>5, <2>6, <2>7, <2>8 DEF Desk!Receive, Desk!Others
  <2>10. QED BY <2>4, <2>9 DEF Desk!Next
<1>3. CASE ~(challenges[c].status = "open" /\ challenges[c].response = 0)
  BY <1>3 DEF Attach
<1>4. QED BY <1>2, <1>3

LEMMA ResolveWithResponseShown ==
  ASSUME Inv, NEW p \in Commands, ResolveWithResponse(p)
  PROVE  Desk!Next \/ UNCHANGED challenges
<1> DEFINE c == cmd[p].challenge
           e == Resolved(challenges[c], cmd[p])
           resolves == /\ challenges[c].status = "open"
                       /\ theses[cmd[p].saved].previous = challenges[c].thesis
<1>1. CASE resolves
  <2>1. challenges' = [challenges EXCEPT ![c] = e]
    BY <1>1 DEF ResolveWithResponse
  <2>2. /\ c \in DOMAIN challenges /\ e \in Challenges /\ challenges[c] \in Challenges
        /\ e.response = challenges[c].response /\ e.response # 0
        /\ e.answer # 0 /\ e.answer \in DOMAIN theses
        /\ theses[e.answer].challenge = c /\ e.status \in {"upheld", "revised"}
    BY <1>1, Resolving DEF ResolveWithResponse
  <2> HIDE DEF e, c
  <2>3. Entry(e) = [status |-> e.status, response |-> challenges[c].response,
                    answer |-> e.answer]
    BY <2>2 DEF Entry
  <2>4. /\ DeskView' = [DeskView EXCEPT ![c] = Entry(e)]
        /\ DOMAIN DeskView = DOMAIN challenges
        /\ \A d \in DOMAIN challenges : DeskView[d] = Entry(challenges[d])
        /\ DeskView'[c] = Entry(e) /\ c \in 1 .. MaxChallenges
    BY <2>1, <2>2, ViewChanged
  <2>5. DeskView'[c].answer = e.answer
    BY <2>4 DEF Entry
  <2>6. \A d \in DOMAIN challenges \ {c} : DeskView[d].answer # e.answer
    BY <2>2, <2>4 DEF Inv, AnswerFollowsChallengedThesis, Entry
  <2>7. DeskView' = [DeskView EXCEPT ![c] =
                      [status |-> e.status, response |-> DeskView[c].response,
                       answer |-> e.answer]]
    <3>1. DeskView[c].response = challenges[c].response
      BY <2>2, <2>4 DEF Entry
    <3>2. QED BY <2>3, <2>4, <3>1
  <2>8. Desk!Answer(c)
    <3>1. challenges[c].status = "open" /\ challenges[c].response # 0
      BY <1>1, <2>2 DEF c
    <3>2. Desk!Open(c) /\ DeskView[c].response # 0
      BY <2>2, <2>4, <3>1 DEF Desk!Open, Entry
    <3>3. QED BY <2>2, <2>4, <2>5, <2>6, <2>7, <3>2 DEF Desk!Answer, Desk!Others
  <2>9. QED BY <2>4, <2>8 DEF Desk!Next
<1>2. CASE ~resolves
  BY <1>2 DEF ResolveWithResponse
<1>3. QED BY <1>1, <1>2

LEMMA ResolveShown ==
  ASSUME Inv, NEW p \in Commands, NEW c \in 1 .. MaxChallenges,
         NEW status \in Resolutions, Resolve(p, c, status)
  PROVE  Desk!Next
<1> DEFINE e == [challenges[c] EXCEPT !.status = status]
<1>1. /\ c \in DOMAIN challenges /\ challenges[c] \in Challenges
      /\ challenges[c].status = "open" /\ challenges \in Seq(Challenges)
  BY DEF Resolve, Inv, TypeOK
<1>2. challenges' = [challenges EXCEPT ![c] = e]
  BY <1>1 DEF Resolve
<1>3. e \in Challenges /\ Entry(e) = [Entry(challenges[c]) EXCEPT !.status = status]
  <2>1. status \in Statuses
    BY DEF Statuses
  <2>2. /\ e \in Challenges /\ e.status = status
        /\ e.response = challenges[c].response /\ e.answer = challenges[c].answer
    BY <1>1, <2>1 DEF Challenges
  <2> HIDE DEF e
  <2> QED
    BY <2>2 DEF Entry
<1> HIDE DEF e
<1>4. /\ DeskView' = [DeskView EXCEPT ![c] = Entry(e)]
      /\ DOMAIN DeskView = DOMAIN challenges
      /\ DeskView[c] = Entry(challenges[c])
  BY <1>1, <1>2, <1>3, ViewChanged
<1>5. DeskView' = [DeskView EXCEPT ![c].status = status]
  BY <1>1, <1>3, <1>4
<1>6. Desk!Open(c)
  BY <1>1, <1>4 DEF Desk!Open, Entry
<1>7. Desk!Close(c)
  BY <1>5, <1>6 DEF Desk!Close, Resolutions
<1>8. QED BY <1>7 DEF Desk!Next

LEMMA StepShown == Inv /\ [Next]_vars => [Desk!Next]_DeskView
<1> SUFFICES ASSUME Inv, [Next]_vars PROVE Desk!Next \/ UNCHANGED challenges
  BY DEF DeskView
<1>1. ASSUME NEW p \in Commands, Step(p) PROVE Desk!Next \/ UNCHANGED challenges
  <2>1. CASE AbandonAudit(p) \/ Ask(p) \/ NoAnswer(p) \/ SaveRaw(p) \/ Judge(p)
               \/ Reject(p) \/ Accept(p)
    BY <2>1 DEF AbandonAudit, Ask, NoAnswer, SaveRaw, Judge, Reject, Accept, store
  <2>2. QED BY <1>1, <2>1, FileShown, AttachShown, ResolveWithResponseShown DEF Step
<1>2. ASSUME NEW p \in Commands, Command(p) PROVE Desk!Next \/ UNCHANGED challenges
  <2>1. CASE Analyze(p) \/ Grill(p) \/ Update(p) \/ RetryUpdate(p)
    BY <2>1 DEF Analyze, Grill, Update, RetryUpdate, store
  <2>2. ASSUME NEW c \in 1 .. MaxChallenges, Respond(p, c) PROVE UNCHANGED challenges
    BY <2>2 DEF Respond, store
  <2>3. QED BY <1>2, <2>1, <2>2, ResolveShown DEF Command
<1>3. QED BY <1>1, <1>2 DEF Next, Stop, store, vars

(* What is decided stays decided: a row is only changed while it is open.  *)
Kept == \A c \in DOMAIN challenges :
          challenges[c].status # "open" => challenges'[c] = challenges[c]

LEMMA OpenChanged ==
  ASSUME Inv, NEW c \in DOMAIN challenges, NEW e,
         challenges[c].status = "open", challenges' = [challenges EXCEPT ![c] = e]
  PROVE  Kept
<1>1. challenges \in Seq(Challenges)
  BY DEF Inv, TypeOK
<1>2. QED BY <1>1 DEF Kept

LEMMA StepKept == Inv /\ [Next]_vars => Kept
<1> SUFFICES ASSUME Inv, [Next]_vars, ~UNCHANGED challenges PROVE Kept
  BY DEF Kept
<1>1. challenges \in Seq(Challenges)
  BY DEF Inv, TypeOK
<1>2. ASSUME NEW p \in Commands, FileChallenge(p) PROVE Kept
  <2>1. PICK survives \in BOOLEAN :
          challenges' = Append(challenges,
            [thesis |-> cmd[p].thesis, status |-> IF survives THEN "upheld" ELSE "open",
             response |-> 0, answer |-> 0])
    BY <1>2 DEF FileChallenge
  <2>2. QED BY <1>1, <2>1 DEF Kept
<1>3. ASSUME NEW p \in Commands, Attach(p) PROVE Kept
  <2> DEFINE c == cmd[p].challenge
  <2>1. c \in DOMAIN challenges
    BY <1>3 DEF Attach, At, Inv, CommandsOK, CommandOK
  <2>2. /\ challenges[c].status = "open"
        /\ challenges' = [challenges EXCEPT ![c] = [challenges[c] EXCEPT !.response = cmd[p].raw]]
    BY <1>1, <1>3, <2>1 DEF Attach
  <2>3. QED BY <2>1, <2>2, OpenChanged
<1>4. ASSUME NEW p \in Commands, ResolveWithResponse(p) PROVE Kept
  <2> DEFINE c == cmd[p].challenge
  <2>1. c \in DOMAIN challenges
    BY <1>4 DEF ResolveWithResponse, At, Inv, CommandsOK, CommandOK
  <2>2. /\ challenges[c].status = "open"
        /\ challenges' = [challenges EXCEPT ![c] = Resolved(challenges[c], cmd[p])]
    BY <1>4 DEF ResolveWithResponse
  <2>3. QED BY <2>1, <2>2, OpenChanged
<1>5. ASSUME NEW p \in Commands, NEW c \in 1 .. MaxChallenges,
             NEW status \in Resolutions, Resolve(p, c, status)
      PROVE  Kept
  <2>1. /\ c \in DOMAIN challenges /\ challenges[c].status = "open"
        /\ challenges' = [challenges EXCEPT ![c] = [challenges[c] EXCEPT !.status = status]]
    BY <1>1, <1>5 DEF Resolve
  <2>2. QED BY <2>1, OpenChanged
<1>6. ASSUME NEW p \in Commands, Step(p) PROVE Kept
  <2>1. ~(AbandonAudit(p) \/ Ask(p) \/ NoAnswer(p) \/ SaveRaw(p) \/ Judge(p)
            \/ Reject(p) \/ Accept(p))
    BY DEF AbandonAudit, Ask, NoAnswer, SaveRaw, Judge, Reject, Accept, store
  <2>2. QED BY <1>2, <1>3, <1>4, <1>6, <2>1 DEF Step
<1>7. ASSUME NEW p \in Commands, Command(p) PROVE Kept
  <2>1. ~(Analyze(p) \/ Grill(p) \/ Update(p) \/ RetryUpdate(p))
    BY DEF Analyze, Grill, Update, RetryUpdate, store
  <2>2. \A c \in 1 .. MaxChallenges : ~Respond(p, c)
    BY DEF Respond, store
  <2>3. QED BY <1>5, <1>7, <2>1, <2>2 DEF Command
<1>8. QED BY <1>6, <1>7 DEF Next, Stop, store, vars

(* What has been decided about a challenge is never decided again.         *)
THEOREM DecidedOnce == Spec => ResolutionIsFinal
<1>1. Inv /\ [Next]_vars =>
        [\A c \in DOMAIN challenges :
           challenges[c].status # "open" => challenges'[c] = challenges[c]]_vars
  BY StepKept DEF Kept
<1>2. QED BY InitInv, NextInv, <1>1, PTL DEF Spec, ResolutionIsFinal

(* The challenge loop implements the desk: one response, one resolution,   *)
(* and no response or revision that serves two challenges.                 *)
THEOREM DeskImplemented == Spec => ImplementsDesk
<1>1. Init => Desk!Init
  BY DEF Init, DeskView, Desk!Init
<1>2. QED BY InitInv, NextInv, StepShown, <1>1, PTL DEF Spec, ImplementsDesk, Desk!Spec
-----------------------------------------------------------------------------
(* In the behaviours of MCOperations.                                      *)
(*                                                                         *)
(* Who does not work rests; what an alone process is asked to update, or   *)
(* has retried, is the latest revision until it has saved one.             *)
Resting == \A p \in Commands : cmd[p].pc # "idle" => p \in Workers

AtLatest ==
  Alone /\ cmd[p1].challenge = 0 /\ cmd[p1].pc \in {"ask", "saveRaw", "judge"} =>
    cmd[p1].thesis = Latest

KeptRows ==
  /\ KeptContentStands
  /\ \A t \in DOMAIN theses : theses[t].impact = "keep" => theses[t].previous \in DOMAIN theses

(* A challenge that wants a response has had one answer for each process   *)
(* about to attach one and for each failure; any other one has no more     *)
(* than the processes and failures allow when all that are asked answer.   *)
Wanting(c) == challenges[c].status = "open" /\ challenges[c].response = 0
Attaching(c) == {p \in Commands : cmd[p].pc = "attach" /\ cmd[p].challenge = c}
Asking(c) == {p \in Commands : cmd[p].pc \in {"ask", "saveRaw"} /\ cmd[p].challenge = c}
CountOK(c) ==
  IF Wanting(c)
  THEN Cardinality(Answers(c)) <= faults + Cardinality(Attaching(c))
  ELSE Cardinality(Answers(c)) + Cardinality(Asking(c)) <= faults + Cardinality(Workers)
AllCounted ==
  /\ \A i \in DOMAIN raws : raws[i].challenge # 0 => raws[i].challenge \in DOMAIN challenges
  /\ \A c \in DOMAIN challenges : CountOK(c)

OpInv ==
  Inv /\ Resting /\ AtLatest /\ KeptRows /\ AllCounted /\ OnlyFailuresLeaveOpen

(* An acting process moves itself and no other.                            *)
Acts(p) == Step(p) \/ Command(p) \/ Stop(p)

LEMMA OneMoves ==
  ASSUME Inv, NEW p \in Commands, Acts(p)
  PROVE  \A q \in Commands : q # p => cmd'[q] = cmd[q]
<1>1. \E m : cmd' = [cmd EXCEPT ![p] = m]
  <2>1. CASE Step(p)
    <3>1. CASE AbandonAudit(p) \/ FileChallenge(p) \/ NoAnswer(p)
      BY <3>1, Zenon DEF AbandonAudit, FileChallenge, NoAnswer, Move
    <3>2. CASE Ask(p) \/ SaveRaw(p)
      BY <3>2, Zenon DEF Ask, SaveRaw, Move
    <3>3. CASE Attach(p)
      BY <3>3, Zenon DEF Attach, Move
    <3>4. CASE Judge(p)
      BY <3>4, Zenon DEF Judge, Move
    <3>5. CASE Reject(p) \/ Accept(p) \/ ResolveWithResponse(p)
      BY <3>5, Zenon DEF Reject, Accept, ResolveWithResponse, Move
    <3> QED
      BY <2>1, <3>1, <3>2, <3>3, <3>4, <3>5 DEF Step
  <2>2. CASE Command(p)
    <3>1. CASE Analyze(p) \/ Grill(p) \/ Update(p) \/ RetryUpdate(p)
      BY <3>1, Zenon DEF Analyze, Grill, Update, RetryUpdate, Enter
    <3>2. CASE \E c \in 1 .. MaxChallenges :
                 Respond(p, c) \/ \E status \in Resolutions : Resolve(p, c, status)
      BY <3>2, Zenon DEF Respond, Resolve, Enter
    <3> QED
      BY <2>2, <3>1, <3>2 DEF Command
  <2>3. CASE Stop(p)
    BY <2>3 DEF Stop
  <2> QED
    BY <2>1, <2>2, <2>3 DEF Acts
<1> QED
  BY <1>1 DEF Inv, TypeOK

(* What a step does to the books, action by action: n is where it leaves   *)
(* the process.                                                            *)
LEMMA WorkersRest ==
  ASSUME Inv, Resting, NEW p \in Workers, p \in Commands, Acts(p), Workers' = Workers
  PROVE  Resting'
<1>1. \A q \in Commands : q # p => cmd'[q] = cmd[q]
  BY OneMoves
<1> QED
  BY <1>1 DEF Resting
-----------------------------------------------------------------------------
(* Counting answers.                                                       *)
LEMMA BooksAreFinite ==
  ASSUME Inv, NEW c
  PROVE  /\ IsFiniteSet(Answers(c)) /\ Cardinality(Answers(c)) \in Nat
         /\ IsFiniteSet(Attaching(c)) /\ Cardinality(Attaching(c)) \in Nat
         /\ IsFiniteSet(Asking(c)) /\ Cardinality(Asking(c)) \in Nat
         /\ IsFiniteSet(Workers) /\ Cardinality(Workers) \in Nat
         /\ faults \in Nat
<1>1. IsFiniteSet(1 .. Len(raws)) /\ DOMAIN raws = 1 .. Len(raws)
  BY FS_Interval DEF Inv, TypeOK
<1>2. Answers(c) \in SUBSET (1 .. Len(raws))
  BY <1>1 DEF Answers
<1>3. /\ Attaching(c) \in SUBSET Commands /\ Asking(c) \in SUBSET Commands
      /\ Workers \in SUBSET Commands
  BY AloneAssumption DEF Attaching, Asking, Workers
<1>4. IsFiniteSet(Answers(c))
  BY <1>1, <1>2, FS_Subset
<1>5. IsFiniteSet(Attaching(c)) /\ IsFiniteSet(Asking(c)) /\ IsFiniteSet(Workers)
  BY <1>3, AloneAssumption, FS_Subset
<1>6. faults \in Nat
  BY BoundsAssumption DEF Inv, TypeOK
<1> QED
  BY <1>4, <1>5, <1>6, FS_CardinalityType

(* All that are asked and all that are about to attach are at work.        *)
LEMMA WorkersSuffice ==
  ASSUME Inv, Resting, NEW c
  PROVE  Cardinality(Asking(c)) + Cardinality(Attaching(c)) <= Cardinality(Workers)
<1> DEFINE A == Asking(c)  B == Attaching(c)
<1>1. A \cap B = {} /\ A \cup B \in SUBSET Workers
  BY DEF Asking, Attaching, Resting
<1>2. /\ IsFiniteSet(A) /\ IsFiniteSet(B) /\ IsFiniteSet(Workers)
      /\ Cardinality(A) \in Nat /\ Cardinality(B) \in Nat
  BY BooksAreFinite
<1> HIDE DEF A, B
<1>3. Cardinality(A \cup B) = Cardinality(A) + Cardinality(B) - Cardinality(A \cap B)
  BY <1>2, FS_Union
<1>4. Cardinality(A \cap B) = 0
  BY <1>1, FS_EmptySet
<1>5. Cardinality(A \cup B) <= Cardinality(Workers)
  BY <1>1, <1>2, FS_Subset
<1> QED
  BY <1>2, <1>3, <1>4, <1>5 DEF A, B

LEMMA CardinalityMonotone ==
  ASSUME NEW T, IsFiniteSet(T), NEW S \in SUBSET T
  PROVE  Cardinality(S) <= Cardinality(T)
BY FS_Subset

(* A step that neither buys an answer nor ends a wanting.                  *)
LEMMA CountStays ==
  ASSUME Inv, Inv', NEW c, CountOK(c), Workers' = Workers,
         Answers(c)' = Answers(c), faults' >= faults,
         Wanting(c)' = Wanting(c),
         Wanting(c) => Attaching(c) \subseteq Attaching(c)',
         ~Wanting(c) => Asking(c)' \subseteq Asking(c)
  PROVE  CountOK(c)'
<1>1. /\ Cardinality(Answers(c)) \in Nat /\ faults \in Nat /\ faults' \in Nat
      /\ Cardinality(Attaching(c)) \in Nat /\ Cardinality(Attaching(c)') \in Nat
      /\ IsFiniteSet(Attaching(c)') /\ IsFiniteSet(Asking(c)) /\ Cardinality(Workers) \in Nat
      /\ Cardinality(Asking(c)) \in Nat /\ Cardinality(Asking(c)') \in Nat
  <2>1. Attaching(c)' \in SUBSET Commands /\ Asking(c)' \in SUBSET Commands
    BY DEF Attaching, Asking
  <2>2. IsFiniteSet(Attaching(c)') /\ IsFiniteSet(Asking(c)')
    BY <2>1, AloneAssumption, FS_Subset
  <2>3. faults' \in Nat
    BY BoundsAssumption DEF Inv, TypeOK
  <2> QED
    BY <2>2, <2>3, BooksAreFinite, FS_CardinalityType
<1>2. CASE Wanting(c)
  <2>1. Cardinality(Attaching(c)) <= Cardinality(Attaching(c)')
    BY <1>1, <1>2, CardinalityMonotone
  <2> QED
    BY <1>1, <1>2, <2>1 DEF CountOK
<1>3. CASE ~Wanting(c)
  <2>1. Cardinality(Asking(c)') <= Cardinality(Asking(c))
    BY <1>1, <1>3, CardinalityMonotone
  <2> QED
    BY <1>1, <1>3, <2>1 DEF CountOK
<1> QED
  BY <1>2, <1>3

(* Enough for a step that buys nothing and changes no wanting.             *)
LEMMA BooksUnchanged ==
  ASSUME Inv, Inv', AllCounted, NEW p \in Commands, Workers' = Workers,
         \A q \in Commands : q # p => cmd'[q] = cmd[q],
         faults' >= faults, DOMAIN raws' = DOMAIN raws,
         \A i \in DOMAIN raws : raws'[i].challenge = raws[i].challenge,
         DOMAIN challenges' = DOMAIN challenges,
         \A c \in DOMAIN challenges : Wanting(c)' = Wanting(c),
         cmd[p].pc = "attach" => ~Wanting(cmd[p].challenge),
         cmd'[p].pc \in {"ask", "saveRaw"} =>
           \/ cmd'[p].challenge = 0 \/ Wanting(cmd'[p].challenge)
           \/ cmd[p].pc \in {"ask", "saveRaw"} /\ cmd'[p].challenge = cmd[p].challenge
  PROVE  AllCounted'
<1>1. ASSUME NEW c \in DOMAIN challenges PROVE CountOK(c)'
  <2>1. Answers(c)' = Answers(c) /\ c # 0
    BY DEF Answers, Inv, TypeOK
  <2>2. Wanting(c) => Attaching(c) \subseteq Attaching(c)'
    BY DEF Attaching
  <2>3. ~Wanting(c) => Asking(c)' \subseteq Asking(c)
    BY <2>1 DEF Asking
  <2> QED
    BY <2>1, <2>2, <2>3, CountStays DEF AllCounted
<1> QED
  BY <1>1 DEF AllCounted

(* A wanting ends: it is served or the challenge is closed.                *)
LEMMA WantingEnds ==
  ASSUME Inv, Inv', Resting, NEW c, CountOK(c), Wanting(c), ~Wanting(c)', Workers' = Workers,
         Answers(c)' = Answers(c), Asking(c)' \subseteq Asking(c), faults' = faults
  PROVE  CountOK(c)'
<1>1. Asking(c)' \in SUBSET Commands
  BY DEF Asking
<1>2. IsFiniteSet(Asking(c)') /\ Cardinality(Asking(c)') \in Nat
  BY <1>1, AloneAssumption, FS_Subset, FS_CardinalityType
<1>3. Cardinality(Asking(c)') <= Cardinality(Asking(c))
  BY BooksAreFinite, CardinalityMonotone
<1>4. Cardinality(Asking(c)) + Cardinality(Attaching(c)) <= Cardinality(Workers)
  BY WorkersSuffice
<1> QED
  BY <1>2, <1>3, <1>4, BooksAreFinite DEF CountOK

(* A process buys an answer, and is no longer asked but about to attach.   *)
LEMMA AnswerBought ==
  ASSUME Inv, Inv', NEW p \in Commands, NEW c, c # 0, CountOK(c), Workers' = Workers,
         c = cmd[p].challenge, SaveRaw(p)
  PROVE  CountOK(c)'
<1> DEFINE o == cmd[p]
           i == Len(raws) + 1
           e == [challenge |-> o.challenge, impact |-> o.impact,
                 content |-> o.content, verdict |-> "pending"]
<1>1. o \in Memories /\ o.pc = "saveRaw" /\ e \in Raws
  BY Mem DEF SaveRaw, At, Memories, Raws
<1>2. /\ raws' = Append(raws, e) /\ challenges' = challenges /\ faults' = faults
      /\ cmd' = [cmd EXCEPT ![p] = [o EXCEPT !.raw = i, !.pc = "attach"]]
  BY DEF SaveRaw, Move
<1>3. /\ cmd'[p].pc = "attach" /\ cmd'[p].challenge = c
      /\ \A q \in Commands : q # p => cmd'[q] = cmd[q]
  BY <1>1, <1>2 DEF Inv, TypeOK, Memories
<1>4. Answers(c)' = Answers(c) \cup {i} /\ i \notin Answers(c)
  <2>1. /\ DOMAIN raws = 1 .. Len(raws) /\ DOMAIN raws' = 1 .. Len(raws) + 1 /\ Len(raws) \in Nat
        /\ \A k \in DOMAIN raws : raws'[k] = raws[k]
        /\ raws'[i] = e /\ e.challenge = c
    BY <1>1, <1>2, AppendFacts DEF Inv, TypeOK
  <2> HIDE DEF e
  <2> QED
    BY <2>1 DEF Answers
<1>5. Attaching(c)' = Attaching(c) \cup {p} /\ p \notin Attaching(c)
  BY <1>1, <1>3 DEF Attaching
<1>6. Asking(c)' = Asking(c) \ {p} /\ p \in Asking(c)
  BY <1>1, <1>3 DEF Asking
<1>7. Wanting(c)' = Wanting(c)
  BY <1>2 DEF Wanting
<1>8. Cardinality(Answers(c)') = Cardinality(Answers(c)) + 1
  BY <1>4, BooksAreFinite, FS_AddElement
<1>9. Cardinality(Attaching(c)') = Cardinality(Attaching(c)) + 1
  BY <1>5, BooksAreFinite, FS_AddElement
<1>10. Cardinality(Asking(c)') = Cardinality(Asking(c)) - 1
  BY <1>6, BooksAreFinite, FS_RemoveElement
<1> QED
  BY <1>2, <1>7, <1>8, <1>9, <1>10, BooksAreFinite DEF CountOK

(* A process is stopped with an answer it has not attached.                *)
LEMMA AnswerLost ==
  ASSUME Inv, Inv', NEW p \in Commands, NEW c, CountOK(c), Workers' = Workers,
         Wanting(c), p \in Attaching(c), Stop(p)
  PROVE  CountOK(c)'
<1>1. /\ faults' = faults + 1 /\ raws' = raws /\ challenges' = challenges
      /\ cmd' = [cmd EXCEPT ![p] = Idle] /\ Idle.pc = "idle"
  BY DEF Stop, store, Idle
<1>2. Attaching(c)' = Attaching(c) \ {p}
  BY <1>1 DEF Attaching, Inv, TypeOK
<1>3. Cardinality(Attaching(c)') = Cardinality(Attaching(c)) - 1
  BY <1>2, BooksAreFinite, FS_RemoveElement
<1>4. Answers(c)' = Answers(c) /\ Wanting(c)' = Wanting(c)
  BY <1>1 DEF Answers, Wanting
<1> QED
  BY <1>1, <1>3, <1>4, BooksAreFinite DEF CountOK

(* A new challenge has no answers and nobody at work on it.                *)
LEMMA FiledUnanswered ==
  ASSUME Inv, Inv', AllCounted, NEW p \in Commands, FileChallenge(p), Workers' = Workers
  PROVE  AllCounted'
<1>0. PICK n : n = Len(challenges) + 1
  OBVIOUS
<1>1. /\ DOMAIN challenges = 1 .. Len(challenges) /\ DOMAIN challenges' = 1 .. n
      /\ Len(challenges) \in Nat /\ \A c \in DOMAIN challenges : challenges'[c] = challenges[c]
  BY <1>0 DEF FileChallenge, Inv, TypeOK
<1>2. /\ raws' = raws /\ faults' = faults /\ cmd' = [cmd EXCEPT ![p] = Idle]
      /\ Idle.pc = "idle" /\ cmd[p].pc = "audit"
  BY DEF FileChallenge, Move, At, Idle
<1>3. ASSUME NEW c \in DOMAIN challenges PROVE CountOK(c)'
  <2>1. Answers(c)' = Answers(c) /\ Wanting(c)' = Wanting(c)
    BY <1>1, <1>2, <1>3 DEF Answers, Wanting
  <2>2. Attaching(c)' = Attaching(c) /\ Asking(c)' = Asking(c)
    BY <1>2 DEF Attaching, Asking, Inv, TypeOK
  <2> QED
    BY <1>2, <1>3, <2>1, <2>2, BooksAreFinite, CountStays DEF AllCounted
<1>4. CountOK(n)'
  <2>1. n \notin DOMAIN challenges /\ n # 0
    BY <1>0, <1>1
  <2>2. Answers(n)' = {}
    BY <1>2, <2>1 DEF Answers, AllCounted
  <2>3. Asking(n)' = {}
    <3>1. \A q \in Commands : cmd[q].challenge # n
      BY <2>1 DEF Inv, CommandsOK, CommandOK
    <3> QED
      BY <1>2, <3>1 DEF Asking, Inv, TypeOK
  <2>4. Attaching(n)' \in SUBSET Commands
    BY DEF Attaching
  <2>5. Cardinality(Attaching(n)') \in Nat
    BY <2>4, AloneAssumption, FS_Subset, FS_CardinalityType
  <2>6. Cardinality(Answers(n)') = 0 /\ Cardinality(Asking(n)') = 0
    BY <2>2, <2>3, FS_EmptySet
  <2>7. \A c : Cardinality(Workers) \in Nat /\ faults \in Nat
    BY BooksAreFinite
  <2> QED
    BY <1>2, <2>5, <2>6, <2>7 DEF CountOK
<1> QED
  BY <1>0, <1>1, <1>2, <1>3, <1>4 DEF AllCounted

LEMMA CountStep ==
  ASSUME Inv, Inv', Resting, AllCounted, NEW p \in Commands, Acts(p), Workers' = Workers
  PROVE  AllCounted'
<1>1. /\ \A q \in Commands : q # p => cmd'[q] = cmd[q]
      /\ cmd \in [Commands -> Memories] /\ CommandOK(p)
      /\ Idle.pc = "idle" /\ faults \in Nat /\ raws \in Seq(Raws)
      /\ \A m : cmd' = [cmd EXCEPT ![p] = m] => cmd'[p] = m
  BY OneMoves, BoundsAssumption DEF Inv, TypeOK, CommandsOK, Idle
<1> DEFINE o == cmd[p]
           SameRaws == /\ DOMAIN raws' = DOMAIN raws
                       /\ \A i \in DOMAIN raws : raws'[i].challenge = raws[i].challenge
           SameWanting == /\ DOMAIN challenges' = DOMAIN challenges
                          /\ \A c \in DOMAIN challenges : Wanting(c)' = Wanting(c)
           Moves == /\ o.pc = "attach" => ~Wanting(o.challenge)
                    /\ cmd'[p].pc \in {"ask", "saveRaw"} =>
                         \/ cmd'[p].challenge = 0 \/ Wanting(cmd'[p].challenge)
                         \/ o.pc \in {"ask", "saveRaw"} /\ cmd'[p].challenge = o.challenge
<1>2. /\ raws' = raws => SameRaws
      /\ challenges' = challenges => SameWanting
  BY DEF Wanting
<1>3. ASSUME SameRaws, SameWanting, Moves, faults' >= faults PROVE AllCounted'
  BY <1>1, <1>3, BooksUnchanged
<1> HIDE DEF SameWanting, SameRaws
<1>4. CASE AbandonAudit(p) \/ NoAnswer(p)
  BY <1>1, <1>2, <1>3, <1>4 DEF AbandonAudit, NoAnswer, Move, At, store
<1>5. CASE FileChallenge(p)
  BY <1>5, FiledUnanswered
<1>6. CASE Ask(p)
  <2>1. PICK impact, content :
          Move(p, [o EXCEPT !.pc = "saveRaw", !.impact = impact, !.content = content])
    BY <1>6 DEF Ask
  <2>2. cmd'[p].challenge = o.challenge /\ o.pc = "ask" /\ faults' = faults /\ UNCHANGED store
    BY <1>1, <1>6, <2>1 DEF Memories, Move, Ask, At
  <2> QED
    BY <1>1, <1>2, <1>3, <2>2 DEF store
<1>7. CASE SaveRaw(p)
  <2>1. /\ raws' = Append(raws, [challenge |-> o.challenge, impact |-> o.impact,
                                 content |-> o.content, verdict |-> "pending"])
        /\ challenges' = challenges /\ faults' = faults
        /\ o.pc = "saveRaw" /\ o \in Memories
    BY <1>1, <1>7 DEF SaveRaw, Move, At
  <2>2. /\ DOMAIN raws' = 1 .. Len(raws) + 1 /\ Len(raws) \in Nat /\ DOMAIN raws = 1 .. Len(raws)
        /\ raws'[Len(raws) + 1].challenge = o.challenge
        /\ \A i \in DOMAIN raws : raws'[i] = raws[i]
    BY <1>1, <2>1
  <2>3. cmd'[p].pc \in {"attach", "judge"} /\ cmd'[p].challenge = o.challenge
    BY <1>1, <1>7 DEF SaveRaw, Move, Memories
  <2>4. ASSUME NEW c \in DOMAIN challenges, c # o.challenge PROVE CountOK(c)'
    <3>1. Answers(c)' = Answers(c) /\ Wanting(c)' = Wanting(c)
      BY <2>1, <2>2, <2>4 DEF Answers, Wanting
    <3>2. Attaching(c)' = Attaching(c) /\ Asking(c)' = Asking(c)
      BY <1>1, <2>1, <2>3, <2>4 DEF Attaching, Asking
    <3> QED
      BY <1>1, <2>1, <2>4, <3>1, <3>2, CountStays DEF AllCounted
  <2>5. ASSUME NEW c \in DOMAIN challenges, c = o.challenge PROVE CountOK(c)'
    <3>1. c # 0
      BY DEF Inv, TypeOK
    <3> QED
      BY <1>7, <2>5, <3>1, AnswerBought DEF AllCounted
  <2>6. o.challenge # 0 => o.challenge \in DOMAIN challenges
    BY <1>1 DEF CommandOK
  <2> QED
    BY <2>1, <2>2, <2>4, <2>5, <2>6 DEF AllCounted
<1>8. CASE Attach(p)
  <2>1. /\ o.pc = "attach" /\ o \in Memories /\ o.challenge \in DOMAIN challenges
        /\ raws' = raws /\ faults' = faults /\ o.challenge # 0 /\ o.raw # 0
        /\ challenges \in Seq(Challenges)
    BY <1>1, <1>8 DEF Attach, Move, At, CommandOK, Inv, TypeOK
  <2>2. cmd'[p].pc \in {"judge", "idle"}
    BY <1>1, <1>8, <2>1 DEF Attach, Move, Memories
  <2>3. CASE ~Wanting(o.challenge)
    BY <1>1, <1>2, <1>3, <1>8, <2>1, <2>2, <2>3 DEF Attach, Wanting
  <2>4. CASE Wanting(o.challenge)
    <3>1. challenges' = [challenges EXCEPT ![o.challenge].response = o.raw]
      BY <1>8, <2>4 DEF Attach, Wanting
    <3>2. /\ DOMAIN challenges' = DOMAIN challenges
          /\ \A c \in DOMAIN challenges : c # o.challenge => challenges'[c] = challenges[c]
          /\ challenges'[o.challenge].response = o.raw
      <4>1. challenges[o.challenge] \in Challenges
        BY <2>1
      <4> QED
        BY <2>1, <3>1, <4>1 DEF Challenges
    <3>3. ASSUME NEW c \in DOMAIN challenges PROVE CountOK(c)'
      <4>1. Answers(c)' = Answers(c) /\ Asking(c)' = Asking(c)
        BY <1>1, <2>1, <2>2 DEF Answers, Asking
      <4>2. CASE c = o.challenge
        <5>1. ~Wanting(c)'
          BY <2>1, <3>2, <4>2 DEF Wanting
        <5> QED
          BY <2>1, <2>4, <4>1, <4>2, <5>1, WantingEnds DEF AllCounted
      <4>3. CASE c # o.challenge
        <5>1. Wanting(c)' = Wanting(c)
          BY <3>2, <4>3 DEF Wanting
        <5>2. Attaching(c)' = Attaching(c)
          BY <1>1, <2>1, <2>2, <4>3 DEF Attaching
        <5> QED
          BY <1>1, <2>1, <4>1, <5>1, <5>2, CountStays DEF AllCounted
      <4> QED
        BY <4>2, <4>3
    <3> QED
      BY <2>1, <3>2, <3>3 DEF AllCounted
  <2> QED
    BY <2>3, <2>4
<1>9. CASE Judge(p)
  <2>1. cmd'[p].pc \in {"reject", "accept"} /\ o.pc = "judge" /\ faults' = faults
    BY <1>1, <1>9 DEF Judge, Move, At, Memories
  <2>2. challenges' = challenges /\ raws' = raws
    BY <1>9 DEF Judge
  <2> QED
    BY <1>1, <1>2, <1>3, <2>1, <2>2
<1>10. CASE Reject(p) \/ Accept(p)
  <2>1. /\ cmd'[p].pc \in {"idle", "resolve"} /\ o.pc \in {"reject", "accept"} /\ faults' = faults
        /\ challenges' = challenges
    BY <1>1, <1>10 DEF Reject, Accept, Move, At, Memories
  <2>2. PICK verdict : raws' = [raws EXCEPT ![o.raw].verdict = verdict]
    BY <1>10 DEF Reject, Accept
  <2>3. SameRaws
    BY <1>1, <2>2 DEF SameRaws, Raws
  <2> QED
    BY <1>1, <1>2, <1>3, <2>1, <2>3
<1>11. CASE ResolveWithResponse(p)
  <2>1. /\ o.pc = "resolve" /\ o \in Memories /\ o.challenge \in DOMAIN challenges
        /\ challenges[o.challenge].response = o.raw /\ o.raw # 0
        /\ raws' = raws /\ faults' = faults /\ cmd'[p] = Idle
        /\ challenges \in Seq(Challenges)
    BY <1>1, <1>11 DEF ResolveWithResponse, Move, At, CommandOK, Inv, TypeOK
  <2>2. SameWanting
    <3>1. CASE challenges' = challenges
      BY <1>2, <3>1
    <3>2. CASE challenges' = [challenges EXCEPT ![o.challenge] = Resolved(challenges[o.challenge], o)]
      <4>1. Resolved(challenges[o.challenge], o).response = o.raw
        BY <2>1 DEF Resolved, Challenges
      <4>2. /\ DOMAIN challenges' = DOMAIN challenges
            /\ challenges'[o.challenge].response = o.raw
            /\ \A c \in DOMAIN challenges : c # o.challenge => challenges'[c] = challenges[c]
        BY <2>1, <3>2, <4>1
      <4> QED
        BY <2>1, <4>2 DEF SameWanting, Wanting
    <3> QED
      BY <1>11, <3>1, <3>2 DEF ResolveWithResponse
  <2> QED
    BY <1>1, <1>2, <1>3, <2>1, <2>2
<1>12. CASE Analyze(p) \/ Grill(p) \/ Update(p) \/ RetryUpdate(p)
  <2>1. /\ o.pc = "idle" /\ faults' = faults /\ challenges' = challenges /\ raws' = raws
    BY <1>12 DEF Analyze, Grill, Update, RetryUpdate, Enter, At, store
  <2>2. cmd'[p].pc \in {"ask", "saveRaw"} => cmd'[p].challenge = 0
    BY <1>1, <1>12 DEF Analyze, Grill, Update, RetryUpdate, Enter, Idle
  <2> QED
    BY <1>1, <1>2, <1>3, <2>1, <2>2
<1>13. ASSUME NEW c \in 1 .. MaxChallenges, Respond(p, c) PROVE AllCounted'
  <2>1. /\ o.pc = "idle" /\ faults' = faults /\ challenges' = challenges /\ raws' = raws
    BY <1>13 DEF Respond, Enter, At, store
  <2>2. cmd'[p].pc \in {"ask", "saveRaw"} => cmd'[p].challenge = c /\ Wanting(c)
    BY <1>1, <1>13 DEF Respond, Enter, Idle, Wanting
  <2> QED
    BY <1>1, <1>2, <1>3, <2>1, <2>2
<1>14. ASSUME NEW c \in 1 .. MaxChallenges, NEW status \in Resolutions, Resolve(p, c, status)
       PROVE  AllCounted'
  <2>1. /\ o.pc = "idle" /\ faults' = faults /\ raws' = raws /\ c \in DOMAIN challenges
        /\ challenges' = [challenges EXCEPT ![c].status = status] /\ cmd'[p] = Idle
        /\ challenges \in Seq(Challenges) /\ status # "open"
    BY <1>1, <1>14 DEF Resolve, Enter, At, Inv, TypeOK, Resolutions
  <2>2. /\ DOMAIN challenges' = DOMAIN challenges /\ challenges'[c].status = status
        /\ \A d \in DOMAIN challenges : d # c => challenges'[d] = challenges[d]
    <3>1. challenges[c] \in Challenges
      BY <2>1
    <3> QED
      BY <2>1, <3>1 DEF Challenges
  <2>3. ASSUME NEW d \in DOMAIN challenges PROVE CountOK(d)'
    <3>1. Answers(d)' = Answers(d) /\ Asking(d)' = Asking(d) /\ Attaching(d)' = Attaching(d)
      BY <1>1, <2>1 DEF Answers, Asking, Attaching
    <3>2. CASE Wanting(d)' = Wanting(d)
      BY <1>1, <2>1, <3>1, <3>2, CountStays DEF AllCounted
    <3>3. CASE Wanting(d)' # Wanting(d)
      <4>1. d = c /\ ~Wanting(d)'
        BY <2>1, <2>2, <3>3 DEF Wanting
      <4>2. Wanting(d)
        BY <3>3, <4>1 DEF Wanting
      <4> QED
        BY <2>1, <3>1, <4>1, <4>2, WantingEnds DEF AllCounted
    <3> QED
      BY <3>2, <3>3
  <2> QED
    BY <2>1, <2>2, <2>3 DEF AllCounted
<1>15. CASE Stop(p)
  <2>1. /\ faults' = faults + 1 /\ raws' = raws /\ challenges' = challenges /\ cmd'[p] = Idle
    BY <1>1, <1>15 DEF Stop, store
  <2>2. ASSUME NEW c \in DOMAIN challenges PROVE CountOK(c)'
    <3>1. Answers(c)' = Answers(c) /\ Wanting(c)' = Wanting(c)
      BY <2>1 DEF Answers, Wanting
    <3>2. CASE Wanting(c) /\ p \in Attaching(c)
      BY <1>15, <3>2, AnswerLost DEF AllCounted
    <3>3. CASE ~(Wanting(c) /\ p \in Attaching(c))
      <4>1. Wanting(c) => Attaching(c) \subseteq Attaching(c)'
        BY <1>1, <3>3 DEF Attaching
      <4>2. Asking(c)' \subseteq Asking(c)
        BY <1>1, <2>1 DEF Asking
      <4> QED
        BY <1>1, <2>1, <3>1, <4>1, <4>2, CountStays DEF AllCounted
    <3> QED
      BY <3>2, <3>3
  <2> QED
    BY <2>1, <2>2 DEF AllCounted
<1> QED
  BY <1>4, <1>5, <1>6, <1>7, <1>8, <1>9, <1>10, <1>11, <1>12, <1>13, <1>14, <1>15
     DEF Acts, Step, Command
-----------------------------------------------------------------------------
(* A revision that is persisted closes its challenge or costs a failure.   *)
LEMMA ChallengesAreFinite ==
  ASSUME Inv, NEW S \in SUBSET DOMAIN challenges
  PROVE  IsFiniteSet(S) /\ Cardinality(S) \in Nat
<1>1. IsFiniteSet(1 .. Len(challenges)) /\ DOMAIN challenges = 1 .. Len(challenges)
  BY FS_Interval DEF Inv, TypeOK
<1> QED
  BY <1>1, FS_Subset, FS_CardinalityType

(* Without a failure no challenge is newly left open.                      *)
LEMMA NoneLeft ==
  ASSUME Inv, Inv', OnlyFailuresLeaveOpen, LeftOpen' \subseteq LeftOpen, faults' = faults
  PROVE  OnlyFailuresLeaveOpen'
<1>1. LeftOpen \in SUBSET DOMAIN challenges
  BY DEF LeftOpen
<1>2. IsFiniteSet(LeftOpen) /\ Cardinality(LeftOpen) \in Nat /\ faults \in Nat
  BY <1>1, ChallengesAreFinite, BoundsAssumption DEF Inv, TypeOK
<1>3. Cardinality(LeftOpen') <= Cardinality(LeftOpen) /\ IsFiniteSet(LeftOpen')
  BY <1>2, FS_Subset
<1>4. Cardinality(LeftOpen') \in Nat
  BY <1>3, FS_CardinalityType
<1> QED
  BY <1>2, <1>3, <1>4 DEF OnlyFailuresLeaveOpen

(* A stopped process leaves at most the challenge it was at.               *)
LEMMA StopLeaves ==
  ASSUME Inv, Inv', OnlyFailuresLeaveOpen, NEW p \in Commands, Stop(p)
  PROVE  OnlyFailuresLeaveOpen'
<1>0. PICK c : c = cmd[p].challenge
  OBVIOUS
<1>1. /\ cmd' = [cmd EXCEPT ![p] = Idle] /\ Idle.pc = "idle" /\ faults' = faults + 1
      /\ theses' = theses /\ challenges' = challenges
  BY DEF Stop, store, Idle
<1>2. LeftOpen' \subseteq LeftOpen \cup {c}
  <2> SUFFICES ASSUME NEW d \in DOMAIN challenges, d # c, challenges[d].status = "open",
                      NEW t \in DOMAIN theses, Succeeds(t, d), AtWorkOn(t)' = {}
               PROVE  AtWorkOn(t) = {}
    BY <1>1 DEF LeftOpen, Succeeds
  <2>1. ASSUME NEW q \in AtWorkOn(t) PROVE FALSE
    <3>1. q = p
      BY <1>1 DEF AtWorkOn, Inv, TypeOK
    <3>2. theses[t].challenge = cmd[q].challenge
      <4>1. t # 0 /\ cmd[q].saved = t /\ cmd[q].pc \in {"accept", "resolve"} /\ q \in Commands
        BY DEF AtWorkOn, Inv, TypeOK
      <4> QED
        BY <4>1 DEF Inv, CommandsOK, CommandOK
    <3> QED
      BY <1>0, <3>1, <3>2 DEF Succeeds
  <2> QED
    BY <2>1
<1>3. LeftOpen \in SUBSET DOMAIN challenges
  BY DEF LeftOpen
<1>4. IsFiniteSet(LeftOpen) /\ Cardinality(LeftOpen) \in Nat /\ faults \in Nat
  BY <1>3, ChallengesAreFinite, BoundsAssumption DEF Inv, TypeOK
<1>5. /\ IsFiniteSet(LeftOpen \cup {c})
      /\ Cardinality(LeftOpen \cup {c}) <= Cardinality(LeftOpen) + 1
      /\ Cardinality(LeftOpen \cup {c}) \in Nat
  <2>1. /\ IsFiniteSet(LeftOpen \cup {c})
        /\ Cardinality(LeftOpen \cup {c}) =
             IF c \in LeftOpen THEN Cardinality(LeftOpen) ELSE Cardinality(LeftOpen) + 1
    BY <1>4, FS_AddElement
  <2> QED
    BY <1>4, <2>1
<1>6. IsFiniteSet(LeftOpen') /\ Cardinality(LeftOpen') <= Cardinality(LeftOpen \cup {c})
  BY <1>2, <1>5, FS_Subset
<1>7. Cardinality(LeftOpen') \in Nat
  BY <1>6, FS_CardinalityType
<1> QED
  BY <1>1, <1>4, <1>5, <1>6, <1>7 DEF OnlyFailuresLeaveOpen

(* Enough for a step that persists nothing and closes what it is at.       *)
LEMMA NothingPersisted ==
  ASSUME Inv, Inv', NEW p \in Commands, theses' = theses,
         \A q \in Commands : q # p => cmd'[q] = cmd[q],
         \A c \in DOMAIN challenges' :
           challenges'[c].status = "open" =>
             \/ c \notin DOMAIN challenges
             \/ /\ challenges[c].status = "open" /\ challenges'[c].thesis = challenges[c].thesis
                /\ \A t \in DOMAIN theses :
                     Succeeds(t, c) /\ p \in AtWorkOn(t) => cmd'[p].pc = "resolve" /\ cmd'[p].saved = t
  PROVE  LeftOpen' \subseteq LeftOpen
<1> SUFFICES ASSUME NEW c \in DOMAIN challenges', challenges'[c].status = "open",
                    NEW t \in DOMAIN theses, Succeeds(t, c)', AtWorkOn(t)' = {}
             PROVE  c \in LeftOpen
  BY DEF LeftOpen
<1>1. theses[t].challenge = c /\ theses[t].previous = challenges'[c].thesis /\ c # 0
  BY DEF Succeeds, Inv, TypeOK
<1>2. c \in DOMAIN challenges
  BY <1>1 DEF Inv, RevisionsUseAttachedResponse
<1>3. Succeeds(t, c) /\ challenges[c].status = "open"
  BY <1>1, <1>2 DEF Succeeds
<1>4. p \notin AtWorkOn(t)
  BY <1>2, <1>3 DEF AtWorkOn
<1>5. AtWorkOn(t) = {}
  BY <1>4 DEF AtWorkOn
<1> QED
  BY <1>2, <1>3, <1>5 DEF LeftOpen

(* A new revision is its process's to resolve, or answers no challenge.    *)
LEMMA Persisted ==
  ASSUME Inv, Inv', NEW p \in Commands, NEW e, theses' = Append(theses, e), challenges' = challenges,
         \A q \in Commands : q # p => cmd'[q] = cmd[q],
         cmd[p].pc \notin {"accept", "resolve"},
         e.challenge # 0 => cmd'[p].pc = "accept" /\ cmd'[p].saved = Latest + 1
  PROVE  LeftOpen' \subseteq LeftOpen
<1>1. /\ DOMAIN theses = 1 .. Latest /\ DOMAIN theses' = 1 .. Latest + 1 /\ Latest \in Nat
      /\ theses'[Latest + 1] = e /\ \A t \in DOMAIN theses : theses'[t] = theses[t]
  BY DEF Inv, TypeOK, Latest
<1> SUFFICES ASSUME NEW c \in DOMAIN challenges, challenges[c].status = "open",
                    NEW t \in DOMAIN theses', Succeeds(t, c)', AtWorkOn(t)' = {}
             PROVE  c \in LeftOpen
  BY DEF LeftOpen
<1>2. theses'[t].challenge = c /\ theses'[t].previous = challenges[c].thesis /\ c # 0
  BY DEF Succeeds, Inv, TypeOK
<1>3. t # Latest + 1
  BY <1>1, <1>2 DEF AtWorkOn
<1>4. t \in DOMAIN theses /\ Succeeds(t, c)
  BY <1>1, <1>2, <1>3 DEF Succeeds
<1>5. AtWorkOn(t) = {}
  BY DEF AtWorkOn
<1> QED
  BY <1>4, <1>5 DEF LeftOpen

LEMMA LeftStep ==
  ASSUME Inv, Inv', OnlyFailuresLeaveOpen, NEW p \in Commands, Acts(p)
  PROVE  OnlyFailuresLeaveOpen'
<1>1. /\ \A q \in Commands : q # p => cmd'[q] = cmd[q]
      /\ cmd[p] \in Memories /\ CommandOK(p)
      /\ \A m : cmd' = [cmd EXCEPT ![p] = m] => cmd'[p] = m
  BY OneMoves DEF Inv, TypeOK, CommandsOK
<1> DEFINE o == cmd[p]
<1>2. ASSUME theses' = theses, challenges' = challenges, faults' = faults,
             o.pc \notin {"accept", "resolve"}
      PROVE  OnlyFailuresLeaveOpen'
  <2>1. \A t : p \notin AtWorkOn(t)
    BY <1>2 DEF AtWorkOn
  <2> QED
    BY <1>1, <1>2, <2>1, NothingPersisted, NoneLeft
<1>3. CASE AbandonAudit(p) \/ NoAnswer(p)
  BY <1>2, <1>3 DEF AbandonAudit, NoAnswer, Move, At, store
<1>4. CASE Ask(p) \/ SaveRaw(p) \/ Reject(p)
  BY <1>2, <1>4, Zenon DEF Ask, SaveRaw, Reject, Move, At, store
<1>5. CASE FileChallenge(p) \/ Attach(p)
  <2>1. /\ theses' = theses /\ faults' = faults /\ o.pc \notin {"accept", "resolve"}
        /\ challenges \in Seq(Challenges)
    BY <1>5 DEF FileChallenge, Attach, Move, At, Inv, TypeOK
  <2>2. \A c \in DOMAIN challenges :
          challenges'[c].thesis = challenges[c].thesis /\ challenges'[c].status = challenges[c].status
    <3>1. CASE FileChallenge(p)
      BY <2>1, <3>1 DEF FileChallenge
    <3>2. CASE Attach(p)
      <4>1. o.challenge \in DOMAIN challenges
        BY <1>1, <3>2 DEF Attach, At, CommandOK
      <4>2. challenges[o.challenge] \in Challenges
        BY <2>1, <4>1
      <4> QED
        BY <2>1, <3>2, <4>1, <4>2, ZenonT(60) DEF Attach, Challenges
    <3> QED
      BY <1>5, <3>1, <3>2
  <2>3. \A t : p \notin AtWorkOn(t)
    BY <2>1 DEF AtWorkOn
  <2> QED
    BY <1>1, <2>1, <2>2, <2>3, NothingPersisted, NoneLeft
<1>6. CASE Judge(p)
  <2>1. o.pc = "judge" /\ faults' = faults /\ challenges' = challenges
    BY <1>6 DEF Judge, Move, At
  <2>2. CASE theses' = theses
    BY <1>2, <2>1, <2>2
  <2>3. CASE /\ theses' = Append(theses, Revision(o))
             /\ Move(p, [o EXCEPT !.pc = "accept", !.saved = Latest + 1])
    <3>1. cmd'[p].pc = "accept" /\ cmd'[p].saved = Latest + 1
      BY <1>1, <2>3 DEF Move, Memories
    <3> QED
      BY <1>1, <2>1, <2>3, <3>1, Persisted, NoneLeft
  <2> QED
    BY <1>6, <2>2, <2>3 DEF Judge
<1>7. CASE Accept(p)
  <2>1. /\ o.pc = "accept" /\ faults' = faults /\ challenges' = challenges /\ theses' = theses
    BY <1>7 DEF Accept, Move, At
  <2>2. ASSUME NEW c \in DOMAIN challenges, NEW t \in DOMAIN theses, Succeeds(t, c), p \in AtWorkOn(t)
        PROVE  cmd'[p].pc = "resolve" /\ cmd'[p].saved = t
    <3>1. t # 0 /\ c # 0 /\ o.saved = t
      BY <2>2 DEF AtWorkOn, Inv, TypeOK
    <3>2. o.challenge = c
      BY <1>1, <2>1, <2>2, <3>1 DEF CommandOK, Succeeds
    <3>3. cmd'[p] = [o EXCEPT !.pc = "resolve"]
      BY <1>1, <1>7, <3>1, <3>2 DEF Accept, Move
    <3> QED
      BY <1>1, <3>1, <3>3 DEF Memories
  <2> QED
    BY <1>1, <2>1, <2>2, NothingPersisted, NoneLeft
<1>8. CASE ResolveWithResponse(p)
  <2>1. /\ o.pc = "resolve" /\ faults' = faults /\ theses' = theses /\ o.saved # 0
        /\ o.challenge \in DOMAIN challenges /\ challenges \in Seq(Challenges)
        /\ challenges[o.challenge] \in Challenges
    BY <1>1, <1>8 DEF ResolveWithResponse, Move, At, CommandOK, Inv, TypeOK
  <2> DEFINE e == Resolved(challenges[o.challenge], o)
  <2>2. e.status # "open" /\ e.thesis = challenges[o.challenge].thesis
    BY <2>1 DEF Resolved, Verdict, Challenges
  <2>3. \A c \in DOMAIN challenges' :
          challenges'[c].status = "open" =>
            /\ c \in DOMAIN challenges /\ challenges'[c] = challenges[c]
            /\ c = o.challenge => theses[o.saved].previous # challenges[c].thesis
    BY <1>8, <2>1, <2>2 DEF ResolveWithResponse
  <2>4. ASSUME NEW c \in DOMAIN challenges, NEW t \in DOMAIN theses, Succeeds(t, c), p \in AtWorkOn(t)
        PROVE  c = o.challenge /\ theses[o.saved].previous = challenges[c].thesis
    BY <1>1, <2>1, <2>4 DEF AtWorkOn, CommandOK, Succeeds
  <2> QED
    BY <1>1, <2>1, <2>3, <2>4, NothingPersisted, NoneLeft
<1>9. CASE Grill(p) \/ Update(p) \/ RetryUpdate(p)
  BY <1>2, <1>9, Zenon DEF Grill, Update, RetryUpdate, Enter, At, store
<1>10. CASE Analyze(p)
  <2> DEFINE e == Revision([Idle EXCEPT !.impact = "change"])
  <2>1. e.challenge = 0
    BY DEF Revision, Idle
  <2>2. theses' = Append(theses, e) /\ challenges' = challenges /\ o.pc = "idle" /\ faults' = faults
    BY <1>10 DEF Analyze, Enter, At
  <2> HIDE DEF e
  <2> QED
    BY <1>1, <2>1, <2>2, Persisted, NoneLeft
<1>11. ASSUME NEW c \in 1 .. MaxChallenges, Respond(p, c) PROVE OnlyFailuresLeaveOpen'
  BY <1>2, <1>11, Zenon DEF Respond, Enter, At, store
<1>12. ASSUME NEW c \in 1 .. MaxChallenges, NEW status \in Resolutions, Resolve(p, c, status)
       PROVE  OnlyFailuresLeaveOpen'
  <2>1. /\ o.pc = "idle" /\ faults' = faults /\ theses' = theses /\ c \in DOMAIN challenges
        /\ challenges' = [challenges EXCEPT ![c].status = status]
        /\ challenges \in Seq(Challenges) /\ status # "open"
    BY <1>12 DEF Resolve, Enter, At, Inv, TypeOK, Resolutions
  <2>2. challenges[c] \in Challenges
    BY <2>1
  <2>3. /\ DOMAIN challenges' = DOMAIN challenges /\ challenges'[c].status = status
        /\ \A d \in DOMAIN challenges : d # c => challenges'[d] = challenges[d]
    BY <2>1, <2>2 DEF Challenges
  <2>4. \A t : p \notin AtWorkOn(t)
    BY <2>1 DEF AtWorkOn
  <2> QED
    BY <1>1, <2>1, <2>3, <2>4, NothingPersisted, NoneLeft
<1> QED
  BY <1>3, <1>4, <1>5, <1>6, <1>7, <1>8, <1>9, <1>10, <1>11, <1>12, StopLeaves
     DEF Acts, Step, Command
-----------------------------------------------------------------------------
(* What is kept.                                                           *)
LEMMA ChallengedStays ==
  ASSUME Inv, NEW p \in Commands, Acts(p)
  PROVE  \A c \in DOMAIN challenges : challenges'[c].thesis = challenges[c].thesis
<1> DEFINE o == cmd[p]
           Stays == \A c \in DOMAIN challenges : challenges'[c].thesis = challenges[c].thesis
<1>1. challenges \in Seq(Challenges) /\ CommandOK(p) /\ o \in Memories
  BY Mem DEF Inv, TypeOK
<1>2. ASSUME NEW c \in DOMAIN challenges, NEW e, challenges' = [challenges EXCEPT ![c] = e],
             e.thesis = challenges[c].thesis
      PROVE  Stays
  BY <1>1, <1>2
<1>3. CASE FileChallenge(p)
  BY <1>1, <1>3 DEF FileChallenge
<1>4. CASE Attach(p)
  <2>1. o.challenge \in DOMAIN challenges /\ challenges[o.challenge] \in Challenges
    BY <1>1, <1>4 DEF Attach, At, CommandOK
  <2>2. [challenges[o.challenge] EXCEPT !.response = o.raw].thesis = challenges[o.challenge].thesis
    BY <2>1 DEF Challenges
  <2>3. \/ challenges' = challenges
        \/ challenges' = [challenges EXCEPT ![o.challenge] =
                            [challenges[o.challenge] EXCEPT !.response = o.raw]]
    BY <1>1, <1>4, <2>1 DEF Attach
  <2> QED
    BY <1>2, <2>1, <2>2, <2>3
<1>5. CASE ResolveWithResponse(p)
  <2>1. o.challenge \in DOMAIN challenges /\ challenges[o.challenge] \in Challenges
    BY <1>1, <1>5 DEF ResolveWithResponse, At, CommandOK
  <2>2. Resolved(challenges[o.challenge], o).thesis = challenges[o.challenge].thesis
    BY <2>1 DEF Resolved, Challenges
  <2> QED
    BY <1>2, <1>5, <2>1, <2>2 DEF ResolveWithResponse
<1>6. ASSUME NEW c \in 1 .. MaxChallenges, NEW status \in Resolutions, Resolve(p, c, status)
      PROVE  Stays
  <2>1. c \in DOMAIN challenges /\ challenges[c] \in Challenges
    BY <1>1, <1>6 DEF Resolve
  <2>2. [challenges[c] EXCEPT !.status = status].thesis = challenges[c].thesis
    BY <2>1 DEF Challenges
  <2>3. challenges' = [challenges EXCEPT ![c] = [challenges[c] EXCEPT !.status = status]]
    BY <1>1, <1>6, <2>1 DEF Resolve
  <2> QED
    BY <1>2, <2>1, <2>2, <2>3
<1>7. CASE AbandonAudit(p) \/ Ask(p) \/ NoAnswer(p) \/ SaveRaw(p) \/ Judge(p) \/ Reject(p)
            \/ Accept(p) \/ Stop(p)
  BY <1>7 DEF AbandonAudit, Ask, NoAnswer, SaveRaw, Judge, Reject, Accept, Stop, store
<1>8. CASE Analyze(p) \/ Grill(p) \/ Update(p) \/ RetryUpdate(p)
            \/ \E c \in 1 .. MaxChallenges : Respond(p, c)
  BY <1>8 DEF Analyze, Grill, Update, RetryUpdate, Respond, store
<1> QED
  BY <1>3, <1>4, <1>5, <1>6, <1>7, <1>8 DEF Acts, Step, Command

(* A new revision that keeps what it should.                               *)
LEMMA KeptAdded ==
  ASSUME Inv, Inv', KeptRows, NEW e, theses' = Append(theses, e), challenges' = challenges,
         Alone' = Alone,
         e.impact = "keep" =>
           /\ e.previous \in DOMAIN theses
           /\ e.challenge # 0 => /\ challenges[e.challenge].thesis \in DOMAIN theses
                                 /\ e.content = theses[challenges[e.challenge].thesis].content
           /\ Alone /\ e.challenge = 0 => e.content = theses[e.previous].content
  PROVE  KeptRows'
<1>1. /\ DOMAIN theses = 1 .. Latest /\ DOMAIN theses' = 1 .. Latest + 1 /\ Latest \in Nat
      /\ theses'[Latest + 1] = e /\ \A t \in DOMAIN theses : theses'[t] = theses[t]
  BY DEF Inv, TypeOK, Latest
<1>2. \A t \in DOMAIN theses :
        theses[t].challenge # 0 => /\ theses[t].challenge \in DOMAIN challenges
                                   /\ challenges[theses[t].challenge].thesis \in DOMAIN theses
  BY DEF Inv, RevisionsUseAttachedResponse, RowsOK
<1>3. ASSUME NEW t \in DOMAIN theses, theses[t].impact = "keep"
      PROVE  LET r == theses'[t] IN
             /\ r.previous \in DOMAIN theses'
             /\ r.challenge # 0 => r.content = theses'[challenges[r.challenge].thesis].content
             /\ Alone /\ r.challenge = 0 => r.content = theses'[r.previous].content
  BY <1>1, <1>2, <1>3 DEF KeptRows, KeptContentStands
<1>4. ASSUME e.impact = "keep"
      PROVE  /\ e.previous \in DOMAIN theses'
             /\ e.challenge # 0 => e.content = theses'[challenges[e.challenge].thesis].content
             /\ Alone /\ e.challenge = 0 => e.content = theses'[e.previous].content
  BY <1>1, <1>4
<1>5. ASSUME NEW t \in DOMAIN theses', theses'[t].impact = "keep"
      PROVE  LET r == theses'[t] IN
             /\ r.previous \in DOMAIN theses'
             /\ r.challenge # 0 => r.content = theses'[challenges[r.challenge].thesis].content
             /\ Alone /\ r.challenge = 0 => r.content = theses'[r.previous].content
  <2>1. CASE t \in DOMAIN theses
    BY <1>1, <1>3, <1>5, <2>1
  <2>2. CASE t = Latest + 1
    BY <1>1, <1>4, <1>5, <2>2
  <2>3. t \in DOMAIN theses \/ t = Latest + 1
    <3>1. t \in 1 .. Latest + 1
      BY <1>1, <1>5
    <3> HIDE DEF Latest
    <3>2. t \in 1 .. Latest \/ t = Latest + 1
      BY <1>1, <3>1
    <3> QED
      BY <1>1, <3>2
  <2> QED
    BY <2>1, <2>2, <2>3
<1> QED
  BY <1>5 DEF KeptRows, KeptContentStands

LEMMA KeptStep ==
  ASSUME Inv, Inv', KeptRows, AtLatest, NEW p \in Commands, p \in Workers, Acts(p), Alone' = Alone
  PROVE  KeptRows'
<1> DEFINE o == cmd[p]
<1>1. o \in Memories /\ CommandOK(p)
  BY Mem
<1>2. CASE theses' = theses
  <2>1. \A t \in DOMAIN theses :
          theses[t].challenge # 0 => theses[t].challenge \in DOMAIN challenges
    BY DEF Inv, RevisionsUseAttachedResponse
  <2> QED
    BY <1>2, <2>1, ChallengedStays DEF KeptRows, KeptContentStands
<1>3. CASE Analyze(p)
  <2> DEFINE e == Revision([Idle EXCEPT !.impact = "change"])
  <2>1. e.impact = "change"
    BY DEF Revision, Idle
  <2>2. theses' = Append(theses, e) /\ challenges' = challenges
    BY <1>3 DEF Analyze
  <2> HIDE DEF e
  <2> QED
    BY <2>1, <2>2, KeptAdded
<1>4. CASE Judge(p) /\ MayPass(o) /\ theses' = Append(theses, Revision(o))
  <2>1. o.pc = "judge" /\ challenges' = challenges /\ o.thesis \in DOMAIN theses
    BY <1>1, <1>4 DEF Judge, At, CommandOK
  <2>2. DOMAIN theses = 1 .. Latest /\ Latest \in Nat
    BY LatestType
  <2> DEFINE e == Revision(o)
  <2>3. e.impact = o.impact /\ e.challenge = o.challenge /\ e.previous = Latest
    BY DEF Revision
  <2>4. e.impact = "keep" => e.content = theses[o.thesis].content
    BY <1>4 DEF Revision, MayPass
  <2>5. o.challenge # 0 => challenges[o.challenge].thesis = o.thesis
    BY <1>1 DEF CommandOK
  <2>6. Alone /\ o.challenge = 0 => o.thesis = Latest
    BY <2>1 DEF AtLatest, Workers
  <2>7. e.previous \in DOMAIN theses
    BY <2>1, <2>2, <2>3
  <2>8. theses' = Append(theses, e)
    BY <1>4
  <2> HIDE DEF e
  <2> QED
    BY <2>1, <2>3, <2>4, <2>5, <2>6, <2>7, <2>8, KeptAdded
<1>5. CASE Step(p) /\ ~(Judge(p) /\ MayPass(o) /\ theses' = Append(theses, Revision(o)))
  <2>1. theses' = theses
    BY <1>5 DEF Step, AbandonAudit, FileChallenge, Ask, NoAnswer, SaveRaw, Attach, Judge, Reject,
       Accept, ResolveWithResponse, store
  <2> QED
    BY <1>2, <2>1
<1>6. CASE Command(p) /\ ~Analyze(p)
  <2>1. theses' = theses
    BY <1>6 DEF Command, Grill, Update, RetryUpdate, Respond, Resolve, store
  <2> QED
    BY <1>2, <2>1
<1>7. CASE Stop(p)
  <2>1. theses' = theses
    BY <1>7 DEF Stop, store
  <2> QED
    BY <1>2, <2>1
<1> QED
  BY <1>3, <1>4, <1>5, <1>6, <1>7 DEF Acts, Step

(* An alone process is at the latest revision until it has saved one.      *)
LEMMA LatestStep ==
  ASSUME Inv, Inv', AtLatest, NEW p \in Commands, p \in Workers, Acts(p), Alone' = Alone
  PROVE  AtLatest'
<1> SUFFICES ASSUME Alone, cmd'[p1].challenge = 0, cmd'[p1].pc \in {"ask", "saveRaw", "judge"}
             PROVE  cmd'[p1].thesis = Len(theses')
  BY DEF AtLatest, Latest
<1> DEFINE o == cmd[p]
<1>1. p = p1 /\ o \in Memories /\ cmd \in [Commands -> Memories]
      /\ \A m : cmd' = [cmd EXCEPT ![p] = m] => cmd'[p] = m
  BY Mem DEF Workers, Inv, TypeOK
<1>2. Idle.pc = "idle"
  BY DEF Idle
<1>3. CASE Ask(p) \/ SaveRaw(p)
  <2>1. theses' = theses /\ o.pc \in {"ask", "saveRaw"}
    BY <1>3 DEF Ask, SaveRaw, At, store
  <2>2. cmd'[p].thesis = o.thesis /\ cmd'[p].challenge = o.challenge
    <3>1. CASE SaveRaw(p)
      BY <1>1, <3>1 DEF SaveRaw, Move, Memories
    <3>2. CASE Ask(p)
      <4>1. PICK impact, content :
              Move(p, [o EXCEPT !.pc = "saveRaw", !.impact = impact, !.content = content])
        BY <3>2 DEF Ask
      <4> QED
        BY <1>1, <4>1 DEF Move, Memories
    <3> QED
      BY <1>3, <3>1, <3>2
  <2> QED
    BY <1>1, <2>1, <2>2 DEF AtLatest, Latest
<1>4. CASE Attach(p)
  <2>1. o.challenge # 0 /\ o.pc = "attach"
    BY <1>1, <1>4, Mem DEF Attach, At, CommandOK
  <2>2. cmd'[p].pc = "idle" \/ cmd'[p].challenge = o.challenge
    BY <1>1, <1>2, <1>4 DEF Attach, Move, Memories
  <2> QED
    BY <1>1, <2>1, <2>2
<1>5. CASE Update(p) \/ RetryUpdate(p)
  <2>1. theses' = theses
    BY <1>5 DEF Update, RetryUpdate, store
  <2>2. cmd'[p].thesis = Latest
    <3>1. CASE Update(p)
      BY <1>1, <3>1 DEF Update, Enter, Idle
    <3>2. CASE RetryUpdate(p)
      <4>1. PICK i \in Updates :
              Enter(p, "retry",
                [Idle EXCEPT !.pc = "judge", !.thesis = Latest,
                   !.impact = raws[i].impact, !.content = raws[i].content, !.raw = i])
        BY <3>2 DEF RetryUpdate
      <4> QED
        BY <1>1, <4>1 DEF Enter, Idle
    <3> QED
      BY <1>5, <3>1, <3>2
  <2> QED
    BY <1>1, <2>1, <2>2 DEF Latest
<1>6. ASSUME NEW c \in 1 .. MaxChallenges, Respond(p, c) PROVE FALSE
  <2>1. cmd'[p].challenge = c /\ c # 0
    BY <1>1, <1>6, BoundsAssumption DEF Respond, Enter, Idle
  <2> QED
    BY <1>1, <2>1
<1>7. ~(AbandonAudit(p) \/ FileChallenge(p) \/ NoAnswer(p) \/ Reject(p) \/ ResolveWithResponse(p)
         \/ Analyze(p) \/ Stop(p))
  BY <1>1, <1>2 DEF AbandonAudit, FileChallenge, NoAnswer, Reject, ResolveWithResponse, Analyze, Stop,
     Move, Enter
<1>8. ~Accept(p)
  BY <1>1, <1>2 DEF Accept, Move, Memories
<1>9. ~Judge(p)
  BY <1>1 DEF Judge, Move, Memories
<1>10. ~Grill(p)
  BY <1>1 DEF Grill, Enter, Idle
<1>11. \A c \in 1 .. MaxChallenges, status \in Resolutions : ~Resolve(p, c, status)
  BY <1>1, <1>2 DEF Resolve, Enter
<1> QED
  BY <1>3, <1>4, <1>5, <1>6, <1>7, <1>8, <1>9, <1>10, <1>11 DEF Acts, Step, Command

LEMMA OpInitial == OpInit => OpInv
<1> SUFFICES ASSUME OpInit PROVE OpInv
  OBVIOUS
<1>1. Inv /\ Init
  BY InitInv DEF OpInit
<1>2. \A p \in Commands : cmd[p].pc = "idle"
  BY <1>1 DEF Init, Idle
<1>3. Resting /\ AtLatest
  BY <1>2, AloneAssumption DEF Resting, AtLatest
<1>4. KeptRows
  <2>1. \A t \in DOMAIN theses : theses[t].impact = "change"
    BY <1>1 DEF Init, FirstThesis
  <2> QED
    BY <2>1 DEF KeptRows, KeptContentStands
<1>5. AllCounted /\ LeftOpen = {}
  BY <1>1 DEF Init, AllCounted, LeftOpen
<1>6. OnlyFailuresLeaveOpen
  BY <1>1, <1>5, FS_EmptySet DEF Init, OnlyFailuresLeaveOpen
<1> QED
  BY <1>1, <1>3, <1>4, <1>5, <1>6 DEF OpInv

LEMMA OpUnchanged ==
  ASSUME OpInv, UNCHANGED vars, UNCHANGED topic
  PROVE  OpInv'
<1>1. Inv'
  BY NextInv DEF OpInv
<1>2. Alone' = Alone /\ Workers' = Workers
  BY DEF Alone, Workers
<1>3. Resting' /\ AtLatest' /\ KeptRows'
  BY <1>2 DEF OpInv, Resting, AtLatest, KeptRows, KeptContentStands, Latest, vars
<1>4. /\ \A c : /\ Answers(c)' = Answers(c) /\ Attaching(c)' = Attaching(c)
               /\ Asking(c)' = Asking(c) /\ Wanting(c)' = Wanting(c)
      /\ faults' = faults /\ challenges' = challenges /\ raws' = raws
  BY DEF Answers, Attaching, Asking, Wanting, vars
<1>5. AllCounted'
  BY <1>2, <1>4 DEF OpInv, AllCounted, CountOK
<1>6. LeftOpen' = LeftOpen
  BY DEF LeftOpen, Succeeds, AtWorkOn, vars
<1>7. OnlyFailuresLeaveOpen'
  BY <1>4, <1>6 DEF OpInv, OnlyFailuresLeaveOpen
<1> QED
  BY <1>1, <1>3, <1>5, <1>7 DEF OpInv

LEMMA OpStep == OpInv /\ [OpNext]_opVars => OpInv'
<1> SUFFICES ASSUME OpInv, [OpNext]_opVars PROVE OpInv'
  OBVIOUS
<1>1. UNCHANGED topic
  BY DEF OpNext, On, opVars
<1>2. CASE UNCHANGED vars
  BY <1>1, <1>2, OpUnchanged
<1>3. CASE topic \in ChallengeTopics /\ Sequence
  <2>1. PICK p \in Commands : p \in Workers /\ Acts(p)
    <3>1. CASE topic = "alone"
      BY <1>3, <3>1, AloneAssumption DEF Sequence, OneProcess, Workers, Alone, Acts
    <3>2. CASE topic = "races"
      BY <1>3, <3>2 DEF Sequence, OnlyRaces, Workers, Alone, Acts
    <3> QED
      BY <1>3, <3>1, <3>2 DEF ChallengeTopics
  <2>2. Inv'
    BY <2>1, NextInv DEF OpInv, Acts, Next
  <2>3. Alone' = Alone /\ Workers' = Workers
    BY <1>1 DEF Alone, Workers
  <2> QED
    BY <2>1, <2>2, <2>3, WorkersRest, CountStep, LeftStep, KeptStep, LatestStep DEF OpInv
<1> QED
  BY <1>2, <1>3 DEF OpNext, opVars

LEMMA OpInvariant == OpSpec => []OpInv
BY OpInitial, OpStep, PTL DEF OpSpec

(* Retries buy nothing: a challenge has no more answers than there are     *)
(* processes at work and failures, for one process alone one and one more  *)
(* for each time it is stopped.                                            *)
THEOREM RetriesAreFree == OpSpec => []RetriesBuyNoAnswer
<1>1. OpInv => RetriesBuyNoAnswer
  <2> SUFFICES ASSUME OpInv, NEW c \in DOMAIN challenges
               PROVE  Cardinality(Answers(c)) <= Cardinality(Workers) + faults
    BY DEF RetriesBuyNoAnswer
  <2>1. CountOK(c) /\ Inv /\ Resting
    BY DEF OpInv, AllCounted
  <2>2. Cardinality(Asking(c)) + Cardinality(Attaching(c)) <= Cardinality(Workers)
    BY <2>1, WorkersSuffice
  <2> QED
    BY <2>1, <2>2, BooksAreFinite DEF CountOK
<1> QED
  BY <1>1, OpInvariant, PTL

(* Only failures leave a challenge open behind a response that was         *)
(* persisted right behind the challenged revision, each at most one.       *)
THEOREM SuccessorsClose == OpSpec => []OnlyFailuresLeaveOpen
<1>1. OpInv => OnlyFailuresLeaveOpen
  BY DEF OpInv
<1> QED
  BY <1>1, OpInvariant, PTL

(* A response that keeps the thesis has the content of the challenged      *)
(* revision, whoever writes in between, and an update of a process that    *)
(* works alone that of the revision before it, whatever was retried.       *)
THEOREM KeptStands == OpSpec => []KeptContentStands
<1>1. OpInv => KeptContentStands
  BY DEF OpInv, KeptRows
<1> QED
  BY <1>1, OpInvariant, PTL
=============================================================================
