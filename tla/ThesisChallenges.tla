-------------------------- MODULE ThesisChallenges --------------------------
(***************************************************************************)
(* The thesis revisions of one company, the challenges filed against them  *)
(* and the commands that write both: grill-thesis, respond-to-thesis-      *)
(* challenge, resolve-thesis-challenge, update-shortlist (with and without *)
(* --retry-rejected) and the full analyses of other commands.  A response  *)
(* is bought from the analyst, saved raw, attached to its challenge,       *)
(* validated, persisted as a new revision and at last resolves the         *)
(* challenge: five database calls, each of its own transaction, between    *)
(* which the process may die or another command may write.                 *)
(*                                                                         *)
(* Rows are known by their ids, counted from 1; id 0 stands for NULL.  The *)
(* content of a revision is told apart by the revision that first held it. *)
(***************************************************************************)
EXTENDS Integers, Sequences, FiniteSets

CONSTANTS
  Commands,        \* CLI processes that may run at one time
  Kinds,           \* the commands the operator enters
  MaxCommands,     \* bound on the commands entered
  MaxChallenges,   \* bound on the challenges filed
  MaxFaults        \* bound on failed calls and killed processes

AllKinds == {"grill", "respond", "resolve", "update", "retry", "analyze"}

ASSUME BoundsAssumption ==
  /\ Kinds \subseteq AllKinds
  /\ MaxCommands \in Nat /\ MaxChallenges \in Nat /\ MaxFaults \in Nat

VARIABLES
  theses,       \* company_thesis_revisions, by id
  challenges,   \* thesis_challenges, by id
  raws,         \* stock_analysis_raw rows of updates and responses, by id
  cmd,          \* the processes: program position and memory
  entered, faults

vars == <<theses, challenges, raws, cmd, entered, faults>>
store == <<theses, challenges, raws>>
-----------------------------------------------------------------------------
Impacts == {"keep", "change", "reassess"}   \* no_material_change, a revision, full_reassessment_required
Resolutions == {"upheld", "revised", "rejected"}    \* an operator's
Statuses == {"open"} \cup Resolutions

(* previous: the revision it follows.  challenge, raw: challenge_id and   *)
(* raw_analysis_id of its metadata.                                        *)
Theses ==
  [previous : Nat, content : Nat, card : {"v2", "v3"}, impact : Impacts,
   challenge : Nat, raw : Nat]

Challenges ==
  [thesis : Nat, status : Statuses, response : Nat, answer : Nat]

Raws ==
  [challenge : Nat, impact : Impacts, content : Nat,
   verdict : {"pending", "accepted", "rejected"}]

Positions ==
  {"idle", "audit", "ask", "saveRaw", "attach", "judge", "reject", "accept", "resolve"}

Memories ==
  [pc : Positions, challenge : Nat, thesis : Nat,
   impact : Impacts, content : Nat, raw : Nat, saved : Nat]

Idle ==
  [pc |-> "idle", challenge |-> 0, thesis |-> 0,
   impact |-> "keep", content |-> 0, raw |-> 0, saved |-> 0]

(* A company starts without a thesis or with one, of this card or an       *)
(* older one.                                                              *)
FirstThesis(card) ==
  [previous |-> 0, content |-> 1, card |-> card, impact |-> "change",
   challenge |-> 0, raw |-> 0]

Init ==
  /\ theses \in {<<>>, <<FirstThesis("v2")>>, <<FirstThesis("v3")>>}
  /\ challenges = <<>> /\ raws = <<>>
  /\ cmd = [p \in Commands |-> Idle]
  /\ entered = 0 /\ faults = 0
-----------------------------------------------------------------------------
Latest == Len(theses)
At(p, pc) == cmd[p].pc = pc
Move(p, memory) == cmd' = [cmd EXCEPT ![p] = memory] /\ UNCHANGED <<entered, faults>>

(* The operator enters a command in a free process.                        *)
Enter(p, kind, memory) ==
  /\ kind \in Kinds /\ At(p, "idle") /\ entered < MaxCommands
  /\ entered' = entered + 1
  /\ cmd' = [cmd EXCEPT ![p] = memory]
  /\ UNCHANGED faults

(* save_stock_analysis: the analysis and its revision, which follows the   *)
(* latest one under the lock of the company's row.                         *)
Revision(m) ==
  [previous |-> Latest, card |-> "v3", impact |-> m.impact,
   content |-> IF m.impact = "keep" THEN m.content ELSE Latest + 1,
   challenge |-> m.challenge, raw |-> m.raw]
-----------------------------------------------------------------------------
(* analyze-company and analyze-shortlist commit an analysis of their own.  *)
Analyze(p) ==
  /\ Enter(p, "analyze", Idle)
  /\ theses' = Append(theses, Revision([Idle EXCEPT !.impact = "change"]))
  /\ UNCHANGED <<challenges, raws>>

(* grill-thesis: audit the latest revision, then file the challenge.       *)
Grill(p) ==
  /\ Latest # 0
  /\ Enter(p, "grill", [Idle EXCEPT !.pc = "audit", !.thesis = Latest])
  /\ UNCHANGED store

AbandonAudit(p) ==     \* no answer, or one that cites unknown evidence
  /\ At(p, "audit") /\ Move(p, Idle)
  /\ UNCHANGED store

FileChallenge(p) ==
  /\ At(p, "audit") /\ Len(challenges) < MaxChallenges
  /\ \E survives \in BOOLEAN :
       challenges' = Append(challenges,
         [thesis |-> cmd[p].thesis, status |-> IF survives THEN "upheld" ELSE "open",
          response |-> 0, answer |-> 0])
  /\ Move(p, Idle)
  /\ UNCHANGED <<theses, raws>>

VariantRespondAsksAgain(p, c) ==     \* a stored response not looked for
  /\ c \in DOMAIN challenges /\ challenges[c].status = "open"
  /\ Enter(p, "respond",
       [Idle EXCEPT !.pc = "ask", !.challenge = c, !.thesis = challenges[c].thesis])
  /\ UNCHANGED store

(* respond-to-thesis-challenge: read the challenge and the revision it     *)
(* names, and take up its stored response or ask for one.  The command     *)
(* always loads the challenged revision, so respond never reaches          *)
(* _resolve_already_persisted.                                             *)
Respond(p, c) ==
  /\ c \in DOMAIN challenges
  /\ LET ch == challenges[c]
         m == [Idle EXCEPT !.challenge = c, !.thesis = ch.thesis]
     IN  /\ ch.status = "open"
         /\ Enter(p, "respond",
              IF ch.response = 0 THEN [m EXCEPT !.pc = "ask"]
              ELSE [m EXCEPT !.pc = "judge", !.raw = ch.response,
                      !.impact = raws[ch.response].impact,
                      !.content = raws[ch.response].content])
  /\ UNCHANGED store

(* update-shortlist: the latest revision and its new evidence.             *)
Update(p) ==
  /\ Latest # 0
  /\ Enter(p, "update", [Idle EXCEPT !.pc = "ask", !.thesis = Latest])
  /\ UNCHANGED store

(* --retry-rejected: the latest response to an update, if it was rejected, *)
(* against the latest revision.                                            *)
Updates == {i \in DOMAIN raws : raws[i].challenge = 0}

RetryUpdate(p) ==
  /\ Latest # 0
  /\ \E i \in Updates :
       /\ \A k \in Updates : k <= i
       /\ raws[i].verdict = "rejected"
       /\ Enter(p, "retry",
            [Idle EXCEPT !.pc = "judge", !.thesis = Latest,
               !.impact = raws[i].impact, !.content = raws[i].content, !.raw = i])
  /\ UNCHANGED store
-----------------------------------------------------------------------------
(* The analyst answers.  A response that keeps the thesis repeats its      *)
(* content, or (0) fails to.                                               *)
Ask(p) ==
  /\ At(p, "ask")
  /\ \E impact \in Impacts :
     \E content \in IF impact = "keep" THEN {0, theses[cmd[p].thesis].content} ELSE {0} :
       Move(p, [cmd[p] EXCEPT !.pc = "saveRaw", !.impact = impact, !.content = content])
  /\ UNCHANGED store

NoAnswer(p) ==
  /\ At(p, "ask") /\ Move(p, Idle)
  /\ UNCHANGED store

SaveRaw(p) ==
  LET m == cmd[p] IN
  /\ At(p, "saveRaw")
  /\ raws' = Append(raws, [challenge |-> m.challenge,
                           impact |-> m.impact, content |-> m.content,
                           verdict |-> "pending"])
  /\ Move(p, [m EXCEPT !.raw = Len(raws) + 1,
                !.pc = IF m.challenge # 0 THEN "attach" ELSE "judge"])
  /\ UNCHANGED <<theses, challenges>>

VariantAttachAnyway(p) ==     \* a second response replaces the first
  LET c == cmd[p].challenge IN
  /\ At(p, "attach")
  /\ IF challenges[c].status = "open"
     THEN /\ challenges' = [challenges EXCEPT ![c].response = cmd[p].raw]
          /\ Move(p, [cmd[p] EXCEPT !.pc = "judge"])
     ELSE UNCHANGED challenges /\ Move(p, Idle)
  /\ UNCHANGED <<theses, raws>>

(* attach_response_attempt: only to an open challenge without a response;  *)
(* otherwise it raises and the command ends.                               *)
Attach(p) ==
  LET c == cmd[p].challenge IN
  /\ At(p, "attach")
  /\ IF challenges[c].status = "open" /\ challenges[c].response = 0
     THEN /\ challenges' = [challenges EXCEPT ![c].response = cmd[p].raw]
          /\ Move(p, [cmd[p] EXCEPT !.pc = "judge"])
     ELSE UNCHANGED challenges /\ Move(p, Idle)
  /\ UNCHANGED <<theses, raws>>

VariantMayPass(m) ==     \* kept content not compared
  theses[m.thesis].card = "v3" \/ m.impact = "reassess"

(* The deterministic rules a response may pass: a thesis of the older card *)
(* only takes a reassessment, and a kept thesis is the one in the context. *)
MayPass(m) ==
  /\ theses[m.thesis].card = "v3" \/ m.impact = "reassess"
  /\ m.impact = "keep" => m.content = theses[m.thesis].content

(* ThesisUpdateExecutionBoundary.persist_response: rejected by one of its  *)
(* other rules or by the scenario author, accepted as a call for a         *)
(* reassessment, or persisted as the next revision.                        *)
Judge(p) ==
  LET m == cmd[p] IN
  /\ At(p, "judge")
  /\ \/ Move(p, [m EXCEPT !.pc = "reject"]) /\ UNCHANGED theses
     \/ /\ MayPass(m) /\ m.impact = "reassess"
        /\ Move(p, [m EXCEPT !.pc = "accept"]) /\ UNCHANGED theses
     \/ /\ MayPass(m) /\ m.impact # "reassess"
        /\ theses' = Append(theses, Revision(m))
        /\ Move(p, [m EXCEPT !.pc = "accept", !.saved = Latest + 1])
  /\ UNCHANGED <<challenges, raws>>

(* update_raw_validation, and the command raises.                          *)
Reject(p) ==
  /\ At(p, "reject")
  /\ raws' = [raws EXCEPT ![cmd[p].raw].verdict = "rejected"]
  /\ Move(p, Idle)
  /\ UNCHANGED <<theses, challenges>>

VariantAcceptEnds(p) ==     \* the challenge is left for a later command
  /\ At(p, "accept")
  /\ raws' = [raws EXCEPT ![cmd[p].raw].verdict = "accepted"]
  /\ Move(p, Idle)
  /\ UNCHANGED <<theses, challenges>>

(* update_raw_validation; a response that was persisted goes on to resolve *)
(* its challenge, everything else is done.                                 *)
Accept(p) ==
  LET m == cmd[p] IN
  /\ At(p, "accept")
  /\ raws' = [raws EXCEPT ![m.raw].verdict = "accepted"]
  /\ Move(p, IF m.challenge # 0 /\ m.saved # 0 THEN [m EXCEPT !.pc = "resolve"] ELSE Idle)
  /\ UNCHANGED <<theses, challenges>>

VariantVerdict(impact) == impact     \* the impact stored as the status

Verdict(impact) == IF impact = "keep" THEN "upheld" ELSE "revised"

Resolved(ch, m) == [ch EXCEPT !.status = Verdict(m.impact), !.answer = m.saved]

VariantResolveAnyRevision(p) ==     \* the revision need not follow the challenged one
  LET m == cmd[p] IN
  /\ At(p, "resolve")
  /\ challenges' = IF challenges[m.challenge].status = "open"
                   THEN [challenges EXCEPT ![m.challenge] = Resolved(@, m)]
                   ELSE challenges
  /\ Move(p, Idle)
  /\ UNCHANGED <<theses, raws>>

VariantResolveClosed(p) ==     \* the challenge need not be open
  LET m == cmd[p] IN
  /\ At(p, "resolve")
  /\ challenges' = IF theses[m.saved].previous = challenges[m.challenge].thesis
                   THEN [challenges EXCEPT ![m.challenge] = Resolved(@, m)]
                   ELSE challenges
  /\ Move(p, Idle)
  /\ UNCHANGED <<theses, raws>>

(* resolve_with_response: an open challenge, by the revision of this       *)
(* response, if that follows the challenged one; otherwise it raises.      *)
ResolveWithResponse(p) ==
  LET m == cmd[p]
      ch == challenges[m.challenge]
  IN
  /\ At(p, "resolve")
  /\ challenges' = IF ch.status = "open" /\ theses[m.saved].previous = ch.thesis
                   THEN [challenges EXCEPT ![m.challenge] = Resolved(ch, m)]
                   ELSE challenges
  /\ Move(p, Idle)
  /\ UNCHANGED <<theses, raws>>

(* resolve-thesis-challenge: an operator closes an open challenge, also as *)
(* a rejected one.                                                         *)
Resolve(p, c, status) ==
  /\ c \in DOMAIN challenges /\ challenges[c].status = "open"
  /\ Enter(p, "resolve", Idle)
  /\ challenges' = [challenges EXCEPT ![c].status = status]
  /\ UNCHANGED <<theses, raws>>
-----------------------------------------------------------------------------
(* A call fails or the process is killed: the command ends and leaves the  *)
(* database as it is.  (A call that fails inside persist_response has the  *)
(* response recorded as rejected: Judge covers it.)                        *)
Stop(p) ==
  /\ ~At(p, "idle") /\ faults < MaxFaults
  /\ faults' = faults + 1
  /\ cmd' = [cmd EXCEPT ![p] = Idle]
  /\ UNCHANGED <<store, entered>>

Step(p) ==
  \/ AbandonAudit(p) \/ FileChallenge(p) \/ Ask(p) \/ NoAnswer(p) \/ SaveRaw(p) \/ Attach(p) \/ Judge(p)
  \/ Reject(p) \/ Accept(p) \/ ResolveWithResponse(p)

Command(p) ==
  \/ Analyze(p) \/ Grill(p) \/ Update(p) \/ RetryUpdate(p)
  \/ \E c \in 1 .. MaxChallenges :
       Respond(p, c) \/ \E status \in Resolutions : Resolve(p, c, status)

Next == \E p \in Commands : Step(p) \/ Command(p) \/ Stop(p)

Spec == Init /\ [][Next]_vars
-----------------------------------------------------------------------------
(* Every variable stays in its type.                                       *)
TypeOK ==
  /\ theses \in Seq(Theses) /\ challenges \in Seq(Challenges) /\ raws \in Seq(Raws)
  /\ cmd \in [Commands -> Memories]
  /\ entered \in 0 .. MaxCommands /\ faults \in 0 .. MaxFaults

(* What the rows owe each other: contents and predecessors are older, a    *)
(* challenge names rows that exist and are about it.                       *)
RowsOK ==
  /\ \A t \in DOMAIN theses : theses[t].previous < t /\ theses[t].content \in 1 .. t
  /\ Len(challenges) <= MaxChallenges
  /\ \A c \in DOMAIN challenges :
       LET ch == challenges[c] IN
       /\ ch.thesis \in DOMAIN theses
       /\ ch.response # 0 => /\ ch.response \in DOMAIN raws
                             /\ raws[ch.response].challenge = c
       /\ ch.answer # 0 => ch.answer \in DOMAIN theses

(* What a command remembers, by its position: the challenged revision, a   *)
(* raw response that is its challenge's, the revision it has just saved.   *)
CommandOK(p) ==
  LET m == cmd[p] IN
  /\ m.pc # "idle" => m.thesis \in DOMAIN theses
  /\ m.challenge # 0 => /\ m.challenge \in DOMAIN challenges
                        /\ challenges[m.challenge].thesis = m.thesis
  /\ m.pc \in {"attach", "resolve"} => m.challenge # 0
  /\ m.pc \in {"attach", "judge", "reject", "accept", "resolve"} =>
       /\ m.raw \in DOMAIN raws
       /\ m.challenge # 0 => raws[m.raw].challenge = m.challenge
  /\ (m.pc \in {"judge", "reject", "accept", "resolve"} /\ m.challenge # 0) =>
       challenges[m.challenge].response = m.raw
  /\ m.pc = "resolve" => m.saved # 0
  /\ m.pc \in {"ask", "saveRaw", "attach", "judge"} => m.saved = 0
  /\ (m.pc \in {"accept", "resolve"} /\ m.saved # 0) =>
       LET t == theses[m.saved] IN
       /\ m.saved \in DOMAIN theses /\ m.impact # "reassess"
       /\ t.challenge = m.challenge /\ t.raw = m.raw
       /\ t.content = (IF m.impact = "keep" THEN theses[m.thesis].content ELSE m.saved)

CommandsOK == \A p \in Commands : CommandOK(p)

(* Every revision made of a response to a challenge was made of the one    *)
(* response attached to that challenge: a command that lost the race to    *)
(* attach its response never gets to persist it.                           *)
RevisionsUseAttachedResponse ==
  \A t \in DOMAIN theses :
    LET c == theses[t].challenge IN
    c # 0 => /\ c \in DOMAIN challenges
             /\ challenges[c].response = theses[t].raw
             /\ theses[t].raw \in DOMAIN raws
             /\ raws[theses[t].raw].challenge = c

(* A challenge closed by a response is closed by a revision of that        *)
(* response that follows the challenged revision at once, and it is upheld *)
(* just when the content of the challenged revision stands.                *)
AnswerFollowsChallengedThesis ==
  \A c \in DOMAIN challenges :
    LET ch == challenges[c]
        t == theses[ch.answer]
    IN  ch.answer # 0 =>
          /\ t.challenge = c /\ t.raw = ch.response /\ t.previous = ch.thesis
          /\ ch.status = (IF t.content = theses[ch.thesis].content
                          THEN "upheld" ELSE "revised")

(* What has been decided about a challenge is never decided again, whoever *)
(* else was answering or resolving it at the time.                         *)
ResolutionIsFinal ==
  [][\A c \in DOMAIN challenges :
       challenges[c].status # "open" => challenges'[c] = challenges[c]]_vars

(* A response that keeps the thesis leaves the latest content as it was.   *)
NoMaterialChangeKeepsThesis ==
  \A t \in DOMAIN theses :
    theses[t].impact = "keep" =>
      theses[t].content = theses[theses[t].previous].content

(* The analyst is paid for one response to a challenge.                    *)
OneAnalystResponse ==
  \A i, k \in DOMAIN raws :
    (raws[i].challenge # 0 /\ raws[i].challenge = raws[k].challenge) => i = k

(* A response becomes one revision, however often it is retried.           *)
OneRevisionPerChallenge ==
  \A t, u \in DOMAIN theses :
    (theses[t].challenge # 0 /\ theses[t].challenge = theses[u].challenge) => t = u

(* A command that persisted the response to a challenge leaves the         *)
(* challenge closed when it ends by itself.                                *)
PersistedResponseCloses ==
  [][\A p \in Commands :
       (At(p, "resolve") /\ cmd'[p].pc = "idle" /\ faults' = faults) =>
         challenges'[cmd[p].challenge].status # "open"]_vars
=============================================================================
