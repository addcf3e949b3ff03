------------------------------ MODULE ShadowGraph ------------------------------
(***************************************************************************)
(* The shadow graph of one job: the specialists of the first wave, the     *)
(* sell conditions that are asked with what the first wave found and a     *)
(* scenario, and the aggregator.  It runs before the qualitative stage     *)
(* with the packet's scenario, and again after it when a scenario was      *)
(* calculated.  The process may be killed anywhere; the resumed job reuses *)
(* the artifacts that were accepted for the same inputs.                   *)
(*                                                                         *)
(* An output is its status, whether two of its claims share an id, and     *)
(* whether it has its tests; an output that does not parse is Invalid.     *)
(***************************************************************************)
EXTENDS Naturals, Sequences, SequencesExt

CONSTANTS
  Specialists,    \* FIRST_WAVE_SPECIALISTS, in order
  Calculated,     \* the scenarios the qualitative stage may end with
  MaxRejections,  \* bound on invalid and missing answers
  MaxKills   \* bound on kills and failing statements

ASSUME ShadowAssumption ==
  /\ Specialists \in Seq(STRING) \ {<< >>}
  /\ "sell_conditions" \notin Range(Specialists)
  /\ "packet" \notin Calculated /\ "unset" \notin Calculated

VARIABLES
  artifacts,   \* the specialist rows of the raw store, by id
  aggregates,  \* the validated aggregates of the raw store
  stages,      \* the shadow stages in the result of the job
  scenario,    \* what the qualitative stage ended with
  graph,       \* the memory of the process
  rejections, kills

shadowVars ==
  <<artifacts, aggregates, stages, scenario, graph, rejections, kills>>
shadowStore == <<artifacts, aggregates, stages, scenario>>
-----------------------------------------------------------------------------
Sell == "sell_conditions"

Output(status) == [status |-> status, twice |-> FALSE, tests |-> TRUE]
Invalid == Output("invalid")
NoOutput == Output("none")
Unassessable == Output("insufficient")

AnswersOf(agent) ==
  {Output(s) : s \in {"complete", "insufficient", "failed"}}
  \cup IF agent = Sell THEN {[Output("insufficient") EXCEPT !.tests = FALSE]}
       ELSE {[Output("complete") EXCEPT !.twice = TRUE]}

ResultStatus == [complete |-> "accepted", insufficient |-> "limited", failed |-> "failed"]

Result(status, attempts, ids, errors, output) ==
  [status |-> status, attempts |-> attempts, ids |-> ids, errors |-> errors,
   output |-> output]

(* _stable_upstream_output: what a sell artifact remembers of the others.  *)
Stable(results) ==
  [i \in DOMAIN results |-> [status |-> results[i].status, output |-> results[i].output]]

NoProcess ==
  [pc |-> "idle", pass |-> 1, results |-> << >>, ids |-> << >>, errors |-> 0, run |-> << >>]
NoStages == [specialists |-> "none", sell |-> "none", aggregator |-> "none"]

ShadowInit ==
  /\ artifacts = << >> /\ aggregates = << >> /\ stages = NoStages
  /\ scenario = "unset" /\ graph = NoProcess
  /\ rejections = 0 /\ kills = 0

GraphAt(pc) == graph.pc = pc
Unbroken == UNCHANGED <<rejections, kills>>
Rejecting ==
  /\ rejections < MaxRejections /\ rejections' = rejections + 1 /\ UNCHANGED kills
-----------------------------------------------------------------------------
FirstWave(results) ==
  SubSeq(results, 1, IF Len(results) < Len(Specialists) THEN Len(results)
                                                        ELSE Len(Specialists))
Waiting == Len(graph.results) < Len(Specialists)
Asked == IF Waiting THEN Specialists[Len(graph.results) + 1] ELSE Sell
PassScenario == IF graph.pass = 1 THEN "packet" ELSE scenario

(* The inputs an artifact is saved with; the first wave has its packet.    *)
Inputs(agent) ==
  IF agent = Sell THEN [upstream |-> Stable(graph.results), scenario |-> PassScenario]
                  ELSE [upstream |-> << >>, scenario |-> "packet"]

Artifact(agent, attempt, output) ==
  [agent |-> agent, attempt |-> attempt, output |-> output, verdict |-> "pending",
   inputs |-> Inputs(agent)]

VariantAccepted(agent) ==     \* the scenario is not compared
  {i \in DOMAIN artifacts :
     /\ artifacts[i].agent = agent /\ artifacts[i].verdict = "accepted"
     /\ artifacts[i].inputs.upstream = Inputs(agent).upstream}

Accepted(agent) ==
  {i \in DOMAIN artifacts :
     /\ artifacts[i].agent = agent /\ artifacts[i].verdict = "accepted"
     /\ artifacts[i].inputs = Inputs(agent)}

WithStatus(ids, status) == {i \in ids : artifacts[i].output.status = status}

VariantReusable(agent) ==     \* only the latest accepted artifact is looked at
  LET accepted == {i \in DOMAIN artifacts :
                     artifacts[i].agent = agent /\ artifacts[i].verdict = "accepted"}
      complete == WithStatus(accepted, "complete")
      limited  == WithStatus(accepted, "insufficient")
  IN  IF agent # Sell THEN IF accepted = {} THEN {} ELSE {Min(accepted)}
      ELSE IF accepted # {} /\ Max(accepted) \in (complete \cup limited) \cap Accepted(agent)
           THEN {Max(accepted)} ELSE {}

(* _reuse_completed: the first accepted answer of a specialist, a failed   *)
(* one as well; the last complete answer about the sell conditions, or the *)
(* last limited one.                                                       *)
Reusable(agent) ==
  LET accepted == Accepted(agent)
      complete == WithStatus(accepted, "complete")
      limited  == WithStatus(accepted, "insufficient")
  IN  IF agent # Sell THEN IF accepted = {} THEN {} ELSE {Min(accepted)}
      ELSE IF complete # {} THEN {Max(complete)}
      ELSE IF limited = {} THEN {} ELSE {Max(limited)}

Reused(i) ==
  Result(ResultStatus[artifacts[i].output.status], artifacts[i].attempt, <<i>>, 0,
         artifacts[i].output)

SellInputsAvailable ==
  \A i \in DOMAIN graph.results : graph.results[i].output.status = "complete"
DuplicateClaims == \E i \in DOMAIN graph.results : graph.results[i].output.twice

Give(result) == [graph EXCEPT !.pc = "agent", !.results = Append(@, result)]
Ask == [graph EXCEPT !.pc = "call", !.ids = << >>, !.errors = 0]
AfterPass(results) ==
  [graph EXCEPT !.pc = IF graph.pass = 1 THEN "qualitative" ELSE "aggregate", !.run = results]
-----------------------------------------------------------------------------
(* The job is started, or resumed by an operator.                          *)
StartGraph ==
  /\ GraphAt("idle") /\ graph' = [NoProcess EXCEPT !.pc = "pass"]
  /\ UNCHANGED shadowStore /\ Unbroken

(* _run_shadow_specialists: the first pass is passed over when everything  *)
(* was accepted before; the pass with a calculated scenario is not.        *)
BeginPass ==
  /\ GraphAt("pass")
  /\ IF graph.pass = 1 /\ \A s \in DOMAIN stages : stages[s] = "accepted"
     THEN graph' = AfterPass(<< >>) /\ UNCHANGED stages
     ELSE /\ graph' = [graph EXCEPT !.pc = "agent", !.results = << >>]
          /\ stages' = [stages EXCEPT !.specialists = "running"]
  /\ UNCHANGED <<artifacts, aggregates, scenario>> /\ Unbroken

(* _run_one of a specialist: what was accepted is reused.                  *)
TakeSpecialist ==
  /\ GraphAt("agent") /\ Waiting
  /\ IF Reusable(Asked) = {} THEN graph' = Ask
     ELSE \E i \in Reusable(Asked) : graph' = Give(Reused(i))
  /\ UNCHANGED shadowStore /\ Unbroken

AtSell == GraphAt("agent") /\ Len(graph.results) = Len(Specialists)

(* A limited answer is reused only as long as the first wave is.           *)
ReuseSell ==
  /\ AtSell /\ ~DuplicateClaims
  /\ \E i \in Reusable(Sell) :
       /\ artifacts[i].output.status = "complete" \/ ~SellInputsAvailable
       /\ graph' = Give(Reused(i))
  /\ UNCHANGED shadowStore /\ Unbroken

(* Without complete specialists nobody is asked.                           *)
LimitSell ==
  /\ AtSell
  /\ DuplicateClaims \/ (~SellInputsAvailable /\ Reusable(Sell) = {})
  /\ graph' = [graph EXCEPT !.pc = "limit"]
  /\ UNCHANGED shadowStore /\ Unbroken

AskSell ==
  /\ AtSell /\ ~DuplicateClaims /\ SellInputsAvailable
  /\ \A i \in Reusable(Sell) : artifacts[i].output.status # "complete"
  /\ graph' = Ask
  /\ UNCHANGED shadowStore /\ Unbroken

(* generate, or repair: the answer is stored before it is judged.          *)
AnswerSpecialist ==
  /\ GraphAt("call")
  /\ \/ \E output \in AnswersOf(Asked) :
          artifacts' = Append(artifacts, Artifact(Asked, Len(graph.ids) + 1, output)) /\ Unbroken
     \/ artifacts' = Append(artifacts, Artifact(Asked, Len(graph.ids) + 1, Invalid)) /\ Rejecting
  /\ graph' = [graph EXCEPT !.pc = "judge", !.ids = Append(@, Len(artifacts'))]
  /\ UNCHANGED <<aggregates, stages, scenario>>

FailedAnswer(errors) ==
  Result("failed", IF graph.ids = << >> THEN 1 ELSE Len(graph.ids), graph.ids, errors, NoOutput)

(* The adapter raises: there is no second attempt.                         *)
LoseAnswer ==
  /\ GraphAt("call") /\ Rejecting
  /\ graph' = Give(FailedAnswer(graph.errors + 1))
  /\ UNCHANGED shadowStore

(* update_raw_validation, and what _run_one and its caller make of it: an  *)
(* invalid first answer is repaired; a limited answer about the sell       *)
(* conditions that has no tests is replaced.                               *)
JudgeSpecialist ==
  LET id     == Last(graph.ids)
      output == artifacts[id].output
  IN  /\ GraphAt("judge")
      /\ artifacts' = [artifacts EXCEPT ![id].verdict =
                         IF output = Invalid THEN "rejected" ELSE "accepted"]
      /\ graph' =
           IF output = Invalid
           THEN IF Len(graph.ids) = 1 THEN [graph EXCEPT !.pc = "call", !.errors = 1]
                ELSE Give(FailedAnswer(graph.errors + 1))
           ELSE IF ~output.tests THEN [graph EXCEPT !.pc = "limit"]
           ELSE Give(Result(ResultStatus[output.status], Len(graph.ids), graph.ids,
                            graph.errors, output))
      /\ UNCHANGED <<aggregates, stages, scenario>> /\ Unbroken

(* _unassessable_sell_result: an artifact nobody was asked for.            *)
SaveLimited ==
  /\ GraphAt("limit")
  /\ artifacts' = Append(artifacts, Artifact(Sell, 0, Unassessable))
  /\ graph' = [graph EXCEPT !.pc = "limited", !.ids = <<Len(artifacts')>>]
  /\ UNCHANGED <<aggregates, stages, scenario>> /\ Unbroken

AcceptLimited ==
  /\ GraphAt("limited")
  /\ artifacts' = [artifacts EXCEPT ![graph.ids[1]].verdict = "accepted"]
  /\ graph' = Give(Result("limited", 0, graph.ids, IF SellInputsAvailable THEN 0 ELSE 1,
                          Unassessable))
  /\ UNCHANGED <<aggregates, stages, scenario>> /\ Unbroken

(* The stage of the specialists is accepted whatever they answered; the    *)
(* stage of the sell conditions has the status of its result.              *)
CompleteSpecialists ==
  /\ GraphAt("agent") /\ Len(graph.results) > Len(Specialists)
  /\ stages' = [stages EXCEPT !.specialists = "accepted"]
  /\ graph' = [graph EXCEPT !.pc = "sell stage"]
  /\ UNCHANGED <<artifacts, aggregates, scenario>> /\ Unbroken

CompleteSell ==
  /\ GraphAt("sell stage")
  /\ stages' = [stages EXCEPT !.sell = Last(graph.results).status]
  /\ graph' = AfterPass(graph.results)
  /\ UNCHANGED <<artifacts, aggregates, scenario>> /\ Unbroken

(* The runner raises: the stage failed and the job goes on without a run.  *)
BreakRunner ==
  /\ graph.pc \in {"agent", "call", "judge", "limit", "limited", "sell stage"}
  /\ kills < MaxKills /\ kills' = kills + 1
  /\ stages' = [stages EXCEPT !.specialists = "failed"]
  /\ graph' = AfterPass(<< >>)
  /\ UNCHANGED <<artifacts, aggregates, scenario, rejections>>

(* The authoritative stages; resumed, they end with what they ended with.  *)
Qualitative ==
  /\ GraphAt("qualitative")
  /\ scenario' \in IF scenario = "unset" THEN Calculated ELSE {scenario}
  /\ graph' = IF scenario' = "none" THEN [graph EXCEPT !.pc = "aggregate"]
              ELSE [graph EXCEPT !.pc = "pass", !.pass = 2]
  /\ UNCHANGED <<artifacts, aggregates, stages>> /\ Unbroken
-----------------------------------------------------------------------------
Aggregated == IF scenario = "none" THEN "packet" ELSE scenario

(* What the aggregator compares: the results with all their particulars.   *)
AggregateKey == [results |-> graph.run, scenario |-> Aggregated]

(* _run_shadow_aggregator *)
BeginAggregate ==
  /\ GraphAt("aggregate")
  /\ IF graph.run = << >> \/ stages.aggregator = "accepted"
     THEN graph' = [graph EXCEPT !.pc = "persist"] /\ UNCHANGED stages
     ELSE /\ graph' = [graph EXCEPT
                         !.pc = IF AggregateKey \in Range(aggregates) THEN "accepted" ELSE "decide",
                         !.errors = 0]
          /\ stages' = [stages EXCEPT !.aggregator = "running"]
  /\ UNCHANGED <<artifacts, aggregates, scenario>> /\ Unbroken

(* The model answers, its answer is refused, or there is none.             *)
AnswerAggregate ==
  /\ GraphAt("decide")
  /\ \/ graph' = [graph EXCEPT !.pc = "save"] /\ Unbroken
     \/ /\ Rejecting
        /\ graph' = [graph EXCEPT !.pc = IF graph.errors = 0 THEN "decide" ELSE "failed",
                                  !.errors = @ + 1]
     \/ Rejecting /\ graph' = [graph EXCEPT !.pc = "failed"]
  /\ UNCHANGED shadowStore

SaveAggregate ==
  /\ GraphAt("save")
  /\ aggregates' = Append(aggregates, AggregateKey)
  /\ graph' = [graph EXCEPT !.pc = "accepted"]
  /\ UNCHANGED <<artifacts, stages, scenario>> /\ Unbroken

CompleteAggregate ==
  /\ graph.pc \in {"accepted", "failed"}
  /\ stages' = [stages EXCEPT !.aggregator = graph.pc]
  /\ graph' = [graph EXCEPT !.pc = "persist"]
  /\ UNCHANGED <<artifacts, aggregates, scenario>> /\ Unbroken

(* The job persists its analysis; it is not resumed afterwards.            *)
FinishGraph ==
  /\ GraphAt("persist") /\ graph' = [NoProcess EXCEPT !.pc = "done"]
  /\ UNCHANGED shadowStore /\ Unbroken

StopGraph ==
  /\ graph.pc \notin {"idle", "done"}
  /\ kills < MaxKills /\ kills' = kills + 1
  /\ graph' = NoProcess
  /\ UNCHANGED shadowStore /\ UNCHANGED rejections

SpecialistStep ==
  \/ TakeSpecialist \/ ReuseSell \/ LimitSell \/ AskSell
  \/ AnswerSpecialist \/ LoseAnswer \/ JudgeSpecialist \/ SaveLimited \/ AcceptLimited
AggregateStep ==
  BeginAggregate \/ AnswerAggregate \/ SaveAggregate \/ CompleteAggregate

ShadowNext ==
  \/ StartGraph \/ BeginPass \/ SpecialistStep \/ CompleteSpecialists \/ CompleteSell
  \/ BreakRunner \/ Qualitative \/ AggregateStep \/ FinishGraph \/ StopGraph

ShadowSpec == ShadowInit /\ [][ShadowNext]_shadowVars
-----------------------------------------------------------------------------
(* Whatever was killed, rejected or asked with another scenario in         *)
(* between: no model is asked while a complete answer of its agent about   *)
(* the same inputs is accepted (get_specialist_artifacts_for_run, "for     *)
(* idempotent resume").                                                    *)
AcceptedIsNotBoughtAgain ==
  GraphAt("call") =>
    \A i \in Accepted(Asked) : artifacts[i].output.status # "complete"

(* The aggregator judges one graph: the sell conditions it is given were   *)
(* found for the first wave and for the scenario it is given with them.    *)
AggregateOfOneGraph ==
  graph.pc \in {"decide", "save"} =>
    LET sell == Last(graph.run)
    IN  sell.output # NoOutput =>
          /\ artifacts[Last(sell.ids)].verdict = "accepted"
          /\ artifacts[Last(sell.ids)].inputs =
               [upstream |-> Stable(FirstWave(graph.run)), scenario |-> Aggregated]
=============================================================================
