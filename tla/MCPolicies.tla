------------------------------- MODULE MCPolicies -------------------------------
(***************************************************************************)
(* Instances of what is decided about a company, and of the recovery of a  *)
(* job.  They share no state, and a behaviour is about one of them: a card *)
(* at the execution boundary, the shadow graph of a job, the gates an      *)
(* activation has to pass, a forward scenario, a reverse DCF, a            *)
(* deterministic ranking, a backtest, or a job that is killed and resumed  *)
(* until it settles.                                                       *)
(***************************************************************************)
EXTENDS MCExecutionBoundary, ShadowGraph, MCShadowGates, MCForwardScenario,
        MCReverseDcf, MCDeterministicRanking, MCBacktest, MCAnalysisPipeline

VARIABLE topic

Topics == {"boundary", "shadow", "gates", "scenario", "dcf", "ranking", "backtest", "recovery"}
policyVars ==
  <<boundaryVars, shadowVars, gateVars, valuationVars, dcfVars, rankingVars,
    backtestVars, vars, topic>>

TwoSpecialists == <<"business_model", "margin">>

(* The topics a behaviour is not about rest.                               *)
Resting == CHOOSE x \in Answers : TRUE
PolicyInit ==
  /\ topic \in Topics
  /\ IF topic = "boundary" THEN BoundaryInit ELSE Drafted(Resting)
  /\ ShadowInit
  /\ IF topic = "gates" THEN GateInit ELSE Dealt([hand |-> Sound, candidate |-> Activation])
  /\ topic # "scenario" => facts = Steady /\ book = Dull
  /\ ScenarioStart
  /\ topic # "dcf" => dossier = Ordinary
  /\ DcfInit
  /\ topic # "ranking" => found = [c \in Known |-> General]
  /\ RankingStart
  /\ topic # "backtest" => today = 0
  /\ BacktestInit
  /\ Init

(* A refused answer and a kill meet where no specialist reports a failure. *)
Shadow ==
  /\ ShadowNext
  /\ rejections' + kills' = 2 =>
       \A i \in DOMAIN artifacts' : artifacts'[i].output.status # "failed"

(* A job meets at most three faults and interrupts.                        *)
Recovery == Next /\ faults' + interrupts' <= 3

On(name) == topic = name /\ UNCHANGED topic
PolicyNext ==
  \/ /\ On("boundary") /\ BoundaryNext
     /\ UNCHANGED <<shadowVars, gateVars, valuationVars, dcfVars, rankingVars, backtestVars, vars>>
  \/ /\ On("shadow") /\ Shadow
     /\ UNCHANGED <<boundaryVars, gateVars, valuationVars, dcfVars, rankingVars, backtestVars, vars>>
  \/ /\ On("gates") /\ GateNext
     /\ UNCHANGED <<boundaryVars, shadowVars, valuationVars, dcfVars, rankingVars, backtestVars, vars>>
  \/ /\ On("scenario") /\ ScenarioStep
     /\ UNCHANGED <<boundaryVars, shadowVars, gateVars, dcfVars, rankingVars, backtestVars, vars>>
  \/ /\ On("dcf") /\ Analyze
     /\ UNCHANGED <<boundaryVars, shadowVars, gateVars, valuationVars, rankingVars, backtestVars, vars>>
  \/ /\ On("ranking") /\ RankingStep
     /\ UNCHANGED <<boundaryVars, shadowVars, gateVars, valuationVars, dcfVars, backtestVars, vars>>
  \/ /\ On("backtest") /\ BacktestStep
     /\ UNCHANGED <<boundaryVars, shadowVars, gateVars, valuationVars, dcfVars, rankingVars, vars>>
  \/ /\ On("recovery") /\ Recovery
     /\ UNCHANGED <<boundaryVars, shadowVars, gateVars, valuationVars, dcfVars, rankingVars, backtestVars>>

(* The recovery of a job has the fairness of the pipeline.                 *)
PolicySpec ==
  /\ PolicyInit /\ [][PolicyNext]_policyVars
  /\ \A w \in Workers : WF_vars(topic = "recovery" /\ Step(w))
  /\ \A j \in Jobs : SF_vars(topic = "recovery" /\ \E w \in Workers : Resume(w, j))
=============================================================================
