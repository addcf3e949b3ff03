------------------------------ MODULE MCOperations ------------------------------
(***************************************************************************)
(* Instances of what the scheduler and the operator run, one command after *)
(* another.  They share no state, and a behaviour is about one of them:    *)
(* the realized performance of a ranking, the releases of a company, the   *)
(* scheduler, the market data, the theses and challenges of one company    *)
(* with every command, one process alone, or two whose commands race; in   *)
(* both a process may be killed.                                           *)
(***************************************************************************)
EXTENDS RankingPerformance, ReleaseIngestion, SchedulerLoop, MarketSync, MCThesisChallenges

CONSTANTS h1, r1, r2, o1, jn, jw, jb, b1, b2

ASSUME AloneAssumption ==     \* who works where one process does
  p1 \in Commands /\ IsFiniteSet(Commands)

VARIABLE topic

ChallengeTopics == {"alone", "races"}
Topics == {"performance", "releases", "scheduler", "market"} \cup ChallengeTopics
opVars == <<perfVars, releaseVars, schedulerVars, marketVars, vars, topic>>

Dividend(day, amount) == [day |-> day, amount |-> amount, foreign |-> FALSE]
ShortCalendar == {Dividend(2, 1), Dividend(3, 1), Dividend(2, 2)}

(* Prices come on the last day, then the benchmark; calendars, decisions   *)
(* and the review change before a run of the job and inside it.            *)
Performance ==
  /\ PerfNext
  /\ priced' # priced => today = LastDay /\ EvaluatorAt("idle")
  /\ benchmarked' # benchmarked => priced[h1] # {} /\ EvaluatorAt("idle")
  /\ calendar'[h1] \in {{}, {Dividend(2, 1), Dividend(3, 1)}, {Dividend(2, 2)}}
  /\ changes' # changes => benchmarked # {} /\ evaluator.pc \in {"idle", "reviews", "save"}

(* One run of the job per version, and then one refresh.                   *)
Pair == <<b1, b2>>
Market ==
  /\ MarketNext
  /\ refresh' # refresh /\ RefreshAt("idle") => \A c \in Known : refreshRow[c].status = "none"
  /\ job' # job /\ JobAt("idle") =>
       upstream > syncRow[b1].since /\ \A c \in Known : refreshRow[c].status = "none"

(* Every command, challenge and failure, in one process; and races, in     *)
(* which the second process starts while the first is at work.             *)
OneProcess == Step(p1) \/ Command(p1) \/ Stop(p1)
OnlyRaces ==
  /\ \E p \in Commands :
       /\ p = p2 => ~(At(p1, "idle") /\ At(p2, "idle"))
       /\ Step(p) \/ Command(p) \/ Stop(p)
  /\ Len(SelectSeq(raws', LAMBDA r : r.challenge = 0)) <= 1
Sequence ==
  /\ topic = "races" => OnlyRaces
  /\ topic = "alone" => OneProcess

OpInit ==
  /\ PerfInit /\ ReleaseInit /\ SchedulerInit /\ MarketInit /\ Init /\ topic \in Topics
  /\ topic \notin ChallengeTopics => theses = << >>
  /\ topic = "races" => theses = <<FirstThesis("v3")>>

On(name) == topic = name /\ UNCHANGED topic
OpNext ==
  \/ On("performance") /\ Performance /\ UNCHANGED <<releaseVars, schedulerVars, marketVars, vars>>
  \/ On("releases") /\ ReleaseNext /\ UNCHANGED <<perfVars, schedulerVars, marketVars, vars>>
  \/ On("scheduler") /\ SchedulerNext /\ UNCHANGED <<perfVars, releaseVars, marketVars, vars>>
  \/ On("market") /\ Market /\ UNCHANGED <<perfVars, releaseVars, schedulerVars, vars>>
  \/ /\ topic \in ChallengeTopics /\ UNCHANGED topic /\ Sequence
     /\ UNCHANGED <<perfVars, releaseVars, schedulerVars, marketVars>>

(* The fairness of each component, as its specification has it.            *)
OpSpec ==
  /\ OpInit /\ [][OpNext]_opVars
  /\ WF_perfVars(topic = "performance" /\ EvaluatorStep)
  /\ WF_releaseVars(topic = "releases" /\ StartNews)
  /\ WF_releaseVars(topic = "releases" /\ NewsStep)
  /\ WF_releaseVars(topic = "releases" /\ SyncStep)
  /\ WF_schedulerVars(topic = "scheduler" /\ LoopStep)
-----------------------------------------------------------------------------
Alone == topic = "alone"
Workers == IF Alone THEN {p1} ELSE Commands

(* However often a response is retried, a challenge has no more answers    *)
(* than there are processes at work and failures together: one process     *)
(* that never fails buys one, whatever else it runs in between, and each   *)
(* failure costs one at most (ThesisChallengeResponseService.respond).     *)
Answers(c) == {i \in DOMAIN raws : raws[i].challenge = c}
RetriesBuyNoAnswer ==
  \A c \in DOMAIN challenges : Cardinality(Answers(c)) <= Cardinality(Workers) + faults

(* A challenge whose response was persisted right behind the challenged    *)
(* revision is still open, with no process about to close it, only if one  *)
(* was stopped: no failure leaves more than one such challenge.            *)
Succeeds(t, c) == theses[t].challenge = c /\ theses[t].previous = challenges[c].thesis
AtWorkOn(t) == {p \in Commands : cmd[p].pc \in {"accept", "resolve"} /\ cmd[p].saved = t}
LeftOpen ==
  {c \in DOMAIN challenges :
     /\ challenges[c].status = "open"
     /\ \E t \in DOMAIN theses : Succeeds(t, c) /\ AtWorkOn(t) = {}}
OnlyFailuresLeaveOpen == Cardinality(LeftOpen) <= faults

(* A response that keeps the thesis has the content of the revision it was *)
(* asked about, whoever wrote in between; and so has an update, also one   *)
(* that was rejected and is retried after other analyses, of the latest    *)
(* revision, where one process works alone.                                *)
KeptContentStands ==
  \A t \in DOMAIN theses :
    LET r == theses[t] IN
    r.impact = "keep" =>
      /\ r.challenge # 0 => r.content = theses[challenges[r.challenge].thesis].content
      /\ Alone /\ r.challenge = 0 => r.content = theses[r.previous].content
=============================================================================
