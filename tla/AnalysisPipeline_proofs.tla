----------------------- MODULE AnalysisPipeline_proofs -----------------------
(***************************************************************************)
(* Proofs about AnalysisPipeline, for any jobs, workers and bounds.  The   *)
(* type invariant is proved together with RunnersOK, which says in which   *)
(* stage a process can be at each position; one analysis per job follows   *)
(* from Exclusive, when the operator runs a job in one process at a time.  *)
(* The ceiling on paid answers follows from books that say, per position,  *)
(* where the attempts of a process are counted.                            *)
(***************************************************************************)
EXTENDS AnalysisPipeline, TLAPS

TypedOK == TypeOK /\ RunnersOK

(* The steps on the result in memory keep it a result.                     *)
LEMMA AcceptType ==
  ASSUME NEW res \in Results, NEW s \in Stages
  PROVE  Accept(res, s) \in Results
BY DEF Accept, NextStage, Results, Stages, Statuses, ModelStages

LEMMA BegunType ==
  ASSUME NEW r \in Runs
  PROVE  Begun(r) \in Results
BY DEF Begun, Runs, Results, Stages, Statuses, ModelStages

LEMMA FrozenType ==
  ASSUME NEW r \in Runs
  PROVE  Frozen(r) \in Results
BY DEF Frozen, Runs, Results, Stages, Statuses, ModelStages

LEMMA CompletedType ==
  ASSUME NEW r \in Runs
  PROVE  Completed(r) \in Results
<1>1. CASE r.stage \in ModelStages
  <2> DEFINE res == [r.result EXCEPT
                 !.attempts[r.stage] = Max2(@, r.attempt),
                 !.rejected[r.stage] = r.rejected,
                 !.artifact[r.stage] = r.raw]
  <2>1. res \in Results
    BY DEF Runs, Results, Max2, MaxAttempts
  <2>2. Accept(res, r.stage) \in Results
    BY <2>1, AcceptType DEF Runs
  <2>3. QED BY <1>1, <2>2 DEF Completed
<1>2. CASE r.stage \notin ModelStages
  <2> DEFINE res == [r.result EXCEPT
                 !.packet = IF r.stage = "packet" THEN r.candidate ELSE @]
  <2>1. res \in Results
    BY DEF Runs, Results
  <2>2. Accept(res, r.stage) \in Results
    BY <2>1, AcceptType DEF Runs
  <2>3. QED BY <1>2, <2>2 DEF Completed
<1>3. QED BY <1>1, <1>2

LEMMA RecordedType ==
  ASSUME NEW r \in Runs
  PROVE  Recorded(r) \in Results
BY DEF Recorded, Runs, Results, Max2, MaxAttempts

LEMMA FinishedType ==
  ASSUME NEW r \in Runs
  PROVE  Finished(r) \in Results
<1>1. [r.result EXCEPT !.final = r.found] \in Results
  BY DEF Runs, Results
<1>2. QED BY <1>1, AcceptType DEF Finished, Stages

LEMMA ClosedType ==
  ASSUME NEW r \in Runs
  PROVE  Closed(r) \in Results
BY DEF Closed, Runs, Results

LEMMA InMemoryType ==
  ASSUME NEW r \in Runs
  PROVE  InMemory(r) \in Results
<1>1. r.result \in Results
  BY DEF Runs
<1>2. QED
  BY <1>1, BegunType, FrozenType, CompletedType, RecordedType, FinishedType,
     ClosedType DEF InMemory

LEMMA FailedType ==
  ASSUME NEW r \in Runs
  PROVE  Failed(r) \in Results
BY DEF Failed, Resumable, NextStage, Runs, Results, Stages, Statuses, ModelStages, Errors

LEMMA NoResultType == NoResult \in Results
BY BoundsAssumption
   DEF NoResult, Results, NoPrompt, Prompts, Packets, Stages, Statuses, MaxAttempts
-----------------------------------------------------------------------------
LEMMA IdleType == Idle \in Runs
BY NoResultType, BoundsAssumption
   DEF Idle, Runs, NoPrompt, Prompts, Packets, Stages, Releases, MaxAttempts,
       Positions, Errors

(* A process that is not idle has a job whose row is there.                *)
LEMMA Busy ==
  ASSUME TypedOK, NEW w \in Workers, ~At(w, "idle")
  PROVE  /\ run[w] \in Runs
         /\ run[w].job \in Jobs
         /\ row[run[w].job].status # "absent"
BY DEF TypedOK, TypeOK, RunnersOK, RunnerOK, At

LEMMA UpdateTyped ==
  ASSUME TypedOK, NEW j \in Jobs, NEW res \in Results, UpdateResult(j, res)
  PROVE  /\ row' \in [Jobs -> Rows]
         /\ \A i \in Jobs : row'[i].status = row[i].status
BY DEF TypedOK, TypeOK, UpdateResult, Rows

(* What a step owes about the process it moves.                            *)
Shaped(r) ==
  /\ r.pc = "idle" => r.job = NoJob
  /\ r.pc # "idle" => r.job \in Jobs
  /\ r.pc \in {"freeze", "gate", "call", "saveRaw", "judge", "record"} =>
       r.stage \in ModelStages
  /\ r.pc \in {"call", "saveRaw", "judge"} => r.attempt # 0

LEMMA MoveTyped ==
  ASSUME TypedOK, NEW w \in Workers, NEW r \in Runs, Move(w, r), Shaped(r),
         \A j \in Jobs : row[j].status # "absent" => row'[j].status # "absent",
         r.pc # "idle" => row'[r.job].status # "absent"
  PROVE  run' \in [Workers -> Runs] /\ RunnersOK'
BY DEF TypedOK, TypeOK, RunnersOK, RunnerOK, Move, Shaped

(* A value the step of a busy process may leave as its memory.             *)
Fits(w, q) == q \in Runs /\ Shaped(q) /\ q.job = run[w].job /\ q.pc # "idle"

LEMMA StepTyped ==
  ASSUME TypedOK, NEW w \in Workers, ~At(w, "idle"), NEW q, Move(w, q), Fits(w, q),
         \A i \in Jobs : row[i].status # "absent" => row'[i].status # "absent"
  PROVE  run' \in [Workers -> Runs] /\ RunnersOK'
BY Busy, MoveTyped DEF Fits

LEMMA StopTyped ==
  ASSUME TypedOK, NEW w \in Workers, Move(w, Idle),
         \A i \in Jobs : row[i].status # "absent" => row'[i].status # "absent"
  PROVE  run' \in [Workers -> Runs] /\ RunnersOK'
BY IdleType, MoveTyped DEF Idle, Shaped

LEMMA RaiseFits ==
  ASSUME NEW w \in Workers, NEW r \in Runs, r.job \in Jobs, r.job = run[w].job,
         NEW kind \in Errors
  PROVE  Fits(w, Raise(r, kind))
BY DEF Fits, Raise, Runs, Shaped, Positions

(* An update of the result of its own row, by a busy process.              *)
LEMMA BusyUpdate ==
  ASSUME TypedOK, NEW w \in Workers, ~At(w, "idle"), NEW res \in Results,
         UpdateResult(run[w].job, res)
  PROVE  /\ row' \in [Jobs -> Rows]
         /\ \A i \in Jobs : row[i].status # "absent" => row'[i].status # "absent"
BY Busy, UpdateTyped
-----------------------------------------------------------------------------
(* One lemma per step: it preserves types and shapes.                      *)
LEMMA StartTyped ==
  ASSUME TypedOK, NEW w \in Workers, NEW j \in Jobs, Start(w, j)
  PROVE  TypedOK'
<1> DEFINE r == [Idle EXCEPT !.pc = "created", !.job = j, !.release = release]
<1>1. r \in Runs /\ Shaped(r) /\ r.pc = "created" /\ r.job = j
  BY IdleType DEF Runs, Positions, TypedOK, TypeOK, Shaped
<1>2. /\ row' \in [Jobs -> Rows]
      /\ \A i \in Jobs : row[i].status # "absent" => row'[i].status # "absent"
      /\ row'[j].status # "absent"
  BY DEF Start, TypedOK, TypeOK, Rows
<1>3. run' \in [Workers -> Runs] /\ RunnersOK'
  BY <1>1, <1>2, MoveTyped DEF Start
<1>4. QED BY <1>2, <1>3 DEF Start, TypedOK, TypeOK, Unpaid, world

LEMMA WriteFirstResultTyped ==
  ASSUME TypedOK, NEW w \in Workers, WriteFirstResult(w)
  PROVE  TypedOK'
<1> DEFINE first == [NoResult EXCEPT !.next = "refresh"]
           q == [run[w] EXCEPT !.pc = "begin", !.result = first]
<1>1. ~At(w, "idle") /\ run[w] \in Runs /\ run[w].job \in Jobs
  BY Busy DEF WriteFirstResult, At
<1>2. first \in Results
  BY NoResultType DEF Results, Stages
<1>3. Fits(w, q)
  BY <1>1, <1>2 DEF Fits, Runs, Positions, Shaped
<1>4. /\ row' \in [Jobs -> Rows]
      /\ \A i \in Jobs : row[i].status # "absent" => row'[i].status # "absent"
  BY <1>1, <1>2, BusyUpdate DEF WriteFirstResult
<1>5. run' \in [Workers -> Runs] /\ RunnersOK'
  BY <1>1, <1>3, <1>4, StepTyped DEF WriteFirstResult
<1>6. QED BY <1>4, <1>5 DEF WriteFirstResult, TypedOK, TypeOK, Unpaid, world

LEMMA BuildPromptType ==
  ASSUME NEW r \in Runs
  PROVE  BuildPrompt(r) \in Prompts
BY DEF BuildPrompt, Runs, Results, Prompts, Releases, ModelStages

LEMMA BeginStageTyped ==
  ASSUME TypedOK, NEW w \in Workers, BeginStage(w)
  PROVE  TypedOK'
<1> DEFINE r == [run[w] EXCEPT !.result = Begun(run[w])]
           builds == r.mode = "run" \/ (r.mode = "rerun" /\ r.stage = "scenario")
           prompt == IF builds THEN BuildPrompt(r) ELSE r.result.prompt[r.stage]
           work == [r EXCEPT !.pc = "work"]
           check == [r EXCEPT !.pc = "check"]
           complete == [r EXCEPT !.pc = "complete"]
           gate == [r EXCEPT !.pc = "gate", !.prompt = prompt]
           freeze == [r EXCEPT !.pc = "freeze", !.prompt = prompt]
<1>1. ~At(w, "idle") /\ run[w] \in Runs /\ run[w].job \in Jobs
  BY Busy DEF BeginStage, At
<1>2. r \in Runs /\ r.job = run[w].job /\ r.result \in Results
  BY <1>1, BegunType DEF Runs
<1>3. /\ row' \in [Jobs -> Rows]
      /\ \A i \in Jobs : row[i].status # "absent" => row'[i].status # "absent"
  BY <1>1, <1>2, BusyUpdate DEF BeginStage
<1>4. \/ r.stage \in PreModel /\ Move(w, work)
      \/ r.stage = "persistence" /\ Move(w, check)
      \/ /\ r.stage \in ModelStages
         /\ \/ Move(w, Raise(r, "integrity")) \/ Move(w, gate)
            \/ Move(w, freeze) \/ Move(w, complete)
  BY DEF BeginStage
<1>5. r.stage \in ModelStages => prompt \in Prompts
  BY <1>2, BuildPromptType DEF Runs, Results
<1> HIDE DEF r, prompt
<1>6. Fits(w, Raise(r, "integrity"))
  BY <1>1, <1>2, RaiseFits DEF Errors
<1>7. Fits(w, work) /\ Fits(w, check) /\ Fits(w, complete)
  BY <1>1, <1>2 DEF Fits, Runs, Positions, Shaped
<1>8. r.stage \in ModelStages => Fits(w, gate) /\ Fits(w, freeze)
  BY <1>1, <1>2, <1>5 DEF Fits, Runs, Positions, Shaped
<1> HIDE DEF work, check, complete, gate, freeze
<1>9. PICK q : Move(w, q) /\ Fits(w, q)
  BY <1>4, <1>6, <1>7, <1>8
<1>10. run' \in [Workers -> Runs] /\ RunnersOK'
  BY <1>1, <1>3, <1>9, StepTyped
<1>11. QED BY <1>3, <1>10 DEF BeginStage, TypedOK, TypeOK, Unpaid, world

LEMMA WorkStageTyped ==
  ASSUME TypedOK, NEW w \in Workers, WorkStage(w)
  PROVE  TypedOK'
<1> DEFINE r == run[w]
           q == [r EXCEPT !.pc = "complete",
                   !.candidate = IF r.stage = "deterministic" THEN evidence ELSE @]
<1>1. ~At(w, "idle") /\ r \in Runs /\ r.job \in Jobs
  BY Busy DEF WorkStage, At
<1>2. evidence \in Packets
  BY BoundsAssumption DEF TypedOK, TypeOK, Packets
<1>3. Fits(w, q)
  BY <1>1, <1>2 DEF Fits, Runs, Positions, Shaped
<1>4. Fits(w, Raise(r, "blocked")) /\ Fits(w, Raise(r, "readiness"))
  BY <1>1, RaiseFits DEF Errors
<1>5. Move(w, q) \/ Move(w, Raise(r, "blocked")) \/ Move(w, Raise(r, "readiness"))
  BY DEF WorkStage
<1>6. UNCHANGED row
  BY DEF WorkStage, store
<1> HIDE DEF q
<1>7. run' \in [Workers -> Runs] /\ RunnersOK'
  BY <1>1, <1>3, <1>4, <1>5, <1>6, StepTyped
<1>8. QED BY <1>7 DEF WorkStage, TypedOK, TypeOK, Unpaid, world, store

LEMMA CompleteStageTyped ==
  ASSUME TypedOK, NEW w \in Workers, CompleteStage(w)
  PROVE  TypedOK'
<1> DEFINE r == run[w]
           q == [r EXCEPT !.pc = "begin", !.result = Completed(r),
                   !.stage = StageAfter(@), !.prompt = NoPrompt, !.attempt = 0,
                   !.answer = {}, !.raw = 0, !.rejected = FALSE]
<1>1. ~At(w, "idle") /\ r \in Runs /\ r.job \in Jobs
  BY Busy DEF CompleteStage, At
<1>2. Completed(r) \in Results
  BY <1>1, CompletedType
<1>3. StageAfter(r.stage) \in Stages /\ NoPrompt \in Prompts /\ 0 \in 0 .. MaxAttempts
  BY BoundsAssumption
     DEF StageAfter, Stages, ModelStages, NoPrompt, Prompts, Packets, MaxAttempts
<1>4. Fits(w, q)
  BY <1>1, <1>2, <1>3 DEF Fits, Runs, Positions, Shaped
<1>5. /\ row' \in [Jobs -> Rows]
      /\ \A i \in Jobs : row[i].status # "absent" => row'[i].status # "absent"
  BY <1>1, <1>2, BusyUpdate DEF CompleteStage
<1>6. run' \in [Workers -> Runs] /\ RunnersOK'
  BY <1>1, <1>4, <1>5, StepTyped DEF CompleteStage
<1>7. QED BY <1>5, <1>6 DEF CompleteStage, TypedOK, TypeOK, Unpaid, world

LEMMA FreezePromptTyped ==
  ASSUME TypedOK, NEW w \in Workers, FreezePrompt(w)
  PROVE  TypedOK'
<1> DEFINE r == run[w]
           q == [r EXCEPT !.pc = "gate", !.result = Frozen(r)]
<1>1. ~At(w, "idle") /\ r \in Runs /\ r.job \in Jobs /\ r.stage \in ModelStages
  BY Busy DEF FreezePrompt, At, TypedOK, RunnersOK, RunnerOK
<1>2. Fits(w, q)
  BY <1>1, FrozenType DEF Fits, Runs, Positions, Shaped
<1>3. Fits(w, Raise(r, "integrity"))
  BY <1>1, RaiseFits DEF Errors
<1>4. /\ row' \in [Jobs -> Rows]
      /\ \A i \in Jobs : row'[i].status = row[i].status
  <2>1. CASE row' = row
    BY <2>1 DEF TypedOK, TypeOK
  <2>2. CASE row' = [row EXCEPT ![r.job].result.prompt[r.stage] = r.prompt]
    <3>1. row[r.job].status \in {"absent", "running", "success", "failed"}
          /\ row[r.job].result \in Results /\ r.prompt \in Prompts
      BY <1>1 DEF TypedOK, TypeOK, Rows, Runs
    <3>2. [row[r.job].result EXCEPT !.prompt[r.stage] = r.prompt] \in Results
      BY <1>1, <3>1 DEF Results
    <3>3. [row[r.job] EXCEPT !.result.prompt[r.stage] = r.prompt] \in Rows
      BY <1>1, <3>1, <3>2 DEF TypedOK, TypeOK, Rows
    <3>4. QED BY <1>1, <2>2, <3>3 DEF TypedOK, TypeOK, Rows
  <2>3. QED BY <2>1, <2>2 DEF FreezePrompt
<1>5. Move(w, q) \/ Move(w, Raise(r, "integrity"))
  BY DEF FreezePrompt
<1> HIDE DEF q
<1>6. run' \in [Workers -> Runs] /\ RunnersOK'
  BY <1>1, <1>2, <1>3, <1>4, <1>5, StepTyped
<1>7. QED BY <1>4, <1>6 DEF FreezePrompt, TypedOK, TypeOK, Unpaid, world

LEMMA EnterModelStageTyped ==
  ASSUME TypedOK, NEW w \in Workers, EnterModelStage(w)
  PROVE  TypedOK'
<1> DEFINE r == run[w]
           q == [r EXCEPT !.pc = "call", !.attempt = PriorAttempts(r) + 1,
                   !.rejected = r.result.rejected[r.stage],
                   !.raw = r.result.artifact[r.stage]]
<1>1. ~At(w, "idle") /\ r \in Runs /\ r.job \in Jobs /\ r.stage \in ModelStages
  BY Busy DEF EnterModelStage, At, TypedOK, RunnersOK, RunnerOK
<1>2. PriorAttempts(r) \in 0 .. MaxAttempts
  BY <1>1 DEF PriorAttempts, Runs, Results, MaxAttempts
<1>3. PriorAttempts(r) < MaxAttempts => Fits(w, q)
  <2>1. SUFFICES ASSUME PriorAttempts(r) < MaxAttempts PROVE Fits(w, q)
    OBVIOUS
  <2>2. /\ PriorAttempts(r) + 1 \in 0 .. MaxAttempts /\ PriorAttempts(r) + 1 # 0
        /\ r.result.rejected[r.stage] \in BOOLEAN /\ r.result.artifact[r.stage] \in Nat
    BY <1>1, <1>2, <2>1 DEF Runs, Results, MaxAttempts
  <2>3. QED BY <1>1, <2>2 DEF Fits, Runs, Positions, Shaped
<1>4. Fits(w, Raise(r, "readiness")) /\ Fits(w, Raise(r, "validation"))
  BY <1>1, RaiseFits DEF Errors
<1>5. \/ Move(w, Raise(r, "readiness")) \/ Move(w, Raise(r, "validation"))
      \/ PriorAttempts(r) < MaxAttempts /\ Move(w, q)
  BY DEF EnterModelStage
<1>6. UNCHANGED row
  BY DEF EnterModelStage, store
<1> HIDE DEF q
<1>7. run' \in [Workers -> Runs] /\ RunnersOK'
  BY <1>1, <1>3, <1>4, <1>5, <1>6, StepTyped
<1>8. QED BY <1>7 DEF EnterModelStage, TypedOK, TypeOK, Unpaid, world, store

LEMMA CallModelTyped ==
  ASSUME TypedOK, NEW w \in Workers, CallModel(w)
  PROVE  TypedOK'
<1> DEFINE r == run[w]
<1>1. ~At(w, "idle") /\ r \in Runs /\ r.job \in Jobs /\ r.stage \in ModelStages
      /\ r.attempt # 0
  BY Busy DEF CallModel, At, TypedOK, RunnersOK, RunnerOK
<1>2. PICK accepts \in SUBSET Releases :
        Move(w, [r EXCEPT !.pc = "saveRaw", !.answer = accepts])
  BY DEF CallModel
<1>3. Fits(w, [r EXCEPT !.pc = "saveRaw", !.answer = accepts])
  BY <1>1 DEF Fits, Runs, Positions, Shaped
<1>4. UNCHANGED row
  BY DEF CallModel, store
<1>5. run' \in [Workers -> Runs] /\ RunnersOK'
  BY <1>1, <1>2, <1>3, <1>4, StepTyped
<1>6. answers' \in [Jobs -> [ModelStages -> Nat]]
  BY <1>1 DEF CallModel, TypedOK, TypeOK
<1>7. QED BY <1>5, <1>6 DEF CallModel, TypedOK, TypeOK, world, store

LEMMA InterruptModelTyped ==
  ASSUME TypedOK, NEW w \in Workers, InterruptModel(w)
  PROVE  TypedOK'
<1> DEFINE r == run[w]
           q == [Raise(r, "other") EXCEPT !.pc = "record", !.spent = r.attempt - 1]
<1>1. ~At(w, "idle") /\ r \in Runs /\ r.job \in Jobs /\ r.stage \in ModelStages
      /\ r.attempt # 0
  BY Busy DEF InterruptModel, At, TypedOK, RunnersOK, RunnerOK
<1>2. r.attempt - 1 \in 0 .. MaxAttempts
  BY <1>1 DEF Runs, MaxAttempts
<1>3. Fits(w, q)
  BY <1>1, <1>2 DEF Fits, Raise, Runs, Positions, Shaped, Errors
<1>4. Fits(w, Raise(r, "other"))
  BY <1>1, RaiseFits DEF Errors
<1>5. Move(w, q) \/ Move(w, Raise(r, "other"))
  BY DEF InterruptModel
<1>6. UNCHANGED row
  BY DEF InterruptModel, store
<1> HIDE DEF q
<1>7. run' \in [Workers -> Runs] /\ RunnersOK'
  BY <1>1, <1>3, <1>4, <1>5, <1>6, StepTyped
<1>8. interrupts' \in 0 .. MaxInterrupts
  BY BoundsAssumption DEF InterruptModel, TypedOK, TypeOK
<1>9. QED BY <1>7, <1>8 DEF InterruptModel, TypedOK, TypeOK, world, store

LEMMA SaveRawTyped ==
  ASSUME TypedOK, NEW w \in Workers, SaveRaw(w)
  PROVE  TypedOK'
<1> DEFINE r == run[w]
           new == [job |-> r.job, stage |-> r.stage, prompt |-> r.prompt,
                   accepts |-> r.answer, verdict |-> "pending"]
           q == [r EXCEPT !.pc = "judge", !.raw = Len(raw) + 1]
<1>1. ~At(w, "idle") /\ r \in Runs /\ r.job \in Jobs /\ r.stage \in ModelStages
      /\ r.attempt # 0
  BY Busy DEF SaveRaw, At, TypedOK, RunnersOK, RunnerOK
<1>2. raw \in Seq(RawAnswers) /\ Len(raw) + 1 \in Nat
  BY DEF TypedOK, TypeOK
<1>3. new \in RawAnswers
  BY <1>1 DEF RawAnswers, Runs
<1>4. raw' \in Seq(RawAnswers)
  BY <1>2, <1>3 DEF SaveRaw
<1>5. Fits(w, q)
  BY <1>1, <1>2 DEF Fits, Runs, Positions, Shaped
<1>6. run' \in [Workers -> Runs] /\ RunnersOK'
  BY <1>1, <1>5, StepTyped DEF SaveRaw
<1>7. QED BY <1>4, <1>6 DEF SaveRaw, TypedOK, TypeOK, Unpaid, world

(* Ruling on one raw answer leaves the sequence of raw answers in type.    *)
LEMMA RuledType ==
  ASSUME raw \in Seq(RawAnswers), NEW n \in Nat,
         NEW v \in {"pending", "accepted", "rejected"}
  PROVE  [raw EXCEPT ![n].verdict = v] \in Seq(RawAnswers)
<1> DEFINE new == [raw EXCEPT ![n].verdict = v]
<1>1. raw \in [1 .. Len(raw) -> RawAnswers] /\ Len(raw) \in Nat
  OBVIOUS
<1>2. n \in 1 .. Len(raw) => [raw[n] EXCEPT !.verdict = v] \in RawAnswers
  BY <1>1 DEF RawAnswers
<1>3. new \in [1 .. Len(raw) -> RawAnswers]
  BY <1>1, <1>2
<1>4. QED BY <1>1, <1>3

LEMMA JudgeAnswerTyped ==
  ASSUME TypedOK, NEW w \in Workers, JudgeAnswer(w)
  PROVE  TypedOK'
<1> DEFINE r == run[w]
           accept == [r EXCEPT !.pc = "complete"]
           spend == [Raise(r, "validation") EXCEPT
                       !.pc = "record", !.spent = r.attempt, !.rejected = TRUE]
           repair == [r EXCEPT !.pc = "call", !.attempt = @ + 1, !.rejected = TRUE,
                        !.prompt = IF r.stage = "scenario" THEN BuildPrompt(r) ELSE @]
<1>1. ~At(w, "idle") /\ r \in Runs /\ r.job \in Jobs /\ r.stage \in ModelStages
  BY Busy DEF JudgeAnswer, At, TypedOK, RunnersOK, RunnerOK
<1>2. raw' \in Seq(RawAnswers)
  <2>1. raw \in Seq(RawAnswers) /\ r.raw \in Nat
    BY <1>1 DEF TypedOK, TypeOK, Runs
  <2>2. QED BY <2>1, RuledType DEF JudgeAnswer
<1>3. Fits(w, accept)
  BY <1>1 DEF Fits, Runs, Positions, Shaped
<1>4. Fits(w, spend)
  BY <1>1 DEF Fits, Raise, Runs, Positions, Shaped, Errors, MaxAttempts
<1>5. ~(r.attempt >= MaxAttempts) => Fits(w, repair)
  <2>1. SUFFICES ASSUME ~(r.attempt >= MaxAttempts) PROVE Fits(w, repair)
    OBVIOUS
  <2>2. r.attempt + 1 \in 0 .. MaxAttempts /\ r.attempt + 1 # 0
    BY <1>1, <2>1 DEF Runs, MaxAttempts
  <2>3. BuildPrompt(r) \in Prompts
    BY <1>1, BuildPromptType
  <2>4. QED BY <1>1, <2>2, <2>3 DEF Fits, Runs, Positions, Shaped
<1>6. \/ Move(w, accept) \/ Move(w, spend)
      \/ ~(r.attempt >= MaxAttempts) /\ Move(w, repair)
  BY DEF JudgeAnswer
<1>7. UNCHANGED row
  BY DEF JudgeAnswer
<1> HIDE DEF accept, spend, repair
<1>8. run' \in [Workers -> Runs] /\ RunnersOK'
  BY <1>1, <1>3, <1>4, <1>5, <1>6, <1>7, StepTyped
<1>9. QED BY <1>2, <1>8 DEF JudgeAnswer, TypedOK, TypeOK, Unpaid, world

LEMMA RecordAttemptsTyped ==
  ASSUME TypedOK, NEW w \in Workers, RecordAttempts(w)
  PROVE  TypedOK'
<1> DEFINE r == run[w]
           q == [r EXCEPT !.pc = "fail", !.result = Recorded(r)]
<1>1. ~At(w, "idle") /\ r \in Runs /\ r.job \in Jobs
  BY Busy DEF RecordAttempts, At
<1>2. Recorded(r) \in Results
  BY <1>1, RecordedType
<1>3. Fits(w, q)
  BY <1>1, <1>2 DEF Fits, Runs, Positions, Shaped
<1>4. /\ row' \in [Jobs -> Rows]
      /\ \A i \in Jobs : row[i].status # "absent" => row'[i].status # "absent"
  BY <1>1, <1>2, BusyUpdate DEF RecordAttempts
<1>5. run' \in [Workers -> Runs] /\ RunnersOK'
  BY <1>1, <1>3, <1>4, StepTyped DEF RecordAttempts
<1>6. QED BY <1>4, <1>5 DEF RecordAttempts, TypedOK, TypeOK, Unpaid, world

LEMMA CheckPersistedTyped ==
  ASSUME TypedOK, NEW w \in Workers, CheckPersisted(w)
  PROVE  TypedOK'
<1> DEFINE r == run[w]
           save == [r EXCEPT !.pc = "save"]
           known(i) == [r EXCEPT !.pc = "revision", !.found = i]
<1>1. ~At(w, "idle") /\ r \in Runs /\ r.job \in Jobs
  BY Busy DEF CheckPersisted, At
<1>2. AnalysesOf(r.job) \subseteq Nat
  BY DEF AnalysesOf, TypedOK, TypeOK
<1>3. Fits(w, save) /\ \A i \in Nat : Fits(w, known(i))
  BY <1>1 DEF Fits, Runs, Positions, Shaped
<1>4. Move(w, save) \/ \E i \in AnalysesOf(r.job) : Move(w, known(i))
  BY DEF CheckPersisted
<1>5. UNCHANGED row
  BY DEF CheckPersisted, store
<1> HIDE DEF save, known
<1>6. run' \in [Workers -> Runs] /\ RunnersOK'
  BY <1>1, <1>2, <1>3, <1>4, <1>5, StepTyped
<1>7. QED BY <1>6 DEF CheckPersisted, TypedOK, TypeOK, Unpaid, world, store

LEMMA SaveAnalysisTyped ==
  ASSUME TypedOK, NEW w \in Workers, SaveAnalysis(w)
  PROVE  TypedOK'
<1> DEFINE r == run[w]
           new == [job |-> r.job, packet |-> r.candidate,
                   qualitative |-> r.result.artifact["qualitative"],
                   scenario |-> r.result.artifact["scenario"]]
           q == [r EXCEPT !.pc = "revision", !.found = Len(analyses) + 1]
<1>1. ~At(w, "idle") /\ r \in Runs /\ r.job \in Jobs
  BY Busy DEF SaveAnalysis, At
<1>2. analyses \in Seq(SavedAnalyses) /\ Len(analyses) + 1 \in Nat
  BY DEF TypedOK, TypeOK
<1>3. new \in SavedAnalyses
  BY <1>1 DEF SavedAnalyses, Runs, Results, ModelStages
<1>4. analyses' \in Seq(SavedAnalyses)
  BY <1>2, <1>3 DEF SaveAnalysis
<1>5. Fits(w, q)
  BY <1>1, <1>2 DEF Fits, Runs, Positions, Shaped
<1>6. Fits(w, Raise(r, "validation"))
  BY <1>1, RaiseFits DEF Errors
<1>7. Move(w, q) \/ Move(w, Raise(r, "validation"))
  BY DEF SaveAnalysis
<1>8. UNCHANGED row
  BY DEF SaveAnalysis
<1> HIDE DEF q
<1>9. run' \in [Workers -> Runs] /\ RunnersOK'
  BY <1>1, <1>5, <1>6, <1>7, <1>8, StepTyped
<1>10. QED BY <1>4, <1>9 DEF SaveAnalysis, TypedOK, TypeOK, Unpaid, world

LEMMA ReadRevisionTyped ==
  ASSUME TypedOK, NEW w \in Workers, ReadRevision(w)
  PROVE  TypedOK'
<1> DEFINE q == [run[w] EXCEPT !.pc = "finish"]
<1>1. ~At(w, "idle") /\ run[w] \in Runs /\ run[w].job \in Jobs
  BY Busy DEF ReadRevision, At
<1>2. Fits(w, q)
  BY <1>1 DEF Fits, Runs, Positions, Shaped
<1>3. run' \in [Workers -> Runs] /\ RunnersOK'
  BY <1>1, <1>2, StepTyped DEF ReadRevision, store
<1>4. QED BY <1>3 DEF ReadRevision, TypedOK, TypeOK, Unpaid, world, store

LEMMA FinishResultTyped ==
  ASSUME TypedOK, NEW w \in Workers, FinishResult(w)
  PROVE  TypedOK'
<1> DEFINE r == run[w]
           q == [r EXCEPT !.pc = "close", !.result = Finished(r)]
<1>1. ~At(w, "idle") /\ r \in Runs /\ r.job \in Jobs
  BY Busy DEF FinishResult, At
<1>2. Finished(r) \in Results
  BY <1>1, FinishedType
<1>3. Fits(w, q)
  BY <1>1, <1>2 DEF Fits, Runs, Positions, Shaped
<1>4. /\ row' \in [Jobs -> Rows]
      /\ \A i \in Jobs : row[i].status # "absent" => row'[i].status # "absent"
  BY <1>1, <1>2, BusyUpdate DEF FinishResult
<1>5. run' \in [Workers -> Runs] /\ RunnersOK'
  BY <1>1, <1>3, <1>4, StepTyped DEF FinishResult
<1>6. QED BY <1>4, <1>5 DEF FinishResult, TypedOK, TypeOK, Unpaid, world

LEMMA CloseJobTyped ==
  ASSUME TypedOK, NEW w \in Workers, CloseJob(w)
  PROVE  TypedOK'
<1> DEFINE r == run[w]
<1>1. ~At(w, "idle") /\ r \in Runs /\ r.job \in Jobs
  BY Busy DEF CloseJob, At
<1>2. Closed(r) \in Results
  BY <1>1, ClosedType
<1>3. /\ row' \in [Jobs -> Rows]
      /\ \A i \in Jobs : row[i].status # "absent" => row'[i].status # "absent"
  BY <1>1, <1>2 DEF CloseJob, TypedOK, TypeOK, Rows
<1>4. run' \in [Workers -> Runs] /\ RunnersOK'
  BY <1>3, StopTyped DEF CloseJob
<1>5. QED BY <1>3, <1>4 DEF CloseJob, TypedOK, TypeOK, Unpaid, world

LEMMA FailJobTyped ==
  ASSUME TypedOK, NEW w \in Workers, FailJob(w)
  PROVE  TypedOK'
<1> DEFINE r == run[w]
<1>1. ~At(w, "idle") /\ r \in Runs /\ r.job \in Jobs
  BY Busy DEF FailJob, At
<1>2. Failed(r) \in Results
  BY <1>1, FailedType
<1>3. /\ row' \in [Jobs -> Rows]
      /\ \A i \in Jobs : row[i].status # "absent" => row'[i].status # "absent"
  BY <1>1, <1>2 DEF FailJob, TypedOK, TypeOK, Rows
<1>4. run' \in [Workers -> Runs] /\ RunnersOK'
  BY <1>3, StopTyped DEF FailJob
<1>5. QED BY <1>3, <1>4 DEF FailJob, TypedOK, TypeOK, Unpaid, world

LEMMA ResumeTyped ==
  ASSUME TypedOK, NEW w \in Workers, NEW j \in Jobs, Resume(w, j)
  PROVE  TypedOK'
<1> DEFINE q == [Idle EXCEPT !.pc = "mark", !.mode = "resume", !.job = j,
                   !.release = release, !.result = row[j].result,
                   !.candidate = row[j].result.packet]
<1>1. row[j].result \in Results /\ row[j].result.packet \in Packets /\ release \in Releases
  BY DEF TypedOK, TypeOK, Rows, Results
<1>2. q \in Runs /\ Shaped(q) /\ q.job = j
  BY <1>1, IdleType DEF Runs, Positions, Shaped
<1>3. row[j].status # "absent" /\ UNCHANGED row
  BY DEF Resume, store
<1>4. Move(w, q)
  BY DEF Resume, ResumeJob
<1> HIDE DEF q
<1>5. run' \in [Workers -> Runs] /\ RunnersOK'
  BY <1>2, <1>3, <1>4, MoveTyped
<1>6. QED BY <1>5 DEF Resume, TypedOK, TypeOK, Unpaid, world, store

LEMMA MarkRunningTyped ==
  ASSUME TypedOK, NEW w \in Workers, MarkRunning(w)
  PROVE  TypedOK'
<1> DEFINE q == [run[w] EXCEPT !.pc = "marked"]
<1>1. ~At(w, "idle") /\ run[w] \in Runs /\ run[w].job \in Jobs
  BY Busy DEF MarkRunning, At
<1>2. Fits(w, q)
  BY <1>1 DEF Fits, Runs, Positions, Shaped
<1>3. /\ row' \in [Jobs -> Rows]
      /\ \A i \in Jobs : row[i].status # "absent" => row'[i].status # "absent"
  BY <1>1 DEF MarkRunning, TypedOK, TypeOK, Rows
<1>4. run' \in [Workers -> Runs] /\ RunnersOK'
  BY <1>1, <1>2, <1>3, StepTyped DEF MarkRunning
<1>5. QED BY <1>3, <1>4 DEF MarkRunning, TypedOK, TypeOK, Unpaid, world

LEMMA WriteResumedTyped ==
  ASSUME TypedOK, NEW w \in Workers, WriteResumed(w)
  PROVE  TypedOK'
<1> DEFINE q == [run[w] EXCEPT !.pc = "verify"]
<1>1. ~At(w, "idle") /\ run[w] \in Runs /\ run[w].job \in Jobs /\ run[w].result \in Results
  BY Busy DEF WriteResumed, At, Runs
<1>2. Fits(w, q)
  BY <1>1 DEF Fits, Runs, Positions, Shaped
<1>3. /\ row' \in [Jobs -> Rows]
      /\ \A i \in Jobs : row[i].status # "absent" => row'[i].status # "absent"
  BY <1>1, BusyUpdate DEF WriteResumed
<1>4. run' \in [Workers -> Runs] /\ RunnersOK'
  BY <1>1, <1>2, <1>3, StepTyped DEF WriteResumed
<1>5. QED BY <1>3, <1>4 DEF WriteResumed, TypedOK, TypeOK, Unpaid, world

LEMMA VerifyInputsTyped ==
  ASSUME TypedOK, NEW w \in Workers, VerifyInputs(w)
  PROVE  TypedOK'
<1> DEFINE r == run[w]
           known == [r EXCEPT !.pc = "rehydrate"]
           again == [r EXCEPT !.pc = "begin", !.mode = "rerun", !.stage = "qualitative"]
<1>1. ~At(w, "idle") /\ r \in Runs /\ r.job \in Jobs
  BY Busy DEF VerifyInputs, At
<1>2. Fits(w, known) /\ Fits(w, again)
  BY <1>1 DEF Fits, Runs, Positions, Shaped, Stages, ModelStages
<1>3. Fits(w, Raise(r, "integrity"))
  BY <1>1, RaiseFits DEF Errors
<1>4. Move(w, known) \/ Move(w, again) \/ Move(w, Raise(r, "integrity"))
  BY DEF VerifyInputs
<1>5. UNCHANGED row
  BY DEF VerifyInputs, store
<1> HIDE DEF known, again
<1>6. run' \in [Workers -> Runs] /\ RunnersOK'
  BY <1>1, <1>2, <1>3, <1>4, <1>5, StepTyped
<1>7. QED BY <1>6 DEF VerifyInputs, TypedOK, TypeOK, Unpaid, world, store

LEMMA RehydrateTyped ==
  ASSUME TypedOK, NEW w \in Workers, Rehydrate(w)
  PROVE  TypedOK'
<1> DEFINE r == run[w]
           on(s) == [r EXCEPT !.pc = "begin", !.stage = s]
<1>1. ~At(w, "idle") /\ r \in Runs /\ r.job \in Jobs
  BY Busy DEF Rehydrate, At
<1>2. Fits(w, on("persistence")) /\ Fits(w, on("scenario"))
  BY <1>1 DEF Fits, Runs, Positions, Shaped, Stages, ModelStages
<1>3. Fits(w, Raise(r, "validation")) /\ Fits(w, Raise(r, "other"))
  BY <1>1, RaiseFits DEF Errors
<1>4. \/ Move(w, on("persistence")) \/ Move(w, on("scenario"))
      \/ Move(w, Raise(r, "validation")) \/ Move(w, Raise(r, "other"))
  BY DEF Rehydrate
<1>5. UNCHANGED row
  BY DEF Rehydrate, store
<1> HIDE DEF on
<1>6. run' \in [Workers -> Runs] /\ RunnersOK'
  BY <1>1, <1>2, <1>3, <1>4, <1>5, StepTyped
<1>7. QED BY <1>6 DEF Rehydrate, TypedOK, TypeOK, Unpaid, world, store

LEMMA FaultTyped ==
  ASSUME TypedOK, NEW w \in Workers, Fault(w)
  PROVE  TypedOK'
<1> DEFINE r == run[w]
           q(res) == [r EXCEPT !.result = res]
<1>1. ~At(w, "idle") /\ r \in Runs /\ r.job \in Jobs /\ r.result \in Results
  BY Busy DEF Fault, At, Runs
<1>2. InMemory(r) \in Results
  BY <1>1, InMemoryType
<1>3. \A res \in Results : q(res) \in Runs /\ q(res).job = r.job
  BY <1>1 DEF Runs
<1>4. Move(w, Idle) \/ \E res \in Results : Move(w, Raise(q(res), "other"))
  BY <1>1, <1>2 DEF Fault
<1> HIDE DEF q
<1>5. \A res \in Results : Fits(w, Raise(q(res), "other"))
  BY <1>1, <1>3, RaiseFits DEF Errors
<1>6. UNCHANGED row
  BY DEF Fault, store
<1>7. run' \in [Workers -> Runs] /\ RunnersOK'
  BY <1>1, <1>4, <1>5, <1>6, StepTyped, StopTyped
<1>8. faults' \in 0 .. MaxFaults
  BY BoundsAssumption DEF Fault, TypedOK, TypeOK
<1>9. QED BY <1>7, <1>8 DEF Fault, TypedOK, TypeOK, world, store

LEMMA CrashTyped ==
  ASSUME TypedOK, NEW w \in Workers, Crash(w)
  PROVE  TypedOK'
<1>1. run' \in [Workers -> Runs] /\ RunnersOK'
  BY StopTyped DEF Crash, store
<1>2. faults' \in 0 .. MaxFaults
  BY BoundsAssumption DEF Crash, TypedOK, TypeOK
<1>3. QED BY <1>1, <1>2 DEF Crash, TypedOK, TypeOK, world, store

LEMMA EnvironmentTyped ==
  ASSUME TypedOK, NewEvidence \/ Upgrade \/ UNCHANGED vars
  PROVE  TypedOK'
<1>1. CASE UNCHANGED vars
  BY <1>1 DEF TypedOK, TypeOK, RunnersOK, RunnerOK, vars
<1>2. CASE NewEvidence
  BY <1>2, BoundsAssumption
     DEF NewEvidence, TypedOK, TypeOK, RunnersOK, RunnerOK, Unpaid, store
<1>3. CASE Upgrade
  BY <1>3, BoundsAssumption
     DEF Upgrade, TypedOK, TypeOK, RunnersOK, RunnerOK, Unpaid, store, Releases
<1>4. QED BY <1>1, <1>2, <1>3
-----------------------------------------------------------------------------
LEMMA InitTyped == Init => TypedOK
<1> SUFFICES ASSUME Init PROVE TypedOK
  OBVIOUS
<1>1. TypeOK
  BY IdleType, NoResultType, BoundsAssumption
     DEF Init, TypeOK, Rows, Releases
<1>2. RunnersOK
  BY DEF Init, RunnersOK, RunnerOK, Idle
<1>3. QED BY <1>1, <1>2 DEF TypedOK

LEMMA NextTyped == TypedOK /\ [Next]_vars => TypedOK'
<1> SUFFICES ASSUME TypedOK, [Next]_vars PROVE TypedOK'
  OBVIOUS
<1>1. ASSUME NEW w \in Workers, Step(w) PROVE TypedOK'
  BY <1>1, WriteFirstResultTyped, BeginStageTyped, WorkStageTyped, CompleteStageTyped,
     FreezePromptTyped, EnterModelStageTyped, CallModelTyped, SaveRawTyped,
     JudgeAnswerTyped, RecordAttemptsTyped, CheckPersistedTyped, SaveAnalysisTyped,
     ReadRevisionTyped, FinishResultTyped, CloseJobTyped, FailJobTyped,
     MarkRunningTyped, WriteResumedTyped, VerifyInputsTyped, RehydrateTyped
     DEF Step
<1>2. ASSUME NEW w \in Workers, InterruptModel(w) \/ Fault(w) \/ Crash(w) PROVE TypedOK'
  BY <1>2, InterruptModelTyped, FaultTyped, CrashTyped
<1>3. ASSUME NEW w \in Workers, NEW j \in Jobs, Start(w, j) \/ Resume(w, j) PROVE TypedOK'
  BY <1>3, StartTyped, ResumeTyped
<1>4. QED BY <1>1, <1>2, <1>3, EnvironmentTyped DEF Next

(* Every variable keeps its type, whatever fails and whoever resumes: the  *)
(* attempts on the books never pass two, and every answer has a stage.     *)
THEOREM TypeCorrect == Spec => []TypeOK
<1>1. Spec => []TypedOK
  BY InitTyped, NextTyped, PTL DEF Spec
<1>2. TypedOK => TypeOK
  BY DEF TypedOK
<1>3. QED BY <1>1, <1>2, PTL
-----------------------------------------------------------------------------
(* A step that saves nothing, starts nothing and is not about to save: it  *)
(* leaves the analyses alone and its process with the same job or with     *)
(* none.                                                                   *)
Quiet(w) ==
  /\ UNCHANGED analyses
  /\ \A v \in Workers \ {w} : run'[v] = run[v]
  /\ run'[w].job \in {run[w].job, NoJob}
  /\ run'[w].pc # "save"

(* A process goes on with its job at a place other than the save.          *)
Goes(w, q) == q.job = run[w].job /\ q.pc # "save"

LEMMA MoveQuiet ==
  ASSUME TypedOK, NEW w \in Workers, NEW q, Move(w, q), Goes(w, q), UNCHANGED analyses
  PROVE  Quiet(w)
BY DEF TypedOK, TypeOK, Quiet, Move, Goes

LEMMA RaiseGoes ==
  ASSUME NEW w \in Workers, NEW r \in Runs, r.job = run[w].job, NEW kind \in Errors
  PROVE  Goes(w, Raise(r, kind))
BY DEF Goes, Raise, Runs

LEMMA QuietSteps ==
  ASSUME TypedOK, NEW w \in Workers,
         \/ WriteFirstResult(w) \/ BeginStage(w) \/ WorkStage(w) \/ CompleteStage(w)
         \/ FreezePrompt(w) \/ EnterModelStage(w) \/ CallModel(w) \/ SaveRaw(w)
         \/ JudgeAnswer(w) \/ RecordAttempts(w) \/ ReadRevision(w)
         \/ FinishResult(w) \/ CloseJob(w) \/ FailJob(w) \/ MarkRunning(w)
         \/ WriteResumed(w) \/ VerifyInputs(w) \/ Rehydrate(w)
         \/ InterruptModel(w) \/ Fault(w) \/ Crash(w)
  PROVE  Quiet(w)
<1>1. run \in [Workers -> Runs] /\ run[w] \in Runs
  BY DEF TypedOK, TypeOK
<1>2. Idle.job = NoJob /\ Idle.pc = "idle"
  BY DEF Idle
<1>3. CASE WriteFirstResult(w)
  BY <1>1, <1>2, <1>3 DEF WriteFirstResult, Quiet, Move, Runs, store
<1>4. CASE BeginStage(w)
  <2> DEFINE r == [run[w] EXCEPT !.result = Begun(run[w])]
             prompt == IF r.mode = "run" \/ (r.mode = "rerun" /\ r.stage = "scenario")
                       THEN BuildPrompt(r) ELSE r.result.prompt[r.stage]
             on(position) == [r EXCEPT !.pc = position]
             asks(position) == [r EXCEPT !.pc = position, !.prompt = prompt]
  <2>1. r \in Runs /\ r.job = run[w].job
    BY <1>1, BegunType DEF Runs
  <2>2. \/ Move(w, on("work")) \/ Move(w, on("check")) \/ Move(w, on("complete"))
        \/ Move(w, asks("gate")) \/ Move(w, asks("freeze"))
        \/ Move(w, Raise(r, "integrity"))
    BY <1>4 DEF BeginStage
  <2>3. UNCHANGED analyses
    BY <1>4 DEF BeginStage
  <2> HIDE DEF r, prompt
  <2>4. /\ Goes(w, on("work")) /\ Goes(w, on("check")) /\ Goes(w, on("complete"))
        /\ Goes(w, asks("gate")) /\ Goes(w, asks("freeze"))
    BY <2>1 DEF Goes, Runs
  <2>5. Goes(w, Raise(r, "integrity"))
    BY <2>1, RaiseGoes DEF Errors
  <2> HIDE DEF on, asks
  <2>6. QED BY <2>2, <2>3, <2>4, <2>5, MoveQuiet
<1>5. CASE WorkStage(w)
  <2> DEFINE q == [run[w] EXCEPT !.pc = "complete",
                     !.candidate = IF run[w].stage = "deterministic" THEN evidence ELSE @]
  <2>1. Goes(w, q) /\ Goes(w, Raise(run[w], "blocked"))
        /\ Goes(w, Raise(run[w], "readiness"))
    BY <1>1, RaiseGoes DEF Goes, Runs, Errors
  <2>2. \/ Move(w, q) \/ Move(w, Raise(run[w], "blocked"))
        \/ Move(w, Raise(run[w], "readiness"))
    BY <1>5 DEF WorkStage
  <2> HIDE DEF q
  <2>3. QED BY <1>5, <2>1, <2>2, MoveQuiet DEF WorkStage, store
<1>6. CASE CompleteStage(w)
  BY <1>1, <1>2, <1>6 DEF CompleteStage, Quiet, Move, Runs, store
<1>7. CASE FreezePrompt(w)
  <2> DEFINE q == [run[w] EXCEPT !.pc = "gate", !.result = Frozen(run[w])]
  <2>1. Goes(w, q) /\ Goes(w, Raise(run[w], "integrity"))
    BY <1>1, RaiseGoes DEF Goes, Runs, Errors
  <2>2. Move(w, q) \/ Move(w, Raise(run[w], "integrity"))
    BY <1>7 DEF FreezePrompt
  <2> HIDE DEF q
  <2>3. QED BY <1>7, <2>1, <2>2, MoveQuiet DEF FreezePrompt
<1>8. CASE EnterModelStage(w)
  <2> DEFINE r == run[w]
             q == [r EXCEPT !.pc = "call", !.attempt = PriorAttempts(r) + 1,
                     !.rejected = r.result.rejected[r.stage],
                     !.raw = r.result.artifact[r.stage]]
  <2>1. Goes(w, q) /\ Goes(w, Raise(r, "readiness")) /\ Goes(w, Raise(r, "validation"))
    BY <1>1, RaiseGoes DEF Goes, Runs, Errors
  <2>2. Move(w, q) \/ Move(w, Raise(r, "readiness")) \/ Move(w, Raise(r, "validation"))
    BY <1>8 DEF EnterModelStage
  <2> HIDE DEF q
  <2>3. QED BY <1>8, <2>1, <2>2, MoveQuiet DEF EnterModelStage, store
<1>9. CASE CallModel(w)
  <2>1. PICK accepts : Move(w, [run[w] EXCEPT !.pc = "saveRaw", !.answer = accepts])
    BY <1>9 DEF CallModel
  <2>2. Goes(w, [run[w] EXCEPT !.pc = "saveRaw", !.answer = accepts])
    BY <1>1 DEF Goes, Runs
  <2>3. QED BY <1>9, <2>1, <2>2, MoveQuiet DEF CallModel, store
<1>10. CASE SaveRaw(w)
  BY <1>1, <1>2, <1>10 DEF SaveRaw, Quiet, Move, Runs, store
<1>11. CASE JudgeAnswer(w)
  <2> DEFINE r == run[w]
             done == [r EXCEPT !.pc = "complete"]
             spent == [Raise(r, "validation") EXCEPT
                         !.pc = "record", !.spent = r.attempt, !.rejected = TRUE]
             repair == [r EXCEPT !.pc = "call", !.attempt = @ + 1, !.rejected = TRUE,
                          !.prompt = IF r.stage = "scenario" THEN BuildPrompt(r) ELSE @]
  <2>1. Goes(w, done) /\ Goes(w, spent) /\ Goes(w, repair)
    BY <1>1 DEF Goes, Runs, Raise
  <2>2. Move(w, done) \/ Move(w, spent) \/ Move(w, repair)
    BY <1>11 DEF JudgeAnswer
  <2> HIDE DEF done, spent, repair
  <2>3. QED BY <1>11, <2>1, <2>2, MoveQuiet DEF JudgeAnswer
<1>12. CASE RecordAttempts(w)
  BY <1>1, <1>2, <1>12 DEF RecordAttempts, Quiet, Move, Runs, store
<1>13. CASE ReadRevision(w)
  BY <1>1, <1>2, <1>13 DEF ReadRevision, Quiet, Move, Runs, store
<1>14. CASE FinishResult(w)
  BY <1>1, <1>2, <1>14 DEF FinishResult, Quiet, Move, Runs, store
<1>15. CASE CloseJob(w)
  BY <1>1, <1>2, <1>15 DEF CloseJob, Quiet, Move, Runs, store
<1>16. CASE FailJob(w)
  BY <1>1, <1>2, <1>16 DEF FailJob, Quiet, Move, Runs, store
<1>17. CASE MarkRunning(w)
  BY <1>1, <1>2, <1>17 DEF MarkRunning, Quiet, Move, Runs, store
<1>18. CASE WriteResumed(w)
  BY <1>1, <1>2, <1>18 DEF WriteResumed, Quiet, Move, Runs, store
<1>19. CASE VerifyInputs(w)
  BY <1>1, <1>2, <1>19 DEF VerifyInputs, Quiet, Move, Runs, store, Raise
<1>20. CASE Rehydrate(w)
  <2> DEFINE on(s) == [run[w] EXCEPT !.pc = "begin", !.stage = s]
  <2>1. /\ Goes(w, on("persistence")) /\ Goes(w, on("scenario"))
        /\ Goes(w, Raise(run[w], "validation")) /\ Goes(w, Raise(run[w], "other"))
    BY <1>1, RaiseGoes DEF Goes, Runs, Errors
  <2>2. \/ Move(w, on("persistence")) \/ Move(w, on("scenario"))
        \/ Move(w, Raise(run[w], "validation")) \/ Move(w, Raise(run[w], "other"))
    BY <1>20 DEF Rehydrate
  <2> HIDE DEF on
  <2>3. QED BY <1>20, <2>1, <2>2, MoveQuiet DEF Rehydrate, store
<1>21. CASE InterruptModel(w)
  <2> DEFINE q == [Raise(run[w], "other") EXCEPT !.pc = "record", !.spent = run[w].attempt - 1]
  <2>1. Goes(w, q) /\ Goes(w, Raise(run[w], "other"))
    BY <1>1, RaiseGoes DEF Goes, Runs, Raise, Errors
  <2>2. Move(w, q) \/ Move(w, Raise(run[w], "other"))
    BY <1>21 DEF InterruptModel
  <2> HIDE DEF q
  <2>3. QED BY <1>21, <2>1, <2>2, MoveQuiet DEF InterruptModel, store
<1>22. CASE Fault(w)
  <2> DEFINE q(res) == [run[w] EXCEPT !.result = res]
  <2>1. ASSUME NEW res, Move(w, Raise(q(res), "other")) PROVE Quiet(w)
    <3>1. Goes(w, Raise(q(res), "other"))
      BY <1>1 DEF Goes, Raise, Runs
    <3> HIDE DEF q
    <3>2. QED BY <1>22, <2>1, <3>1, MoveQuiet DEF Fault, store
  <2>2. CASE Move(w, Idle)
    BY <1>1, <1>2, <1>22, <2>2 DEF Fault, Quiet, Move, store
  <2>3. Move(w, Idle) \/ \E res : Move(w, Raise(q(res), "other"))
    BY <1>22 DEF Fault
  <2>4. QED BY <2>1, <2>2, <2>3
<1>23. CASE Crash(w)
  BY <1>1, <1>2, <1>23 DEF Crash, Quiet, Move, Runs, store
<1>24. QED
  BY <1>3, <1>4, <1>5, <1>6, <1>7, <1>8, <1>9, <1>10, <1>11, <1>12, <1>13, <1>14, <1>15, <1>16, <1>17, <1>18, <1>19, <1>20, <1>21, <1>22, <1>23
SingleOK == TypedOK /\ Exclusive /\ OneAnalysisPerJob

LEMMA QuietSingle ==
  ASSUME SingleOK, NEW w \in Workers, Quiet(w)
  PROVE  (Exclusive /\ OneAnalysisPerJob)'
<1>1. \A v \in Workers : run'[v].job \in {run[v].job, NoJob}
  BY DEF Quiet
<1>2. \A v \in Workers : run'[v].pc = "save" => run[v].pc = "save" /\ run'[v] = run[v]
  BY DEF Quiet
<1>3. \A u, v \in Workers : run'[u].job = run'[v].job /\ run'[u].job # NoJob => u = v
  BY <1>1 DEF SingleOK, Exclusive
<1>4. (\A v \in Workers : At(v, "save") => AnalysesOf(run[v].job) = {})'
  BY <1>2 DEF Quiet, SingleOK, Exclusive, AnalysesOf, At
<1>5. OneAnalysisPerJob'
  BY DEF Quiet, SingleOK, OneAnalysisPerJob
<1>6. QED BY <1>3, <1>4, <1>5 DEF Exclusive, At

LEMMA CheckPersistedSingle ==
  ASSUME SingleOK, NEW w \in Workers, CheckPersisted(w)
  PROVE  (Exclusive /\ OneAnalysisPerJob)'
<1>1. run \in [Workers -> Runs] /\ run[w] \in Runs /\ UNCHANGED analyses
  BY DEF SingleOK, TypedOK, TypeOK, CheckPersisted, store
<1>2. CASE AnalysesOf(run[w].job) = {} /\ Move(w, [run[w] EXCEPT !.pc = "save"])
  <2>1. /\ \A v \in Workers \ {w} : run'[v] = run[v]
        /\ run'[w].job = run[w].job
    BY <1>1, <1>2 DEF Move, Runs
  <2>2. \A u, v \in Workers : run'[u].job = run'[v].job /\ run'[u].job # NoJob => u = v
    BY <2>1 DEF SingleOK, Exclusive
  <2>3. (\A v \in Workers : At(v, "save") => AnalysesOf(run[v].job) = {})'
    BY <1>1, <1>2, <2>1 DEF SingleOK, Exclusive, AnalysesOf, At
  <2>4. OneAnalysisPerJob'
    BY <1>1 DEF SingleOK, OneAnalysisPerJob
  <2>5. QED BY <2>2, <2>3, <2>4 DEF Exclusive, At
<1>3. CASE \E i : Move(w, [run[w] EXCEPT !.pc = "revision", !.found = i])
  <2>1. Quiet(w)
    BY <1>1, <1>3 DEF Quiet, Move, Runs
  <2>2. QED BY <2>1, QuietSingle
<1>4. QED BY <1>2, <1>3 DEF CheckPersisted

LEMMA SaveAnalysisSingle ==
  ASSUME SingleOK, NEW w \in Workers, SaveAnalysis(w)
  PROVE  (Exclusive /\ OneAnalysisPerJob)'
<1> DEFINE r == run[w]
           entry == [job |-> r.job, packet |-> r.candidate,
                     qualitative |-> r.result.artifact["qualitative"],
                     scenario |-> r.result.artifact["scenario"]]
           q == [r EXCEPT !.pc = "revision", !.found = Len(analyses) + 1]
<1>1. run \in [Workers -> Runs] /\ r \in Runs /\ r.job \in Jobs /\ At(w, "save")
  BY Busy DEF SingleOK, TypedOK, TypeOK, SaveAnalysis, At
<1>2. r.job # NoJob /\ AnalysesOf(r.job) = {}
  BY <1>1, NoJobAssumption DEF SingleOK, Exclusive
<1>3. CASE analyses' = Append(analyses, entry) /\ Move(w, q)
  <2>1. /\ \A v \in Workers \ {w} : run'[v] = run[v]
        /\ run'[w].job = r.job /\ run'[w].pc = "revision"
    BY <1>1, <1>3 DEF Move, Runs
  <2>2. \A u, v \in Workers : run'[u].job = run'[v].job /\ run'[u].job # NoJob => u = v
    BY <2>1 DEF SingleOK, Exclusive
  <2> HIDE DEF r
  <2>3. /\ DOMAIN analyses = 1 .. Len(analyses) /\ Len(analyses) \in Nat
        /\ DOMAIN analyses' = 1 .. Len(analyses) + 1
        /\ \A i \in DOMAIN analyses : analyses'[i] = analyses[i]
        /\ analyses'[Len(analyses) + 1].job = r.job
    BY <1>3 DEF SingleOK, TypedOK, TypeOK
  <2>4. \A i \in DOMAIN analyses : analyses[i].job # r.job
    BY <1>2 DEF AnalysesOf
  <2>5. OneAnalysisPerJob'
    BY <2>3, <2>4 DEF SingleOK, OneAnalysisPerJob
  <2>6. ASSUME NEW v \in Workers, At(v, "save")'
        PROVE  (AnalysesOf(run[v].job) = {})'
    <3>1. v # w /\ run'[v] = run[v] /\ run[v].pc = "save"
      BY <2>1, <2>6 DEF At
    <3>2. run[v].job # r.job /\ AnalysesOf(run[v].job) = {}
      BY <1>2, <3>1 DEF r, SingleOK, Exclusive, At
    <3>3. QED BY <2>3, <3>1, <3>2 DEF AnalysesOf
  <2>7. QED BY <2>2, <2>5, <2>6 DEF Exclusive, At
<1>4. CASE UNCHANGED analyses /\ Move(w, Raise(r, "validation"))
  <2>1. Quiet(w)
    BY <1>1, <1>4, MoveQuiet, RaiseGoes DEF SingleOK, Errors
  <2>2. QED BY <2>1, QuietSingle
<1>5. QED BY <1>3, <1>4 DEF SaveAnalysis

(* A process takes a job that no other process has: a new one has no row,  *)
(* and a resumed one is, by assumption, in nobody's hands.                 *)
Taken(w, j) ==
  /\ UNCHANGED analyses
  /\ \A v \in Workers : run[v].job # j
  /\ \A v \in Workers \ {w} : run'[v] = run[v]
  /\ run'[w].job = j /\ run'[w].pc # "save"

LEMMA TakenSingle ==
  ASSUME SingleOK, NEW w \in Workers, NEW j \in Jobs, Taken(w, j)
  PROVE  (Exclusive /\ OneAnalysisPerJob)'
<1>1. \A u, v \in Workers : run'[u].job = run'[v].job /\ run'[u].job # NoJob => u = v
  BY DEF Taken, SingleOK, Exclusive
<1>2. (\A v \in Workers : At(v, "save") => AnalysesOf(run[v].job) = {})'
  BY DEF Taken, SingleOK, Exclusive, AnalysesOf, At
<1>3. OneAnalysisPerJob'
  BY DEF Taken, SingleOK, OneAnalysisPerJob
<1>4. QED BY <1>1, <1>2, <1>3 DEF Exclusive, At

LEMMA StartTakes ==
  ASSUME SingleOK, NEW w \in Workers, NEW j \in Jobs, Start(w, j)
  PROVE  Taken(w, j)
<1>1. \A v \in Workers : run[v].job # j
  BY NoJobAssumption DEF Start, SingleOK, TypedOK, RunnersOK, RunnerOK
<1>2. QED BY <1>1 DEF Start, Taken, Move, Idle, SingleOK, TypedOK, TypeOK

LEMMA ResumeTakes ==
  ASSUME SingleOK, OneRunnerPerJob, NEW w \in Workers, NEW j \in Jobs, Resume(w, j)
  PROVE  Taken(w, j)
BY DEF Resume, ResumeJob, Taken, Move, Idle, store, SingleOK, TypedOK, TypeOK
-----------------------------------------------------------------------------
LEMMA InitSingle == Init => SingleOK
<1> SUFFICES ASSUME Init PROVE SingleOK
  OBVIOUS
<1>1. Exclusive /\ OneAnalysisPerJob
  BY DEF Init, Exclusive, OneAnalysisPerJob, Idle, At
<1>2. QED BY <1>1, InitTyped DEF SingleOK

LEMMA NextSingle ==
  ASSUME OneRunnerPerJob
  PROVE  SingleOK /\ [Next]_vars => SingleOK'
<1> SUFFICES ASSUME SingleOK, [Next]_vars PROVE SingleOK'
  OBVIOUS
<1>1. TypedOK /\ TypedOK'
  BY NextTyped DEF SingleOK
<1>2. ASSUME NEW w \in Workers, Step(w) \/ InterruptModel(w) \/ Fault(w) \/ Crash(w)
      PROVE  (Exclusive /\ OneAnalysisPerJob)'
  <2>1. CheckPersisted(w) \/ SaveAnalysis(w) \/ Quiet(w)
    BY <1>1, <1>2, QuietSteps DEF Step
  <2>2. QED BY <2>1, CheckPersistedSingle, SaveAnalysisSingle, QuietSingle
<1>3. ASSUME NEW w \in Workers, NEW j \in Jobs, Start(w, j) \/ Resume(w, j)
      PROVE  (Exclusive /\ OneAnalysisPerJob)'
  BY <1>3, StartTakes, ResumeTakes, TakenSingle
<1>4. ASSUME UNCHANGED <<run, analyses>> PROVE (Exclusive /\ OneAnalysisPerJob)'
  <2>1. \A u, v \in Workers : run'[u].job = run'[v].job /\ run'[u].job # NoJob => u = v
    BY <1>4 DEF SingleOK, Exclusive
  <2>2. (\A v \in Workers : At(v, "save") => AnalysesOf(run[v].job) = {})'
    BY <1>4 DEF SingleOK, Exclusive, AnalysesOf, At
  <2>3. OneAnalysisPerJob'
    BY <1>4 DEF SingleOK, OneAnalysisPerJob
  <2>4. QED BY <2>1, <2>2, <2>3 DEF Exclusive
<1>5. (Exclusive /\ OneAnalysisPerJob)'
  <2>1. CASE NewEvidence \/ Upgrade \/ UNCHANGED vars
    BY <1>4, <2>1 DEF NewEvidence, Upgrade, vars, store
  <2>2. CASE \E w \in Workers :
               \/ Step(w) \/ InterruptModel(w) \/ Fault(w) \/ Crash(w)
               \/ \E j \in Jobs : Start(w, j) \/ Resume(w, j)
    BY <1>2, <1>3, <2>2
  <2>3. QED BY <2>1, <2>2 DEF Next
<1>6. QED BY <1>1, <1>5 DEF SingleOK

(* While the operator runs a job in one process at a time, a job leads to  *)
(* one analysis and one thesis revision: however many processes and jobs   *)
(* there are, and wherever a run is killed, failed or resumed              *)
(* (get_stock_analysis_for_job before persist).                            *)
THEOREM OneAnalysis ==
  ASSUME OneRunnerPerJob
  PROVE  Spec => []OneAnalysisPerJob
<1>1. Spec => []SingleOK
  BY InitSingle, NextSingle, PTL DEF Spec
<1>2. SingleOK => OneAnalysisPerJob
  BY DEF SingleOK
<1>3. QED BY <1>1, <1>2, PTL
-----------------------------------------------------------------------------
(* The repair ceiling.  What has been paid for a job is on its books: in   *)
(* the attempts of its row, or, while a process is between the call and    *)
(* the next write, in what the process counts.  A scenario is paid for     *)
(* only after the qualitative answer was accepted, which is why a process  *)
(* that runs that stage again may count the scenario from zero.            *)
Paid(r, s) ==
  IF s # r.stage THEN r.result.attempts[s]
  ELSE CASE r.pc = "call" -> r.attempt - 1
         [] r.pc \in {"saveRaw", "judge"} -> r.attempt
         [] r.pc = "complete" -> Max2(r.result.attempts[s], r.attempt)
         [] r.pc = "record" -> r.spent
         [] OTHER -> r.result.attempts[s]

Grounded(res) == res.status["qualitative"] = "accepted" /\ res.artifact["qualitative"] # 0

InStage ==
  {"begin", "work", "freeze", "gate", "call", "saveRaw", "judge", "complete", "record"}

Accounted(r, paid) ==
  /\ \A s \in ModelStages : paid[s] <= Paid(r, s)
  /\ paid["scenario"] # 0 => Grounded(r.result)
  /\ r.pc = "created" => r.stage = "refresh" /\ r.result = NoResult
  /\ r.pc \in {"mark", "marked", "verify", "rehydrate"} => r.mode = "resume"
  /\ r.pc = "rehydrate" => Grounded(r.result)
  /\ r.pc \in InStage /\ r.stage = "scenario" => Grounded(r.result)
  /\ r.pc \in InStage /\ r.stage \in PreModel \cup {"qualitative"} => paid["scenario"] = 0
  /\ r.pc \in {"begin", "freeze", "gate"} /\ r.mode = "rerun" /\ r.stage = "scenario" =>
       paid["scenario"] = 0
  /\ r.pc = "work" => r.stage \in PreModel
  /\ r.pc \in {"judge", "complete"} /\ r.stage = "qualitative" => r.raw # 0

RunnerBooks(w) ==
  run[w].pc # "idle" =>
    /\ row[run[w].job].result = run[w].result
    /\ run[w].pc # "mark" => row[run[w].job].status = "running"
    /\ Accounted(run[w], answers[run[w].job])

JobBooks(j) ==
  /\ row[j].status = "absent" => row[j].result = NoResult
  /\ (\A w \in Workers : run[w].job # j) =>
       /\ \A s \in ModelStages : answers[j][s] <= row[j].result.attempts[s]
       /\ answers[j]["scenario"] # 0 => Grounded(row[j].result)

BooksOK == (\A w \in Workers : RunnerBooks(w)) /\ \A j \in Jobs : JobBooks(j)

LEMMA BusyBooks ==
  ASSUME SingleOK, BooksOK, NEW w \in Workers, ~At(w, "idle")
  PROVE  /\ run[w] \in Runs /\ run[w].job \in Jobs
         /\ row[run[w].job] \in Rows /\ row[run[w].job].status # "absent"
         /\ row[run[w].job].result = run[w].result
         /\ run[w].pc # "mark" => row[run[w].job].status = "running"
         /\ answers[run[w].job] \in [ModelStages -> Nat]
         /\ Accounted(run[w], answers[run[w].job])
<1>1. /\ run[w] \in Runs /\ run[w].job \in Jobs
      /\ row[run[w].job].status # "absent"
  BY Busy DEF SingleOK
<1>2. QED BY <1>1 DEF BooksOK, RunnerBooks, At, SingleOK, TypedOK, TypeOK

(* A process goes on, and only its job is touched.                         *)
LEMMA BooksMove ==
  ASSUME SingleOK, BooksOK, NEW w \in Workers, ~At(w, "idle"), NEW q, Move(w, q),
         q.job = run[w].job, q.pc # "idle",
         row' \in [Jobs -> Rows],
         \A i \in Jobs \ {run[w].job} : row'[i] = row[i] /\ answers'[i] = answers[i],
         row'[run[w].job].result = q.result, row'[run[w].job].status = "running",
         Accounted(q, answers'[run[w].job])
  PROVE  BooksOK'
<1> DEFINE j == run[w].job
<1>1. j \in Jobs /\ j # NoJob /\ run \in [Workers -> Runs]
  BY BusyBooks, NoJobAssumption DEF SingleOK, TypedOK, TypeOK
<1>2. run'[w] = q /\ \A v \in Workers \ {w} : run'[v] = run[v]
  BY <1>1 DEF Move
<1>3. \A v \in Workers \ {w} : run[v].job # j
  BY <1>1 DEF SingleOK, Exclusive
<1>4. ASSUME NEW v \in Workers \ {w} PROVE RunnerBooks(v)'
  <2>1. run'[v] = run[v] /\ RunnerBooks(v)
    BY <1>2 DEF BooksOK
  <2>2. run[v].pc # "idle" => run[v].job \in Jobs \ {j}
    BY <1>3, Busy DEF SingleOK, At
  <2>3. QED BY <2>1, <2>2 DEF RunnerBooks
<1>5. RunnerBooks(w)'
  BY <1>2 DEF RunnerBooks
<1>6. ASSUME NEW i \in Jobs PROVE JobBooks(i)'
  <2>1. CASE i = j
    BY <1>2, <2>1 DEF JobBooks
  <2>2. CASE i # j
    <3>1. JobBooks(i) /\ row'[i] = row[i] /\ answers'[i] = answers[i]
      BY <2>2 DEF BooksOK
    <3>2. (\A v \in Workers : run'[v].job # i) => \A v \in Workers : run[v].job # i
      BY <1>2, <2>2
    <3>3. QED BY <3>1, <3>2 DEF JobBooks
  <2>3. QED BY <2>1, <2>2
<1>7. QED BY <1>4, <1>5, <1>6 DEF BooksOK

(* A process comes to its end.                                             *)
LEMMA BooksStop ==
  ASSUME SingleOK, BooksOK, NEW w \in Workers, ~At(w, "idle"), Move(w, Idle),
         row' \in [Jobs -> Rows], UNCHANGED answers,
         \A i \in Jobs \ {run[w].job} : row'[i] = row[i],
         row'[run[w].job].status # "absent",
         \A s \in ModelStages :
           answers[run[w].job][s] <= row'[run[w].job].result.attempts[s],
         answers[run[w].job]["scenario"] # 0 => Grounded(row'[run[w].job].result)
  PROVE  BooksOK'
<1> DEFINE j == run[w].job
<1>1. j \in Jobs /\ j # NoJob /\ run \in [Workers -> Runs]
  BY BusyBooks, NoJobAssumption DEF SingleOK, TypedOK, TypeOK
<1>2. run'[w] = Idle /\ \A v \in Workers \ {w} : run'[v] = run[v]
  BY <1>1 DEF Move
<1>3. \A v \in Workers \ {w} : run[v].job # j
  BY <1>1 DEF SingleOK, Exclusive
<1>4. ASSUME NEW v \in Workers \ {w} PROVE RunnerBooks(v)'
  <2>1. run'[v] = run[v] /\ RunnerBooks(v)
    BY <1>2 DEF BooksOK
  <2>2. run[v].pc # "idle" => run[v].job \in Jobs \ {j}
    BY <1>3, Busy DEF SingleOK, At
  <2>3. QED BY <2>1, <2>2 DEF RunnerBooks
<1>5. RunnerBooks(w)'
  BY <1>2 DEF RunnerBooks, Idle
<1>6. ASSUME NEW i \in Jobs PROVE JobBooks(i)'
  <2>1. CASE i = j
    BY <2>1 DEF JobBooks
  <2>2. CASE i # j
    <3>1. JobBooks(i) /\ row'[i] = row[i] /\ answers'[i] = answers[i]
      BY <2>2 DEF BooksOK
    <3>2. (\A v \in Workers : run'[v].job # i) => \A v \in Workers : run[v].job # i
      BY <1>2, <2>2
    <3>3. QED BY <3>1, <3>2 DEF JobBooks
  <2>3. QED BY <2>1, <2>2
<1>7. QED BY <1>4, <1>5, <1>6 DEF BooksOK

LEMMA BooksQuiet ==
  ASSUME SingleOK, BooksOK, NEW w \in Workers, ~At(w, "idle"), ~At(w, "mark"),
         NEW q, Move(w, q), q.job = run[w].job, q.pc # "idle",
         q.result = run[w].result, UNCHANGED <<row, answers>>,
         Accounted(q, answers[run[w].job])
  PROVE  BooksOK'
<1>1. row' \in [Jobs -> Rows]
  BY DEF SingleOK, TypedOK, TypeOK
<1>2. row[run[w].job].result = q.result /\ row[run[w].job].status = "running"
  BY BusyBooks DEF At
<1>3. QED BY <1>1, <1>2, BooksMove

LEMMA BooksWrite ==
  ASSUME SingleOK, BooksOK, NEW w \in Workers, ~At(w, "idle"), ~At(w, "mark"),
         NEW q, Move(w, q), q.job = run[w].job, q.pc # "idle", q.result \in Results,
         UpdateResult(run[w].job, q.result), UNCHANGED answers,
         Accounted(q, answers[run[w].job])
  PROVE  BooksOK'
<1>1. row' \in [Jobs -> Rows]
  BY BusyUpdate DEF SingleOK
<1>2. row \in [Jobs -> Rows] /\ run[w].job \in Jobs /\ row[run[w].job].status = "running"
  BY BusyBooks DEF At, SingleOK, TypedOK, TypeOK
<1>3. row' = [row EXCEPT ![run[w].job].result = q.result]
  BY <1>2 DEF UpdateResult
<1>4. /\ \A i \in Jobs \ {run[w].job} : row'[i] = row[i]
      /\ row'[run[w].job].result = q.result /\ row'[run[w].job].status = "running"
  BY <1>2, <1>3 DEF Rows
<1>5. QED BY <1>1, <1>4, BooksMove

(* A run that fails has its books in the result.                           *)
Balanced(res, paid) ==
  /\ \A s \in ModelStages : paid[s] <= res.attempts[s]
  /\ paid["scenario"] # 0 => Grounded(res)

LEMMA RaiseAccounted ==
  ASSUME NEW r \in Runs, NEW paid \in [ModelStages -> Nat], Balanced(r.result, paid),
         NEW kind \in Errors
  PROVE  /\ Accounted(Raise(r, kind), paid)
         /\ Raise(r, kind).job = r.job /\ Raise(r, kind).pc = "fail"
         /\ Raise(r, kind).result = r.result
BY DEF Raise, Runs, Accounted, Balanced, Paid, InStage

(* Between two writes of a stage the attempts of the result are enough.    *)
LEMMA AtRest ==
  ASSUME NEW r \in Runs, NEW paid \in [ModelStages -> Nat], Accounted(r, paid),
         r.pc \notin {"call", "saveRaw", "judge", "complete", "record"}
  PROVE  Balanced(r.result, paid)
BY DEF Accounted, Balanced, Paid

LEMMA WriteFirstResultBooks ==
  ASSUME SingleOK, BooksOK, NEW w \in Workers, WriteFirstResult(w)
  PROVE  BooksOK'
<1> DEFINE r == run[w]
           paid == answers[r.job]
           first == [NoResult EXCEPT !.next = "refresh"]
           q == [r EXCEPT !.pc = "begin", !.result = first]
<1>1. ~At(w, "idle") /\ ~At(w, "mark") /\ r.pc = "created"
  BY DEF WriteFirstResult, At
<1>2. r \in Runs /\ paid \in [ModelStages -> Nat] /\ Accounted(r, paid)
  BY <1>1, BusyBooks
<1>3. first \in Results /\ first.attempts = NoResult.attempts
  BY NoResultType DEF NoResult, Results, Stages
<1>4. \A s \in ModelStages : paid[s] = 0
  BY <1>1, <1>2 DEF Accounted, Paid, NoResult
<1>5. q.job = r.job /\ q.pc = "begin" /\ q.result = first /\ q.stage = "refresh"
  BY <1>1, <1>2 DEF Runs, Accounted
<1> HIDE DEF first, q
<1>6. Accounted(q, paid)
  BY <1>3, <1>4, <1>5 DEF Accounted, Paid, NoResult, InStage, PreModel, ModelStages
<1>7. Move(w, q) /\ UpdateResult(r.job, first) /\ UNCHANGED answers
  BY DEF WriteFirstResult, Unpaid, q, first
<1>8. QED BY <1>1, <1>3, <1>5, <1>6, <1>7, BooksWrite

LEMMA BeginStageBooks ==
  ASSUME SingleOK, BooksOK, NEW w \in Workers, BeginStage(w)
  PROVE  BooksOK'
<1> DEFINE r == run[w]
           paid == answers[r.job]
           b == [r EXCEPT !.result = Begun(r)]
           builds == b.mode = "run" \/ (b.mode = "rerun" /\ b.stage = "scenario")
           prompt == IF builds THEN BuildPrompt(b) ELSE b.result.prompt[b.stage]
           at(pc) == [b EXCEPT !.pc = pc]
           with(pc) == [b EXCEPT !.pc = pc, !.prompt = prompt]
<1>1. ~At(w, "idle") /\ ~At(w, "mark") /\ r.pc = "begin"
  BY DEF BeginStage, At
<1>2. r \in Runs /\ paid \in [ModelStages -> Nat] /\ Accounted(r, paid)
  BY <1>1, BusyBooks
<1>3. Balanced(r.result, paid)
  BY <1>1, <1>2, AtRest
<1>4. /\ Begun(r) \in Results /\ Begun(r).attempts = r.result.attempts
      /\ r.stage # "qualitative" /\ Grounded(r.result) => Grounded(Begun(r))
  <2>1. Begun(r) \in Results /\ r.result \in Results /\ r.stage \in Stages
    BY <1>2, BegunType DEF Runs
  <2>2. Begun(r).attempts = r.result.attempts /\ Begun(r).artifact = r.result.artifact
    BY <2>1 DEF Begun, Results
  <2>3. r.stage # "qualitative" =>
          Begun(r).status["qualitative"] = r.result.status["qualitative"]
    BY <2>1 DEF Begun, Results, Stages, ModelStages
  <2>4. QED BY <2>1, <2>2, <2>3 DEF Grounded
<1>5. r.stage = "qualitative" => paid["scenario"] = 0
  BY <1>1, <1>2 DEF Accounted, InStage
<1>6. Balanced(Begun(r), paid)
  BY <1>3, <1>4, <1>5 DEF Balanced
<1>7. b \in Runs /\ b.result = Begun(r) /\ b.job = r.job /\ b.stage = r.stage /\ b.mode = r.mode
  BY <1>2, <1>4 DEF Runs
<1>8. /\ r.stage = "scenario" => Grounded(Begun(r))
      /\ r.stage \in PreModel \cup {"qualitative"} => paid["scenario"] = 0
      /\ r.mode = "rerun" /\ r.stage = "scenario" => paid["scenario"] = 0
  BY <1>1, <1>2, <1>4 DEF Accounted, InStage
<1> HIDE DEF b, prompt
<1>9. ASSUME NEW pc \in {"check", "gate", "freeze"}, NEW q, q = at(pc) \/ q = with(pc)
      PROVE  Accounted(q, paid) /\ q.result = Begun(r) /\ q.job = r.job /\ q.pc # "idle"
  <2>1. q.pc = pc /\ q.result = Begun(r) /\ q.job = r.job /\ q.stage = r.stage /\ q.mode = r.mode
    BY <1>7, <1>9 DEF Runs
  <2>2. QED BY <1>6, <1>8, <2>1 DEF Accounted, Paid, Balanced, InStage
<1>10. r.stage \in PreModel =>
         Accounted(at("work"), paid) /\ at("work").result = Begun(r) /\ at("work").job = r.job
           /\ at("work").pc # "idle"
  <2>1. /\ at("work").pc = "work" /\ at("work").result = Begun(r) /\ at("work").job = r.job
        /\ at("work").stage = r.stage
    BY <1>7 DEF Runs
  <2>2. QED BY <1>6, <1>8, <2>1 DEF Accounted, Paid, Balanced, InStage
<1>11. r.stage # "qualitative" =>
         /\ Accounted(at("complete"), paid) /\ at("complete").result = Begun(r)
         /\ at("complete").job = r.job /\ at("complete").pc # "idle"
  <2>1. /\ at("complete").pc = "complete" /\ at("complete").result = Begun(r)
        /\ at("complete").job = r.job /\ at("complete").stage = r.stage
        /\ at("complete").attempt \in Nat
    BY <1>7 DEF Runs
  <2>2. \A s \in ModelStages : Begun(r).attempts[s] \in Nat /\ paid[s] \in Nat
    BY <1>2, <1>4 DEF Results
  <2>3. \A s \in ModelStages : paid[s] <= Paid(at("complete"), s)
    BY <1>6, <2>1, <2>2 DEF Paid, Balanced, Max2
  <2>4. QED BY <1>6, <1>8, <2>1, <2>3 DEF Accounted, Balanced, InStage
<1>12. Accounted(Raise(b, "integrity"), paid) /\ Raise(b, "integrity").result = Begun(r)
       /\ Raise(b, "integrity").job = r.job /\ Raise(b, "integrity").pc # "idle"
  BY <1>2, <1>6, <1>7, RaiseAccounted DEF Errors
<1>13. /\ UpdateResult(r.job, Begun(r)) /\ UNCHANGED answers
       /\ \/ r.stage \in PreModel /\ Move(w, at("work"))
          \/ Move(w, at("check"))
          \/ Move(w, Raise(b, "integrity"))
          \/ Move(w, with("gate"))
          \/ Move(w, with("freeze"))
          \/ r.stage # "qualitative" /\ Move(w, at("complete"))
  BY <1>7 DEF BeginStage, Unpaid, b, prompt, NeedsPrompt
<1> HIDE DEF at, with
<1>14. \E q : /\ Move(w, q) /\ Accounted(q, paid) /\ q.result = Begun(r) /\ q.job = r.job
              /\ q.pc # "idle"
  BY <1>9, <1>10, <1>11, <1>12, <1>13
<1>15. QED BY <1>1, <1>4, <1>13, <1>14, BooksWrite

LEMMA WorkStageBooks ==
  ASSUME SingleOK, BooksOK, NEW w \in Workers, WorkStage(w)
  PROVE  BooksOK'
<1> DEFINE r == run[w]
           paid == answers[r.job]
           q == [r EXCEPT !.pc = "complete",
                   !.candidate = IF r.stage = "deterministic" THEN evidence ELSE @]
<1>1. ~At(w, "idle") /\ ~At(w, "mark") /\ r.pc = "work"
  BY DEF WorkStage, At
<1>2. r \in Runs /\ paid \in [ModelStages -> Nat] /\ Accounted(r, paid)
  BY <1>1, BusyBooks
<1>3. Balanced(r.result, paid)
  BY <1>1, <1>2, AtRest
<1>4. r.stage \in PreModel /\ paid["scenario"] = 0
  BY <1>1, <1>2 DEF Accounted, InStage
<1>5. q.pc = "complete" /\ q.result = r.result /\ q.job = r.job /\ q.stage = r.stage
  BY <1>2 DEF Runs
<1>6. UNCHANGED <<row, answers>>
  BY DEF WorkStage, store, Unpaid
<1>7. Move(w, q) \/ Move(w, Raise(r, "blocked")) \/ Move(w, Raise(r, "readiness"))
  BY DEF WorkStage
<1> HIDE DEF q
<1>8. Accounted(q, paid)
  BY <1>3, <1>4, <1>5 DEF Accounted, Paid, Balanced, InStage, PreModel, ModelStages
<1>9. ASSUME NEW kind \in {"blocked", "readiness"}
      PROVE /\ Accounted(Raise(r, kind), paid) /\ Raise(r, kind).job = r.job
            /\ Raise(r, kind).pc = "fail" /\ Raise(r, kind).result = r.result
  BY <1>2, <1>3, RaiseAccounted DEF Errors
<1>10. \E m : /\ Move(w, m) /\ Accounted(m, paid) /\ m.result = r.result /\ m.job = r.job
              /\ m.pc # "idle"
  BY <1>5, <1>7, <1>8, <1>9
<1>11. QED BY <1>1, <1>6, <1>10, BooksQuiet

(* What Accept leaves alone.                                               *)
LEMMA AcceptKeeps ==
  ASSUME NEW res \in Results, NEW s \in Stages
  PROVE  /\ Accept(res, s).attempts = res.attempts
         /\ Accept(res, s).artifact = res.artifact
         /\ Accept(res, s).status = [res.status EXCEPT ![s] = "accepted"]
<1> DEFINE done == [res EXCEPT !.status[s] = "accepted"]
<1>1. /\ done.attempts = res.attempts /\ done.artifact = res.artifact
      /\ done.status = [res.status EXCEPT ![s] = "accepted"]
      /\ done \in Results
  BY DEF Results, Statuses
<1>2. Accept(res, s) = [done EXCEPT !.next = NextStage(done)]
  BY DEF Accept
<1> HIDE DEF done
<1>3. QED BY <1>1, <1>2 DEF Results

(* A completed stage has what was paid for it among its attempts.          *)
LEMMA CompletedBalanced ==
  ASSUME NEW r \in Runs, NEW paid \in [ModelStages -> Nat], Accounted(r, paid),
         r.pc = "complete"
  PROVE  /\ Balanced(Completed(r), paid)
         /\ r.stage \in ModelStages => Grounded(Completed(r))
<1>1. r.result \in Results /\ r.stage \in Stages /\ r.attempt \in Nat /\ r.raw \in Nat
      /\ r.attempt \in 0 .. MaxAttempts /\ r.rejected \in BOOLEAN /\ r.candidate \in Packets
  BY DEF Runs
<1>2. CASE r.stage \in ModelStages
  <2> DEFINE new == [r.result EXCEPT
                       !.attempts[r.stage] = Max2(r.result.attempts[r.stage], r.attempt),
                       !.rejected[r.stage] = r.rejected,
                       !.artifact[r.stage] = r.raw]
  <2>1. Max2(r.result.attempts[r.stage], r.attempt) \in 0 .. MaxAttempts
    BY <1>1, <1>2 DEF Max2, Results
  <2>2. /\ new \in Results
        /\ new.attempts = [r.result.attempts EXCEPT
                             ![r.stage] = Max2(r.result.attempts[r.stage], r.attempt)]
        /\ new.artifact = [r.result.artifact EXCEPT ![r.stage] = r.raw]
        /\ new.status = r.result.status
    BY <1>1, <1>2, <2>1 DEF Results
  <2>3. Completed(r) = Accept(new, r.stage)
    BY <1>2 DEF Completed
  <2> HIDE DEF new
  <2>4. /\ Completed(r).attempts = new.attempts
        /\ Completed(r).artifact = new.artifact
        /\ Completed(r).status = [r.result.status EXCEPT ![r.stage] = "accepted"]
    BY <1>1, <2>2, <2>3, AcceptKeeps
  <2>5. \A s \in ModelStages : paid[s] <= Completed(r).attempts[s]
    BY <1>1, <1>2, <2>2, <2>4 DEF Accounted, Paid, Results
  <2>6. Grounded(Completed(r))
    <3>1. CASE r.stage = "qualitative"
      <4>1. r.raw # 0
        BY <3>1 DEF Accounted
      <4>2. QED BY <1>1, <1>2, <2>2, <2>4, <3>1, <4>1 DEF Grounded, Results, Stages
    <3>2. CASE r.stage = "scenario"
      <4>1. Grounded(r.result)
        BY <3>2 DEF Accounted, InStage
      <4>2. QED BY <1>1, <1>2, <2>2, <2>4, <3>2, <4>1 DEF Grounded, Results, Stages, ModelStages
    <3>3. QED BY <1>2, <3>1, <3>2 DEF ModelStages
  <2>7. QED BY <2>5, <2>6 DEF Balanced
<1>3. CASE r.stage \notin ModelStages
  <2> DEFINE new == [r.result EXCEPT
                       !.packet = IF r.stage = "packet" THEN r.candidate ELSE r.result.packet]
  <2>1. /\ new \in Results /\ new.attempts = r.result.attempts
        /\ new.artifact = r.result.artifact /\ new.status = r.result.status
    BY <1>1 DEF Results
  <2>2. Completed(r) = Accept(new, r.stage)
    BY <1>3 DEF Completed
  <2> HIDE DEF new
  <2>3. /\ Completed(r).attempts = r.result.attempts
        /\ Completed(r).artifact = r.result.artifact
        /\ Completed(r).status = [r.result.status EXCEPT ![r.stage] = "accepted"]
    BY <1>1, <2>1, <2>2, AcceptKeeps
  <2>4. \A s \in ModelStages : paid[s] <= r.result.attempts[s]
    BY <1>3 DEF Accounted, Paid
  <2>5. paid["scenario"] # 0 => Grounded(r.result)
    BY DEF Accounted
  <2>6. Grounded(r.result) => Grounded(Completed(r))
    BY <1>1, <1>3, <2>3 DEF Grounded, Results, Stages, ModelStages
  <2>7. QED BY <1>3, <2>3, <2>4, <2>5, <2>6 DEF Balanced
<1>4. QED BY <1>2, <1>3

LEMMA CompleteStageBooks ==
  ASSUME SingleOK, BooksOK, NEW w \in Workers, CompleteStage(w)
  PROVE  BooksOK'
<1> DEFINE r == run[w]
           paid == answers[r.job]
           q == [r EXCEPT !.pc = "begin", !.result = Completed(r),
                   !.stage = StageAfter(@), !.prompt = NoPrompt, !.attempt = 0,
                   !.answer = {}, !.raw = 0, !.rejected = FALSE]
<1>1. ~At(w, "idle") /\ ~At(w, "mark") /\ r.pc = "complete"
  BY DEF CompleteStage, At
<1>2. r \in Runs /\ paid \in [ModelStages -> Nat] /\ Accounted(r, paid)
  BY <1>1, BusyBooks
<1>3. Completed(r) \in Results /\ Balanced(Completed(r), paid)
      /\ (r.stage \in ModelStages => Grounded(Completed(r)))
  BY <1>1, <1>2, CompletedType, CompletedBalanced
<1>4. q.pc = "begin" /\ q.result = Completed(r) /\ q.job = r.job /\ q.stage = StageAfter(r.stage)
  BY <1>2 DEF Runs
<1>5. r.stage \in PreModel \cup {"qualitative"} => paid["scenario"] = 0
  BY <1>1, <1>2 DEF Accounted, InStage
<1>6. /\ q.stage = "scenario" => r.stage = "qualitative"
      /\ q.stage \in PreModel \cup {"qualitative"} => r.stage \in PreModel
  BY <1>2, <1>4 DEF StageAfter, PreModel, Runs, Stages, ModelStages
<1>7. Move(w, q) /\ UpdateResult(r.job, Completed(r)) /\ UNCHANGED answers
  BY DEF CompleteStage, Unpaid
<1> HIDE DEF q
<1>8. Accounted(q, paid)
  BY <1>3, <1>4, <1>5, <1>6 DEF Accounted, Paid, Balanced, InStage, ModelStages
<1>9. QED BY <1>1, <1>3, <1>4, <1>7, <1>8, BooksWrite

LEMMA FreezePromptBooks ==
  ASSUME SingleOK, BooksOK, NEW w \in Workers, FreezePrompt(w)
  PROVE  BooksOK'
<1> DEFINE r == run[w]
           j == r.job
           paid == answers[j]
           q == [r EXCEPT !.pc = "gate", !.result = Frozen(r)]
<1>1. ~At(w, "idle") /\ ~At(w, "mark") /\ r.pc = "freeze"
  BY DEF FreezePrompt, At
<1>2. /\ r \in Runs /\ paid \in [ModelStages -> Nat] /\ Accounted(r, paid) /\ j \in Jobs
      /\ row[j] \in Rows /\ row[j].result = r.result /\ row[j].status = "running"
      /\ row \in [Jobs -> Rows]
  BY <1>1, BusyBooks DEF At, SingleOK, TypedOK, TypeOK
<1>3. Balanced(r.result, paid)
  BY <1>1, <1>2, AtRest
<1>4. /\ Frozen(r) \in Results /\ Frozen(r).attempts = r.result.attempts
      /\ Frozen(r).status = r.result.status /\ Frozen(r).artifact = r.result.artifact
  BY <1>2, FrozenType DEF Frozen, Runs, Results
<1>5. UNCHANGED answers
  BY DEF FreezePrompt, Unpaid
<1>6. CASE UNCHANGED row /\ Move(w, Raise(r, "integrity"))
  <2>1. /\ Accounted(Raise(r, "integrity"), paid) /\ Raise(r, "integrity").job = r.job
        /\ Raise(r, "integrity").pc = "fail" /\ Raise(r, "integrity").result = r.result
    BY <1>2, <1>3, RaiseAccounted DEF Errors
  <2>2. QED BY <1>1, <1>5, <1>6, <2>1, BooksQuiet
<1>7. CASE /\ row' = IF row[j].status = "running" /\ Frozen(r) # r.result
                     THEN [row EXCEPT ![j].result.prompt[r.stage] = r.prompt]
                     ELSE row
           /\ Move(w, q)
  <2>1. q.pc = "gate" /\ q.result = Frozen(r) /\ q.job = j /\ q.stage = r.stage /\ q.mode = r.mode
    BY <1>2 DEF Runs
  <2> HIDE DEF q
  <2>2. Grounded(r.result) => Grounded(Frozen(r))
    BY <1>4 DEF Grounded
  <2>3. Accounted(q, paid)
    BY <1>1, <1>2, <1>3, <1>4, <2>1, <2>2 DEF Accounted, Paid, Balanced, InStage
  <2>4. /\ row' \in [Jobs -> Rows] /\ row'[j].result = Frozen(r) /\ row'[j].status = "running"
        /\ \A i \in Jobs \ {j} : row'[i] = row[i]
    <3>1. CASE Frozen(r) = r.result
      BY <1>2, <1>7, <3>1
    <3>2. CASE Frozen(r) # r.result
      <4>1. Frozen(r) = [r.result EXCEPT !.prompt[r.stage] = r.prompt]
        BY <3>2 DEF Frozen
      <4>2. row' = [row EXCEPT ![j] = [status |-> "running", result |-> Frozen(r)]]
        <5>1. row' = [row EXCEPT ![j] = [row[j] EXCEPT
                        !.result = [row[j].result EXCEPT !.prompt[r.stage] = r.prompt]]]
          BY <1>2, <1>7, <3>2
        <5>2. row' = [row EXCEPT ![j] = [row[j] EXCEPT !.result = Frozen(r)]]
          BY <1>2, <4>1, <5>1
        <5>3. [row[j] EXCEPT !.result = Frozen(r)] = [status |-> "running", result |-> Frozen(r)]
          BY <1>2 DEF Rows
        <5>4. QED BY <5>2, <5>3
      <4>3. QED BY <1>2, <1>4, <4>2 DEF Rows
    <3>3. QED BY <3>1, <3>2
  <2>5. QED BY <1>1, <1>5, <1>7, <2>1, <2>3, <2>4, BooksMove
<1>8. QED BY <1>6, <1>7 DEF FreezePrompt

LEMMA EnterModelStageBooks ==
  ASSUME SingleOK, BooksOK, NEW w \in Workers, EnterModelStage(w)
  PROVE  BooksOK'
<1> DEFINE r == run[w]
           paid == answers[r.job]
           q == [r EXCEPT !.pc = "call", !.attempt = PriorAttempts(r) + 1,
                   !.rejected = r.result.rejected[r.stage],
                   !.raw = r.result.artifact[r.stage]]
<1>1. ~At(w, "idle") /\ ~At(w, "mark") /\ r.pc = "gate"
  BY DEF EnterModelStage, At
<1>2. /\ r \in Runs /\ paid \in [ModelStages -> Nat] /\ Accounted(r, paid)
      /\ r.stage \in ModelStages
  BY <1>1, BusyBooks DEF SingleOK, TypedOK, RunnersOK, RunnerOK
<1>3. Balanced(r.result, paid)
  BY <1>1, <1>2, AtRest
<1>4. ASSUME NEW kind \in {"readiness", "validation"}
      PROVE /\ Accounted(Raise(r, kind), paid) /\ Raise(r, kind).job = r.job
            /\ Raise(r, kind).pc = "fail" /\ Raise(r, kind).result = r.result
  BY <1>2, <1>3, RaiseAccounted DEF Errors
<1>5. PriorAttempts(r) \in Nat /\ paid[r.stage] <= PriorAttempts(r)
  <2>1. CASE r.mode = "rerun" /\ r.stage = "scenario"
    BY <1>1, <1>2, <2>1 DEF Accounted, PriorAttempts
  <2>2. CASE ~(r.mode = "rerun" /\ r.stage = "scenario")
    BY <1>2, <1>3, <2>2 DEF Balanced, PriorAttempts, Runs, Results
  <2>3. QED BY <2>1, <2>2
<1>6. /\ q.pc = "call" /\ q.result = r.result /\ q.job = r.job /\ q.stage = r.stage
      /\ q.attempt = PriorAttempts(r) + 1
  BY <1>2 DEF Runs
<1>7. UNCHANGED <<row, answers>>
  BY DEF EnterModelStage, store, Unpaid
<1>8. Move(w, q) \/ Move(w, Raise(r, "readiness")) \/ Move(w, Raise(r, "validation"))
  BY DEF EnterModelStage
<1> HIDE DEF q
<1>9. Accounted(q, paid)
  <2>1. \A s \in ModelStages : paid[s] <= Paid(q, s)
    BY <1>2, <1>3, <1>5, <1>6 DEF Balanced, Paid
  <2>2. /\ r.stage = "scenario" => Grounded(r.result)
        /\ r.stage \in PreModel \cup {"qualitative"} => paid["scenario"] = 0
    BY <1>1, <1>2 DEF Accounted, InStage
  <2>3. QED BY <1>3, <1>6, <2>1, <2>2 DEF Accounted, Balanced
<1>10. \E m : /\ Move(w, m) /\ Accounted(m, paid) /\ m.result = r.result /\ m.job = r.job
              /\ m.pc # "idle"
  BY <1>4, <1>6, <1>8, <1>9
<1>11. QED BY <1>1, <1>7, <1>10, BooksQuiet

LEMMA CallModelBooks ==
  ASSUME SingleOK, BooksOK, NEW w \in Workers, CallModel(w)
  PROVE  BooksOK'
<1> DEFINE r == run[w]
           j == r.job
           paid == answers[j]
           more == [paid EXCEPT ![r.stage] = @ + 1]
<1>1. ~At(w, "idle") /\ ~At(w, "mark") /\ r.pc = "call"
  BY DEF CallModel, At
<1>2. /\ r \in Runs /\ paid \in [ModelStages -> Nat] /\ Accounted(r, paid) /\ j \in Jobs
      /\ row[j].result = r.result /\ row[j].status = "running"
      /\ r.stage \in ModelStages /\ r.attempt \in Nat
  BY <1>1, BusyBooks DEF At, SingleOK, TypedOK, RunnersOK, RunnerOK, Runs
<1>3. PICK accepts : Move(w, [r EXCEPT !.pc = "saveRaw", !.answer = accepts])
  BY DEF CallModel
<1> DEFINE q == [r EXCEPT !.pc = "saveRaw", !.answer = accepts]
<1>4. /\ q.pc = "saveRaw" /\ q.result = r.result /\ q.job = j /\ q.stage = r.stage
      /\ q.attempt = r.attempt
  BY <1>2 DEF Runs
<1>5. /\ UNCHANGED row /\ answers'[j] = more
      /\ \A i \in Jobs \ {j} : answers'[i] = answers[i]
      /\ row' \in [Jobs -> Rows] /\ Move(w, q)
  BY <1>2, <1>3 DEF CallModel, store, SingleOK, TypedOK, TypeOK
<1> HIDE DEF q
<1>6. Accounted(q, more)
  <2>1. /\ r.stage = "scenario" => Grounded(r.result)
        /\ r.stage = "qualitative" => paid["scenario"] = 0
    BY <1>1, <1>2 DEF Accounted, InStage
  <2>2. /\ more[r.stage] = paid[r.stage] + 1
        /\ \A s \in ModelStages \ {r.stage} : more[s] = paid[s]
    BY <1>2
  <2>3. paid[r.stage] <= r.attempt - 1
    BY <1>1, <1>2 DEF Accounted, Paid
  <2>4. \A s \in ModelStages \ {r.stage} : paid[s] <= r.result.attempts[s]
    BY <1>2 DEF Accounted, Paid
  <2> HIDE DEF more
  <2>5. \A s \in ModelStages : more[s] <= Paid(q, s)
    <3>1. more[r.stage] <= r.attempt
      BY <1>2, <2>2, <2>3
    <3>2. QED BY <1>4, <2>2, <2>4, <3>1 DEF Paid
  <2>6. /\ r.stage = "qualitative" => more["scenario"] = 0
        /\ r.stage \in {"qualitative", "scenario"}
    BY <1>2, <2>1, <2>2 DEF ModelStages
  <2>7. QED BY <1>4, <2>1, <2>5, <2>6 DEF Accounted, InStage, PreModel
<1>7. QED BY <1>1, <1>2, <1>4, <1>5, <1>6, BooksMove

LEMMA InterruptModelBooks ==
  ASSUME SingleOK, BooksOK, NEW w \in Workers, InterruptModel(w)
  PROVE  BooksOK'
<1> DEFINE r == run[w]
           paid == answers[r.job]
           q == [Raise(r, "other") EXCEPT !.pc = "record", !.spent = r.attempt - 1]
<1>1. ~At(w, "idle") /\ ~At(w, "mark") /\ r.pc = "call"
  BY DEF InterruptModel, At
<1>2. /\ r \in Runs /\ paid \in [ModelStages -> Nat] /\ Accounted(r, paid)
      /\ r.stage \in ModelStages
  BY <1>1, BusyBooks DEF SingleOK, TypedOK, RunnersOK, RunnerOK
<1>3. /\ \A s \in ModelStages \ {r.stage} : paid[s] <= r.result.attempts[s]
      /\ paid[r.stage] <= r.attempt - 1
      /\ paid["scenario"] # 0 => Grounded(r.result)
  BY <1>1, <1>2 DEF Accounted, Paid
<1>4. UNCHANGED <<row, answers>>
  BY DEF InterruptModel, store
<1>5. CASE r.stage = "qualitative" /\ r.attempt = PriorAttempts(r) + 1
           /\ Move(w, Raise(r, "other"))
  <2>1. PriorAttempts(r) = r.result.attempts[r.stage] /\ r.result.attempts[r.stage] \in Nat
    BY <1>2, <1>5 DEF PriorAttempts, Runs, Results
  <2>2. Balanced(r.result, paid)
    BY <1>2, <1>3, <1>5, <2>1 DEF Balanced
  <2>3. /\ Accounted(Raise(r, "other"), paid) /\ Raise(r, "other").job = r.job
        /\ Raise(r, "other").pc = "fail" /\ Raise(r, "other").result = r.result
    BY <1>2, <2>2, RaiseAccounted DEF Errors
  <2>4. QED BY <1>1, <1>4, <1>5, <2>3, BooksQuiet
<1>6. CASE Move(w, q)
  <2>1. /\ q.pc = "record" /\ q.result = r.result /\ q.job = r.job /\ q.stage = r.stage
        /\ q.spent = r.attempt - 1
    BY <1>2 DEF Raise, Runs
  <2>2. /\ r.stage = "scenario" => Grounded(r.result)
        /\ r.stage \in PreModel \cup {"qualitative"} => paid["scenario"] = 0
    BY <1>1, <1>2 DEF Accounted, InStage
  <2> HIDE DEF q
  <2>3. \A s \in ModelStages : paid[s] <= Paid(q, s)
    BY <1>3, <2>1 DEF Paid
  <2>4. Accounted(q, paid)
    BY <1>3, <2>1, <2>2, <2>3 DEF Accounted
  <2>5. QED BY <1>1, <1>4, <1>6, <2>1, <2>4, BooksQuiet
<1>7. QED BY <1>5, <1>6 DEF InterruptModel

LEMMA SaveRawBooks ==
  ASSUME SingleOK, BooksOK, NEW w \in Workers, SaveRaw(w)
  PROVE  BooksOK'
<1> DEFINE r == run[w]
           paid == answers[r.job]
           q == [r EXCEPT !.pc = "judge", !.raw = Len(raw) + 1]
<1>1. ~At(w, "idle") /\ ~At(w, "mark") /\ r.pc = "saveRaw"
  BY DEF SaveRaw, At
<1>2. r \in Runs /\ paid \in [ModelStages -> Nat] /\ Accounted(r, paid)
  BY <1>1, BusyBooks
<1>3. Len(raw) \in Nat
  BY DEF SingleOK, TypedOK, TypeOK
<1>4. /\ q.pc = "judge" /\ q.result = r.result /\ q.job = r.job /\ q.stage = r.stage
      /\ q.attempt = r.attempt /\ q.raw # 0
  BY <1>2, <1>3 DEF Runs
<1>5. UNCHANGED <<row, answers>> /\ Move(w, q)
  BY DEF SaveRaw, Unpaid
<1> HIDE DEF q
<1>6. Accounted(q, paid)
  BY <1>1, <1>2, <1>4 DEF Accounted, Paid, InStage
<1>7. QED BY <1>1, <1>4, <1>5, <1>6, BooksQuiet

LEMMA JudgeAnswerBooks ==
  ASSUME SingleOK, BooksOK, NEW w \in Workers, JudgeAnswer(w)
  PROVE  BooksOK'
<1> DEFINE r == run[w]
           paid == answers[r.job]
           done == [r EXCEPT !.pc = "complete"]
           spent == [Raise(r, "validation") EXCEPT
                       !.pc = "record", !.spent = r.attempt, !.rejected = TRUE]
           prompt == IF r.stage = "scenario" THEN BuildPrompt(r) ELSE r.prompt
           repair == [r EXCEPT !.pc = "call", !.attempt = r.attempt + 1, !.rejected = TRUE,
                        !.prompt = prompt]
<1>1. ~At(w, "idle") /\ ~At(w, "mark") /\ r.pc = "judge"
  BY DEF JudgeAnswer, At
<1>2. /\ r \in Runs /\ paid \in [ModelStages -> Nat] /\ Accounted(r, paid)
      /\ r.stage \in ModelStages /\ r.attempt \in Nat
  BY <1>1, BusyBooks DEF SingleOK, TypedOK, RunnersOK, RunnerOK, Runs
<1>3. /\ \A s \in ModelStages \ {r.stage} : paid[s] <= r.result.attempts[s]
      /\ paid[r.stage] <= r.attempt
      /\ \A s \in ModelStages : r.result.attempts[s] \in Nat /\ paid[s] \in Nat
      /\ paid["scenario"] # 0 => Grounded(r.result)
      /\ r.stage = "scenario" => Grounded(r.result)
      /\ r.stage \in PreModel \cup {"qualitative"} => paid["scenario"] = 0
      /\ r.stage = "qualitative" => r.raw # 0
  BY <1>1, <1>2 DEF Accounted, Paid, InStage, Runs, Results
<1>4. /\ done.pc = "complete" /\ done.result = r.result /\ done.job = r.job
      /\ done.stage = r.stage /\ done.attempt = r.attempt /\ done.raw = r.raw
  BY <1>2 DEF Runs
<1>5. /\ spent.pc = "record" /\ spent.result = r.result /\ spent.job = r.job
      /\ spent.stage = r.stage /\ spent.spent = r.attempt
  BY <1>2 DEF Raise, Runs
<1>6. /\ repair.pc = "call" /\ repair.result = r.result /\ repair.job = r.job
      /\ repair.stage = r.stage /\ repair.attempt = r.attempt + 1
  BY <1>2 DEF Runs
<1>7. Move(w, done) \/ Move(w, spent) \/ Move(w, repair)
  BY DEF JudgeAnswer
<1> HIDE DEF done, spent, repair
<1>8. Accounted(done, paid)
  <2>1. \A s \in ModelStages : paid[s] <= Paid(done, s)
    BY <1>2, <1>3, <1>4 DEF Paid, Max2
  <2>2. QED BY <1>3, <1>4, <2>1 DEF Accounted
<1>9. Accounted(spent, paid)
  <2>1. \A s \in ModelStages : paid[s] <= Paid(spent, s)
    BY <1>2, <1>3, <1>5 DEF Paid
  <2>2. QED BY <1>3, <1>5, <2>1 DEF Accounted
<1>10. Accounted(repair, paid)
  <2>1. \A s \in ModelStages : paid[s] <= Paid(repair, s)
    BY <1>2, <1>3, <1>6 DEF Paid
  <2>2. QED BY <1>3, <1>6, <2>1 DEF Accounted
<1>11. UNCHANGED <<row, answers>>
  BY DEF JudgeAnswer, Unpaid
<1>12. \E q : /\ Move(w, q) /\ Accounted(q, paid) /\ q.result = r.result /\ q.job = r.job
              /\ q.pc # "idle"
  BY <1>4, <1>5, <1>6, <1>7, <1>8, <1>9, <1>10
<1>13. QED BY <1>1, <1>11, <1>12, BooksQuiet

LEMMA RecordAttemptsBooks ==
  ASSUME SingleOK, BooksOK, NEW w \in Workers, RecordAttempts(w)
  PROVE  BooksOK'
<1> DEFINE r == run[w]
           paid == answers[r.job]
           q == [r EXCEPT !.pc = "fail", !.result = Recorded(r)]
           count == Max2(r.result.attempts[r.stage], r.spent)
<1>1. ~At(w, "idle") /\ ~At(w, "mark") /\ r.pc = "record"
  BY DEF RecordAttempts, At
<1>2. /\ r \in Runs /\ paid \in [ModelStages -> Nat] /\ Accounted(r, paid)
      /\ r.stage \in ModelStages /\ r.result \in Results
  BY <1>1, BusyBooks DEF SingleOK, TypedOK, RunnersOK, RunnerOK, Runs
<1>3. /\ Recorded(r) \in Results
      /\ Recorded(r).attempts = [r.result.attempts EXCEPT ![r.stage] = count]
      /\ Recorded(r).status = r.result.status
      /\ Recorded(r).artifact["qualitative"] = r.result.artifact["qualitative"]
  BY <1>2, RecordedType DEF Recorded, Results, ModelStages
<1>4. \A s \in ModelStages : paid[s] <= Recorded(r).attempts[s]
  <2>1. r.result.attempts[r.stage] \in Nat /\ r.spent \in Nat
    BY <1>2 DEF Runs, Results
  <2>2. paid[r.stage] <= r.spent
    BY <1>1, <1>2 DEF Accounted, Paid
  <2>3. \A s \in ModelStages \ {r.stage} : paid[s] <= r.result.attempts[s]
    BY <1>2 DEF Accounted, Paid
  <2>4. paid[r.stage] <= count
    BY <1>2, <2>1, <2>2 DEF Max2
  <2> HIDE DEF count
  <2>5. QED BY <1>2, <1>3, <2>3, <2>4 DEF Results
<1>5. paid["scenario"] # 0 => Grounded(Recorded(r))
  BY <1>2, <1>3 DEF Accounted, Grounded
<1>6. q.pc = "fail" /\ q.result = Recorded(r) /\ q.job = r.job /\ q.stage = r.stage
  BY <1>2 DEF Runs
<1>7. Move(w, q) /\ UpdateResult(r.job, Recorded(r)) /\ UNCHANGED answers
  BY DEF RecordAttempts, Unpaid
<1> HIDE DEF q
<1>8. Accounted(q, paid)
  BY <1>4, <1>5, <1>6 DEF Accounted, Paid, InStage
<1>9. QED BY <1>1, <1>3, <1>6, <1>7, <1>8, BooksWrite

(* Steps of the persistence only move the process on.                      *)
LEMMA PassOn ==
  ASSUME SingleOK, BooksOK, NEW w \in Workers, ~At(w, "idle"), ~At(w, "mark"),
         run[w].pc \notin {"call", "saveRaw", "judge", "complete", "record"},
         NEW q, Move(w, q), q.job = run[w].job, q.result = run[w].result,
         q.pc \in {"save", "revision", "finish", "fail"}, UNCHANGED <<row, answers>>
  PROVE  BooksOK'
<1> DEFINE paid == answers[run[w].job]
<1>1. run[w] \in Runs /\ paid \in [ModelStages -> Nat] /\ Accounted(run[w], paid)
  BY BusyBooks
<1>2. Balanced(run[w].result, paid)
  BY <1>1, AtRest
<1>3. Accounted(q, paid)
  BY <1>2 DEF Accounted, Balanced, Paid, InStage
<1>4. QED BY <1>3, BooksQuiet

LEMMA PersistenceBooks ==
  ASSUME SingleOK, BooksOK, NEW w \in Workers,
         CheckPersisted(w) \/ SaveAnalysis(w) \/ ReadRevision(w)
  PROVE  BooksOK'
<1> DEFINE r == run[w]
           to(pc) == [r EXCEPT !.pc = pc]
           found(i) == [r EXCEPT !.pc = "revision", !.found = i]
<1>1. ~At(w, "idle") /\ ~At(w, "mark") /\ r.pc \in {"check", "save", "revision"} /\ r \in Runs
  BY BusyBooks DEF CheckPersisted, SaveAnalysis, ReadRevision, At
<1>2. UNCHANGED <<row, answers>>
  BY DEF CheckPersisted, SaveAnalysis, ReadRevision, store, Unpaid
<1>3. \/ Move(w, to("save")) \/ Move(w, to("finish")) \/ Move(w, Raise(r, "validation"))
      \/ \E i : Move(w, found(i))
  BY DEF CheckPersisted, SaveAnalysis, ReadRevision
<1>4. ASSUME NEW q, q \in {to("save"), to("finish"), Raise(r, "validation")} \/ \E i : q = found(i)
      PROVE  q.job = r.job /\ q.result = r.result /\ q.pc \in {"save", "revision", "finish", "fail"}
  BY <1>1, <1>4 DEF Runs, Raise
<1> HIDE DEF to, found
<1>5. \E q : /\ Move(w, q) /\ q.job = r.job /\ q.result = r.result
             /\ q.pc \in {"save", "revision", "finish", "fail"}
  BY <1>3, <1>4
<1>6. QED BY <1>1, <1>2, <1>5, PassOn

LEMMA FinishResultBooks ==
  ASSUME SingleOK, BooksOK, NEW w \in Workers, FinishResult(w)
  PROVE  BooksOK'
<1> DEFINE r == run[w]
           paid == answers[r.job]
           new == [r.result EXCEPT !.final = r.found]
           q == [r EXCEPT !.pc = "close", !.result = Finished(r)]
<1>1. ~At(w, "idle") /\ ~At(w, "mark") /\ r.pc = "finish"
  BY DEF FinishResult, At
<1>2. r \in Runs /\ paid \in [ModelStages -> Nat] /\ Accounted(r, paid)
  BY <1>1, BusyBooks
<1>3. Balanced(r.result, paid)
  BY <1>1, <1>2, AtRest
<1>4. /\ new \in Results /\ new.attempts = r.result.attempts
      /\ new.artifact = r.result.artifact /\ new.status = r.result.status
  BY <1>2 DEF Runs, Results
<1>5. Finished(r) = Accept(new, "persistence")
  BY DEF Finished
<1> HIDE DEF new
<1>6. /\ Finished(r).attempts = r.result.attempts
      /\ Finished(r).artifact = r.result.artifact
      /\ Finished(r).status = [r.result.status EXCEPT !["persistence"] = "accepted"]
      /\ r.result.status \in [Stages -> Statuses]
  <2>1. "persistence" \in Stages
    BY DEF Stages
  <2>2. r.result.status \in [Stages -> Statuses]
    BY <1>2 DEF Runs, Results
  <2>3. QED BY <1>4, <1>5, <2>1, <2>2, AcceptKeeps
<1>7. Finished(r).status["qualitative"] = r.result.status["qualitative"]
  BY <1>6 DEF Stages, ModelStages
<1>8. Balanced(Finished(r), paid)
  BY <1>3, <1>6, <1>7 DEF Balanced, Grounded
<1>9. Finished(r) \in Results
  BY <1>2, FinishedType
<1>10. q.pc = "close" /\ q.result = Finished(r) /\ q.job = r.job /\ q.stage = r.stage
  BY <1>2 DEF Runs
<1>11. Move(w, q) /\ UpdateResult(r.job, Finished(r)) /\ UNCHANGED answers
  BY DEF FinishResult, Unpaid
<1> HIDE DEF q
<1>12. Accounted(q, paid)
  BY <1>8, <1>10 DEF Accounted, Paid, Balanced, InStage
<1>13. QED BY <1>1, <1>9, <1>10, <1>11, <1>12, BooksWrite

LEMMA FailedKeeps ==
  ASSUME NEW r \in Runs
  PROVE  /\ Failed(r).attempts = r.result.attempts
         /\ Failed(r).artifact = r.result.artifact
         /\ Failed(r).status =
              [s \in Stages |-> IF r.result.status[s] = "running" THEN "failed"
                                ELSE r.result.status[s]]
<1> DEFINE status == [s \in Stages |-> IF r.result.status[s] = "running" THEN "failed"
                                       ELSE r.result.status[s]]
           stopped == [r.result EXCEPT !.status = status,
                         !.terminal = r.result.terminal \/ r.error = "validation"]
           next == IF Resumable(r) THEN NextStage(stopped) ELSE "none"
<1>1. /\ stopped.attempts = r.result.attempts /\ stopped.artifact = r.result.artifact
      /\ stopped.status = status
      /\ DOMAIN stopped = DOMAIN r.result
  BY DEF Runs, Results
<1>2. Failed(r) = [stopped EXCEPT !.next = next]
  BY DEF Failed
<1>3. {"attempts", "artifact", "status"} \subseteq DOMAIN r.result
  BY DEF Runs, Results
<1> HIDE DEF stopped, next, status
<1>4. /\ Failed(r).attempts = stopped.attempts /\ Failed(r).artifact = stopped.artifact
      /\ Failed(r).status = stopped.status
  BY <1>1, <1>2, <1>3
<1>5. QED BY <1>1, <1>4 DEF status

LEMMA EndBooks ==
  ASSUME SingleOK, BooksOK, NEW w \in Workers, CloseJob(w) \/ FailJob(w)
  PROVE  BooksOK'
<1> DEFINE r == run[w]
           paid == answers[r.job]
<1>1. ~At(w, "idle") /\ r.pc \in {"close", "fail"}
  BY DEF CloseJob, FailJob, At
<1>2. /\ r \in Runs /\ paid \in [ModelStages -> Nat] /\ Accounted(r, paid)
      /\ r.job \in Jobs /\ row \in [Jobs -> Rows]
  BY <1>1, BusyBooks DEF SingleOK, TypedOK, TypeOK
<1>3. Balanced(r.result, paid)
  BY <1>1, <1>2, AtRest
<1>4. /\ Closed(r) \in Results /\ Failed(r) \in Results
  BY <1>2, ClosedType, FailedType
<1>5. Balanced(Closed(r), paid)
  BY <1>2, <1>3 DEF Closed, Balanced, Grounded, Runs, Results
<1>6. Balanced(Failed(r), paid)
  <2>1. Grounded(r.result) => Grounded(Failed(r))
    BY <1>2, FailedKeeps DEF Grounded, Stages, ModelStages
  <2>2. QED BY <1>2, <1>3, <2>1, FailedKeeps DEF Balanced
<1>7. PICK ended \in {[status |-> "success", result |-> Closed(r)],
                      [status |-> "failed", result |-> Failed(r)]} :
        row' = [row EXCEPT ![r.job] = ended]
  BY DEF CloseJob, FailJob
<1>8. ended \in Rows /\ ended.status # "absent" /\ Balanced(ended.result, paid)
  BY <1>4, <1>5, <1>6 DEF Rows
<1>9. /\ row' \in [Jobs -> Rows] /\ row'[r.job] = ended
      /\ \A i \in Jobs \ {r.job} : row'[i] = row[i]
  BY <1>2, <1>7, <1>8
<1>10. Move(w, Idle) /\ UNCHANGED answers
  BY DEF CloseJob, FailJob, Unpaid
<1>11. QED BY <1>1, <1>8, <1>9, <1>10, BooksStop DEF Balanced

LEMMA MarkRunningBooks ==
  ASSUME SingleOK, BooksOK, NEW w \in Workers, MarkRunning(w)
  PROVE  BooksOK'
<1> DEFINE r == run[w]
           paid == answers[r.job]
           q == [r EXCEPT !.pc = "marked"]
<1>1. ~At(w, "idle") /\ r.pc = "mark"
  BY DEF MarkRunning, At
<1>2. /\ r \in Runs /\ paid \in [ModelStages -> Nat] /\ Accounted(r, paid)
      /\ r.job \in Jobs /\ row \in [Jobs -> Rows] /\ row[r.job].result = r.result
  BY <1>1, BusyBooks DEF SingleOK, TypedOK, TypeOK
<1>3. Balanced(r.result, paid) /\ r.mode = "resume"
  BY <1>1, <1>2, AtRest DEF Accounted
<1>4. /\ q.pc = "marked" /\ q.result = r.result /\ q.job = r.job /\ q.mode = "resume"
  BY <1>2, <1>3 DEF Runs
<1>5. row' = [row EXCEPT ![r.job] = [row[r.job] EXCEPT !.status = "running"]]
  BY DEF MarkRunning
<1>6. /\ row' \in [Jobs -> Rows] /\ row'[r.job].result = r.result
      /\ row'[r.job].status = "running"
      /\ \A i \in Jobs \ {r.job} : row'[i] = row[i]
  BY <1>2, <1>5 DEF Rows
<1>7. Move(w, q) /\ UNCHANGED answers
  BY DEF MarkRunning, Unpaid
<1> HIDE DEF q
<1>8. Accounted(q, paid)
  BY <1>3, <1>4 DEF Accounted, Paid, Balanced, InStage
<1>9. QED BY <1>1, <1>4, <1>6, <1>7, <1>8, BooksMove

LEMMA WriteResumedBooks ==
  ASSUME SingleOK, BooksOK, NEW w \in Workers, WriteResumed(w)
  PROVE  BooksOK'
<1> DEFINE r == run[w]
           paid == answers[r.job]
           q == [r EXCEPT !.pc = "verify"]
<1>1. ~At(w, "idle") /\ ~At(w, "mark") /\ r.pc = "marked"
  BY DEF WriteResumed, At
<1>2. /\ r \in Runs /\ paid \in [ModelStages -> Nat] /\ Accounted(r, paid)
      /\ r.result \in Results
  BY <1>1, BusyBooks DEF Runs
<1>3. Balanced(r.result, paid) /\ r.mode = "resume"
  BY <1>1, <1>2, AtRest DEF Accounted
<1>4. /\ q.pc = "verify" /\ q.result = r.result /\ q.job = r.job /\ q.mode = "resume"
  BY <1>2, <1>3 DEF Runs
<1>5. Move(w, q) /\ UpdateResult(r.job, r.result) /\ UNCHANGED answers
  BY DEF WriteResumed, Unpaid
<1> HIDE DEF q
<1>6. Accounted(q, paid)
  BY <1>3, <1>4 DEF Accounted, Paid, Balanced, InStage
<1>7. QED BY <1>1, <1>2, <1>4, <1>5, <1>6, BooksWrite

(* A resume that runs the qualitative stage again has paid for no scenario.*)
LEMMA VerifyInputsBooks ==
  ASSUME SingleOK, BooksOK, NEW w \in Workers, VerifyInputs(w)
  PROVE  BooksOK'
<1> DEFINE r == run[w]
           paid == answers[r.job]
           read == [r EXCEPT !.pc = "rehydrate"]
           again == [r EXCEPT !.pc = "begin", !.mode = "rerun", !.stage = "qualitative"]
<1>1. ~At(w, "idle") /\ ~At(w, "mark") /\ r.pc = "verify"
  BY DEF VerifyInputs, At
<1>2. r \in Runs /\ paid \in [ModelStages -> Nat] /\ Accounted(r, paid)
  BY <1>1, BusyBooks
<1>3. Balanced(r.result, paid) /\ r.mode = "resume"
  BY <1>1, <1>2, AtRest DEF Accounted
<1>4. /\ read.pc = "rehydrate" /\ read.result = r.result /\ read.job = r.job
      /\ read.mode = "resume"
      /\ again.pc = "begin" /\ again.result = r.result /\ again.job = r.job
      /\ again.stage = "qualitative"
  BY <1>2, <1>3 DEF Runs
<1>5. \/ Move(w, Raise(r, "integrity"))
      \/ Grounded(r.result) /\ Move(w, read)
      \/ ~Grounded(r.result) /\ Move(w, again)
  BY DEF VerifyInputs, Grounded
<1> HIDE DEF read, again
<1>6. Grounded(r.result) => Accounted(read, paid)
  BY <1>3, <1>4 DEF Accounted, Paid, Balanced, InStage
<1>7. ~Grounded(r.result) => Accounted(again, paid)
  <2>1. ~Grounded(r.result) => paid["scenario"] = 0
    BY <1>3 DEF Balanced
  <2>2. QED BY <1>3, <1>4, <2>1 DEF Accounted, Paid, Balanced
<1>8. /\ Accounted(Raise(r, "integrity"), paid) /\ Raise(r, "integrity").job = r.job
      /\ Raise(r, "integrity").pc = "fail" /\ Raise(r, "integrity").result = r.result
  BY <1>2, <1>3, RaiseAccounted DEF Errors
<1>9. UNCHANGED <<row, answers>>
  BY DEF VerifyInputs, store, Unpaid
<1>10. \E q : /\ Move(w, q) /\ Accounted(q, paid) /\ q.result = r.result /\ q.job = r.job
              /\ q.pc # "idle"
  BY <1>4, <1>5, <1>6, <1>7, <1>8
<1>11. QED BY <1>1, <1>9, <1>10, BooksQuiet

LEMMA RehydrateBooks ==
  ASSUME SingleOK, BooksOK, NEW w \in Workers, Rehydrate(w)
  PROVE  BooksOK'
<1> DEFINE r == run[w]
           paid == answers[r.job]
           on(s) == [r EXCEPT !.pc = "begin", !.stage = s]
<1>1. ~At(w, "idle") /\ ~At(w, "mark") /\ r.pc = "rehydrate"
  BY DEF Rehydrate, At
<1>2. r \in Runs /\ paid \in [ModelStages -> Nat] /\ Accounted(r, paid)
  BY <1>1, BusyBooks
<1>3. Balanced(r.result, paid) /\ r.mode = "resume" /\ Grounded(r.result)
  BY <1>1, <1>2, AtRest DEF Accounted
<1>4. ASSUME NEW s \in {"scenario", "persistence"}
      PROVE  /\ Accounted(on(s), paid) /\ on(s).job = r.job /\ on(s).result = r.result
             /\ on(s).pc # "idle"
  <2>1. /\ on(s).pc = "begin" /\ on(s).job = r.job /\ on(s).result = r.result
        /\ on(s).stage = s /\ on(s).mode = "resume"
    BY <1>2, <1>3 DEF Runs
  <2> HIDE DEF on
  <2>2. QED BY <1>3, <2>1 DEF Accounted, Paid, Balanced, PreModel
<1>5. ASSUME NEW kind \in {"validation", "other"}
      PROVE  /\ Accounted(Raise(r, kind), paid) /\ Raise(r, kind).job = r.job
             /\ Raise(r, kind).pc = "fail" /\ Raise(r, kind).result = r.result
  BY <1>2, <1>3, RaiseAccounted DEF Errors
<1>6. \/ Move(w, on("persistence")) \/ Move(w, on("scenario"))
      \/ Move(w, Raise(r, "validation")) \/ Move(w, Raise(r, "other"))
  BY DEF Rehydrate
<1> HIDE DEF on
<1>7. \E q : /\ Move(w, q) /\ Accounted(q, paid) /\ q.result = r.result /\ q.job = r.job
             /\ q.pc # "idle"
  BY <1>4, <1>5, <1>6
<1>8. UNCHANGED <<row, answers>>
  BY DEF Rehydrate, store, Unpaid
<1>9. QED BY <1>1, <1>7, <1>8, BooksQuiet

(* A process takes a job nobody works on, with the result of its row.      *)
LEMMA BooksTake ==
  ASSUME SingleOK, BooksOK, NEW w \in Workers, NEW j \in Jobs, Taken(w, j),
         At(w, "idle"), run'[w].result = row[j].result,
         \/ /\ run'[w].pc = "created" /\ run'[w].stage = "refresh"
            /\ row[j].result = NoResult /\ row'[j].status = "running"
         \/ run'[w].pc = "mark" /\ run'[w].mode = "resume",
         row' \in [Jobs -> Rows], UNCHANGED answers,
         \A i \in Jobs \ {j} : row'[i] = row[i],
         row'[j].result = row[j].result, row'[j].status # "absent"
  PROVE  BooksOK'
<1> DEFINE paid == answers[j]
           q == run'[w]
<1>1. /\ \A v \in Workers : run[v].job # j
      /\ \A v \in Workers \ {w} : run'[v] = run[v]
  BY DEF Taken
<1> HIDE DEF q
<1>2. Balanced(q.result, paid)
  BY <1>1 DEF q, BooksOK, JobBooks, Balanced
<1>3. Accounted(q, paid)
  BY <1>2 DEF q, Accounted, Paid, Balanced, InStage
<1>4. ASSUME NEW v \in Workers \ {w} PROVE RunnerBooks(v)'
  <2>1. run'[v] = run[v] /\ RunnerBooks(v)
    BY <1>1 DEF BooksOK
  <2>2. run[v].pc # "idle" => run[v].job \in Jobs \ {j}
    BY <1>1, Busy DEF SingleOK, At
  <2>3. QED BY <2>1, <2>2 DEF RunnerBooks
<1>5. RunnerBooks(w)'
  BY <1>3 DEF q, RunnerBooks, Taken
<1>6. ASSUME NEW i \in Jobs PROVE JobBooks(i)'
  <2>1. CASE i = j
    BY <2>1 DEF JobBooks, Taken
  <2>2. CASE i # j
    <3>1. JobBooks(i) /\ row'[i] = row[i]
      BY <2>2 DEF BooksOK
    <3>2. (\A v \in Workers : run'[v].job # i) \/ (\E v \in Workers : run'[v].job = i)
      OBVIOUS
    <3>3. run[w].job = i => run[w].pc # "idle"
      BY NoJobAssumption DEF SingleOK, TypedOK, RunnersOK, RunnerOK
    <3>4. (\A v \in Workers : run'[v].job # i) /\ run[w].pc = "idle" =>
            \A v \in Workers : run[v].job # i
      BY <1>1, <3>3
    <3>5. run[w].pc = "idle"
      BY DEF At
    <3>6. QED BY <3>1, <3>4, <3>5 DEF JobBooks
  <2>3. QED BY <2>1, <2>2
<1>7. QED BY <1>4, <1>5, <1>6 DEF BooksOK

LEMMA StartBooks ==
  ASSUME SingleOK, BooksOK, NEW w \in Workers, NEW j \in Jobs, Start(w, j)
  PROVE  BooksOK'
<1> DEFINE q == [Idle EXCEPT !.pc = "created", !.job = j, !.release = release]
<1>1. Taken(w, j)
  BY StartTakes
<1>2. row \in [Jobs -> Rows] /\ row[j].status = "absent" /\ row[j].result = NoResult
      /\ run \in [Workers -> Runs]
  BY DEF Start, BooksOK, JobBooks, SingleOK, TypedOK, TypeOK
<1>3. /\ q.pc = "created" /\ q.job = j /\ q.stage = "refresh" /\ q.result = NoResult
      /\ run'[w] = q
  BY <1>2 DEF Start, Move, Idle
<1>4. row' = [row EXCEPT ![j] = [row[j] EXCEPT !.status = "running"]]
  BY DEF Start
<1>5. /\ row' \in [Jobs -> Rows] /\ row'[j].result = row[j].result
      /\ row'[j].status = "running"
      /\ \A i \in Jobs \ {j} : row'[i] = row[i]
  BY <1>2, <1>4 DEF Rows
<1>6. UNCHANGED answers /\ At(w, "idle")
  BY DEF Start, Unpaid
<1> HIDE DEF q
<1>7. QED BY <1>1, <1>2, <1>3, <1>5, <1>6, BooksTake

LEMMA ResumeBooks ==
  ASSUME SingleOK, BooksOK, OneRunnerPerJob, NEW w \in Workers, NEW j \in Jobs, Resume(w, j)
  PROVE  BooksOK'
<1> DEFINE q == [Idle EXCEPT !.pc = "mark", !.mode = "resume", !.job = j,
                   !.release = release, !.result = row[j].result,
                   !.candidate = row[j].result.packet]
<1>1. Taken(w, j)
  BY ResumeTakes
<1>2. row \in [Jobs -> Rows] /\ row[j].status # "absent" /\ run \in [Workers -> Runs]
  BY DEF Resume, SingleOK, TypedOK, TypeOK
<1>3. /\ q.pc = "mark" /\ q.job = j /\ q.mode = "resume" /\ q.result = row[j].result
      /\ run'[w] = q
  BY <1>2 DEF Resume, ResumeJob, Move, Idle
<1>4. UNCHANGED <<row, answers>> /\ At(w, "idle")
  BY DEF Resume, store, Unpaid
<1> HIDE DEF q
<1>5. QED BY <1>1, <1>2, <1>3, <1>4, BooksTake
-----------------------------------------------------------------------------
(* Without a failing call or a kill the books are right.                   *)
Booked == SingleOK /\ (faults = 0 => BooksOK)

LEMMA InitBooked == Init => Booked
<1> SUFFICES ASSUME Init PROVE BooksOK
  BY InitSingle DEF Booked
<1>1. \A w \in Workers : RunnerBooks(w)
  BY DEF Init, RunnerBooks, Idle
<1>2. ASSUME NEW j \in Jobs PROVE JobBooks(j)
  <2>1. row[j].result = NoResult /\ \A s \in ModelStages : answers[j][s] = 0
    BY DEF Init
  <2>2. \A s \in ModelStages : NoResult.attempts[s] = 0
    BY DEF NoResult
  <2>3. QED BY <2>1, <2>2 DEF JobBooks, ModelStages
<1>3. QED BY <1>1, <1>2 DEF BooksOK

LEMMA NextBooked ==
  ASSUME OneRunnerPerJob
  PROVE  Booked /\ [Next]_vars => Booked'
<1> SUFFICES ASSUME Booked, [Next]_vars PROVE Booked'
  OBVIOUS
<1>1. SingleOK /\ SingleOK'
  BY NextSingle DEF Booked
<1>2. faults \in Nat /\ run \in [Workers -> Runs]
  BY <1>1, BoundsAssumption DEF SingleOK, TypedOK, TypeOK
<1>3. ASSUME NEW w \in Workers, Step(w), BooksOK PROVE BooksOK'
  BY <1>1, <1>3, WriteFirstResultBooks, BeginStageBooks, WorkStageBooks, CompleteStageBooks,
     FreezePromptBooks, EnterModelStageBooks, CallModelBooks, SaveRawBooks, JudgeAnswerBooks,
     RecordAttemptsBooks, PersistenceBooks, FinishResultBooks, EndBooks, MarkRunningBooks,
     WriteResumedBooks, VerifyInputsBooks, RehydrateBooks DEF Step
<1>4. ASSUME NEW w \in Workers, Step(w) PROVE UNCHANGED faults
  BY <1>4 DEF Step, WriteFirstResult, BeginStage, WorkStage, CompleteStage, FreezePrompt,
     EnterModelStage, CallModel, SaveRaw, JudgeAnswer, RecordAttempts, CheckPersisted,
     SaveAnalysis, ReadRevision, FinishResult, CloseJob, FailJob, MarkRunning, WriteResumed,
     VerifyInputs, Rehydrate, Unpaid
<1>5. ASSUME NEW w \in Workers, Fault(w) \/ Crash(w) PROVE faults' # 0
  BY <1>2, <1>5 DEF Fault, Crash
<1>6. ASSUME NEW w \in Workers, NEW j \in Jobs, Start(w, j) \/ Resume(w, j)
      PROVE  UNCHANGED faults
  BY <1>6 DEF Start, Resume, Unpaid
<1>7. ASSUME NewEvidence \/ Upgrade \/ UNCHANGED vars
      PROVE  UNCHANGED <<row, run, answers, faults>>
  BY <1>7 DEF NewEvidence, Upgrade, vars, store, Unpaid
<1>8. ASSUME UNCHANGED <<row, run, answers>>, BooksOK PROVE BooksOK'
  BY <1>8 DEF BooksOK, RunnerBooks, JobBooks
<1>9. ASSUME faults' = 0 PROVE BooksOK'
  <2>1. CASE NewEvidence \/ Upgrade \/ UNCHANGED vars
    BY <1>7, <1>8, <1>9, <2>1 DEF Booked
  <2>2. ASSUME NEW w \in Workers, Step(w) PROVE BooksOK'
    BY <1>3, <1>4, <1>9, <2>2 DEF Booked
  <2>3. ASSUME NEW w \in Workers, InterruptModel(w) PROVE BooksOK'
    BY <1>1, <1>9, <2>3, InterruptModelBooks DEF Booked, InterruptModel
  <2>4. ASSUME NEW w \in Workers, NEW j \in Jobs, Start(w, j) \/ Resume(w, j) PROVE BooksOK'
    BY <1>1, <1>6, <1>9, <2>4, StartBooks, ResumeBooks DEF Booked
  <2>5. QED BY <1>5, <1>9, <2>1, <2>2, <2>3, <2>4 DEF Next
<1>10. QED BY <1>1, <1>9 DEF Booked

LEMMA PaidIsBounded ==
  ASSUME NEW r \in Runs, NEW paid \in [ModelStages -> Nat], Accounted(r, paid)
  PROVE  \A s \in ModelStages : paid[s] <= MaxAttempts
<1> SUFFICES ASSUME NEW s \in ModelStages PROVE paid[s] <= MaxAttempts
  OBVIOUS
<1>1. /\ r.result.attempts[s] \in 0 .. MaxAttempts /\ r.attempt \in 0 .. MaxAttempts
      /\ r.spent \in 0 .. MaxAttempts
  BY DEF Runs, Results
<1>2. Paid(r, s) <= MaxAttempts /\ Paid(r, s) \in Int
  BY <1>1 DEF Paid, Max2, MaxAttempts
<1>3. paid[s] <= Paid(r, s) /\ paid[s] \in Int /\ MaxAttempts \in Int
  BY DEF Accounted, MaxAttempts
<1>4. QED BY <1>2, <1>3

(* As long as no database call fails and no process is killed, each stage  *)
(* of a job buys at most one answer and one repair, however often the      *)
(* provider does not answer, the run fails and the next process resumes    *)
(* it: what was paid is in the attempts of the row before the row can be   *)
(* read again (_record_stage_failure_metadata, the attempts of             *)
(* _complete_stage).                                                       *)
THEOREM BooksKeepTheCeiling ==
  ASSUME OneRunnerPerJob
  PROVE  Spec => []RepairCeilingWithoutFailures
<1>1. Spec => []Booked
  BY InitBooked, NextBooked, PTL DEF Spec
<1>2. Booked => RepairCeilingWithoutFailures
  <2> SUFFICES ASSUME Booked, faults = 0, NEW j \in Jobs, NEW s \in ModelStages
               PROVE  answers[j][s] <= MaxAttempts
    BY DEF RepairCeilingWithoutFailures, RepairCeiling
  <2>1. BooksOK /\ SingleOK /\ answers[j] \in [ModelStages -> Nat] /\ row[j] \in Rows
    BY DEF Booked, SingleOK, TypedOK, TypeOK
  <2>2. CASE \E w \in Workers : run[w].job = j
    <3>1. PICK w \in Workers : run[w].job = j
      BY <2>2
    <3>2. ~At(w, "idle")
      BY <2>1, <3>1, NoJobAssumption DEF SingleOK, TypedOK, RunnersOK, RunnerOK, At
    <3>3. QED BY <2>1, <3>1, <3>2, BusyBooks, PaidIsBounded
  <2>3. CASE \A w \in Workers : run[w].job # j
    <3>1. answers[j][s] <= row[j].result.attempts[s]
      BY <2>1, <2>3 DEF BooksOK, JobBooks
    <3>2. row[j].result.attempts[s] \in 0 .. MaxAttempts /\ answers[j][s] \in Nat
      BY <2>1 DEF Rows, Results
    <3>3. QED BY <3>1, <3>2 DEF MaxAttempts
  <2>4. QED BY <2>2, <2>3
<1>3. QED BY <1>1, <1>2, PTL
=============================================================================
