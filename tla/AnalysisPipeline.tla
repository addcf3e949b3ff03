-------------------------- MODULE AnalysisPipeline --------------------------
(***************************************************************************)
(* CompanyAnalysisPipeline: the durable analysis of one company, run as    *)
(* one job.  A CLI process (a worker) walks the stages refresh,            *)
(* deterministic, readiness, packet, qualitative, scenario, persistence.   *)
(* It keeps the job's result in memory and writes it back, whole, after    *)
(* every stage; the two model stages buy answers from a provider, save     *)
(* each one raw, validate it and ask for at most one repair.  Any database *)
(* call may fail, the provider may be interrupted, and the process may be  *)
(* killed between any two calls; the operator then resumes the job by id,  *)
(* possibly after new data has been synchronised or new code installed.    *)
(*                                                                         *)
(* Every step of a worker holds one database or provider call.  Stage      *)
(* timings, elapsed times and progress lines are left out; so is the       *)
(* shadow (non-authoritative) path, which is off by default.               *)
(***************************************************************************)
EXTENDS Integers, Sequences, FiniteSets

CONSTANTS
  Jobs,             \* jobs one company may be given
  Workers,          \* CLI processes
  NeedsScenario,    \* the jobs whose company requires a forward scenario
  MaxEvidence,      \* bound on the versions of the company's source data
  MaxRelease,       \* bound on the releases of prompts and validators
  MaxFaults,        \* bound on failed database calls and killed processes
  MaxInterrupts,    \* bound on provider calls that return no answer
  OneRunnerPerJob   \* the operator never resumes a job that is being run

ASSUME BoundsAssumption ==
  /\ NeedsScenario \subseteq Jobs
  /\ MaxEvidence \in Nat \ {0} /\ MaxRelease \in Nat \ {0}
  /\ MaxFaults \in Nat /\ MaxInterrupts \in Nat
  /\ OneRunnerPerJob \in BOOLEAN

CONSTANT NoJob
ASSUME NoJobAssumption == NoJob \notin Jobs

VARIABLES
  evidence,    \* version of the company's data now in the database
  release,     \* release now installed
  row,         \* the jobs table
  raw,         \* the raw model answers, by id, in the analysis table
  analyses,    \* the accepted analyses, by id, each with its thesis revision
  run,         \* the CLI processes: program position and memory
  answers,     \* answers the provider has been paid for, per job and stage
  faults, interrupts

vars == <<evidence, release, row, raw, analyses, run, answers, faults, interrupts>>
world == <<evidence, release>>
store == <<row, raw, analyses>>
-----------------------------------------------------------------------------
ModelStages == {"qualitative", "scenario"}
Stages == {"refresh", "deterministic", "readiness", "packet"}
            \cup ModelStages \cup {"persistence"}
Statuses == {"absent", "running", "accepted", "failed"}
MaxAttempts == 2
Packets == 0 .. MaxEvidence      \* 0: not frozen
Releases == 1 .. MaxRelease

(* A prompt is told by the packet and, for a scenario, the qualitative     *)
(* answer it was built from, and by the release of the prompt builder.     *)
Prompts == [packet : Packets, basis : Nat, release : 0 .. MaxRelease]
NoPrompt == [packet |-> 0, basis |-> 0, release |-> 0]

(* The result of a job, as JSON in its row and as a dict in memory.        *)
Results ==
  [packet : Packets, next : Stages \cup {"none"}, status : [Stages -> Statuses],
   prompt : [ModelStages -> Prompts], attempts : [ModelStages -> 0 .. MaxAttempts],
   rejected : [ModelStages -> BOOLEAN], artifact : [ModelStages -> Nat],
   terminal : BOOLEAN, final : Nat]

NoResult ==
  [packet |-> 0, next |-> "none", status |-> [s \in Stages |-> "absent"],
   prompt |-> [s \in ModelStages |-> NoPrompt],
   attempts |-> [s \in ModelStages |-> 0],
   rejected |-> [s \in ModelStages |-> FALSE],
   artifact |-> [s \in ModelStages |-> 0], terminal |-> FALSE, final |-> 0]

PreModel == {"refresh", "deterministic", "readiness", "packet"}
Errors == {"none", "blocked", "readiness", "validation", "integrity", "other"}
Positions ==
  {"idle", "created", "begin", "work", "freeze", "gate", "call", "saveRaw",
   "judge", "complete", "mark", "marked", "verify", "rehydrate", "check",
   "save", "revision", "finish", "close", "record", "fail"}

Runs ==
  [pc : Positions, mode : {"run", "resume", "rerun"}, job : Jobs \cup {NoJob},
   release : Releases, result : Results, candidate : Packets,
   stage : Stages, prompt : Prompts, attempt : 0 .. MaxAttempts, answer : SUBSET Releases,
   raw : Nat, rejected : BOOLEAN, spent : 0 .. MaxAttempts, found : Nat,
   error : Errors]

Idle ==
  [pc |-> "idle", mode |-> "run", job |-> NoJob, release |-> 1,
   result |-> NoResult, candidate |-> 0, stage |-> "refresh",
   prompt |-> NoPrompt, attempt |-> 0, answer |-> {}, raw |-> 0,
   rejected |-> FALSE, spent |-> 0, found |-> 0, error |-> "none"]

Init ==
  /\ evidence = 1 /\ release = 1
  /\ row = [j \in Jobs |-> [status |-> "absent", result |-> NoResult]]
  /\ raw = <<>> /\ analyses = <<>>
  /\ run = [w \in Workers |-> Idle]
  /\ answers = [j \in Jobs |-> [s \in ModelStages |-> 0]]
  /\ faults = 0 /\ interrupts = 0
-----------------------------------------------------------------------------
Max2(a, b) == IF a >= b THEN a ELSE b

(* _next_stage: the first resumable stage that is not accepted.            *)
NextStage(res) ==
  IF res.status["qualitative"] # "accepted" THEN "qualitative"
  ELSE IF res.status["scenario"] # "accepted" THEN "scenario"
  ELSE "persistence"

StageAfter(s) ==
  CASE s = "refresh" -> "deterministic" [] s = "deterministic" -> "readiness"
    [] s = "readiness" -> "packet"      [] s = "packet" -> "qualitative"
    [] s = "qualitative" -> "scenario"  [] OTHER -> "persistence"

(* update_result: a whole-result write that only a running row takes.      *)
UpdateResult(j, res) ==
  row' = IF row[j].status = "running" THEN [row EXCEPT ![j].result = res] ELSE row

Accept(res, s) ==
  LET done == [res EXCEPT !.status[s] = "accepted"]
  IN  [done EXCEPT !.next = NextStage(done)]

(* Variants: definitions whose name begins with Variant stand for a likely *)
(* defect of the definition they precede; no action uses them.             *)
(* What each stage step does to the result in memory before its write.     *)
Begun(r) == [r.result EXCEPT !.next = r.stage, !.status[r.stage] = "running"]

Frozen(r) ==
  IF r.result.prompt[r.stage] = NoPrompt
  THEN [r.result EXCEPT !.prompt[r.stage] = r.prompt]
  ELSE r.result

Completed(r) ==
  IF r.stage \in ModelStages
  THEN Accept([r.result EXCEPT
                 !.attempts[r.stage] = Max2(@, r.attempt),
                 !.rejected[r.stage] = r.rejected,
                 !.artifact[r.stage] = r.raw], r.stage)
  ELSE Accept([r.result EXCEPT
                 !.packet = IF r.stage = "packet" THEN r.candidate ELSE @], r.stage)

Recorded(r) ==
  [r.result EXCEPT
     !.attempts[r.stage] = Max2(@, r.spent),
     !.rejected[r.stage] = r.rejected,
     !.artifact["scenario"] = IF r.stage = "scenario" THEN r.raw ELSE @]

Finished(r) == Accept([r.result EXCEPT !.final = r.found], "persistence")

Closed(r) == [r.result EXCEPT !.next = "none"]

(* The result dict as it stands when the call of the present step raises.  *)
InMemory(r) ==
  CASE r.pc = "begin"    -> Begun(r)
    [] r.pc = "freeze"   -> Frozen(r)
    [] r.pc = "complete" -> Completed(r)
    [] r.pc = "record"   -> Recorded(r)
    [] r.pc = "finish"   -> Finished(r)
    [] r.pc = "close"    -> Closed(r)
    [] OTHER             -> r.result

(* Whether a failed run is reported as resumable: the except clauses of    *)
(* _run_company and of resume.                                             *)
Resumable(r) ==
  /\ r.error = "other" /\ r.result.packet # 0
  /\ r.mode = "run" => r.result.next \in ModelStages \cup {"persistence"}

(* _finish_failure, after the except clause has set the terminal reason.   *)
Failed(r) ==
  LET stopped == [r.result EXCEPT
                    !.status = [s \in Stages |-> IF @[s] = "running" THEN "failed" ELSE @[s]],
                    !.terminal = @ \/ r.error = "validation"]
  IN  [stopped EXCEPT !.next = IF Resumable(r) THEN NextStage(stopped) ELSE "none"]

(* _validation_attempts_exhausted.                                         *)
Exhausted(res) ==
  \/ res.terminal
  \/ \E s \in ModelStages :
       res.status[s] = "failed" /\ res.attempts[s] >= MaxAttempts /\ res.rejected[s]

VariantVerifyEveryStage(res) ==     \* also the stages never begun
  \A s \in ModelStages : res.prompt[s] # NoPrompt

(* _verify_frozen_stage_inputs: a stage that was ever begun must have its  *)
(* prompt, whether or not a prompt was ever needed.                        *)
FrozenInputsVerify(res) ==
  \A s \in ModelStages : res.status[s] # "absent" => res.prompt[s] # NoPrompt

AnalysesOf(j) == {i \in DOMAIN analyses : analyses[i].job = j}

(* build_qualitative_prompt and build_scenario_prompt.                     *)
BuildPrompt(r) ==
  [packet |-> r.candidate,
   basis |-> IF r.stage = "scenario" THEN r.result.artifact["qualitative"] ELSE 0,
   release |-> r.release]

NeedsPrompt(r) == r.stage = "qualitative" \/ r.job \in NeedsScenario

Raise(r, kind) == [r EXCEPT !.pc = "fail", !.error = kind]

At(w, position) == run[w].pc = position

Move(w, r) == run' = [run EXCEPT ![w] = r]

Unpaid == UNCHANGED <<answers, faults, interrupts>>
-----------------------------------------------------------------------------
(* _run_company: insert the job, then write its first result.              *)
Start(w, j) ==
  /\ At(w, "idle") /\ row[j].status = "absent"
  /\ row' = [row EXCEPT ![j].status = "running"]
  /\ Move(w, [Idle EXCEPT !.pc = "created", !.job = j, !.release = release])
  /\ UNCHANGED <<raw, analyses, world>> /\ Unpaid

WriteFirstResult(w) ==
  LET first == [NoResult EXCEPT !.next = "refresh"] IN
  /\ At(w, "created")
  /\ UpdateResult(run[w].job, first)
  /\ Move(w, [run[w] EXCEPT !.pc = "begin", !.result = first])
  /\ UNCHANGED <<raw, analyses, world>> /\ Unpaid

(* _start_stage.  A model stage of a fresh run, or of a resume that runs   *)
(* the qualitative stage again, goes on to freeze its prompt; a resumed    *)
(* scenario stage takes the frozen one, and cannot do without.             *)
BeginStage(w) ==
  LET r == [run[w] EXCEPT !.result = Begun(run[w])]
      builds == r.mode = "run" \/ (r.mode = "rerun" /\ r.stage = "scenario")
      prompt == IF builds THEN BuildPrompt(r) ELSE r.result.prompt[r.stage]
  IN
  /\ At(w, "begin")
  /\ UpdateResult(r.job, r.result)
  /\ \/ r.stage \in PreModel /\ Move(w, [r EXCEPT !.pc = "work"])
     \/ r.stage = "persistence" /\ Move(w, [r EXCEPT !.pc = "check"])
     \/ /\ r.stage \in ModelStages /\ r.mode = "resume"
        /\ Move(w, IF prompt = NoPrompt THEN Raise(r, "integrity")
                   ELSE [r EXCEPT !.pc = "gate", !.prompt = prompt])
     \/ /\ r.stage \in ModelStages /\ r.mode # "resume"
        /\ Move(w, IF NeedsPrompt(r) THEN [r EXCEPT !.pc = "freeze", !.prompt = prompt]
                   ELSE [r EXCEPT !.pc = "complete"])
  /\ UNCHANGED <<raw, analyses, world>> /\ Unpaid

(* The work of the stages before the model: a mandatory refresh that       *)
(* failed, or a candidate that is not ready, blocks the job; the candidate *)
(* is built from the data as it stands when the deterministic stage runs.  *)
WorkStage(w) ==
  LET r == run[w] IN
  /\ At(w, "work")
  /\ \/ Move(w, [r EXCEPT !.pc = "complete",
                 !.candidate = IF r.stage = "deterministic" THEN evidence ELSE @])
     \/ r.stage = "refresh" /\ Move(w, Raise(r, "blocked"))
     \/ r.stage = "readiness" /\ Move(w, Raise(r, "readiness"))
  /\ UNCHANGED <<store, world>> /\ Unpaid

(* _complete_stage, and on to the next stage.                              *)
CompleteStage(w) ==
  LET r == run[w] IN
  /\ At(w, "complete")
  /\ UpdateResult(r.job, Completed(r))
  /\ Move(w, [r EXCEPT !.pc = "begin", !.result = Completed(r),
                 !.stage = StageAfter(@), !.prompt = NoPrompt, !.attempt = 0,
                 !.answer = {}, !.raw = 0, !.rejected = FALSE])
  /\ UNCHANGED <<raw, analyses, world>> /\ Unpaid

VariantFreezeInMemory(w) ==     \* the prompt left to the next checkpoint
  /\ At(w, "freeze")
  /\ Move(w, [run[w] EXCEPT !.pc = "gate", !.result = Frozen(run[w])])
  /\ UNCHANGED <<store, world>> /\ Unpaid

(* _prepare_stage_prompt: the prompt goes to the row before the model is   *)
(* called, merged into whatever result the row holds.                      *)
FreezePrompt(w) ==
  LET r == run[w] IN
  /\ At(w, "freeze")
  /\ IF r.result.prompt[r.stage] \in {NoPrompt, r.prompt}
     THEN /\ row' = IF row[r.job].status = "running" /\ Frozen(r) # r.result
                    THEN [row EXCEPT ![r.job].result.prompt[r.stage] = r.prompt]
                    ELSE row
          /\ Move(w, [r EXCEPT !.pc = "gate", !.result = Frozen(r)])
     ELSE Move(w, Raise(r, "integrity")) /\ UNCHANGED row
  /\ UNCHANGED <<raw, analyses, world>> /\ Unpaid
-----------------------------------------------------------------------------
(* Attempts an earlier run of this job has put on the books.               *)
PriorAttempts(r) ==
  IF r.mode = "rerun" /\ r.stage = "scenario" THEN 0 ELSE r.result.attempts[r.stage]

(* The head of run_qualitative and of author: the readiness gate, which    *)
(* can only refuse what an earlier release let through, and the attempts.  *)
EnterModelStage(w) ==
  LET r == run[w] IN
  /\ At(w, "gate")
  /\ \/ /\ r.stage = "qualitative" /\ r.release # r.prompt.release
        /\ Move(w, Raise(r, "readiness"))
     \/ /\ PriorAttempts(r) >= MaxAttempts
        /\ Move(w, Raise(r, "validation"))
     \/ /\ PriorAttempts(r) < MaxAttempts
        /\ Move(w, [r EXCEPT !.pc = "call", !.attempt = PriorAttempts(r) + 1,
                       !.rejected = r.result.rejected[r.stage],
                       !.raw = r.result.artifact[r.stage]])
  /\ UNCHANGED <<store, world>> /\ Unpaid

(* generate or repair: an answer is told by the releases that accept it.   *)
CallModel(w) ==
  /\ At(w, "call")
  /\ \E accepts \in SUBSET Releases :
       Move(w, [run[w] EXCEPT !.pc = "saveRaw", !.answer = accepts])
  /\ answers' = [answers EXCEPT ![run[w].job][run[w].stage] = @ + 1]
  /\ UNCHANGED <<store, world, faults, interrupts>>

(* The provider gives no answer.  The first call of a qualitative stage is *)
(* made outside every try; elsewhere the attempts so far are recorded.     *)
InterruptModel(w) ==
  LET r == run[w] IN
  /\ At(w, "call") /\ interrupts < MaxInterrupts
  /\ interrupts' = interrupts + 1
  /\ IF r.stage = "qualitative" /\ r.attempt = PriorAttempts(r) + 1
     THEN Move(w, Raise(r, "other"))
     ELSE Move(w, [Raise(r, "other") EXCEPT !.pc = "record", !.spent = r.attempt - 1])
  /\ UNCHANGED <<store, world, answers, faults>>

(* save_stock_analysis_raw.                                                *)
SaveRaw(w) ==
  LET r == run[w] IN
  /\ At(w, "saveRaw")
  /\ raw' = Append(raw, [job |-> r.job, stage |-> r.stage, prompt |-> r.prompt,
                         accepts |-> r.answer, verdict |-> "pending"])
  /\ Move(w, [r EXCEPT !.pc = "judge", !.raw = Len(raw) + 1])
  /\ UNCHANGED <<row, analyses, world>> /\ Unpaid

VariantJudgeOneMore(w) ==     \* an off-by-one in the last attempt
  LET r == run[w] IN
  /\ At(w, "judge")
  /\ Move(w, IF r.release \in r.answer THEN [r EXCEPT !.pc = "complete"]
             ELSE IF r.attempt > MaxAttempts
             THEN [Raise(r, "validation") EXCEPT !.pc = "record", !.spent = r.attempt]
             ELSE [r EXCEPT !.pc = "call", !.attempt = @ + 1, !.rejected = TRUE])
  /\ UNCHANGED <<store, world>> /\ Unpaid

(* Validate the answer and update_raw_validation.  One repair is allowed;  *)
(* the repair prompt of a scenario is built anew.                          *)
JudgeAnswer(w) ==
  LET r == run[w] IN
  /\ At(w, "judge")
  /\ IF r.release \in r.answer
     THEN /\ raw' = [raw EXCEPT ![r.raw].verdict = "accepted"]
          /\ Move(w, [r EXCEPT !.pc = "complete"])
     ELSE /\ raw' = [raw EXCEPT ![r.raw].verdict = "rejected"]
          /\ Move(w,
               IF r.attempt >= MaxAttempts
               THEN [Raise(r, "validation") EXCEPT
                       !.pc = "record", !.spent = r.attempt, !.rejected = TRUE]
               ELSE [r EXCEPT !.pc = "call", !.attempt = @ + 1, !.rejected = TRUE,
                       !.prompt = IF r.stage = "scenario" THEN BuildPrompt(r) ELSE @])
  /\ UNCHANGED <<row, analyses, world>> /\ Unpaid

VariantForgetAttempts(w) ==     \* an exception without stage_metadata
  /\ At(w, "record")
  /\ Move(w, [run[w] EXCEPT !.pc = "fail"])
  /\ UNCHANGED <<store, world>> /\ Unpaid

(* _record_stage_failure_metadata.                                         *)
RecordAttempts(w) ==
  LET r == run[w] IN
  /\ At(w, "record")
  /\ UpdateResult(r.job, Recorded(r))
  /\ Move(w, [r EXCEPT !.pc = "fail", !.result = Recorded(r)])
  /\ UNCHANGED <<raw, analyses, world>> /\ Unpaid
-----------------------------------------------------------------------------
VariantPersistAgain(w) ==     \* no look for an analysis already committed
  /\ At(w, "check")
  /\ Move(w, [run[w] EXCEPT !.pc = "save"])
  /\ UNCHANGED <<store, world>> /\ Unpaid

(* _persist_and_complete: look for the last analysis saved for this job,   *)
CheckPersisted(w) ==
  LET r == run[w] IN
  /\ At(w, "check")
  /\ \/ AnalysesOf(r.job) = {} /\ Move(w, [r EXCEPT !.pc = "save"])
     \/ \E i \in AnalysesOf(r.job) :
          /\ \A k \in AnalysesOf(r.job) : k <= i
          /\ Move(w, [r EXCEPT !.pc = "revision", !.found = i])
  /\ UNCHANGED <<store, world>> /\ Unpaid

(* else validate the whole result and save it, with its thesis revision,   *)
(* in one transaction;                                                     *)
SaveAnalysis(w) ==
  LET r == run[w] IN
  /\ At(w, "save")
  /\ \/ /\ analyses' = Append(analyses,
             [job |-> r.job, packet |-> r.candidate,
              qualitative |-> r.result.artifact["qualitative"],
              scenario |-> r.result.artifact["scenario"]])
        /\ Move(w, [r EXCEPT !.pc = "revision", !.found = Len(analyses) + 1])
     \/ Move(w, Raise(r, "validation")) /\ UNCHANGED analyses
  /\ UNCHANGED <<row, raw, world>> /\ Unpaid

(* read the revision's id,                                                 *)
ReadRevision(w) ==
  /\ At(w, "revision")
  /\ Move(w, [run[w] EXCEPT !.pc = "finish"])
  /\ UNCHANGED <<store, world>> /\ Unpaid

(* write the finished result                                               *)
FinishResult(w) ==
  LET r == run[w] IN
  /\ At(w, "finish")
  /\ UpdateResult(r.job, Finished(r))
  /\ Move(w, [r EXCEPT !.pc = "close", !.result = Finished(r)])
  /\ UNCHANGED <<raw, analyses, world>> /\ Unpaid

(* and complete the job.                                                   *)
CloseJob(w) ==
  LET r == run[w] IN
  /\ At(w, "close")
  /\ row' = [row EXCEPT ![r.job] = [status |-> "success", result |-> Closed(r)]]
  /\ Move(w, Idle)
  /\ UNCHANGED <<raw, analyses, world>> /\ Unpaid

(* _finish_failure.                                                        *)
FailJob(w) ==
  LET r == run[w] IN
  /\ At(w, "fail")
  /\ row' = [row EXCEPT ![r.job] = [status |-> "failed", result |-> Failed(r)]]
  /\ Move(w, Idle)
  /\ UNCHANGED <<raw, analyses, world>> /\ Unpaid
-----------------------------------------------------------------------------
ResumeJob(w, j, packet) ==     \* the first moves of resume
  Move(w, [Idle EXCEPT !.pc = "mark", !.mode = "resume", !.job = j,
             !.release = release, !.result = row[j].result, !.candidate = packet])

VariantResumeExhausted(w, j) ==     \* exhausted jobs not refused
  /\ At(w, "idle") /\ row[j].status \in {"running", "failed"}
  /\ row[j].result.final = 0 /\ row[j].result.packet # 0
  /\ OneRunnerPerJob => \A v \in Workers : run[v].job # j
  /\ ResumeJob(w, j, row[j].result.packet)
  /\ UNCHANGED <<store, world>> /\ Unpaid

VariantResumeFailedOnly(w, j) ==     \* the rows of killed processes refused
  /\ At(w, "idle") /\ row[j].status = "failed"
  /\ row[j].result.final = 0 /\ row[j].result.packet # 0
  /\ ~Exhausted(row[j].result)
  /\ OneRunnerPerJob => \A v \in Workers : run[v].job # j
  /\ ResumeJob(w, j, row[j].result.packet)
  /\ UNCHANGED <<store, world>> /\ Unpaid

(* resume: read the job; a finished or exhausted job, or one without a     *)
(* packet, is left alone.  Nothing in the code keeps two processes from    *)
(* resuming one job.                                                       *)
Resume(w, j) ==
  /\ At(w, "idle") /\ row[j].status \in {"running", "failed"}
  /\ row[j].result.final = 0 /\ row[j].result.packet # 0
  /\ ~Exhausted(row[j].result)
  /\ OneRunnerPerJob => \A v \in Workers : run[v].job # j
  /\ ResumeJob(w, j, row[j].result.packet)
  /\ UNCHANGED <<store, world>> /\ Unpaid

MarkRunning(w) ==
  /\ At(w, "mark")
  /\ row' = [row EXCEPT ![run[w].job].status = "running"]
  /\ Move(w, [run[w] EXCEPT !.pc = "marked"])
  /\ UNCHANGED <<raw, analyses, world>> /\ Unpaid

WriteResumed(w) ==
  /\ At(w, "marked")
  /\ UpdateResult(run[w].job, run[w].result)
  /\ Move(w, [run[w] EXCEPT !.pc = "verify"])
  /\ UNCHANGED <<raw, analyses, world>> /\ Unpaid

(* Verify the frozen inputs, then choose between the accepted qualitative  *)
(* answer and a new run of the stage from its frozen prompt.               *)
VerifyInputs(w) ==
  LET r == run[w]
      accepted == r.result.status["qualitative"] = "accepted"
                    /\ r.result.artifact["qualitative"] # 0
  IN
  /\ At(w, "verify")
  /\ Move(w,
       IF ~FrozenInputsVerify(r.result) THEN Raise(r, "integrity")
       ELSE IF accepted THEN [r EXCEPT !.pc = "rehydrate"]
       ELSE IF r.result.prompt["qualitative"] = NoPrompt THEN Raise(r, "integrity")
       ELSE [r EXCEPT !.pc = "begin", !.mode = "rerun", !.stage = "qualitative"])
  /\ UNCHANGED <<store, world>> /\ Unpaid

(* Read the accepted answers back and validate them with this release.     *)
Rehydrate(w) ==
  LET r == run[w]
      stale(s) == r.release \notin raw[r.result.artifact[s]].accepts
      scenarioDone == r.result.status["scenario"] = "accepted"
      rebuilds == scenarioDone /\ r.result.artifact["scenario"] # 0
  IN
  /\ At(w, "rehydrate")
  /\ \/ stale("qualitative") /\ Move(w, Raise(r, "validation"))
     \/ /\ ~stale("qualitative") /\ rebuilds /\ stale("scenario")
        /\ \E kind \in {"validation", "other"} : Move(w, Raise(r, kind))
     \/ /\ ~stale("qualitative") /\ (rebuilds => ~stale("scenario"))
        /\ Move(w, [r EXCEPT !.pc = "begin",
                      !.stage = IF scenarioDone THEN "persistence" ELSE "scenario"])
  /\ UNCHANGED <<store, world>> /\ Unpaid
-----------------------------------------------------------------------------
(* A call raises.  Where the code has no try around it the process ends    *)
(* with the row as it is; elsewhere the run fails.  A prompt builder may   *)
(* raise before the prompt is in memory.                                   *)
Fault(w) ==
  LET r == run[w] IN
  /\ r.pc \notin {"idle", "gate", "call", "verify"} /\ faults < MaxFaults
  /\ faults' = faults + 1
  /\ IF r.pc \in {"created", "mark", "marked", "fail"} THEN Move(w, Idle)
     ELSE \E res \in {InMemory(r)} \cup (IF r.pc = "freeze" THEN {r.result} ELSE {}) :
            Move(w, Raise([r EXCEPT !.result = res], "other"))
  /\ UNCHANGED <<store, world, answers, interrupts>>

(* The process is killed; what it held in memory is gone.                  *)
Crash(w) ==
  /\ ~At(w, "idle") /\ faults < MaxFaults
  /\ faults' = faults + 1
  /\ Move(w, Idle)
  /\ UNCHANGED <<store, world, answers, interrupts>>

(* Synchronisation brings new data; an upgrade brings new prompts and      *)
(* validators to the processes started after it.                           *)
NewEvidence ==
  /\ evidence < MaxEvidence /\ evidence' = evidence + 1
  /\ UNCHANGED <<release, store, run>> /\ Unpaid

Upgrade ==
  /\ release < MaxRelease /\ release' = release + 1
  /\ UNCHANGED <<evidence, store, run>> /\ Unpaid

Step(w) ==
  \/ WriteFirstResult(w) \/ BeginStage(w) \/ WorkStage(w) \/ CompleteStage(w)
  \/ FreezePrompt(w) \/ EnterModelStage(w) \/ CallModel(w) \/ SaveRaw(w)
  \/ JudgeAnswer(w) \/ RecordAttempts(w) \/ CheckPersisted(w) \/ SaveAnalysis(w)
  \/ ReadRevision(w) \/ FinishResult(w) \/ CloseJob(w) \/ FailJob(w)
  \/ MarkRunning(w) \/ WriteResumed(w) \/ VerifyInputs(w) \/ Rehydrate(w)

Next ==
  \/ \E w \in Workers :
       \/ Step(w) \/ InterruptModel(w) \/ Fault(w) \/ Crash(w)
       \/ \E j \in Jobs : Start(w, j) \/ Resume(w, j)
  \/ NewEvidence \/ Upgrade

Spec == Init /\ [][Next]_vars

(* A process that is not killed keeps running, and the operator resumes,   *)
(* when a process is free, every job that resume accepts.                  *)
FairSpec ==
  /\ Spec
  /\ \A w \in Workers : WF_vars(Step(w))
  /\ \A j \in Jobs : SF_vars(\E w \in Workers : Resume(w, j))
-----------------------------------------------------------------------------
Rows == [status : {"absent", "running", "success", "failed"}, result : Results]

RawAnswers ==
  [job : Jobs, stage : ModelStages, prompt : Prompts,
   accepts : SUBSET Releases, verdict : {"pending", "accepted", "rejected"}]

SavedAnalyses == [job : Jobs, packet : Packets, qualitative : Nat, scenario : Nat]

(* Every variable stays in its type.                                       *)
TypeOK ==
  /\ evidence \in 1 .. MaxEvidence /\ release \in Releases
  /\ row \in [Jobs -> Rows]
  /\ raw \in Seq(RawAnswers) /\ analyses \in Seq(SavedAnalyses)
  /\ run \in [Workers -> Runs]
  /\ answers \in [Jobs -> [ModelStages -> Nat]]
  /\ faults \in 0 .. MaxFaults /\ interrupts \in 0 .. MaxInterrupts

(* What the position of a process says of it: whether it has a job, and a  *)
(* model stage, how many attempts it is in, that the check before the save *)
(* still holds.                                                            *)
RunnerOK(w) ==
  LET r == run[w] IN
  /\ r.pc = "idle" => r.job = NoJob
  /\ r.pc # "idle" => r.job \in Jobs /\ row[r.job].status # "absent"
  /\ r.pc \in {"freeze", "gate", "call", "saveRaw", "judge", "record"} =>
       r.stage \in ModelStages
  /\ r.pc \in {"call", "saveRaw", "judge"} => r.attempt # 0

RunnersOK == \A w \in Workers : RunnerOK(w)

(* No two processes run one job, and one that is about to save has found   *)
(* no analysis of its job.                                                 *)
Exclusive ==
  /\ \A v, w \in Workers : run[v].job = run[w].job /\ run[v].job # NoJob => v = w
  /\ \A w \in Workers : At(w, "save") => AnalysesOf(run[w].job) = {}

(* A job leads to one analysis and one thesis revision, however often it   *)
(* is killed and resumed, also after the commit and before the checkpoint  *)
(* (get_stock_analysis_for_job before persist).                            *)
OneAnalysisPerJob ==
  \A i, k \in DOMAIN analyses : analyses[i].job = analyses[k].job => i = k

(* An answer is bought only while the row is running and already holds the *)
(* prompt of its stage, and the prompt sent asks about the same packet and *)
(* the same qualitative answer (checkpoint_stage_input before the model).  *)
CallsUseFrozenPrompt ==
  [][\A w \in Workers :
       (At(w, "call") /\ run'[w].pc = "saveRaw") =>
         LET j == run[w].job
             frozen == row[j].result.prompt[run[w].stage]
         IN  /\ row[j].status = "running" /\ frozen # NoPrompt
             /\ frozen.packet = run[w].prompt.packet
             /\ frozen.packet = row[j].result.packet
             /\ frozen.basis = run[w].prompt.basis]_vars

(* A job that failed with its validation attempts exhausted is history: no *)
(* step changes its row.                                                   *)
ExhaustedIsHistory ==
  [][\A j \in Jobs :
       (row[j].status = "failed" /\ Exhausted(row[j].result)) =>
         row'[j] = row[j]]_vars

(* Each stage of a job buys at most one answer and one repair.             *)
RepairCeiling ==
  \A j \in Jobs : \A s \in ModelStages : answers[j][s] <= MaxAttempts

(* Resume gets as far as a model stage or the persistence of the job.      *)
CanResume(res) ==
  /\ ~Exhausted(res) /\ FrozenInputsVerify(res)
  /\ res.prompt["qualitative"] # NoPrompt
  /\ res.status["qualitative"] = "accepted" => res.prompt["scenario"] # NoPrompt

(* A job that failed while persisting accepted stages can be resumed.      *)
FailedPersistenceCanResume ==
  \A j \in Jobs :
    (row[j].status = "failed" /\ row[j].result.next = "persistence"
       /\ row[j].result.final = 0) => CanResume(row[j].result)

(* An analysis that was committed is in the end named by its job, when the *)
(* operator keeps resuming.                                                *)
PersistedIsReported ==
  \A j \in Jobs : AnalysesOf(j) # {} ~> row[j].result.final # 0

(* An attempt is lost from the books only by a failed call or a kill.      *)
RepairCeilingWithoutFailures == faults = 0 => RepairCeiling

Settled(j) ==
  \/ row[j].result.final # 0
  \/ row[j].status = "failed" /\ Exhausted(row[j].result)

(* A job whose packet is frozen comes to an end, it names its analysis or  *)
(* is ruled exhausted, whatever calls the provider leaves unanswered.      *)
FrozenJobsSettle ==
  \A j \in Jobs : row[j].result.packet # 0 ~> (Settled(j) \/ faults > 0)
=============================================================================
