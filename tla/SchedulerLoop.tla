----------------------------- MODULE SchedulerLoop -----------------------------
(***************************************************************************)
(* scheduler.start: news once, and then the pending jobs of the schedule   *)
(* library every second.  Some jobs are wrapped by _run_scheduled_job,     *)
(* which swallows what they raise; the others raise into the loop.         *)
(***************************************************************************)
EXTENDS Sequences, SequencesExt

CONSTANTS
  Jobs,     \* what configure_schedule registers
  Wrapped,  \* the jobs that are run by _run_scheduled_job
  News      \* run_once

ASSUME SchedulerAssumption == Wrapped \subseteq Jobs /\ News \in Jobs \ Wrapped

VARIABLES
  due,     \* the jobs whose time has come, the earliest first
  pass,    \* the jobs run_pending has still to run
  loop,    \* "boot", "sleep", "pass" or "off"
  raised,  \* what the last job raised reached the loop
  scrape   \* scrape_runs: the latest row

schedulerVars == <<due, pass, loop, raised, scrape>>
-----------------------------------------------------------------------------
SchedulerInit ==
  due = << >> /\ pass = << >> /\ loop = "boot" /\ raised = FALSE /\ scrape = "none"

(* A job is rescheduled when it returns, so a job that raises stays due.   *)
BecomeDue(j) ==
  /\ loop \in {"sleep", "pass"} /\ j \notin Range(due) /\ due' = Append(due, j)
  /\ UNCHANGED <<pass, loop, raised, scrape>>

(* run_once: its row says whether it was done.                             *)
ScrapeRow(j, fails) ==
  IF j # News THEN scrape ELSE IF fails THEN "failed" ELSE "success"

(* start: the first run_once, which nothing catches.                       *)
Boot(fails) ==
  /\ loop = "boot"
  /\ loop' = IF fails THEN "off" ELSE "sleep"
  /\ scrape' = ScrapeRow(News, fails)
  /\ UNCHANGED <<due, pass, raised>>

Restart ==
  /\ loop = "off" /\ loop' = "boot" /\ due' = << >> /\ pass' = << >>
  /\ UNCHANGED <<raised, scrape>>

(* run_pending: the jobs that are due, sorted by their time.               *)
StartPass ==
  /\ loop = "sleep" /\ loop' = "pass" /\ pass' = due
  /\ UNCHANGED <<due, raised, scrape>>

VariantRaises(j, fails) == fails     \* no job is wrapped

Raises(j, fails) == fails /\ j \notin Wrapped

(* A raising job ends the pass, and is the first of the next one.          *)
RunJob(fails) ==
  LET j == Head(pass) IN
  /\ loop = "pass" /\ pass # << >>
  /\ scrape' = ScrapeRow(j, fails)
  /\ raised' = (fails /\ j \notin Wrapped)
  /\ IF Raises(j, fails)
     THEN loop' = "sleep" /\ pass' = << >> /\ UNCHANGED due
     ELSE pass' = Tail(pass) /\ due' = SelectSeq(due, LAMBDA k : k # j) /\ UNCHANGED loop

EndPass ==
  /\ loop = "pass" /\ pass = << >> /\ loop' = "sleep"
  /\ UNCHANGED <<due, pass, raised, scrape>>

(* The process is killed, in the middle of a run of News as well.          *)
KillScheduler ==
  /\ loop # "off" /\ loop' = "off"
  /\ scrape' \in IF loop = "boot" \/ (pass # << >> /\ Head(pass) = News)
                 THEN {scrape, "running"} ELSE {scrape}
  /\ UNCHANGED <<due, pass, raised>>

LoopStep == StartPass \/ EndPass \/ \E fails \in BOOLEAN : RunJob(fails)

SchedulerNext ==
  \/ \E j \in Jobs : BecomeDue(j)
  \/ \E fails \in BOOLEAN : Boot(fails)
  \/ LoopStep \/ KillScheduler \/ Restart

SchedulerSpec == SchedulerInit /\ [][SchedulerNext]_schedulerVars /\ WF_schedulerVars(LoopStep)
-----------------------------------------------------------------------------
(* Jobs that fail inside their wrapper starve nobody: while the scheduler  *)
(* lives and nothing is raised into the loop, every job that is due is run *)
(* in the end, however often the wrapped ones fail.                        *)
WrappedFailuresStarveNobody ==
  <>[](loop \in {"sleep", "pass"} /\ ~raised) => \A j \in Jobs : []<>(j \notin Range(due))
=============================================================================
