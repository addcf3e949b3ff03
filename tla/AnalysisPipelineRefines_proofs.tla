-------------------- MODULE AnalysisPipelineRefines_proofs --------------------
(***************************************************************************)
(* The durable pipeline implements AnalysisLedger, for any jobs, workers   *)
(* and bounds, while the operator runs a job in one process at a time.     *)
(* The mapping shows the packet, the final analysis and the analyses of    *)
(* the rows, so the proof has to know what a process that writes its whole *)
(* result back has in memory: FollowsAll says how the memory of a process  *)
(* and the row of its job agree, at every position it can be in.           *)
(* That a model is only asked what the row has frozen is shown last: Sound *)
(* says which prompts are in memory, and which are not there yet.          *)
(***************************************************************************)
EXTENDS AnalysisPipelineRefines, AnalysisPipeline_proofs

(* The run is at or past the freeze of the packet.                         *)
Past(r) == r.mode # "run" \/ r.stage \in ModelStages \cup {"persistence"}

(* The packet in memory and in the result res of the row.  Before the      *)
(* freeze only a failing run may have a packet that its row has not.       *)
PacketKnown(r, res) ==
  IF Past(r)
  THEN r.candidate # 0 /\ r.result.packet = r.candidate /\ res.packet = r.candidate
  ELSE /\ res.packet = 0 /\ r.result.packet \in {0, r.candidate}
       /\ r.pc # "fail" => r.result.packet = 0
       /\ r.stage \in {"readiness", "packet"}
            \/ (r.stage = "deterministic" /\ r.pc = "complete") => r.candidate # 0

(* The analysis the job will name, among the analyses mine of that job.    *)
FinalKnown(r, res, mine) ==
  /\ r.pc \notin {"close", "fail"} => r.result.final = 0 /\ res.final = 0
  /\ r.result.final # res.final =>
       r.pc = "fail" /\ Past(r) /\ res.final = 0 /\ r.result.final \in mine
  /\ r.pc \in {"revision", "finish"} => r.found \in mine

(* The modes and stages of the positions.                                  *)
Placed(r) ==
  /\ r.pc = "created" => r.mode = "run" /\ r.stage = "refresh"
  /\ r.pc \in {"mark", "marked", "verify", "rehydrate"} => r.mode # "run"
  /\ r.pc \in {"begin", "work", "complete"} /\ r.stage \in PreModel => r.mode = "run"
  /\ r.pc = "work" => r.stage \in PreModel
  /\ r.pc \in {"check", "save", "revision", "finish", "close"} => r.stage = "persistence"

Follows(r, ro, mine) ==
  /\ r.pc # "mark" => ro.status = "running"
  /\ r.pc = "mark" => ~Exhausted(ro.result)
  /\ PacketKnown(r, ro.result) /\ FinalKnown(r, ro.result, mine) /\ Placed(r)

FollowsAll ==
  \A w \in Workers :
    ~At(w, "idle") => Follows(run[w], row[run[w].job], AnalysesOf(run[w].job))

AbsentEmpty ==
  \A j \in Jobs :
    row[j].status = "absent" => row[j].result.packet = 0 /\ row[j].result.final = 0

LedgerInv == SingleOK /\ FollowsAll /\ AbsentEmpty
-----------------------------------------------------------------------------
(* What the steps on a result do to its packet and its final analysis.     *)
LEMMA AcceptShows ==
  ASSUME NEW res \in Results, NEW s
  PROVE  Accept(res, s).packet = res.packet /\ Accept(res, s).final = res.final
BY DEF Accept, Results

LEMMA BegunShows ==
  ASSUME NEW r \in Runs
  PROVE  Begun(r).packet = r.result.packet /\ Begun(r).final = r.result.final
BY DEF Begun, Runs, Results

LEMMA FrozenShows ==
  ASSUME NEW r \in Runs
  PROVE  Frozen(r).packet = r.result.packet /\ Frozen(r).final = r.result.final
BY DEF Frozen, Runs, Results

LEMMA RecordedShows ==
  ASSUME NEW r \in Runs
  PROVE  Recorded(r).packet = r.result.packet /\ Recorded(r).final = r.result.final
BY DEF Recorded, Runs, Results

LEMMA ClosedShows ==
  ASSUME NEW r \in Runs
  PROVE  Closed(r).packet = r.result.packet /\ Closed(r).final = r.result.final
BY DEF Closed, Runs, Results

LEMMA FailedShows ==
  ASSUME NEW r \in Runs
  PROVE  Failed(r).packet = r.result.packet /\ Failed(r).final = r.result.final
BY DEF Failed, Runs, Results

LEMMA FinishedShows ==
  ASSUME NEW r \in Runs
  PROVE  Finished(r).packet = r.result.packet /\ Finished(r).final = r.found
<1> DEFINE res == [r.result EXCEPT !.final = r.found]
<1>1. res \in Results /\ res.packet = r.result.packet /\ res.final = r.found
  BY DEF Runs, Results
<1> HIDE DEF res
<1>2. Accept(res, "persistence").packet = res.packet /\ Accept(res, "persistence").final = res.final
  BY <1>1, AcceptShows
<1> QED
  BY <1>1, <1>2 DEF Finished, res

LEMMA CompletedShows ==
  ASSUME NEW r \in Runs
  PROVE  /\ Completed(r).packet = IF r.stage = "packet" THEN r.candidate ELSE r.result.packet
         /\ Completed(r).final = r.result.final
<1>1. CASE r.stage \in ModelStages
  <2> DEFINE res == [r.result EXCEPT
                 !.attempts[r.stage] = Max2(@, r.attempt),
                 !.rejected[r.stage] = r.rejected,
                 !.artifact[r.stage] = r.raw]
  <2>1. res \in Results /\ res.packet = r.result.packet /\ res.final = r.result.final
    BY DEF Runs, Results, Max2, MaxAttempts
  <2>2. Completed(r) = Accept(res, r.stage)
    BY <1>1 DEF Completed
  <2> HIDE DEF res
  <2> QED
    BY <1>1, <2>1, <2>2, AcceptShows DEF ModelStages
<1>2. CASE r.stage \notin ModelStages
  <2> DEFINE res == [r.result EXCEPT
                 !.packet = IF r.stage = "packet" THEN r.candidate ELSE @]
  <2>1. /\ res \in Results /\ res.final = r.result.final
        /\ res.packet = IF r.stage = "packet" THEN r.candidate ELSE r.result.packet
    BY DEF Runs, Results
  <2>2. Completed(r) = Accept(res, r.stage)
    BY <1>2 DEF Completed
  <2> HIDE DEF res
  <2> QED
    BY <2>1, <2>2, AcceptShows
<1> QED
  BY <1>1, <1>2
-----------------------------------------------------------------------------
(* The memory q has what the ledger sees of r, and its place.              *)
Same(q, r) ==
  /\ q.job = r.job /\ q.mode = r.mode /\ q.stage = r.stage /\ q.candidate = r.candidate
  /\ q.result.packet = r.result.packet /\ q.result.final = r.result.final

(* Positions at which nothing more is asked than before.                   *)
Elsewhere == {"freeze", "gate", "call", "saveRaw", "judge", "record", "fail", "verify"}

LEMMA SameFollows ==
  ASSUME NEW r, NEW q, NEW ro, NEW new, NEW mine, Follows(r, ro, mine), Same(q, r),
         r.pc \notin {"close", "fail"}, q.pc \in Elsewhere,
         q.pc = "verify" => r.mode # "run",
         new.status = "running",
         new.result.packet = ro.result.packet, new.result.final = ro.result.final
  PROVE  Follows(q, new, mine)
BY DEF Follows, Same, PacketKnown, FinalKnown, Placed, Past, Elsewhere

(* More analyses of the job do no harm.                                    *)
LEMMA MoreFollows ==
  ASSUME NEW r, NEW ro, NEW mine, NEW more, Follows(r, ro, mine), mine \subseteq more
  PROVE  Follows(r, ro, more)
BY DEF Follows, FinalKnown

(* A busy process follows the row of a job that no other process has.      *)
LEMMA BusyFollows ==
  ASSUME LedgerInv, NEW w \in Workers, ~At(w, "idle")
  PROVE  /\ run[w] \in Runs /\ run[w].job \in Jobs
         /\ row[run[w].job] \in Rows
         /\ row[run[w].job].status # "absent"
         /\ Follows(run[w], row[run[w].job], AnalysesOf(run[w].job))
         /\ \A v \in Workers \ {w} : run[v].job # run[w].job
<1>1. run[w] \in Runs /\ run[w].job \in Jobs /\ row[run[w].job].status # "absent"
  BY Busy DEF LedgerInv, SingleOK
<1>2. row[run[w].job] \in Rows
  BY <1>1 DEF LedgerInv, SingleOK, TypedOK, TypeOK
<1>3. \A v \in Workers \ {w} : run[v].job # run[w].job
  BY <1>1, NoJobAssumption DEF LedgerInv, SingleOK, Exclusive
<1> QED
  BY <1>1, <1>2, <1>3 DEF LedgerInv, FollowsAll

(* Only the row of the job of w changes, and it does not vanish.           *)
OwnRow(j) ==
  /\ \A i \in Jobs : i # j => row'[i] = row[i]
  /\ row'[j].status # "absent"

Growing == \A i \in Jobs : AnalysesOf(i) \subseteq (AnalysesOf(i))'

LEMMA Continues ==
  ASSUME LedgerInv, NEW w \in Workers, NEW j \in Jobs, NEW q, Move(w, q),
         q.pc = "idle" \/ (q.job = j /\ Follows(q, row'[j], (AnalysesOf(j))')),
         \A v \in Workers \ {w} : run[v].job # j,
         OwnRow(j), Growing
  PROVE  FollowsAll' /\ AbsentEmpty'
<1>1. run \in [Workers -> Runs]
  BY DEF LedgerInv, SingleOK, TypedOK, TypeOK
<1>2. ASSUME NEW v \in Workers, ~(At(v, "idle")')
      PROVE  Follows(run[v], row[run[v].job], AnalysesOf(run[v].job))'
  <2>1. CASE v = w
    BY <1>1, <1>2, <2>1 DEF Move, At
  <2>2. CASE v # w
    <3>1. run'[v] = run[v] /\ ~At(v, "idle")
      BY <1>1, <1>2, <2>2 DEF Move, At
    <3>2. run[v].job \in Jobs /\ run[v].job # j
      BY <2>2, <3>1, BusyFollows
    <3>3. row'[run[v].job] = row[run[v].job]
      BY <3>2 DEF OwnRow
    <3>4. Follows(run[v], row[run[v].job], (AnalysesOf(run[v].job))')
      BY <3>1, <3>2, BusyFollows, MoreFollows DEF Growing
    <3> QED
      BY <3>1, <3>3, <3>4
  <2> QED
    BY <2>1, <2>2
<1>3. AbsentEmpty'
  BY DEF AbsentEmpty, OwnRow, LedgerInv
<1> QED
  BY <1>2, <1>3 DEF FollowsAll
-----------------------------------------------------------------------------
(* What each step owes: the agreement, and a step of the ledger or none.   *)
Effect == FollowsAll' /\ AbsentEmpty' /\ (Ledger!Next \/ UNCHANGED Ledger!lvars)

(* A change of one row that the ledger does not show.                      *)
LEMMA Unseen ==
  ASSUME NEW j \in Jobs, OwnRow(j), UNCHANGED analyses,
         row'[j].result.packet = row[j].result.packet,
         row'[j].result.final = row[j].result.final
  PROVE  Growing /\ UNCHANGED Ledger!lvars
<1>1. /\ \A i \in Jobs : row'[i].result.packet = row[i].result.packet
      /\ \A i \in Jobs : row'[i].result.final = row[i].result.final
  BY DEF OwnRow
<1> QED
  BY <1>1 DEF Growing, AnalysesOf, Ledger!lvars

(* A step that changes the memory of its process alone.                    *)
LEMMA Thinks ==
  ASSUME LedgerInv, NEW w \in Workers, ~At(w, "idle"), NEW q, Move(w, q),
         UNCHANGED <<row, analyses>>,
         q.pc = "idle"
           \/ (q.job = run[w].job /\ Follows(q, row[run[w].job], AnalysesOf(run[w].job)))
  PROVE  Effect
<1>0. PICK j \in Jobs : j = run[w].job
  BY BusyFollows
<1>1. OwnRow(j) /\ \A v \in Workers \ {w} : run[v].job # j
  BY <1>0, BusyFollows DEF OwnRow
<1>2. Growing /\ UNCHANGED Ledger!lvars
  BY <1>1, Unseen
<1>3. row'[j] = row[j] /\ (AnalysesOf(j))' = AnalysesOf(j)
  BY DEF AnalysesOf
<1>4. FollowsAll' /\ AbsentEmpty'
  BY <1>1, <1>2, <1>3, <1>0, Continues
<1> QED
  BY <1>2, <1>4 DEF Effect

(* The same, when the process only moves on.                               *)
LEMMA MovesOn ==
  ASSUME LedgerInv, NEW w \in Workers, ~At(w, "idle"), NEW q, Move(w, q),
         UNCHANGED <<row, analyses>>, Same(q, run[w]),
         run[w].pc \notin {"close", "fail", "mark"},
         q.pc \in Elsewhere, q.pc = "verify" => run[w].mode # "run"
  PROVE  Effect
<1>1. Follows(run[w], row[run[w].job], AnalysesOf(run[w].job))
  BY BusyFollows
<1>2. row[run[w].job].status = "running"
  BY <1>1 DEF Follows
<1>3. Follows(q, row[run[w].job], AnalysesOf(run[w].job))
  BY <1>1, <1>2, SameFollows
<1> QED
  BY <1>3, Thinks DEF Same

(* A result written to the row of a process that has marked it running.    *)
LEMMA Written ==
  ASSUME LedgerInv, NEW w \in Workers, ~At(w, "idle"), run[w].pc # "mark",
         NEW res, UpdateResult(run[w].job, res)
  PROVE  /\ OwnRow(run[w].job)
         /\ row'[run[w].job].status = "running" /\ row'[run[w].job].result = res
<1>1. row[run[w].job].status = "running" /\ run[w].job \in Jobs
  BY BusyFollows DEF Follows
<1>2. row \in [Jobs -> Rows]
  BY DEF LedgerInv, SingleOK, TypedOK, TypeOK
<1>3. row' = [row EXCEPT ![run[w].job].result = res]
  BY <1>1 DEF UpdateResult
<1>4. row'[run[w].job] = [row[run[w].job] EXCEPT !.result = res]
  BY <1>1, <1>2, <1>3
<1>5. row[run[w].job] \in Rows
  BY <1>1, <1>2
<1>6. row'[run[w].job].status = "running" /\ row'[run[w].job].result = res
  BY <1>1, <1>4, <1>5 DEF Rows
<1> QED
  BY <1>1, <1>2, <1>3, <1>6 DEF OwnRow

(* A step that writes a result in which the ledger sees nothing new.       *)
LEMMA WritesSame ==
  ASSUME LedgerInv, NEW w \in Workers, ~At(w, "idle"), run[w].pc # "mark",
         NEW res, UpdateResult(run[w].job, res),
         res.packet = row[run[w].job].result.packet,
         res.final = row[run[w].job].result.final,
         NEW q, Move(w, q), UNCHANGED analyses, q.job = run[w].job,
         \A ro : ro.status = "running" /\ ro.result = res =>
                   Follows(q, ro, AnalysesOf(run[w].job))
  PROVE  Effect
<1>0. PICK j \in Jobs : j = run[w].job
  BY BusyFollows
<1>1. OwnRow(j) /\ row'[j].status = "running" /\ row'[j].result = res
  BY <1>0, Written
<1>2. \A v \in Workers \ {w} : run[v].job # j
  BY <1>0, BusyFollows
<1>3. Growing /\ UNCHANGED Ledger!lvars
  BY <1>1, <1>0, Unseen
<1>4. (AnalysesOf(j))' = AnalysesOf(j)
  BY DEF AnalysesOf
<1>5. Follows(q, row'[j], (AnalysesOf(j))')
  BY <1>1, <1>4, <1>0
<1>6. FollowsAll' /\ AbsentEmpty'
  BY <1>1, <1>2, <1>3, <1>5, <1>0, Continues
<1> QED
  BY <1>3, <1>6 DEF Effect

LEMMA RaiseSame ==
  ASSUME NEW r \in Runs, NEW kind
  PROVE  Same(Raise(r, kind), r) /\ Raise(r, kind).pc = "fail"
BY DEF Same, Raise, Runs

(* A process that gives up with its result as it is.                       *)
LEMMA RaisesOn ==
  ASSUME LedgerInv, NEW w \in Workers, ~At(w, "idle"), NEW kind, Move(w, Raise(run[w], kind)),
         UNCHANGED <<row, analyses>>, run[w].pc \notin {"close", "fail", "mark"}
  PROVE  Effect
BY BusyFollows, RaiseSame, MovesOn DEF Elsewhere
-----------------------------------------------------------------------------
(* One lemma per step of a process.  Most steps are invisible.             *)
LEMMA ModelEffect ==
  ASSUME LedgerInv, NEW w \in Workers,
         \/ EnterModelStage(w) \/ CallModel(w) \/ InterruptModel(w) \/ SaveRaw(w)
  PROVE  Effect
<1> DEFINE r == run[w]
<1>1. ~At(w, "idle") /\ r.pc \in {"gate", "call", "saveRaw"} /\ UNCHANGED <<row, analyses>>
  BY DEF EnterModelStage, CallModel, InterruptModel, SaveRaw, At, store
<1>2. r \in Runs
  BY <1>1, BusyFollows
<1> DEFINE enter == [r EXCEPT !.pc = "call", !.attempt = PriorAttempts(r) + 1,
                       !.rejected = r.result.rejected[r.stage],
                       !.raw = r.result.artifact[r.stage]]
           called(accepts) == [r EXCEPT !.pc = "saveRaw", !.answer = accepts]
           stopped == [Raise(r, "other") EXCEPT !.pc = "record", !.spent = r.attempt - 1]
           saved == [r EXCEPT !.pc = "judge", !.raw = Len(raw) + 1]
<1>3. /\ Same(enter, r) /\ enter.pc = "call"
      /\ \A accepts : Same(called(accepts), r) /\ called(accepts).pc = "saveRaw"
      /\ Same(stopped, r) /\ stopped.pc = "record"
      /\ Same(saved, r) /\ saved.pc = "judge"
  BY <1>2 DEF Same, Raise, Runs
<1>4. \/ Move(w, enter) \/ Move(w, stopped) \/ Move(w, saved)
      \/ \E accepts : Move(w, called(accepts))
      \/ \E kind : Move(w, Raise(r, kind))
  BY DEF EnterModelStage, CallModel, InterruptModel, SaveRaw
<1> HIDE DEF enter, called, stopped, saved
<1>5. PICK q : Move(w, q) /\ Same(q, r) /\ q.pc \in Elsewhere \ {"verify"}
  BY <1>2, <1>3, <1>4, RaiseSame DEF Elsewhere
<1> QED
  BY <1>1, <1>5, MovesOn

LEMMA JudgeEffect ==
  ASSUME LedgerInv, NEW w \in Workers, JudgeAnswer(w)
  PROVE  Effect
<1> DEFINE r == run[w]
           accept == [r EXCEPT !.pc = "complete"]
           spend == [Raise(r, "validation") EXCEPT
                       !.pc = "record", !.spent = r.attempt, !.rejected = TRUE]
           repair == [r EXCEPT !.pc = "call", !.attempt = @ + 1, !.rejected = TRUE,
                        !.prompt = IF r.stage = "scenario" THEN BuildPrompt(r) ELSE @]
<1>1. ~At(w, "idle") /\ r.pc = "judge" /\ UNCHANGED <<row, analyses>>
  BY DEF JudgeAnswer, At
<1>2. /\ r \in Runs /\ Follows(r, row[r.job], AnalysesOf(r.job))
      /\ r.stage \in ModelStages
  BY <1>1, BusyFollows DEF LedgerInv, SingleOK, TypedOK, RunnersOK, RunnerOK
<1>3. /\ Same(accept, r) /\ accept.pc = "complete"
      /\ Same(spend, r) /\ spend.pc = "record"
      /\ Same(repair, r) /\ repair.pc = "call"
  BY <1>2 DEF Same, Raise, Runs
<1>4. Move(w, accept) \/ Move(w, spend) \/ Move(w, repair)
  BY DEF JudgeAnswer
<1> HIDE DEF r, accept, spend, repair
<1>5. Follows(accept, row[r.job], AnalysesOf(r.job))
  BY <1>1, <1>2, <1>3
  DEF Follows, Same, PacketKnown, FinalKnown, Placed, Past, ModelStages, PreModel
<1> QED
  BY <1>1, <1>3, <1>4, <1>5, MovesOn, Thinks DEF r, Same, Elsewhere

LEMMA WorkEffect ==
  ASSUME LedgerInv, NEW w \in Workers, WorkStage(w)
  PROVE  Effect
<1> DEFINE r == run[w]
           done == [r EXCEPT !.pc = "complete",
                      !.candidate = IF r.stage = "deterministic" THEN evidence ELSE @]
<1>1. ~At(w, "idle") /\ r.pc = "work" /\ UNCHANGED <<row, analyses>>
  BY DEF WorkStage, At, store
<1>2. r \in Runs /\ Follows(r, row[r.job], AnalysesOf(r.job)) /\ evidence # 0
  BY <1>1, BusyFollows DEF LedgerInv, SingleOK, TypedOK, TypeOK
<1>3. CASE Move(w, done)
  <2>1. /\ done.pc = "complete" /\ done.job = r.job /\ done.mode = r.mode
        /\ done.stage = r.stage /\ done.result = r.result
        /\ done.candidate = IF r.stage = "deterministic" THEN evidence ELSE r.candidate
    BY <1>2 DEF Runs
  <2> HIDE DEF r, done
  <2>2. r.mode = "run" /\ r.stage \in PreModel
    BY <1>1, <1>2 DEF Follows, Placed
  <2>3. Follows(done, row[r.job], AnalysesOf(r.job))
    BY <1>1, <1>2, <2>1, <2>2
    DEF Follows, PacketKnown, FinalKnown, Placed, Past, ModelStages, PreModel
  <2> QED
    BY <1>1, <1>3, <2>1, <2>3, Thinks DEF r
<1>4. CASE \E kind : Move(w, Raise(r, kind))
  BY <1>1, <1>4, RaisesOn
<1> QED
  BY <1>3, <1>4 DEF WorkStage

LEMMA RecordEffect ==
  ASSUME LedgerInv, NEW w \in Workers, RecordAttempts(w)
  PROVE  Effect
<1> DEFINE r == run[w]
           q == [r EXCEPT !.pc = "fail", !.result = Recorded(r)]
<1>1. ~At(w, "idle") /\ r.pc = "record" /\ UNCHANGED analyses /\ Move(w, q)
      /\ UpdateResult(r.job, Recorded(r))
  BY DEF RecordAttempts, At
<1>2. /\ r \in Runs /\ Follows(r, row[r.job], AnalysesOf(r.job)) /\ r.stage \in ModelStages
  BY <1>1, BusyFollows DEF LedgerInv, SingleOK, TypedOK, RunnersOK, RunnerOK
<1>3. /\ q.pc = "fail" /\ q.job = r.job /\ q.mode = r.mode /\ q.stage = r.stage
      /\ q.candidate = r.candidate /\ q.result = Recorded(r)
  BY <1>2 DEF Runs
<1>4. Recorded(r).packet = r.result.packet /\ Recorded(r).final = r.result.final
  BY <1>2, RecordedShows
<1> HIDE DEF r, q
<1>5. /\ Recorded(r).packet = row[r.job].result.packet
      /\ Recorded(r).final = row[r.job].result.final
  BY <1>1, <1>2, <1>4 DEF Follows, PacketKnown, FinalKnown, Past
<1>6. ASSUME NEW ro, ro.status = "running", ro.result = Recorded(r)
      PROVE  Follows(q, ro, AnalysesOf(r.job))
  BY <1>1, <1>2, <1>3, <1>4, <1>6
  DEF Follows, PacketKnown, FinalKnown, Placed, Past, ModelStages, PreModel
<1> QED
  BY <1>1, <1>3, <1>5, <1>6, WritesSame DEF r
-----------------------------------------------------------------------------
(* The three changes the ledger shows.                                     *)
LEMMA FixShown ==
  ASSUME NEW j \in Jobs, NEW p \in 1 .. MaxEvidence, OwnRow(j), UNCHANGED analyses,
         row[j].result.packet = 0, row'[j].result.packet = p,
         row'[j].result.final = row[j].result.final
  PROVE  Growing /\ Ledger!Next
<1> DEFINE input == [i \in Jobs |-> row[i].result.packet]
<1>1. input' = [input EXCEPT ![j] = p] /\ input[j] = 0
  BY DEF OwnRow
<1>2. [i \in Jobs |-> row[i].result.final]' = [i \in Jobs |-> row[i].result.final]
  BY DEF OwnRow
<1>3. Ledger!Fix(j)
  BY <1>1, <1>2 DEF Ledger!Fix
<1>4. Growing
  BY DEF Growing, AnalysesOf
<1> QED
  BY <1>3, <1>4 DEF Ledger!Next

LEMMA NameShown ==
  ASSUME NEW j \in Jobs, NEW i \in AnalysesOf(j), OwnRow(j), UNCHANGED analyses,
         row[j].result.final = 0, row'[j].result.final = i,
         row'[j].result.packet = row[j].result.packet
  PROVE  Growing /\ Ledger!Next
<1> DEFINE named == [k \in Jobs |-> row[k].result.final]
<1>1. named' = [named EXCEPT ![j] = i] /\ named[j] = 0
  BY DEF OwnRow
<1>2. [k \in Jobs |-> row[k].result.packet]' = [k \in Jobs |-> row[k].result.packet]
  BY DEF OwnRow
<1>3. i \in Ledger!Entries(j)
  BY DEF AnalysesOf, Ledger!Entries
<1>4. Ledger!Name(j)
  BY <1>1, <1>2, <1>3 DEF Ledger!Name
<1>5. Growing
  BY DEF Growing, AnalysesOf
<1> QED
  BY <1>4, <1>5 DEF Ledger!Next

LEMMA PublishShown ==
  ASSUME analyses \in Seq(SavedAnalyses), NEW j \in Jobs, NEW e \in SavedAnalyses,
         analyses' = Append(analyses, e), UNCHANGED row, AnalysesOf(j) = {},
         e.job = j, e.packet = row[j].result.packet, e.packet # 0
  PROVE  Growing /\ Ledger!Next /\ Len(analyses) + 1 \in (AnalysesOf(j))'
<1> DEFINE shown == [i \in DOMAIN analyses |->
                       [job |-> analyses[i].job, input |-> analyses[i].packet]]
           new == [job |-> j, input |-> row[j].result.packet]
<1>1. /\ DOMAIN analyses = 1 .. Len(analyses) /\ Len(analyses) \in Nat
      /\ DOMAIN analyses' = 1 .. Len(analyses) + 1
      /\ \A i \in DOMAIN analyses : analyses'[i] = analyses[i]
      /\ analyses'[Len(analyses) + 1] = e
  OBVIOUS
<1>2. Growing /\ Len(analyses) + 1 \in (AnalysesOf(j))'
  BY <1>1 DEF Growing, AnalysesOf
<1>3. shown' = Append(shown, new)
  <2>1. shown' = [i \in 1 .. Len(analyses) + 1 |->
                    [job |-> analyses'[i].job, input |-> analyses'[i].packet]]
    BY <1>1
  <2>2. Len(shown) = Len(analyses)
    BY <1>1
  <2>3. /\ \A i \in 1 .. Len(analyses) : shown'[i] = shown[i]
        /\ shown'[Len(analyses) + 1] = new
    BY <1>1, <2>1
  <2>4. \A i \in 1 .. Len(analyses) + 1 : shown'[i] = Append(shown, new)[i]
    BY <1>1, <2>2, <2>3
  <2> QED
    BY <1>1, <2>1, <2>2, <2>4
<1>4. Ledger!Entries(j) = {}
  BY DEF AnalysesOf, Ledger!Entries
<1>5. Ledger!Publish(j)
  BY <1>3, <1>4 DEF Ledger!Publish
<1> QED
  BY <1>2, <1>5 DEF Ledger!Next
-----------------------------------------------------------------------------
LEMMA FirstResultEffect ==
  ASSUME LedgerInv, NEW w \in Workers, WriteFirstResult(w)
  PROVE  Effect
<1> DEFINE r == run[w]
           first == [NoResult EXCEPT !.next = "refresh"]
           q == [r EXCEPT !.pc = "begin", !.result = first]
<1>1. /\ ~At(w, "idle") /\ r.pc = "created" /\ UNCHANGED analyses /\ Move(w, q)
      /\ UpdateResult(r.job, first)
  BY DEF WriteFirstResult, At
<1>2. r \in Runs /\ Follows(r, row[r.job], AnalysesOf(r.job))
  BY <1>1, BusyFollows
<1>3. /\ q.pc = "begin" /\ q.job = r.job /\ q.mode = r.mode /\ q.stage = r.stage
      /\ q.candidate = r.candidate /\ q.result = first
  BY <1>2 DEF Runs
<1>4. first.packet = 0 /\ first.final = 0
  BY DEF NoResult
<1> HIDE DEF r, q, first
<1>5. ~Past(r) /\ r.mode = "run" /\ r.stage = "refresh"
  BY <1>1, <1>2 DEF Follows, Placed, Past, ModelStages
<1>6. row[r.job].result.packet = 0 /\ row[r.job].result.final = 0
  BY <1>1, <1>2, <1>5 DEF Follows, PacketKnown, FinalKnown
<1>7. ASSUME NEW ro, ro.status = "running", ro.result = first
      PROVE  Follows(q, ro, AnalysesOf(r.job))
  BY <1>3, <1>4, <1>5, <1>7
  DEF Follows, PacketKnown, FinalKnown, Placed, Past, ModelStages, PreModel
<1> QED
  BY <1>1, <1>3, <1>4, <1>6, <1>7, WritesSame DEF r

LEMMA BeginEffect ==
  ASSUME LedgerInv, NEW w \in Workers, BeginStage(w)
  PROVE  Effect
<1> DEFINE o == run[w]
           r == [o EXCEPT !.result = Begun(o)]
           builds == r.mode = "run" \/ (r.mode = "rerun" /\ r.stage = "scenario")
           prompt == IF builds THEN BuildPrompt(r) ELSE r.result.prompt[r.stage]
           to(pc) == [r EXCEPT !.pc = pc]
           asks(pc) == [r EXCEPT !.pc = pc, !.prompt = prompt]
<1>1. /\ ~At(w, "idle") /\ o.pc = "begin" /\ UNCHANGED analyses
      /\ UpdateResult(o.job, Begun(o))
  <2>1. ~At(w, "idle") /\ o.pc = "begin"
    BY DEF BeginStage, At
  <2>2. r.job = o.job /\ r.result = Begun(o)
    BY <2>1, BusyFollows DEF Runs
  <2> QED
    BY <2>1, <2>2 DEF BeginStage
<1>2. o \in Runs /\ Follows(o, row[o.job], AnalysesOf(o.job))
  BY <1>1, BusyFollows
<1>3. Begun(o) \in Results /\ Begun(o).packet = o.result.packet /\ Begun(o).final = o.result.final
  BY <1>2, BegunType, BegunShows
<1>4. /\ r \in Runs /\ r.job = o.job /\ r.mode = o.mode /\ r.stage = o.stage
      /\ r.candidate = o.candidate /\ r.result = Begun(o)
  BY <1>2, <1>3 DEF Runs
<1>5. \/ r.stage \in PreModel /\ Move(w, to("work"))
      \/ r.stage = "persistence" /\ Move(w, to("check"))
      \/ /\ r.stage \in ModelStages
         /\ \/ Move(w, Raise(r, "integrity")) \/ Move(w, asks("gate"))
            \/ Move(w, asks("freeze")) \/ Move(w, to("complete"))
  BY DEF BeginStage
<1> HIDE DEF r, prompt
<1>6. \A pc : Same(to(pc), r) /\ to(pc).pc = pc /\ Same(asks(pc), r) /\ asks(pc).pc = pc
  BY <1>4 DEF Same, Runs
<1>7. Same(Raise(r, "integrity"), r) /\ Raise(r, "integrity").pc = "fail"
  BY <1>4, RaiseSame
<1> HIDE DEF to, asks, o
<1>8. PICK q :
        /\ Move(w, q) /\ Same(q, r)
        /\ \/ q.pc = "work" /\ r.stage \in PreModel
           \/ q.pc = "check" /\ r.stage = "persistence"
           \/ q.pc \in {"fail", "gate", "freeze", "complete"} /\ r.stage \in ModelStages
  BY <1>5, <1>6, <1>7
<1>9. Same(q, o)
  BY <1>3, <1>4, <1>8 DEF Same
<1>10. /\ Begun(o).packet = row[o.job].result.packet
       /\ Begun(o).final = row[o.job].result.final
  BY <1>1, <1>2, <1>3 DEF Follows, PacketKnown, FinalKnown
<1>11. ASSUME NEW ro, ro.status = "running", ro.result = Begun(o)
       PROVE  Follows(q, ro, AnalysesOf(o.job))
  <2>1. /\ ro.result.packet = row[o.job].result.packet
        /\ ro.result.final = row[o.job].result.final
    BY <1>10, <1>11
  <2>2. r.stage = o.stage
    BY <1>4
  <2> QED
    BY <1>1, <1>2, <1>8, <1>9, <1>11, <2>1, <2>2
    DEF Follows, Same, PacketKnown, FinalKnown, Placed, Past, ModelStages, PreModel
<1> QED
  BY <1>1, <1>8, <1>9, <1>10, <1>11, WritesSame DEF o, Same

LEMMA FreezeEffect ==
  ASSUME LedgerInv, NEW w \in Workers, FreezePrompt(w)
  PROVE  Effect
<1> DEFINE r == run[w]
           q == [r EXCEPT !.pc = "gate", !.result = Frozen(r)]
<1>1. ~At(w, "idle") /\ r.pc = "freeze" /\ UNCHANGED analyses
  BY DEF FreezePrompt, At
<1>2. /\ r \in Runs /\ Follows(r, row[r.job], AnalysesOf(r.job))
      /\ row[r.job] \in Rows /\ row[r.job].status = "running"
      /\ row \in [Jobs -> Rows] /\ \A v \in Workers \ {w} : run[v].job # r.job
  BY <1>1, BusyFollows DEF Follows, LedgerInv, SingleOK, TypedOK, TypeOK
<1>3. PICK j \in Jobs : j = r.job
  BY <1>1, BusyFollows
<1>4. /\ OwnRow(j) /\ row'[j].status = "running"
      /\ row'[j].result.packet = row[j].result.packet
      /\ row'[j].result.final = row[j].result.final
  <2>1. CASE UNCHANGED row
    BY <1>2, <1>3, <2>1 DEF OwnRow
  <2>2. CASE row' = [row EXCEPT ![r.job].result.prompt[r.stage] = r.prompt]
    <3>1. row'[j] = [row[j] EXCEPT !.result.prompt[r.stage] = r.prompt]
      BY <1>2, <1>3, <2>2
    <3>2. row[j] \in Rows
      BY <1>2, <1>3
    <3>3. /\ row'[j].status = "running" /\ row'[j].result.packet = row[j].result.packet
          /\ row'[j].result.final = row[j].result.final
      BY <1>2, <1>3, <3>1, <3>2 DEF Rows, Results
    <3>4. \A i \in Jobs : i # j => row'[i] = row[i]
      BY <1>2, <1>3, <2>2
    <3> QED
      BY <3>3, <3>4 DEF OwnRow
  <2> QED
    BY <2>1, <2>2 DEF FreezePrompt
<1>5. /\ Same(q, r) /\ q.pc = "gate"
      /\ Same(Raise(r, "integrity"), r) /\ Raise(r, "integrity").pc = "fail"
  BY <1>2, RaiseSame, FrozenShows DEF Same, Runs
<1>6. Move(w, q) \/ Move(w, Raise(r, "integrity"))
  BY DEF FreezePrompt
<1> HIDE DEF q, r
<1>7. PICK m : Move(w, m) /\ Same(m, r) /\ m.pc \in {"gate", "fail"}
  BY <1>5, <1>6
<1>8. Follows(m, row'[j], AnalysesOf(j))
  BY <1>1, <1>2, <1>3, <1>4, <1>7, SameFollows DEF Elsewhere
<1>9. Growing /\ UNCHANGED Ledger!lvars
  BY <1>1, <1>4, Unseen
<1>10. (AnalysesOf(j))' = AnalysesOf(j)
  BY <1>1 DEF AnalysesOf
<1>11. FollowsAll' /\ AbsentEmpty'
  BY <1>2, <1>3, <1>4, <1>7, <1>8, <1>9, <1>10, Continues DEF Same
<1> QED
  BY <1>9, <1>11 DEF Effect

(* _complete_stage: the packet stage of a fresh run fixes the input.       *)
LEMMA CompleteEffect ==
  ASSUME LedgerInv, NEW w \in Workers, CompleteStage(w)
  PROVE  Effect
<1> DEFINE r == run[w]
           q == [r EXCEPT !.pc = "begin", !.result = Completed(r),
                   !.stage = StageAfter(@), !.prompt = NoPrompt, !.attempt = 0,
                   !.answer = {}, !.raw = 0, !.rejected = FALSE]
<1>1. /\ ~At(w, "idle") /\ r.pc = "complete" /\ UNCHANGED analyses /\ Move(w, q)
      /\ UpdateResult(r.job, Completed(r))
  BY DEF CompleteStage, At
<1>2. /\ r \in Runs /\ Follows(r, row[r.job], AnalysesOf(r.job))
      /\ \A v \in Workers \ {w} : run[v].job # r.job
  BY <1>1, BusyFollows
<1>3. /\ q.pc = "begin" /\ q.job = r.job /\ q.mode = r.mode /\ q.stage = StageAfter(r.stage)
      /\ q.candidate = r.candidate /\ q.result = Completed(r)
      /\ r.candidate \in Packets /\ r.stage \in Stages
  BY <1>2 DEF Runs
<1>4. /\ Completed(r).packet = IF r.stage = "packet" THEN r.candidate ELSE r.result.packet
      /\ Completed(r).final = r.result.final
  BY <1>2, CompletedShows
<1>5. PICK j \in Jobs : j = r.job
  BY <1>1, BusyFollows
<1>6. OwnRow(j) /\ row'[j].status = "running" /\ row'[j].result = Completed(r)
  BY <1>1, <1>5, Written
<1> HIDE DEF r, q
<1>7. Completed(r).final = row[j].result.final /\ Completed(r).final = 0
  BY <1>1, <1>2, <1>4, <1>5 DEF Follows, FinalKnown
<1>8. Follows(q, row'[j], AnalysesOf(j))
  <2>1. CASE Past(r)
    <3>1. Past(q) /\ (q.mode = "run" => q.stage \notin PreModel) /\ q.stage \notin PreModel
      BY <1>1, <1>2, <1>3, <2>1
      DEF Follows, Placed, Past, StageAfter, Stages, ModelStages, PreModel
    <3> QED
      BY <1>1, <1>2, <1>3, <1>4, <1>5, <1>6, <1>7, <2>1, <3>1
      DEF Follows, PacketKnown, FinalKnown, Placed
  <2>2. CASE ~Past(r) /\ r.stage = "packet"
    <3>1. q.stage = "qualitative" /\ Past(q) /\ r.candidate # 0
      BY <1>2, <1>3, <2>2 DEF Follows, PacketKnown, Past, StageAfter, ModelStages
    <3> QED
      BY <1>1, <1>2, <1>3, <1>4, <1>5, <1>6, <1>7, <2>2, <3>1
      DEF Follows, PacketKnown, FinalKnown, Placed, PreModel
  <2>3. CASE ~Past(r) /\ r.stage # "packet"
    <3>1. /\ ~Past(q) /\ r.stage \in {"refresh", "deterministic", "readiness"} /\ q.mode = "run"
          /\ q.stage \in {"readiness", "packet"} => r.stage \in {"deterministic", "readiness"}
      BY <1>3, <2>3 DEF Past, StageAfter, Stages, ModelStages
    <3> QED
      BY <1>1, <1>2, <1>3, <1>4, <1>5, <1>6, <1>7, <2>3, <3>1
      DEF Follows, PacketKnown, FinalKnown, Placed
  <2> QED
    BY <2>1, <2>2, <2>3
<1>9. Growing /\ (Ledger!Next \/ UNCHANGED Ledger!lvars)
  <2>1. CASE Completed(r).packet = row[j].result.packet
    BY <1>1, <1>6, <1>7, <2>1, Unseen
  <2>2. CASE Completed(r).packet # row[j].result.packet
    <3>1. row[j].result.packet = 0 /\ Completed(r).packet \in 1 .. MaxEvidence
      BY <1>1, <1>2, <1>3, <1>4, <1>5, <2>2, BoundsAssumption
      DEF Follows, PacketKnown, Packets
    <3>2. PICK p \in 1 .. MaxEvidence : p = Completed(r).packet
      BY <3>1
    <3> QED
      BY <1>1, <1>6, <1>7, <3>1, <3>2, FixShown
  <2> QED
    BY <2>1, <2>2
<1>10. (AnalysesOf(j))' = AnalysesOf(j)
  BY <1>1 DEF AnalysesOf
<1>11. FollowsAll' /\ AbsentEmpty'
  BY <1>1, <1>2, <1>3, <1>5, <1>6, <1>8, <1>9, <1>10, Continues
<1> QED
  BY <1>9, <1>11 DEF Effect

LEMMA CheckEffect ==
  ASSUME LedgerInv, NEW w \in Workers, CheckPersisted(w) \/ ReadRevision(w)
  PROVE  Effect
<1> DEFINE r == run[w]
           save == [r EXCEPT !.pc = "save"]
           found(i) == [r EXCEPT !.pc = "revision", !.found = i]
           read == [r EXCEPT !.pc = "finish"]
<1>1. ~At(w, "idle") /\ UNCHANGED <<row, analyses>>
  BY DEF CheckPersisted, ReadRevision, At, store
<1>2. r \in Runs /\ Follows(r, row[r.job], AnalysesOf(r.job))
  BY <1>1, BusyFollows
<1>3. /\ Same(save, r) /\ save.pc = "save"
      /\ \A i \in AnalysesOf(r.job) :
           Same(found(i), r) /\ found(i).pc = "revision" /\ found(i).found = i
      /\ Same(read, r) /\ read.pc = "finish" /\ read.found = r.found
  BY <1>2 DEF Same, Runs
<1>4. \/ r.pc = "check" /\ Move(w, save)
      \/ r.pc = "check" /\ \E i \in AnalysesOf(r.job) : Move(w, found(i))
      \/ r.pc = "revision" /\ Move(w, read)
  BY DEF CheckPersisted, ReadRevision, At
<1> HIDE DEF r, save, found, read
<1>5. PICK q : /\ Move(w, q) /\ Same(q, r) /\ r.pc \in {"check", "revision"}
               /\ q.pc \in {"save", "revision", "finish"}
               /\ q.pc # "save" => q.found \in AnalysesOf(r.job)
  BY <1>2, <1>3, <1>4 DEF Follows, FinalKnown
<1>6. Follows(q, row[r.job], AnalysesOf(r.job))
  BY <1>2, <1>5
  DEF Follows, Same, PacketKnown, FinalKnown, Placed, Past, ModelStages, PreModel
<1> QED
  BY <1>1, <1>5, <1>6, Thinks DEF r, Same

(* The analysis of the frozen packet enters the ledger.                    *)
LEMMA SaveEffect ==
  ASSUME LedgerInv, NEW w \in Workers, SaveAnalysis(w)
  PROVE  Effect
<1> DEFINE r == run[w]
           e == [job |-> r.job, packet |-> r.candidate,
                 qualitative |-> r.result.artifact["qualitative"],
                 scenario |-> r.result.artifact["scenario"]]
           q == [r EXCEPT !.pc = "revision", !.found = Len(analyses) + 1]
<1>1. ~At(w, "idle") /\ r.pc = "save" /\ UNCHANGED row
  BY DEF SaveAnalysis, At
<1>2. /\ r \in Runs /\ r.job \in Jobs /\ Follows(r, row[r.job], AnalysesOf(r.job))
      /\ \A v \in Workers \ {w} : run[v].job # r.job
      /\ row[r.job].status = "running" /\ analyses \in Seq(SavedAnalyses)
      /\ AnalysesOf(r.job) = {}
  BY <1>1, BusyFollows DEF Follows, LedgerInv, SingleOK, TypedOK, TypeOK, Exclusive, At
<1>3. CASE Move(w, Raise(r, "validation")) /\ UNCHANGED analyses
  BY <1>1, <1>3, RaisesOn
<1>4. CASE analyses' = Append(analyses, e) /\ Move(w, q)
  <2>1. PICK j \in Jobs : j = r.job
    BY <1>2
  <2>2. PICK entry \in SavedAnalyses : entry = e
    <3>1. /\ r.candidate \in Packets /\ r.result.artifact["qualitative"] \in Nat
          /\ r.result.artifact["scenario"] \in Nat
      BY <1>2 DEF Runs, Results, ModelStages
    <3> QED
      BY <1>2, <3>1 DEF SavedAnalyses
  <2>3. Same(q, r) /\ q.pc = "revision" /\ q.found = Len(analyses) + 1
    BY <1>2 DEF Same, Runs
  <2>4. entry.job = j /\ entry.packet = r.candidate
    BY <2>1, <2>2
  <2> HIDE DEF r, e, q
  <2>5. r.stage = "persistence" /\ Past(r) /\ r.candidate # 0 /\ r.candidate = row[j].result.packet
    BY <1>1, <1>2, <2>1 DEF Follows, PacketKnown, Placed, Past
  <2>6. Growing /\ Ledger!Next /\ Len(analyses) + 1 \in (AnalysesOf(j))'
    BY <1>1, <1>2, <1>4, <2>1, <2>2, <2>4, <2>5, PublishShown
  <2>7. OwnRow(j)
    BY <1>1, <1>2, <2>1 DEF OwnRow
  <2>8. Follows(q, row'[j], (AnalysesOf(j))')
    BY <1>1, <1>2, <2>1, <2>3, <2>5, <2>6
    DEF Follows, Same, PacketKnown, FinalKnown, Placed, Past, PreModel
  <2>9. FollowsAll' /\ AbsentEmpty'
    BY <1>2, <1>4, <2>1, <2>3, <2>6, <2>7, <2>8, Continues DEF Same
  <2> QED
    BY <2>6, <2>9 DEF Effect
<1> QED
  BY <1>3, <1>4 DEF SaveAnalysis

(* The job names the analysis it found or saved.                           *)
LEMMA FinishEffect ==
  ASSUME LedgerInv, NEW w \in Workers, FinishResult(w)
  PROVE  Effect
<1> DEFINE r == run[w]
           q == [r EXCEPT !.pc = "close", !.result = Finished(r)]
<1>1. /\ ~At(w, "idle") /\ r.pc = "finish" /\ UNCHANGED analyses /\ Move(w, q)
      /\ UpdateResult(r.job, Finished(r))
  BY DEF FinishResult, At
<1>2. /\ r \in Runs /\ Follows(r, row[r.job], AnalysesOf(r.job))
      /\ \A v \in Workers \ {w} : run[v].job # r.job
  BY <1>1, BusyFollows
<1>3. /\ q.pc = "close" /\ q.job = r.job /\ q.mode = r.mode /\ q.stage = r.stage
      /\ q.candidate = r.candidate /\ q.result = Finished(r)
  BY <1>2 DEF Runs
<1>4. Finished(r).packet = r.result.packet /\ Finished(r).final = r.found
  BY <1>2, FinishedShows
<1>5. PICK j \in Jobs : j = r.job
  BY <1>1, BusyFollows
<1>6. OwnRow(j) /\ row'[j].status = "running" /\ row'[j].result = Finished(r)
  BY <1>1, <1>5, Written
<1> HIDE DEF r, q
<1>7. /\ row[j].result.final = 0 /\ r.found \in AnalysesOf(j)
      /\ Finished(r).packet = row[j].result.packet
  BY <1>1, <1>2, <1>4, <1>5 DEF Follows, PacketKnown, FinalKnown
<1>8. PICK i \in AnalysesOf(j) : i = r.found
  BY <1>7
<1>9. Growing /\ Ledger!Next
  BY <1>1, <1>4, <1>6, <1>7, <1>8, NameShown
<1>10. (AnalysesOf(j))' = AnalysesOf(j)
  BY <1>1 DEF AnalysesOf
<1>11. Follows(q, row'[j], AnalysesOf(j))
  BY <1>1, <1>2, <1>3, <1>4, <1>5, <1>6
  DEF Follows, PacketKnown, FinalKnown, Placed, Past, PreModel
<1>12. FollowsAll' /\ AbsentEmpty'
  BY <1>1, <1>2, <1>3, <1>5, <1>6, <1>9, <1>10, <1>11, Continues
<1> QED
  BY <1>9, <1>12 DEF Effect

(* The job ends: with the analysis its row already names, or with whatever *)
(* a failing call left in memory and not in the row.                       *)
LEMMA CloseEffect ==
  ASSUME LedgerInv, NEW w \in Workers, CloseJob(w)
  PROVE  Effect
<1> DEFINE r == run[w]
<1>1. /\ ~At(w, "idle") /\ r.pc = "close" /\ UNCHANGED analyses /\ Move(w, Idle)
      /\ row' = [row EXCEPT ![r.job] = [status |-> "success", result |-> Closed(r)]]
  BY DEF CloseJob, At
<1>2. /\ r \in Runs /\ Follows(r, row[r.job], AnalysesOf(r.job))
      /\ \A v \in Workers \ {w} : run[v].job # r.job
      /\ row \in [Jobs -> Rows]
  BY <1>1, BusyFollows DEF LedgerInv, SingleOK, TypedOK, TypeOK
<1>3. Closed(r).packet = r.result.packet /\ Closed(r).final = r.result.final
  BY <1>2, ClosedShows
<1>4. PICK j \in Jobs : j = r.job
  BY <1>1, BusyFollows
<1>5. OwnRow(j) /\ row'[j].result = Closed(r)
  BY <1>1, <1>2, <1>4 DEF OwnRow
<1>6. /\ Closed(r).packet = row[j].result.packet /\ Closed(r).final = row[j].result.final
  <2> HIDE DEF r
  <2>1. r.stage = "persistence" /\ Past(r)
    BY <1>1, <1>2 DEF Follows, Placed, Past
  <2> QED
    BY <1>1, <1>2, <1>3, <1>4, <2>1 DEF Follows, PacketKnown, FinalKnown
<1>7. Growing /\ UNCHANGED Ledger!lvars
  BY <1>1, <1>5, <1>6, Unseen
<1>8. Idle.pc = "idle"
  BY DEF Idle
<1>9. FollowsAll' /\ AbsentEmpty'
  BY <1>1, <1>2, <1>4, <1>5, <1>7, <1>8, Continues
<1> QED
  BY <1>7, <1>9 DEF Effect

LEMMA FailEffect ==
  ASSUME LedgerInv, NEW w \in Workers, FailJob(w)
  PROVE  Effect
<1> DEFINE r == run[w]
<1>1. /\ ~At(w, "idle") /\ r.pc = "fail" /\ UNCHANGED analyses /\ Move(w, Idle)
      /\ row' = [row EXCEPT ![r.job] = [status |-> "failed", result |-> Failed(r)]]
  BY DEF FailJob, At
<1>2. /\ r \in Runs /\ Follows(r, row[r.job], AnalysesOf(r.job))
      /\ \A v \in Workers \ {w} : run[v].job # r.job
      /\ row \in [Jobs -> Rows]
  BY <1>1, BusyFollows DEF LedgerInv, SingleOK, TypedOK, TypeOK
<1>3. Failed(r).packet = r.result.packet /\ Failed(r).final = r.result.final
  BY <1>2, FailedShows
<1>4. PICK j \in Jobs : j = r.job
  BY <1>1, BusyFollows
<1>5. OwnRow(j) /\ row'[j].result = Failed(r)
  BY <1>1, <1>2, <1>4 DEF OwnRow
<1>6. r.candidate \in Packets
  BY <1>2 DEF Runs
<1> HIDE DEF r
<1>7. Growing /\ (Ledger!Next \/ UNCHANGED Ledger!lvars)
  <2>1. CASE /\ r.result.packet = row[j].result.packet
             /\ r.result.final = row[j].result.final
    BY <1>1, <1>3, <1>5, <2>1, Unseen
  <2>2. CASE r.result.packet # row[j].result.packet
    <3>1. /\ row[j].result.packet = 0 /\ r.result.packet \in 1 .. MaxEvidence
          /\ r.result.final = row[j].result.final
      BY <1>1, <1>2, <1>4, <1>6, <2>2, BoundsAssumption
      DEF Follows, PacketKnown, FinalKnown, Packets
    <3>2. PICK p \in 1 .. MaxEvidence : p = r.result.packet
      BY <3>1
    <3> QED
      BY <1>1, <1>3, <1>5, <3>1, <3>2, FixShown
  <2>3. CASE r.result.final # row[j].result.final
    <3>1. /\ row[j].result.final = 0 /\ r.result.final \in AnalysesOf(j)
          /\ r.result.packet = row[j].result.packet
      BY <1>1, <1>2, <1>4, <2>3 DEF Follows, PacketKnown, FinalKnown
    <3>2. PICK i \in AnalysesOf(j) : i = r.result.final
      BY <3>1
    <3> QED
      BY <1>1, <1>3, <1>5, <3>1, <3>2, NameShown
  <2> QED
    BY <2>1, <2>2, <2>3
<1>8. Idle.pc = "idle"
  BY DEF Idle
<1>9. FollowsAll' /\ AbsentEmpty'
  BY <1>1, <1>2, <1>4, <1>5, <1>7, <1>8, Continues DEF r
<1> QED
  BY <1>7, <1>9 DEF Effect
-----------------------------------------------------------------------------
LEMMA MarkEffect ==
  ASSUME LedgerInv, NEW w \in Workers, MarkRunning(w)
  PROVE  Effect
<1> DEFINE r == run[w]
           q == [r EXCEPT !.pc = "marked"]
<1>1. /\ ~At(w, "idle") /\ r.pc = "mark" /\ UNCHANGED analyses /\ Move(w, q)
      /\ row' = [row EXCEPT ![r.job].status = "running"]
  BY DEF MarkRunning, At
<1>2. /\ r \in Runs /\ Follows(r, row[r.job], AnalysesOf(r.job))
      /\ \A v \in Workers \ {w} : run[v].job # r.job
      /\ row \in [Jobs -> Rows]
  BY <1>1, BusyFollows DEF LedgerInv, SingleOK, TypedOK, TypeOK
<1>3. Same(q, r) /\ q.pc = "marked"
  BY <1>2 DEF Same, Runs
<1>4. PICK j \in Jobs : j = r.job
  BY <1>1, BusyFollows
<1>5. OwnRow(j) /\ row'[j].status = "running" /\ row'[j].result = row[j].result
  BY <1>1, <1>2, <1>4 DEF OwnRow, Rows
<1>6. Growing /\ UNCHANGED Ledger!lvars
  BY <1>1, <1>5, Unseen
<1>7. (AnalysesOf(j))' = AnalysesOf(j)
  BY <1>1 DEF AnalysesOf
<1> HIDE DEF r, q
<1>8. Follows(q, row'[j], AnalysesOf(j))
  BY <1>1, <1>2, <1>3, <1>4, <1>5
  DEF Follows, Same, PacketKnown, FinalKnown, Placed, Past
<1>9. FollowsAll' /\ AbsentEmpty'
  BY <1>1, <1>2, <1>3, <1>4, <1>5, <1>6, <1>7, <1>8, Continues DEF r, Same
<1> QED
  BY <1>6, <1>9 DEF Effect

LEMMA ResumedEffect ==
  ASSUME LedgerInv, NEW w \in Workers, WriteResumed(w)
  PROVE  Effect
<1> DEFINE r == run[w]
           q == [r EXCEPT !.pc = "verify"]
<1>1. /\ ~At(w, "idle") /\ r.pc = "marked" /\ UNCHANGED analyses /\ Move(w, q)
      /\ UpdateResult(r.job, r.result)
  BY DEF WriteResumed, At
<1>2. r \in Runs /\ Follows(r, row[r.job], AnalysesOf(r.job))
  BY <1>1, BusyFollows
<1>3. Same(q, r) /\ q.pc = "verify"
  BY <1>2 DEF Same, Runs
<1> HIDE DEF r, q
<1>4. r.mode # "run" /\ Past(r)
  BY <1>1, <1>2 DEF Follows, Placed, Past
<1>5. /\ r.result.packet = row[r.job].result.packet
      /\ r.result.final = row[r.job].result.final
  BY <1>1, <1>2, <1>4 DEF Follows, PacketKnown, FinalKnown
<1>6. ASSUME NEW ro, ro.status = "running", ro.result = r.result
      PROVE  Follows(q, ro, AnalysesOf(r.job))
  BY <1>1, <1>2, <1>3, <1>4, <1>5, <1>6, SameFollows DEF Elsewhere
<1> QED
  BY <1>1, <1>3, <1>5, <1>6, WritesSame DEF r, Same

LEMMA VerifyEffect ==
  ASSUME LedgerInv, NEW w \in Workers, VerifyInputs(w) \/ Rehydrate(w)
  PROVE  Effect
<1> DEFINE r == run[w]
           checked == [r EXCEPT !.pc = "rehydrate"]
           again == [r EXCEPT !.pc = "begin", !.mode = "rerun", !.stage = "qualitative"]
           to(stage) == [r EXCEPT !.pc = "begin", !.stage = stage]
<1>1. ~At(w, "idle") /\ r.pc \in {"verify", "rehydrate"} /\ UNCHANGED <<row, analyses>>
  BY DEF VerifyInputs, Rehydrate, At, store
<1>2. r \in Runs /\ Follows(r, row[r.job], AnalysesOf(r.job))
  BY <1>1, BusyFollows
<1>3. /\ checked.pc = "rehydrate" /\ Same(checked, r)
      /\ again.pc = "begin" /\ again.mode = "rerun" /\ again.stage = "qualitative"
      /\ again.job = r.job /\ again.candidate = r.candidate /\ again.result = r.result
      /\ \A s \in {"persistence", "scenario"} :
           /\ to(s).pc = "begin" /\ to(s).stage = s /\ to(s).mode = r.mode
           /\ to(s).job = r.job /\ to(s).candidate = r.candidate /\ to(s).result = r.result
  BY <1>2 DEF Same, Runs
<1>4. \/ \E kind : Move(w, Raise(r, kind))
      \/ Move(w, checked) \/ Move(w, again)
      \/ \E s \in {"persistence", "scenario"} : Move(w, to(s))
  BY DEF VerifyInputs, Rehydrate
<1> HIDE DEF checked, again, to
<1>5. CASE \E kind : Move(w, Raise(r, kind))
  BY <1>1, <1>5, RaisesOn
<1> HIDE DEF r
<1>6. CASE Move(w, checked) \/ Move(w, again)
           \/ \E s \in {"persistence", "scenario"} : Move(w, to(s))
  <2>1. PICK q :
          /\ Move(w, q) /\ q.job = r.job /\ q.candidate = r.candidate
          /\ q.result.packet = r.result.packet /\ q.result.final = r.result.final
          /\ \/ q.pc = "rehydrate" /\ q.mode = r.mode
             \/ /\ q.pc = "begin" /\ q.stage \in ModelStages \cup {"persistence"}
                /\ q.mode \in {r.mode, "rerun"}
    BY <1>3, <1>6 DEF Same, ModelStages
  <2>2. r.mode # "run" /\ Past(r) /\ q.mode # "run" /\ Past(q)
    BY <1>1, <1>2, <2>1 DEF Follows, Placed, Past
  <2>3. Follows(q, row[r.job], AnalysesOf(r.job))
    BY <1>1, <1>2, <2>1, <2>2
    DEF Follows, PacketKnown, FinalKnown, Placed, ModelStages, PreModel
  <2> QED
    BY <1>1, <2>1, <2>3, Thinks DEF r
<1> QED
  BY <1>4, <1>5, <1>6
-----------------------------------------------------------------------------
(* What the memory of a run holds when the call of its step raises.        *)
LEMMA InMemoryShows ==
  ASSUME NEW r \in Runs
  PROVE  LET res == InMemory(r)
         IN  \/ res.packet = r.result.packet /\ res.final = r.result.final
             \/ /\ r.pc = "complete" /\ r.stage = "packet"
                /\ res.packet = r.candidate /\ res.final = r.result.final
             \/ r.pc = "finish" /\ res.packet = r.result.packet /\ res.final = r.found
<1>1. CASE r.pc = "begin"
  BY <1>1, BegunShows DEF InMemory
<1>2. CASE r.pc = "freeze"
  BY <1>2, FrozenShows DEF InMemory
<1>3. CASE r.pc = "complete"
  BY <1>3, CompletedShows DEF InMemory
<1>4. CASE r.pc = "record"
  BY <1>4, RecordedShows DEF InMemory
<1>5. CASE r.pc = "finish"
  BY <1>5, FinishedShows DEF InMemory
<1>6. CASE r.pc = "close"
  BY <1>6, ClosedShows DEF InMemory
<1>7. CASE r.pc \notin {"begin", "freeze", "complete", "record", "finish", "close"}
  BY <1>7 DEF InMemory
<1> QED
  BY <1>1, <1>2, <1>3, <1>4, <1>5, <1>6, <1>7

LEMMA StopEffect ==
  ASSUME LedgerInv, NEW w \in Workers, ~At(w, "idle"), Move(w, Idle),
         UNCHANGED <<row, analyses>>
  PROVE  Effect
BY Thinks DEF Idle

(* A failed call leaves in memory what the row has not: the packet, or the *)
(* final analysis, of the write that was lost.                             *)
LEMMA FaultEffect ==
  ASSUME LedgerInv, NEW w \in Workers, Fault(w)
  PROVE  Effect
<1> DEFINE r == run[w]
           q(res) == Raise([r EXCEPT !.result = res], "other")
<1>1. ~At(w, "idle") /\ UNCHANGED <<row, analyses>>
  BY DEF Fault, At, store
<1>2. r \in Runs /\ Follows(r, row[r.job], AnalysesOf(r.job))
  BY <1>1, BusyFollows
<1>3. \A res : /\ q(res).pc = "fail" /\ q(res).job = r.job /\ q(res).mode = r.mode
               /\ q(res).stage = r.stage /\ q(res).candidate = r.candidate
               /\ q(res).result = res
  BY <1>2 DEF Raise, Runs
<1>4. CASE Move(w, Idle)
  BY <1>1, <1>4, StopEffect
<1>5. CASE /\ r.pc \notin {"created", "mark", "marked", "fail"}
           /\ \E res \in {InMemory(r), r.result} : Move(w, q(res))
  <2>1. PICK res \in {InMemory(r), r.result} : Move(w, q(res))
    BY <1>5
  <2>2. \/ res.packet = r.result.packet /\ res.final = r.result.final
        \/ /\ r.pc = "complete" /\ r.stage = "packet"
           /\ res.packet = r.candidate /\ res.final = r.result.final
        \/ r.pc = "finish" /\ res.packet = r.result.packet /\ res.final = r.found
    BY <1>2, <2>1, InMemoryShows
  <2> DEFINE m == q(res)
  <2>3. /\ m.pc = "fail" /\ m.job = r.job /\ m.mode = r.mode
        /\ m.stage = r.stage /\ m.candidate = r.candidate /\ m.result = res
    BY <1>3
  <2> HIDE DEF q, m, r
  <2>4. r.pc = "finish" => Past(r)
    BY <1>2 DEF Follows, Placed, Past
  <2>5. Past(m) <=> Past(r)
    BY <2>3 DEF Past
  <2>6. Follows(m, row[r.job], AnalysesOf(r.job))
    <3>1. row[r.job].status = "running"
      BY <1>2, <1>5 DEF Follows
    <3>2. PacketKnown(m, row[r.job].result)
      BY <1>2, <1>5, <2>2, <2>3, <2>4, <2>5 DEF Follows, PacketKnown, Past, ModelStages
    <3>3. FinalKnown(m, row[r.job].result, AnalysesOf(r.job))
      BY <1>2, <1>5, <2>2, <2>3, <2>4, <2>5 DEF Follows, FinalKnown
    <3> QED
      BY <2>3, <3>1, <3>2, <3>3 DEF Follows, Placed
  <2> QED
    BY <1>1, <2>1, <2>3, <2>6, Thinks DEF r, m
<1> QED
  BY <1>4, <1>5 DEF Fault

(* A process takes a job that no other process has.                        *)
LEMMA TakenEffect ==
  ASSUME LedgerInv, NEW w \in Workers, NEW j \in Jobs, NEW q, Move(w, q), Taken(w, j),
         q.job = j, OwnRow(j), row'[j].result = row[j].result,
         Follows(q, row'[j], AnalysesOf(j))
  PROVE  Effect
<1>1. UNCHANGED analyses /\ \A v \in Workers \ {w} : run[v].job # j
  BY DEF Taken
<1>2. Growing /\ UNCHANGED Ledger!lvars
  BY <1>1, Unseen
<1>3. (AnalysesOf(j))' = AnalysesOf(j)
  BY <1>1 DEF AnalysesOf
<1>4. FollowsAll' /\ AbsentEmpty'
  BY <1>1, <1>2, <1>3, Continues
<1> QED
  BY <1>2, <1>4 DEF Effect

LEMMA StartEffect ==
  ASSUME LedgerInv, NEW w \in Workers, NEW j \in Jobs, Start(w, j)
  PROVE  Effect
<1> DEFINE q == [Idle EXCEPT !.pc = "created", !.job = j, !.release = release]
<1>1. Taken(w, j) /\ Move(w, q) /\ row' = [row EXCEPT ![j].status = "running"]
  BY StartTakes DEF LedgerInv, Start
<1>2. row \in [Jobs -> Rows] /\ row[j].result.packet = 0 /\ row[j].result.final = 0
  BY DEF LedgerInv, SingleOK, TypedOK, TypeOK, AbsentEmpty, Start
<1>3. OwnRow(j) /\ row'[j].status = "running" /\ row'[j].result = row[j].result
  BY <1>1, <1>2 DEF OwnRow, Rows
<1>4. /\ q.job = j /\ q.pc = "created" /\ q.mode = "run" /\ q.stage = "refresh"
      /\ q.candidate = 0 /\ q.result.packet = 0 /\ q.result.final = 0
  BY DEF Idle, NoResult
<1> HIDE DEF q
<1>5. Follows(q, row'[j], AnalysesOf(j))
  BY <1>2, <1>3, <1>4
  DEF Follows, PacketKnown, FinalKnown, Placed, Past, ModelStages, PreModel
<1> QED
  BY <1>1, <1>3, <1>4, <1>5, TakenEffect

LEMMA ResumeEffect ==
  ASSUME LedgerInv, OneRunnerPerJob, NEW w \in Workers, NEW j \in Jobs, Resume(w, j)
  PROVE  Effect
<1> DEFINE q == [Idle EXCEPT !.pc = "mark", !.mode = "resume", !.job = j,
                   !.release = release, !.result = row[j].result,
                   !.candidate = row[j].result.packet]
<1>1. /\ Taken(w, j) /\ Move(w, q) /\ UNCHANGED row /\ row[j].status # "absent"
      /\ row[j].result.final = 0 /\ row[j].result.packet # 0 /\ ~Exhausted(row[j].result)
  BY ResumeTakes DEF LedgerInv, Resume, ResumeJob, store
<1>2. OwnRow(j) /\ row'[j].result = row[j].result
  BY <1>1 DEF OwnRow
<1>3. /\ q.job = j /\ q.pc = "mark" /\ q.mode = "resume"
      /\ q.candidate = row[j].result.packet /\ q.result = row[j].result
  BY DEF Idle
<1> HIDE DEF q
<1>4. Follows(q, row'[j], AnalysesOf(j))
  BY <1>1, <1>2, <1>3
  DEF Follows, PacketKnown, FinalKnown, Placed, Past, ModelStages, PreModel
<1> QED
  BY <1>1, <1>2, <1>3, <1>4, TakenEffect
-----------------------------------------------------------------------------
LEMMA InitLedger == Init => LedgerInv /\ Ledger!Init
<1> SUFFICES ASSUME Init PROVE LedgerInv /\ Ledger!Init
  OBVIOUS
<1>1. FollowsAll /\ AbsentEmpty
  BY DEF Init, FollowsAll, AbsentEmpty, At, Idle, NoResult
<1>2. Ledger!Init
  <2>1. [j \in Jobs |-> row[j].result.packet] = [j \in Jobs |-> 0]
    BY DEF Init, NoResult
  <2>2. [j \in Jobs |-> row[j].result.final] = [j \in Jobs |-> 0]
    BY DEF Init, NoResult
  <2>3. [i \in DOMAIN analyses |->
           [job |-> analyses[i].job, input |-> analyses[i].packet]] = <<>>
    BY DEF Init
  <2> QED
    BY <2>1, <2>2, <2>3 DEF Ledger!Init
<1> QED
  BY <1>1, <1>2, InitSingle DEF LedgerInv

LEMMA NextEffect ==
  ASSUME OneRunnerPerJob, LedgerInv, [Next]_vars
  PROVE  Effect
<1>1. ASSUME NEW w \in Workers, Step(w) \/ InterruptModel(w) \/ Fault(w) \/ Crash(w)
      PROVE  Effect
  <2>1. CASE Crash(w)
    BY <2>1, StopEffect DEF Crash, store
  <2> QED
    BY <1>1, <2>1, ModelEffect, JudgeEffect, WorkEffect, RecordEffect, FirstResultEffect,
       BeginEffect, FreezeEffect, CompleteEffect, CheckEffect, SaveEffect, FinishEffect,
       CloseEffect, FailEffect, MarkEffect, ResumedEffect, VerifyEffect, FaultEffect
    DEF Step
<1>2. ASSUME NEW w \in Workers, NEW j \in Jobs, Start(w, j) \/ Resume(w, j)
      PROVE  Effect
  BY <1>2, StartEffect, ResumeEffect
<1>3. ASSUME UNCHANGED <<row, analyses, run>>
      PROVE  Effect
  <2>1. FollowsAll' /\ AbsentEmpty'
    BY <1>3 DEF LedgerInv, FollowsAll, AbsentEmpty, At, AnalysesOf
  <2> QED
    BY <1>3, <2>1 DEF Effect, Ledger!lvars
<1>4. CASE NewEvidence \/ Upgrade \/ UNCHANGED vars
  BY <1>3, <1>4 DEF NewEvidence, Upgrade, store, vars
<1> QED
  BY <1>1, <1>2, <1>3, <1>4 DEF Next

LEMMA NextLedger ==
  ASSUME OneRunnerPerJob
  PROVE  LedgerInv /\ [Next]_vars => LedgerInv' /\ [Ledger!Next]_Ledger!lvars
<1> SUFFICES ASSUME LedgerInv, [Next]_vars
             PROVE  LedgerInv' /\ [Ledger!Next]_Ledger!lvars
  OBVIOUS
<1>1. SingleOK'
  BY NextSingle DEF LedgerInv
<1>2. Effect
  BY NextEffect
<1> QED
  BY <1>1, <1>2 DEF LedgerInv, Effect

(* While the operator runs a job in one process at a time, the pipeline    *)
(* keeps the promise of AnalysisLedger: the packet of a job is fixed once, *)
(* one analysis of exactly that packet enters the table, and the job names *)
(* that analysis, through every failed call, kill and resume (the whole-   *)
(* result writes of _complete_stage, _persist_and_complete and             *)
(* _finish_failure).                                                       *)
THEOREM LedgerImplemented ==
  ASSUME OneRunnerPerJob
  PROVE  Spec => ImplementsLedger
BY InitLedger, NextLedger, PTL DEF Spec, ImplementsLedger, Ledger!Spec
-----------------------------------------------------------------------------
(* A step of a process writes no row but that of its own job.              *)
OthersKept(w) == \A i \in Jobs : i # run[w].job => row'[i] = row[i]

LEMMA UpdateKeeps ==
  ASSUME row \in [Jobs -> Rows], NEW w \in Workers, NEW res, UpdateResult(run[w].job, res)
  PROVE  OthersKept(w)
BY DEF UpdateResult, OthersKept

LEMMA StepKeeps ==
  ASSUME LedgerInv, NEW w \in Workers, Step(w)
  PROVE  ~At(w, "idle") /\ OthersKept(w)
<1>1. ~At(w, "idle")
  BY DEF Step, At, WriteFirstResult, BeginStage, WorkStage, CompleteStage,
     FreezePrompt, EnterModelStage, CallModel, SaveRaw, JudgeAnswer, RecordAttempts,
     CheckPersisted, SaveAnalysis, ReadRevision, FinishResult, CloseJob, FailJob,
     MarkRunning, WriteResumed, VerifyInputs, Rehydrate
<1>2. row \in [Jobs -> Rows] /\ run[w] \in Runs
  BY <1>1, BusyFollows DEF LedgerInv, SingleOK, TypedOK, TypeOK
<1>3. CASE \/ WorkStage(w) \/ EnterModelStage(w) \/ CallModel(w) \/ CheckPersisted(w)
           \/ ReadRevision(w) \/ VerifyInputs(w) \/ Rehydrate(w)
           \/ SaveRaw(w) \/ JudgeAnswer(w) \/ SaveAnalysis(w)
  <2>1. UNCHANGED row
    BY <1>3 DEF WorkStage, EnterModelStage, CallModel, CheckPersisted, ReadRevision,
       VerifyInputs, Rehydrate, SaveRaw, JudgeAnswer, SaveAnalysis, store
  <2> QED
    BY <1>1, <2>1 DEF OthersKept
<1>4. CASE \/ WriteFirstResult(w) \/ CompleteStage(w) \/ RecordAttempts(w)
           \/ FinishResult(w) \/ WriteResumed(w)
  <2>1. \E res : UpdateResult(run[w].job, res)
    BY <1>4 DEF WriteFirstResult, CompleteStage, RecordAttempts, FinishResult, WriteResumed
  <2> QED
    BY <1>1, <1>2, <2>1, UpdateKeeps
<1>5. CASE BeginStage(w)
  <2>1. [run[w] EXCEPT !.result = Begun(run[w])].job = run[w].job
    BY <1>2 DEF Runs
  <2>2. \E res : UpdateResult(run[w].job, res)
    BY <1>5, <2>1 DEF BeginStage
  <2> QED
    BY <1>1, <1>2, <2>2, UpdateKeeps
<1>6. CASE FreezePrompt(w) \/ CloseJob(w) \/ FailJob(w) \/ MarkRunning(w)
  BY <1>1, <1>2, <1>6 DEF FreezePrompt, CloseJob, FailJob, MarkRunning, OthersKept
<1> QED
  BY <1>3, <1>4, <1>5, <1>6 DEF Step

LEMMA ExhaustedKept ==
  ASSUME OneRunnerPerJob, LedgerInv, [Next]_vars,
         NEW j \in Jobs, row[j].status = "failed", Exhausted(row[j].result)
  PROVE  row'[j] = row[j]
<1>1. ASSUME NEW w \in Workers, Step(w)
      PROVE  row'[j] = row[j]
  <2>1. run[w].job # j
    BY <1>1, StepKeeps, BusyFollows DEF Follows
  <2> QED
    BY <1>1, <2>1, StepKeeps DEF OthersKept
<1>2. ASSUME NEW w \in Workers, InterruptModel(w) \/ Fault(w) \/ Crash(w)
      PROVE  UNCHANGED row
  BY <1>2 DEF InterruptModel, Fault, Crash, store
<1>3. ASSUME NEW w \in Workers, NEW i \in Jobs, Start(w, i)
      PROVE  row'[j] = row[j]
  <2>1. i # j
    BY <1>3 DEF Start
  <2> QED
    BY <1>3, <2>1 DEF Start, LedgerInv, SingleOK, TypedOK, TypeOK
<1>4. ASSUME NEW w \in Workers, NEW i \in Jobs, Resume(w, i)
      PROVE  UNCHANGED row
  BY <1>4 DEF Resume, store
<1>5. CASE NewEvidence \/ Upgrade \/ UNCHANGED vars
  BY <1>5 DEF NewEvidence, Upgrade, store, vars
<1> QED
  BY <1>1, <1>2, <1>3, <1>4, <1>5 DEF Next

(* A job that failed with its validation attempts exhausted is history:    *)
(* no process has it, resume refuses it, and so no write reaches its row   *)
(* (_validation_attempts_exhausted in resume, the status guard of          *)
(* update_result).                                                         *)
THEOREM ExhaustedStays ==
  ASSUME OneRunnerPerJob
  PROVE  Spec => ExhaustedIsHistory
<1>1. Spec => []LedgerInv
  BY InitLedger, NextLedger, PTL DEF Spec
<1>2. LedgerInv /\ [Next]_vars =>
        [\A j \in Jobs :
           (row[j].status = "failed" /\ Exhausted(row[j].result)) => row'[j] = row[j]]_vars
  BY ExhaustedKept
<1> QED
  BY <1>1, <1>2, PTL DEF Spec, ExhaustedIsHistory
-----------------------------------------------------------------------------
(* What the rows and the processes owe their prompts.  A prompt in a       *)
(* result asks about the packet of that result, and one of a scenario      *)
(* about the accepted qualitative answer.                                  *)
PromptsOK(res) ==
  /\ \A s \in ModelStages : res.prompt[s] # NoPrompt => res.prompt[s].packet = res.packet
  /\ res.prompt["qualitative"].basis = 0
  /\ res.prompt["scenario"] # NoPrompt =>
       Grounded(res) /\ res.prompt["scenario"].basis = res.artifact["qualitative"]

(* The prompt in hand is one for the result in memory.                     *)
Fitting(r) ==
  /\ r.prompt.packet = r.result.packet
  /\ r.prompt.basis = IF r.stage = "scenario" THEN r.result.artifact["qualitative"] ELSE 0

Asking == {"gate", "call", "saveRaw", "judge"}

(* What may be missing before a stage, and what must be there in it.       *)
Sound(r) ==
  /\ PromptsOK(r.result)
  /\ r.pc = "created" => r.result = NoResult
  /\ r.pc \in InStage /\ r.stage \in PreModel \cup {"qualitative"} =>
       r.result.prompt["scenario"] = NoPrompt
  /\ r.pc \in InStage /\ r.stage \in PreModel => r.result.prompt["qualitative"] = NoPrompt
  /\ r.pc = "rehydrate" \/ (r.pc \in InStage /\ r.stage = "scenario") => Grounded(r.result)
  /\ r.pc = "begin" /\ r.mode = "rerun" /\ r.stage = "qualitative" =>
       r.result.prompt["qualitative"] # NoPrompt
  /\ r.pc = "freeze" => r.prompt # NoPrompt /\ Fitting(r)
  /\ r.pc \in Asking => r.result.prompt[r.stage] # NoPrompt /\ Fitting(r)
  /\ r.pc \in {"judge", "complete"} /\ r.stage = "qualitative" => r.raw # 0

(* Only a run that is about to record its failure may have in memory what  *)
(* its row has not.                                                        *)
RunnerSound(w) ==
  run[w].pc # "idle" =>
    /\ Sound(run[w])
    /\ run[w].pc # "fail" => row[run[w].job].result = run[w].result

RowSound(j) ==
  PromptsOK(row[j].result) /\ (row[j].status = "absent" => row[j].result = NoResult)

SoundAll == (\A w \in Workers : RunnerSound(w)) /\ \A j \in Jobs : RowSound(j)

PromptInv == LedgerInv /\ SoundAll

LEMMA BusySound ==
  ASSUME PromptInv, NEW w \in Workers, ~At(w, "idle")
  PROVE  /\ run[w] \in Runs /\ run[w].job \in Jobs /\ row \in [Jobs -> Rows]
         /\ Follows(run[w], row[run[w].job], AnalysesOf(run[w].job))
         /\ \A v \in Workers \ {w} : run[v].job # run[w].job
         /\ Sound(run[w])
         /\ run[w].pc # "fail" => row[run[w].job].result = run[w].result
         /\ PromptsOK(row[run[w].job].result)
<1>1. LedgerInv /\ SoundAll /\ row \in [Jobs -> Rows]
  BY DEF PromptInv, LedgerInv, SingleOK, TypedOK, TypeOK
<1>2. /\ run[w] \in Runs /\ run[w].job \in Jobs
      /\ Follows(run[w], row[run[w].job], AnalysesOf(run[w].job))
      /\ \A v \in Workers \ {w} : run[v].job # run[w].job
  BY <1>1, BusyFollows
<1>3. RunnerSound(w) /\ RowSound(run[w].job)
  BY <1>1, <1>2 DEF SoundAll
<1> QED
  BY <1>1, <1>2, <1>3 DEF RunnerSound, RowSound, At

(* A process with job j takes a step; only that row may change.            *)
LEMMA SoundMove ==
  ASSUME PromptInv, NEW w \in Workers, NEW j \in Jobs, NEW q, Move(w, q),
         \A v \in Workers \ {w} : run[v].job # j,
         OwnRow(j), PromptsOK(row'[j].result),
         q.pc = "idle" \/
           (q.job = j /\ Sound(q) /\ (q.pc # "fail" => row'[j].result = q.result))
  PROVE  SoundAll'
<1>1. run \in [Workers -> Runs] /\ LedgerInv
  BY DEF PromptInv, LedgerInv, SingleOK, TypedOK, TypeOK
<1>2. run'[w] = q /\ \A v \in Workers \ {w} : run'[v] = run[v]
  BY <1>1 DEF Move
<1>3. ASSUME NEW v \in Workers \ {w} PROVE RunnerSound(v)'
  <2>1. run'[v] = run[v] /\ RunnerSound(v)
    BY <1>2 DEF PromptInv, SoundAll
  <2>2. run[v].pc # "idle" => run[v].job \in Jobs /\ run[v].job # j
    BY <1>1, BusyFollows DEF At
  <2>3. run[v].pc # "idle" => row'[run[v].job] = row[run[v].job]
    BY <2>2 DEF OwnRow
  <2> QED
    BY <2>1, <2>3 DEF RunnerSound
<1>4. RunnerSound(w)'
  BY <1>2 DEF RunnerSound
<1>5. ASSUME NEW i \in Jobs PROVE RowSound(i)'
  BY DEF PromptInv, SoundAll, RowSound, OwnRow
<1> QED
  BY <1>3, <1>4, <1>5 DEF SoundAll

(* A step that leaves the rows alone.                                      *)
LEMMA SoundThinks ==
  ASSUME PromptInv, NEW w \in Workers, ~At(w, "idle"), UNCHANGED row,
         NEW q, Move(w, q),
         q.pc = "idle" \/
           /\ q.job = run[w].job /\ Sound(q)
           /\ q.pc # "fail" => run[w].pc # "fail" /\ q.result = run[w].result
  PROVE  SoundAll'
<1>1. PICK j \in Jobs : j = run[w].job
  BY BusySound
<1>2. OwnRow(j) /\ \A v \in Workers \ {w} : run[v].job # j
  BY <1>1, BusyFollows DEF OwnRow, PromptInv
<1>3. PromptsOK(row'[j].result) /\ (run[w].pc # "fail" => row'[j].result = run[w].result)
  BY <1>1, BusySound
<1> QED
  BY <1>1, <1>2, <1>3, SoundMove

(* A step that writes the result it keeps.                                 *)
LEMMA SoundWrites ==
  ASSUME PromptInv, NEW w \in Workers, ~At(w, "idle"), run[w].pc # "mark",
         NEW q, Move(w, q), q.job = run[w].job, Sound(q), UpdateResult(run[w].job, q.result)
  PROVE  SoundAll'
<1>1. PICK j \in Jobs : j = run[w].job
  BY BusySound
<1>2. OwnRow(j) /\ row'[j].result = q.result
  BY <1>1, Written DEF PromptInv
<1>3. PromptsOK(row'[j].result)
  BY <1>2 DEF Sound
<1> QED
  BY <1>1, <1>2, <1>3, BusySound, SoundMove

LEMMA RaiseSound ==
  ASSUME NEW r \in Runs, PromptsOK(r.result), NEW kind
  PROVE  Sound(Raise(r, kind)) /\ Raise(r, kind).job = r.job /\ Raise(r, kind).pc = "fail"
<1>1. /\ Raise(r, kind).job = r.job /\ Raise(r, kind).pc = "fail"
      /\ Raise(r, kind).result = r.result
  BY DEF Raise, Runs
<1> QED
  BY <1>1 DEF Sound, InStage, Asking

LEMMA RaisesSound ==
  ASSUME PromptInv, NEW w \in Workers, ~At(w, "idle"), UNCHANGED row,
         NEW kind, Move(w, Raise(run[w], kind))
  PROVE  SoundAll'
<1>1. run[w] \in Runs /\ PromptsOK(run[w].result)
  BY BusySound DEF Sound
<1> QED
  BY <1>1, RaiseSound, SoundThinks
-----------------------------------------------------------------------------
(* What the steps on a result do to its prompts.                           *)
KeepsPrompts(new, old) ==
  /\ new.prompt = old.prompt
  /\ \A s \in ModelStages : old.prompt[s] # NoPrompt => new.packet = old.packet
  /\ old.prompt["scenario"] # NoPrompt =>
       /\ Grounded(old) => Grounded(new)
       /\ new.artifact["qualitative"] = old.artifact["qualitative"]

LEMMA PromptsKept ==
  ASSUME NEW old, NEW new, PromptsOK(old), KeepsPrompts(new, old)
  PROVE  PromptsOK(new)
BY DEF PromptsOK, KeepsPrompts, ModelStages

LEMMA BegunPrompts ==
  ASSUME NEW r \in Runs, r.stage = "qualitative" => r.result.prompt["scenario"] = NoPrompt
  PROVE  /\ KeepsPrompts(Begun(r), r.result) /\ Begun(r).prompt = r.result.prompt
         /\ r.stage # "qualitative" /\ Grounded(r.result) => Grounded(Begun(r))
         /\ Begun(r).artifact = r.result.artifact /\ Begun(r).packet = r.result.packet
<1>1. r.result \in Results /\ r.stage \in Stages
  BY DEF Runs
<1>2. /\ Begun(r).prompt = r.result.prompt /\ Begun(r).artifact = r.result.artifact
      /\ Begun(r).packet = r.result.packet
      /\ Begun(r).status = [r.result.status EXCEPT ![r.stage] = "running"]
  BY <1>1 DEF Begun, Results
<1>3. r.stage # "qualitative" =>
        Begun(r).status["qualitative"] = r.result.status["qualitative"]
  BY <1>1, <1>2 DEF Results, Stages, ModelStages
<1> QED
  BY <1>2, <1>3 DEF KeepsPrompts, Grounded

LEMMA RecordedPrompts ==
  ASSUME NEW r \in Runs
  PROVE  KeepsPrompts(Recorded(r), r.result)
<1>1. /\ Recorded(r).prompt = r.result.prompt /\ Recorded(r).packet = r.result.packet
      /\ Recorded(r).artifact["qualitative"] = r.result.artifact["qualitative"]
      /\ Recorded(r).status = r.result.status
  BY DEF Recorded, Runs, Results, ModelStages
<1> QED
  BY <1>1 DEF KeepsPrompts, Grounded

LEMMA ClosedPrompts ==
  ASSUME NEW r \in Runs
  PROVE  KeepsPrompts(Closed(r), r.result)
<1>1. /\ Closed(r).prompt = r.result.prompt /\ Closed(r).packet = r.result.packet
      /\ Closed(r).artifact = r.result.artifact /\ Closed(r).status = r.result.status
  BY DEF Closed, Runs, Results
<1> QED
  BY <1>1 DEF KeepsPrompts, Grounded

LEMMA FailedPrompts ==
  ASSUME NEW r \in Runs
  PROVE  KeepsPrompts(Failed(r), r.result)
<1>1. /\ Failed(r).prompt = r.result.prompt /\ Failed(r).packet = r.result.packet
      /\ Failed(r).artifact = r.result.artifact
  BY DEF Failed, Runs, Results
<1>2. "qualitative" \in Stages
  BY DEF Stages, ModelStages
<1>3. r.result.status["qualitative"] = "accepted" => Failed(r).status["qualitative"] = "accepted"
  BY <1>2 DEF Failed, Runs, Results
<1> QED
  BY <1>1, <1>3 DEF KeepsPrompts, Grounded

LEMMA AcceptPrompts ==
  ASSUME NEW res \in Results, NEW s \in Stages
  PROVE  /\ Accept(res, s).prompt = res.prompt /\ Accept(res, s).packet = res.packet
         /\ Accept(res, s).artifact = res.artifact
         /\ Accept(res, s).status["qualitative"] \in {"accepted", res.status["qualitative"]}
         /\ s = "qualitative" => Accept(res, s).status["qualitative"] = "accepted"
<1>1. Accept(res, s).prompt = res.prompt /\ Accept(res, s).packet = res.packet
  BY DEF Accept, Results
<1>2. "qualitative" \in Stages
  BY DEF Stages, ModelStages
<1>3. /\ Accept(res, s).artifact = res.artifact
      /\ Accept(res, s).status = [res.status EXCEPT ![s] = "accepted"]
  BY AcceptKeeps
<1>4. res.status \in [Stages -> Statuses]
  BY DEF Results
<1> QED
  BY <1>1, <1>2, <1>3, <1>4

LEMMA FinishedPrompts ==
  ASSUME NEW r \in Runs
  PROVE  KeepsPrompts(Finished(r), r.result)
<1> DEFINE res == [r.result EXCEPT !.final = r.found]
<1>1. /\ res \in Results /\ res.prompt = r.result.prompt /\ res.packet = r.result.packet
      /\ res.artifact = r.result.artifact /\ res.status = r.result.status
  BY DEF Runs, Results
<1>2. Finished(r) = Accept(res, "persistence") /\ "persistence" \in Stages
  BY DEF Finished, Stages
<1> HIDE DEF res
<1> QED
  BY <1>1, <1>2, AcceptPrompts DEF KeepsPrompts, Grounded

LEMMA CompletedPrompts ==
  ASSUME NEW r \in Runs, Sound(r), r.pc = "complete"
  PROVE  /\ KeepsPrompts(Completed(r), r.result)
         /\ r.stage \in ModelStages => Grounded(Completed(r))
<1>1. r.result \in Results /\ r.stage \in Stages /\ r.raw \in Nat
  BY DEF Runs
<1>2. CASE r.stage \in ModelStages
  <2> DEFINE new == [r.result EXCEPT
                       !.attempts[r.stage] = Max2(@, r.attempt),
                       !.rejected[r.stage] = r.rejected,
                       !.artifact[r.stage] = r.raw]
  <2>1. new \in Results
    BY DEF Runs, Results, Max2, MaxAttempts
  <2>2. /\ new.prompt = r.result.prompt /\ new.packet = r.result.packet
        /\ new.artifact = [r.result.artifact EXCEPT ![r.stage] = r.raw]
        /\ new.status = r.result.status
    BY <1>1 DEF Results
  <2>3. Completed(r) = Accept(new, r.stage)
    BY <1>2 DEF Completed
  <2> HIDE DEF new
  <2>4. /\ Completed(r).prompt = r.result.prompt /\ Completed(r).packet = r.result.packet
        /\ Completed(r).artifact = [r.result.artifact EXCEPT ![r.stage] = r.raw]
        /\ Completed(r).status["qualitative"] \in {"accepted", r.result.status["qualitative"]}
        /\ r.stage = "qualitative" => Completed(r).status["qualitative"] = "accepted"
    BY <1>1, <2>1, <2>2, <2>3, AcceptPrompts
  <2>5. CASE r.stage = "qualitative"
    <3>1. r.raw # 0 /\ r.result.prompt["scenario"] = NoPrompt
      BY <2>5 DEF Sound, InStage
    <3>2. Completed(r).artifact["qualitative"] = r.raw
      BY <1>1, <1>2, <2>4, <2>5 DEF Results
    <3> QED
      BY <2>4, <2>5, <3>1, <3>2 DEF KeepsPrompts, Grounded
  <2>6. CASE r.stage = "scenario"
    <3>1. Grounded(r.result)
      BY <2>6 DEF Sound, InStage
    <3>2. Completed(r).artifact["qualitative"] = r.result.artifact["qualitative"]
      BY <1>1, <2>4, <2>6 DEF Results, ModelStages
    <3> QED
      BY <2>4, <3>1, <3>2 DEF KeepsPrompts, Grounded
  <2> QED
    BY <1>2, <2>5, <2>6 DEF ModelStages
<1>3. CASE r.stage \notin ModelStages
  <2> DEFINE new == [r.result EXCEPT
                       !.packet = IF r.stage = "packet" THEN r.candidate ELSE @]
  <2>1. /\ new \in Results /\ new.prompt = r.result.prompt
        /\ new.artifact = r.result.artifact /\ new.status = r.result.status
        /\ r.stage # "packet" => new.packet = r.result.packet
    BY DEF Runs, Results
  <2>2. Completed(r) = Accept(new, r.stage)
    BY <1>3 DEF Completed
  <2> HIDE DEF new
  <2>3. /\ Completed(r).prompt = r.result.prompt
        /\ r.stage # "packet" => Completed(r).packet = r.result.packet
        /\ Completed(r).artifact = r.result.artifact
        /\ Completed(r).status["qualitative"] \in {"accepted", r.result.status["qualitative"]}
    BY <1>1, <2>1, <2>2, AcceptPrompts
  <2>4. r.stage = "packet" => \A s \in ModelStages : r.result.prompt[s] = NoPrompt
    BY DEF Sound, InStage, PreModel, ModelStages
  <2> QED
    BY <1>3, <2>3, <2>4 DEF KeepsPrompts, Grounded
<1> QED
  BY <1>2, <1>3

(* Freezing stores the prompt of the stage, once.                          *)
LEMMA FrozenPrompts ==
  ASSUME NEW r \in Runs, Sound(r), r.pc = "freeze", r.stage \in ModelStages
  PROVE  /\ PromptsOK(Frozen(r)) /\ Frozen(r).prompt[r.stage] # NoPrompt
         /\ Frozen(r).packet = r.result.packet /\ Frozen(r).artifact = r.result.artifact
         /\ Grounded(r.result) => Grounded(Frozen(r))
         /\ r.stage = "qualitative" => Frozen(r).prompt["scenario"] = NoPrompt
<1>1. /\ r.prompt # NoPrompt /\ Fitting(r) /\ PromptsOK(r.result)
      /\ r.stage = "qualitative" => r.result.prompt["scenario"] = NoPrompt
      /\ r.stage = "scenario" => Grounded(r.result)
      /\ r.stage \in {"qualitative", "scenario"}
  BY DEF Sound, InStage, ModelStages
<1>2. CASE r.result.prompt[r.stage] # NoPrompt
  <2>1. Frozen(r) = r.result
    BY <1>2 DEF Frozen
  <2> QED
    BY <1>1, <1>2, <2>1
<1>3. CASE r.result.prompt[r.stage] = NoPrompt
  <2>1. /\ Frozen(r).prompt = [r.result.prompt EXCEPT ![r.stage] = r.prompt]
        /\ Frozen(r).packet = r.result.packet /\ Frozen(r).artifact = r.result.artifact
        /\ Frozen(r).status = r.result.status
        /\ r.result.prompt \in [ModelStages -> Prompts]
    BY <1>3 DEF Frozen, Runs, Results
  <2>2. Grounded(r.result) => Grounded(Frozen(r))
    BY <2>1 DEF Grounded
  <2>3. /\ Frozen(r).prompt[r.stage] = r.prompt
        /\ \A s \in ModelStages \ {r.stage} : Frozen(r).prompt[s] = r.result.prompt[s]
        /\ "qualitative" \in ModelStages /\ "scenario" \in ModelStages
    BY <2>1 DEF ModelStages
  <2>4. PromptsOK(Frozen(r))
    BY <1>1, <2>1, <2>2, <2>3 DEF PromptsOK, Fitting
  <2> QED
    BY <1>1, <2>1, <2>2, <2>3, <2>4
<1> QED
  BY <1>2, <1>3

(* The result in memory when the call of a step raises.                    *)
LEMMA InMemoryPrompts ==
  ASSUME NEW r \in Runs, Sound(r), r.pc = "freeze" => r.stage \in ModelStages
  PROVE  PromptsOK(InMemory(r))
<1>0. PromptsOK(r.result)
  BY DEF Sound
<1>1. CASE r.pc = "begin"
  <2>1. r.stage = "qualitative" => r.result.prompt["scenario"] = NoPrompt
    BY <1>1 DEF Sound, InStage
  <2> QED
    BY <1>0, <1>1, <2>1, BegunPrompts, PromptsKept DEF InMemory
<1>2. CASE r.pc = "freeze"
  BY <1>2, FrozenPrompts DEF InMemory
<1>3. CASE r.pc = "complete"
  BY <1>0, <1>3, CompletedPrompts, PromptsKept DEF InMemory
<1>4. CASE r.pc = "record"
  BY <1>0, <1>4, RecordedPrompts, PromptsKept DEF InMemory
<1>5. CASE r.pc = "finish"
  BY <1>0, <1>5, FinishedPrompts, PromptsKept DEF InMemory
<1>6. CASE r.pc = "close"
  BY <1>0, <1>6, ClosedPrompts, PromptsKept DEF InMemory
<1>7. CASE r.pc \notin {"begin", "freeze", "complete", "record", "finish", "close"}
  BY <1>0, <1>7 DEF InMemory
<1> QED
  BY <1>1, <1>2, <1>3, <1>4, <1>5, <1>6, <1>7
-----------------------------------------------------------------------------
(* One lemma per step of a process.                                        *)
LEMMA FirstResultSound ==
  ASSUME PromptInv, NEW w \in Workers, WriteFirstResult(w)
  PROVE  SoundAll'
<1> DEFINE r == run[w]
           first == [NoResult EXCEPT !.next = "refresh"]
           q == [r EXCEPT !.pc = "begin", !.result = first]
<1>1. /\ ~At(w, "idle") /\ r.pc = "created" /\ Move(w, q) /\ UpdateResult(r.job, first)
  BY DEF WriteFirstResult, At
<1>2. r \in Runs /\ r.mode = "run" /\ r.stage = "refresh"
  BY <1>1, BusySound DEF Follows, Placed
<1>3. /\ q.pc = "begin" /\ q.job = r.job /\ q.mode = "run" /\ q.stage = "refresh"
      /\ q.result = first
  BY <1>2 DEF Runs
<1>4. \A s \in ModelStages : first.prompt[s] = NoPrompt
  BY DEF NoResult
<1> HIDE DEF q, first
<1>5. PromptsOK(first)
  BY <1>4 DEF PromptsOK, ModelStages, NoPrompt
<1>6. Sound(q)
  BY <1>3, <1>4, <1>5 DEF Sound, Asking, ModelStages
<1> QED
  BY <1>1, <1>3, <1>6, SoundWrites

(* The prompt that is built at the start of a stage is one for its result. *)
LEMMA BuiltFits ==
  ASSUME NEW r \in Runs, r.result.packet = r.candidate,
         NEW q, q.result = r.result, q.stage = r.stage, q.prompt = BuildPrompt(r)
  PROVE  Fitting(q) /\ q.prompt # NoPrompt
<1>1. r.release \in Nat \ {0}
  BY BoundsAssumption DEF Runs, Releases
<1> QED
  BY <1>1 DEF BuildPrompt, Fitting, NoPrompt

LEMMA BeginSound ==
  ASSUME PromptInv, NEW w \in Workers, BeginStage(w)
  PROVE  SoundAll'
<1> DEFINE o == run[w]
           r == [o EXCEPT !.result = Begun(o)]
           builds == r.mode = "run" \/ (r.mode = "rerun" /\ r.stage = "scenario")
           prompt == IF builds THEN BuildPrompt(r) ELSE r.result.prompt[r.stage]
           to(pc) == [r EXCEPT !.pc = pc]
           asks(pc) == [r EXCEPT !.pc = pc, !.prompt = prompt]
<1>1. ~At(w, "idle") /\ o.pc = "begin"
  BY DEF BeginStage, At
<1>2. o \in Runs /\ Sound(o) /\ Follows(o, row[o.job], AnalysesOf(o.job))
  BY <1>1, BusySound
<1>3. o.stage = "qualitative" => o.result.prompt["scenario"] = NoPrompt
  BY <1>1, <1>2 DEF Sound, InStage
<1>4. /\ PromptsOK(Begun(o)) /\ Begun(o).prompt = o.result.prompt
      /\ o.stage = "scenario" => Grounded(Begun(o))
      /\ Begun(o).packet = o.result.packet
  BY <1>1, <1>2, <1>3, BegunPrompts, PromptsKept DEF Sound, InStage
<1>5. /\ r \in Runs /\ r.job = o.job /\ r.mode = o.mode /\ r.stage = o.stage
      /\ r.candidate = o.candidate /\ r.result = Begun(o)
  BY <1>2, BegunType DEF Runs
<1>6. r.stage \in ModelStages => r.result.packet = r.candidate
  BY <1>2, <1>4, <1>5 DEF Follows, PacketKnown, Past
<1>7. UpdateResult(o.job, Begun(o))
  BY <1>5 DEF BeginStage
<1>8. r.mode \in {"run", "resume", "rerun"}
  BY <1>5 DEF Runs
<1>9. \/ r.stage \in PreModel /\ Move(w, to("work"))
      \/ r.stage = "persistence" /\ Move(w, to("check"))
      \/ Move(w, Raise(r, "integrity"))
      \/ r.stage \in ModelStages /\ ~builds /\ prompt # NoPrompt /\ Move(w, asks("gate"))
      \/ r.stage \in ModelStages /\ r.mode # "resume" /\ Move(w, asks("freeze"))
      \/ r.stage = "scenario" /\ Move(w, to("complete"))
  BY DEF BeginStage, NeedsPrompt, ModelStages
<1>10. /\ builds /\ r.stage \in ModelStages => prompt = BuildPrompt(r)
       /\ ~builds => prompt = r.result.prompt[r.stage]
       /\ ~builds /\ r.mode # "resume" /\ r.stage \in ModelStages =>
            r.mode = "rerun" /\ r.stage = "qualitative"
  BY <1>8 DEF ModelStages
<1> HIDE DEF r
<1>11. \A pc : /\ to(pc).pc = pc /\ to(pc).job = r.job /\ to(pc).stage = r.stage
               /\ to(pc).mode = r.mode /\ to(pc).result = r.result
  BY <1>5 DEF Runs
<1>12. \A pc : /\ asks(pc).pc = pc /\ asks(pc).job = r.job /\ asks(pc).stage = r.stage
               /\ asks(pc).mode = r.mode /\ asks(pc).result = r.result
               /\ asks(pc).prompt = prompt
  BY <1>5 DEF Runs
<1> HIDE DEF to, asks, builds, prompt
<1>13. \A s \in PreModel \cup {"qualitative"} :
         r.stage = s => r.result.prompt["scenario"] = NoPrompt
  BY <1>1, <1>2, <1>4, <1>5 DEF Sound, InStage
<1>14. r.stage \in PreModel => r.result.prompt["qualitative"] = NoPrompt
  BY <1>1, <1>2, <1>4, <1>5 DEF Sound, InStage
<1>15. r.stage = "scenario" => Grounded(r.result)
  BY <1>4, <1>5
<1>16. r.stage \in PreModel => Sound(to("work"))
  BY <1>4, <1>5, <1>11, <1>13, <1>14 DEF Sound, Asking, PreModel
<1>17. r.stage = "persistence" => Sound(to("check"))
  BY <1>4, <1>5, <1>11 DEF Sound, Asking, InStage
<1>18. r.stage = "scenario" => Sound(to("complete"))
  BY <1>4, <1>5, <1>11, <1>15 DEF Sound, Asking, PreModel
<1>19. ~builds /\ prompt # NoPrompt /\ r.stage \in ModelStages =>
         r.result.prompt[r.stage] # NoPrompt /\ \A pc : Fitting(asks(pc))
  BY <1>4, <1>5, <1>10, <1>12 DEF Fitting, PromptsOK, ModelStages
<1>20. ~builds /\ prompt # NoPrompt /\ r.stage \in ModelStages => Sound(asks("gate"))
  BY <1>4, <1>5, <1>12, <1>13, <1>15, <1>19 DEF Sound, Asking, PreModel, ModelStages
<1>21. ~builds /\ r.mode # "resume" /\ r.stage \in ModelStages => prompt # NoPrompt
  BY <1>1, <1>2, <1>4, <1>5, <1>10 DEF Sound
<1>22. builds /\ r.stage \in ModelStages => prompt # NoPrompt /\ \A pc : Fitting(asks(pc))
  BY <1>5, <1>6, <1>10, <1>12, BuiltFits
<1>23. r.mode # "resume" /\ r.stage \in ModelStages => Sound(asks("freeze"))
  <2> SUFFICES ASSUME r.mode # "resume", r.stage \in ModelStages PROVE Sound(asks("freeze"))
    OBVIOUS
  <2>1. asks("freeze").prompt # NoPrompt /\ Fitting(asks("freeze"))
    BY <1>12, <1>19, <1>21, <1>22
  <2> QED
    BY <1>4, <1>5, <1>12, <1>13, <1>15, <2>1 DEF Sound, Asking, PreModel, ModelStages
<1>24. /\ Sound(Raise(r, "integrity")) /\ Raise(r, "integrity").job = r.job
       /\ Raise(r, "integrity").result = r.result
  <2>1. Raise(r, "integrity").result = r.result
    BY <1>5 DEF Raise, Runs
  <2> QED
    BY <1>4, <1>5, <2>1, RaiseSound
<1>25. PICK q : Move(w, q) /\ Sound(q) /\ q.job = r.job /\ q.result = r.result
  BY <1>9, <1>11, <1>12, <1>16, <1>17, <1>18, <1>20, <1>23, <1>24
<1> QED
  BY <1>1, <1>5, <1>7, <1>25, SoundWrites

LEMMA WorkSound ==
  ASSUME PromptInv, NEW w \in Workers, WorkStage(w)
  PROVE  SoundAll'
<1> DEFINE r == run[w]
           done == [r EXCEPT !.pc = "complete",
                      !.candidate = IF r.stage = "deterministic" THEN evidence ELSE @]
<1>1. ~At(w, "idle") /\ r.pc = "work" /\ UNCHANGED row
  BY DEF WorkStage, At, store
<1>2. r \in Runs /\ Sound(r) /\ r.stage \in PreModel
  BY <1>1, BusySound DEF Follows, Placed
<1>3. /\ done.pc = "complete" /\ done.job = r.job /\ done.stage = r.stage
      /\ done.result = r.result
  BY <1>2 DEF Runs
<1>4. Move(w, done) \/ \E kind : Move(w, Raise(r, kind))
  BY DEF WorkStage
<1> HIDE DEF done
<1>5. Sound(done)
  BY <1>1, <1>2, <1>3 DEF Sound, InStage, Asking, PreModel
<1>6. CASE Move(w, done)
  BY <1>1, <1>3, <1>5, <1>6, SoundThinks
<1>7. CASE \E kind : Move(w, Raise(r, kind))
  BY <1>1, <1>7, RaisesSound
<1> QED
  BY <1>4, <1>6, <1>7

LEMMA CompleteSound ==
  ASSUME PromptInv, NEW w \in Workers, CompleteStage(w)
  PROVE  SoundAll'
<1> DEFINE r == run[w]
           q == [r EXCEPT !.pc = "begin", !.result = Completed(r),
                   !.stage = StageAfter(@), !.prompt = NoPrompt, !.attempt = 0,
                   !.answer = {}, !.raw = 0, !.rejected = FALSE]
<1>1. ~At(w, "idle") /\ r.pc = "complete" /\ Move(w, q) /\ UpdateResult(r.job, Completed(r))
  BY DEF CompleteStage, At
<1>2. /\ r \in Runs /\ Sound(r) /\ r.stage \in Stages
      /\ r.stage \in PreModel => r.mode = "run"
  BY <1>1, BusySound DEF Follows, Placed, Runs
<1>3. /\ q.pc = "begin" /\ q.job = r.job /\ q.mode = r.mode /\ q.stage = StageAfter(r.stage)
      /\ q.result = Completed(r)
  BY <1>2 DEF Runs
<1>4. /\ PromptsOK(Completed(r)) /\ Completed(r).prompt = r.result.prompt
      /\ r.stage \in ModelStages => Grounded(Completed(r))
  BY <1>1, <1>2, CompletedPrompts, PromptsKept DEF Sound, KeepsPrompts
<1> HIDE DEF q
<1>5. /\ q.stage = "scenario" => r.stage \in ModelStages
      /\ q.stage \in PreModel \cup {"qualitative"} => r.stage \in PreModel
  BY <1>2, <1>3 DEF StageAfter, PreModel, Stages, ModelStages
<1>6. r.stage \in PreModel =>
        r.result.prompt["scenario"] = NoPrompt /\ r.result.prompt["qualitative"] = NoPrompt
  BY <1>1, <1>2 DEF Sound, InStage
<1>7. Sound(q)
  BY <1>2, <1>3, <1>4, <1>5, <1>6 DEF Sound, Asking
<1> QED
  BY <1>1, <1>3, <1>7, SoundWrites

LEMMA FreezeSound ==
  ASSUME PromptInv, NEW w \in Workers, FreezePrompt(w)
  PROVE  SoundAll'
<1> DEFINE r == run[w]
           q == [r EXCEPT !.pc = "gate", !.result = Frozen(r)]
<1>1. ~At(w, "idle") /\ r.pc = "freeze"
  BY DEF FreezePrompt, At
<1>2. /\ r \in Runs /\ r.job \in Jobs /\ Sound(r) /\ row \in [Jobs -> Rows]
      /\ row[r.job].result = r.result /\ row[r.job].status = "running"
      /\ \A v \in Workers \ {w} : run[v].job # r.job
  BY <1>1, BusySound DEF Follows
<1>3. r.stage \in ModelStages /\ Frozen(r) \in Results
  BY <1>1, <1>2, FrozenType
  DEF PromptInv, LedgerInv, SingleOK, TypedOK, RunnersOK, RunnerOK
<1>4. CASE UNCHANGED row /\ Move(w, Raise(r, "integrity"))
  BY <1>1, <1>4, RaisesSound
<1>5. CASE /\ row' = IF row[r.job].status = "running" /\ Frozen(r) # r.result
                     THEN [row EXCEPT ![r.job].result.prompt[r.stage] = r.prompt]
                     ELSE row
           /\ Move(w, q)
  <2>1. /\ q.pc = "gate" /\ q.job = r.job /\ q.stage = r.stage /\ q.prompt = r.prompt
        /\ q.mode = r.mode /\ q.result = Frozen(r)
    BY <1>2 DEF Runs
  <2> HIDE DEF q
  <2>2. /\ PromptsOK(Frozen(r)) /\ Frozen(r).prompt[r.stage] # NoPrompt
        /\ Frozen(r).packet = r.result.packet /\ Frozen(r).artifact = r.result.artifact
        /\ Grounded(r.result) => Grounded(Frozen(r))
        /\ r.stage = "qualitative" => Frozen(r).prompt["scenario"] = NoPrompt
    BY <1>1, <1>2, <1>3, FrozenPrompts
  <2>3. Fitting(q) /\ (r.stage = "scenario" => Grounded(r.result))
    BY <1>1, <1>2, <2>1, <2>2 DEF Sound, InStage, Fitting
  <2>4. Sound(q)
    BY <1>3, <2>1, <2>2, <2>3 DEF Sound, InStage, Asking, ModelStages, PreModel
  <2>5. OwnRow(r.job) /\ row'[r.job].result = Frozen(r)
    <3>1. CASE Frozen(r) = r.result
      BY <1>2, <1>5, <3>1 DEF OwnRow
    <3>2. CASE Frozen(r) # r.result
      <4>1. Frozen(r) = [r.result EXCEPT !.prompt[r.stage] = r.prompt]
        BY <3>2 DEF Frozen
      <4>2. row' = [row EXCEPT ![r.job] = [row[r.job] EXCEPT
                      !.result = [row[r.job].result EXCEPT !.prompt[r.stage] = r.prompt]]]
        BY <1>2, <1>5, <3>2
      <4>3. row' = [row EXCEPT ![r.job] = [row[r.job] EXCEPT !.result = Frozen(r)]]
        BY <1>2, <4>1, <4>2
      <4>4. row[r.job] \in Rows
        BY <1>2
      <4>5. /\ [row[r.job] EXCEPT !.result = Frozen(r)].result = Frozen(r)
            /\ [row[r.job] EXCEPT !.result = Frozen(r)].status = "running"
        BY <1>2, <4>4 DEF Rows
      <4> QED
        BY <1>2, <4>3, <4>5 DEF OwnRow
    <3> QED
      BY <3>1, <3>2
  <2> QED
    BY <1>2, <1>5, <2>1, <2>2, <2>4, <2>5, SoundMove
<1> QED
  BY <1>4, <1>5 DEF FreezePrompt

(* Between the freeze and the answer the prompt in hand does not change.   *)
LEMMA AsksOn ==
  ASSUME NEW r, NEW q, Sound(r), r.pc \in Asking, r.stage \in ModelStages,
         q.pc \in Asking \cup {"record"}, q.stage = r.stage, q.result = r.result,
         q.prompt = r.prompt, q.pc = "judge" => q.raw # 0
  PROVE  Sound(q)
BY DEF Sound, Asking, InStage, Fitting, PreModel, ModelStages

LEMMA ModelSound ==
  ASSUME PromptInv, NEW w \in Workers,
         \/ EnterModelStage(w) \/ CallModel(w) \/ InterruptModel(w) \/ SaveRaw(w)
  PROVE  SoundAll'
<1> DEFINE r == run[w]
           enter == [r EXCEPT !.pc = "call", !.attempt = PriorAttempts(r) + 1,
                       !.rejected = r.result.rejected[r.stage],
                       !.raw = r.result.artifact[r.stage]]
           called(accepts) == [r EXCEPT !.pc = "saveRaw", !.answer = accepts]
           stopped == [Raise(r, "other") EXCEPT !.pc = "record", !.spent = r.attempt - 1]
           saved == [r EXCEPT !.pc = "judge", !.raw = Len(raw) + 1]
<1>1. ~At(w, "idle") /\ r.pc \in {"gate", "call", "saveRaw"} /\ UNCHANGED row
  BY DEF EnterModelStage, CallModel, InterruptModel, SaveRaw, At, store
<1>2. r \in Runs /\ Sound(r) /\ r.stage \in ModelStages /\ Len(raw) \in Nat
  BY <1>1, BusySound
  DEF PromptInv, LedgerInv, SingleOK, TypedOK, TypeOK, RunnersOK, RunnerOK
<1>3. /\ enter.pc = "call" /\ enter.job = r.job /\ enter.stage = r.stage
      /\ enter.result = r.result /\ enter.prompt = r.prompt
  BY <1>2 DEF Runs
<1>4. \A accepts :
        /\ called(accepts).pc = "saveRaw" /\ called(accepts).job = r.job
        /\ called(accepts).stage = r.stage /\ called(accepts).result = r.result
        /\ called(accepts).prompt = r.prompt
  BY <1>2 DEF Runs
<1>5. /\ stopped.pc = "record" /\ stopped.job = r.job /\ stopped.stage = r.stage
      /\ stopped.result = r.result /\ stopped.prompt = r.prompt
  BY <1>2 DEF Raise, Runs
<1>6. /\ saved.pc = "judge" /\ saved.job = r.job /\ saved.stage = r.stage
      /\ saved.result = r.result /\ saved.prompt = r.prompt /\ saved.raw # 0
  BY <1>2 DEF Runs
<1>7. \/ Move(w, enter) \/ Move(w, stopped) \/ Move(w, saved)
      \/ \E accepts : Move(w, called(accepts))
      \/ \E kind : Move(w, Raise(r, kind))
  BY DEF EnterModelStage, CallModel, InterruptModel, SaveRaw
<1> HIDE DEF enter, called, stopped, saved
<1>8. CASE \E kind : Move(w, Raise(r, kind))
  BY <1>1, <1>8, RaisesSound
<1>9. CASE \/ Move(w, enter) \/ Move(w, stopped) \/ Move(w, saved)
           \/ \E accepts : Move(w, called(accepts))
  <2>1. PICK q : /\ Move(w, q) /\ q.pc \in {"call", "saveRaw", "judge", "record"}
                 /\ q.job = r.job /\ q.stage = r.stage /\ q.result = r.result
                 /\ q.prompt = r.prompt /\ (q.pc = "judge" => q.raw # 0)
    BY <1>3, <1>4, <1>5, <1>6, <1>9
  <2>2. Sound(q)
    BY <1>1, <1>2, <2>1, AsksOn DEF Asking
  <2> QED
    BY <1>1, <2>1, <2>2, SoundThinks
<1> QED
  BY <1>7, <1>8, <1>9

LEMMA JudgeSound ==
  ASSUME PromptInv, NEW w \in Workers, JudgeAnswer(w)
  PROVE  SoundAll'
<1> DEFINE r == run[w]
           accept == [r EXCEPT !.pc = "complete"]
           spend == [Raise(r, "validation") EXCEPT
                       !.pc = "record", !.spent = r.attempt, !.rejected = TRUE]
           prompt == IF r.stage = "scenario" THEN BuildPrompt(r) ELSE r.prompt
           repair == [r EXCEPT !.pc = "call", !.attempt = r.attempt + 1, !.rejected = TRUE,
                        !.prompt = prompt]
<1>1. ~At(w, "idle") /\ r.pc = "judge" /\ UNCHANGED row
  BY DEF JudgeAnswer, At
<1>2. r \in Runs /\ Sound(r) /\ r.stage \in ModelStages /\ r.result.packet = r.candidate
  BY <1>1, BusySound
  DEF PromptInv, LedgerInv, SingleOK, TypedOK, RunnersOK, RunnerOK, Follows, PacketKnown, Past
<1>3. /\ accept.pc = "complete" /\ accept.job = r.job /\ accept.stage = r.stage
      /\ accept.result = r.result /\ accept.raw = r.raw
  BY <1>2 DEF Runs
<1>4. /\ spend.pc = "record" /\ spend.job = r.job /\ spend.stage = r.stage
      /\ spend.result = r.result /\ spend.prompt = r.prompt
  BY <1>2 DEF Raise, Runs
<1>5. /\ repair.pc = "call" /\ repair.job = r.job /\ repair.stage = r.stage
      /\ repair.result = r.result /\ repair.prompt = prompt
  BY <1>2 DEF Runs
<1>6. Move(w, accept) \/ Move(w, spend) \/ Move(w, repair)
  BY DEF JudgeAnswer
<1> HIDE DEF accept, spend, repair
<1>7. Sound(accept)
  BY <1>1, <1>2, <1>3 DEF Sound, InStage, Asking, PreModel, ModelStages
<1>8. Sound(spend)
  BY <1>1, <1>2, <1>4, AsksOn DEF Asking
<1>9. Fitting(repair)
  <2>1. CASE r.stage = "scenario"
    BY <1>2, <1>5, <2>1, BuiltFits
  <2>2. CASE r.stage # "scenario"
    BY <1>1, <1>2, <1>5, <2>2 DEF Sound, Asking, Fitting
  <2> QED
    BY <2>1, <2>2
<1>10. Sound(repair)
  BY <1>1, <1>2, <1>5, <1>9 DEF Sound, InStage, Asking, PreModel, ModelStages
<1>11. PICK q : Move(w, q) /\ Sound(q) /\ q.job = r.job /\ q.result = r.result
  BY <1>3, <1>4, <1>5, <1>6, <1>7, <1>8, <1>10
<1> QED
  BY <1>1, <1>11, SoundThinks

LEMMA RecordSound ==
  ASSUME PromptInv, NEW w \in Workers, RecordAttempts(w)
  PROVE  SoundAll'
<1> DEFINE r == run[w]
           q == [r EXCEPT !.pc = "fail", !.result = Recorded(r)]
<1>1. /\ ~At(w, "idle") /\ r.pc = "record" /\ Move(w, q) /\ UpdateResult(r.job, Recorded(r))
  BY DEF RecordAttempts, At
<1>2. r \in Runs /\ PromptsOK(r.result)
  BY <1>1, BusySound DEF Sound
<1>3. q.pc = "fail" /\ q.job = r.job /\ q.result = Recorded(r)
  BY <1>2 DEF Runs
<1>4. PromptsOK(Recorded(r))
  BY <1>2, RecordedPrompts, PromptsKept
<1> HIDE DEF q
<1>5. Sound(q)
  BY <1>3, <1>4 DEF Sound, InStage, Asking
<1> QED
  BY <1>1, <1>3, <1>5, SoundWrites

(* Where a process neither runs a stage nor has just read the answers      *)
(* back, only the prompts matter.                                          *)
Outside == {"check", "save", "revision", "finish", "close", "mark", "marked", "verify"}

LEMMA OutsideSound ==
  ASSUME NEW q, q.pc \in Outside, PromptsOK(q.result)
  PROVE  Sound(q)
BY DEF Sound, Outside, InStage, Asking

LEMMA PersistSound ==
  ASSUME PromptInv, NEW w \in Workers, CheckPersisted(w) \/ SaveAnalysis(w) \/ ReadRevision(w)
  PROVE  SoundAll'
<1> DEFINE r == run[w]
           to(pc) == [r EXCEPT !.pc = pc]
           found(i) == [r EXCEPT !.pc = "revision", !.found = i]
<1>1. ~At(w, "idle") /\ r.pc # "fail" /\ UNCHANGED row
  BY DEF CheckPersisted, SaveAnalysis, ReadRevision, At, store
<1>2. r \in Runs /\ PromptsOK(r.result)
  BY <1>1, BusySound DEF Sound
<1>3. /\ \A pc : to(pc).pc = pc /\ to(pc).job = r.job /\ to(pc).result = r.result
      /\ \A i : /\ found(i).pc = "revision" /\ found(i).job = r.job
                /\ found(i).result = r.result
  BY <1>2 DEF Runs
<1>4. \/ Move(w, to("save")) \/ Move(w, to("finish"))
      \/ \E i : Move(w, found(i))
      \/ \E kind : Move(w, Raise(r, kind))
  BY DEF CheckPersisted, SaveAnalysis, ReadRevision
<1> HIDE DEF to, found
<1>5. CASE \E kind : Move(w, Raise(r, kind))
  BY <1>1, <1>5, RaisesSound
<1>6. CASE Move(w, to("save")) \/ Move(w, to("finish")) \/ \E i : Move(w, found(i))
  <2>1. PICK q : /\ Move(w, q) /\ q.pc \in Outside
                 /\ q.job = r.job /\ q.result = r.result
    BY <1>3, <1>6 DEF Outside
  <2> QED
    BY <1>1, <1>2, <2>1, OutsideSound, SoundThinks
<1> QED
  BY <1>4, <1>5, <1>6

LEMMA FinishSound ==
  ASSUME PromptInv, NEW w \in Workers, FinishResult(w)
  PROVE  SoundAll'
<1> DEFINE r == run[w]
           q == [r EXCEPT !.pc = "close", !.result = Finished(r)]
<1>1. /\ ~At(w, "idle") /\ r.pc = "finish" /\ Move(w, q) /\ UpdateResult(r.job, Finished(r))
  BY DEF FinishResult, At
<1>2. r \in Runs /\ PromptsOK(r.result)
  BY <1>1, BusySound DEF Sound
<1>3. q.pc = "close" /\ q.job = r.job /\ q.result = Finished(r)
  BY <1>2 DEF Runs
<1>4. PromptsOK(Finished(r))
  BY <1>2, FinishedPrompts, PromptsKept
<1> HIDE DEF q
<1>5. Sound(q)
  BY <1>3, <1>4, OutsideSound DEF Outside
<1> QED
  BY <1>1, <1>3, <1>5, SoundWrites

(* A process that ends leaves its result, closed or failed, in the row.    *)
LEMMA EndSound ==
  ASSUME PromptInv, NEW w \in Workers, CloseJob(w) \/ FailJob(w)
  PROVE  SoundAll'
<1> DEFINE r == run[w]
<1>1. ~At(w, "idle") /\ Move(w, Idle)
  BY DEF CloseJob, FailJob, At
<1>2. /\ r \in Runs /\ r.job \in Jobs /\ PromptsOK(r.result) /\ row \in [Jobs -> Rows]
      /\ \A v \in Workers \ {w} : run[v].job # r.job
  BY <1>1, BusySound DEF Sound
<1>3. PromptsOK(Closed(r)) /\ PromptsOK(Failed(r))
  BY <1>2, ClosedPrompts, FailedPrompts, PromptsKept
<1>4. OwnRow(r.job) /\ row'[r.job].result \in {Closed(r), Failed(r)}
  BY <1>2 DEF CloseJob, FailJob, OwnRow
<1> QED
  BY <1>1, <1>2, <1>3, <1>4, SoundMove DEF Idle

LEMMA MarkSound ==
  ASSUME PromptInv, NEW w \in Workers, MarkRunning(w)
  PROVE  SoundAll'
<1> DEFINE r == run[w]
           q == [r EXCEPT !.pc = "marked"]
<1>1. /\ ~At(w, "idle") /\ r.pc = "mark" /\ Move(w, q)
      /\ row' = [row EXCEPT ![r.job].status = "running"]
  BY DEF MarkRunning, At
<1>2. /\ r \in Runs /\ r.job \in Jobs /\ PromptsOK(r.result) /\ row \in [Jobs -> Rows]
      /\ row[r.job].result = r.result
      /\ \A v \in Workers \ {w} : run[v].job # r.job
  BY <1>1, BusySound DEF Sound
<1>3. q.pc = "marked" /\ q.job = r.job /\ q.result = r.result
  BY <1>2 DEF Runs
<1>4. OwnRow(r.job) /\ row'[r.job].result = r.result
  BY <1>1, <1>2 DEF OwnRow, Rows
<1> HIDE DEF q
<1>5. Sound(q)
  BY <1>2, <1>3, OutsideSound DEF Outside
<1> QED
  BY <1>1, <1>2, <1>3, <1>4, <1>5, SoundMove

LEMMA ResumedSound ==
  ASSUME PromptInv, NEW w \in Workers, WriteResumed(w)
  PROVE  SoundAll'
<1> DEFINE r == run[w]
           q == [r EXCEPT !.pc = "verify"]
<1>1. /\ ~At(w, "idle") /\ r.pc = "marked" /\ Move(w, q) /\ UpdateResult(r.job, r.result)
  BY DEF WriteResumed, At
<1>2. r \in Runs /\ PromptsOK(r.result)
  BY <1>1, BusySound DEF Sound
<1>3. q.pc = "verify" /\ q.job = r.job /\ q.result = r.result
  BY <1>2 DEF Runs
<1> HIDE DEF q
<1>4. Sound(q)
  BY <1>2, <1>3, OutsideSound DEF Outside
<1> QED
  BY <1>1, <1>3, <1>4, SoundWrites

(* What resume decides: a scenario, or the close, goes on from an accepted *)
(* answer; a stage that runs again has its prompt, and no scenario was     *)
(* asked yet.                                                              *)
LEMMA VerifySound ==
  ASSUME PromptInv, NEW w \in Workers, VerifyInputs(w)
  PROVE  SoundAll'
<1> DEFINE r == run[w]
           checked == [r EXCEPT !.pc = "rehydrate"]
           again == [r EXCEPT !.pc = "begin", !.mode = "rerun", !.stage = "qualitative"]
<1>1. ~At(w, "idle") /\ r.pc = "verify" /\ UNCHANGED row
  BY DEF VerifyInputs, At, store
<1>2. r \in Runs /\ PromptsOK(r.result)
  BY <1>1, BusySound DEF Sound
<1>3. /\ checked.pc = "rehydrate" /\ checked.job = r.job /\ checked.result = r.result
      /\ again.pc = "begin" /\ again.stage = "qualitative" /\ again.job = r.job
      /\ again.result = r.result
  BY <1>2 DEF Runs
<1>4. \/ \E kind : Move(w, Raise(r, kind))
      \/ Grounded(r.result) /\ Move(w, checked)
      \/ /\ ~Grounded(r.result) /\ r.result.prompt["qualitative"] # NoPrompt
         /\ Move(w, again)
  BY DEF VerifyInputs, Grounded
<1> HIDE DEF checked, again
<1>5. Grounded(r.result) => Sound(checked)
  BY <1>2, <1>3 DEF Sound, InStage, Asking
<1>6. ~Grounded(r.result) /\ r.result.prompt["qualitative"] # NoPrompt => Sound(again)
  <2> SUFFICES ASSUME ~Grounded(r.result), r.result.prompt["qualitative"] # NoPrompt
               PROVE  Sound(again)
    OBVIOUS
  <2>1. r.result.prompt["scenario"] = NoPrompt
    BY <1>2 DEF PromptsOK
  <2> QED
    BY <1>2, <1>3, <2>1 DEF Sound, Asking, PreModel
<1>7. CASE \E kind : Move(w, Raise(r, kind))
  BY <1>1, <1>7, RaisesSound
<1> QED
  BY <1>1, <1>3, <1>4, <1>5, <1>6, <1>7, SoundThinks

LEMMA RehydrateSound ==
  ASSUME PromptInv, NEW w \in Workers, Rehydrate(w)
  PROVE  SoundAll'
<1> DEFINE r == run[w]
           to(stage) == [r EXCEPT !.pc = "begin", !.stage = stage]
<1>1. ~At(w, "idle") /\ r.pc = "rehydrate" /\ UNCHANGED row
  BY DEF Rehydrate, At, store
<1>2. r \in Runs /\ PromptsOK(r.result) /\ Grounded(r.result)
  BY <1>1, BusySound DEF Sound
<1>3. \A s : to(s).pc = "begin" /\ to(s).stage = s /\ to(s).job = r.job /\ to(s).result = r.result
  BY <1>2 DEF Runs
<1>4. \/ \E kind : Move(w, Raise(r, kind))
      \/ \E s \in {"persistence", "scenario"} : Move(w, to(s))
  BY DEF Rehydrate
<1> HIDE DEF to
<1>5. \A s \in {"persistence", "scenario"} : Sound(to(s))
  BY <1>2, <1>3 DEF Sound, Asking, PreModel
<1>6. CASE \E kind : Move(w, Raise(r, kind))
  BY <1>1, <1>6, RaisesSound
<1> QED
  BY <1>1, <1>3, <1>4, <1>5, <1>6, SoundThinks

LEMMA FaultSound ==
  ASSUME PromptInv, NEW w \in Workers, Fault(w)
  PROVE  SoundAll'
<1> DEFINE r == run[w]
           q(res) == Raise([r EXCEPT !.result = res], "other")
<1>1. ~At(w, "idle") /\ UNCHANGED row
  BY DEF Fault, At, store
<1>2. /\ r \in Runs /\ Sound(r)
      /\ r.pc = "freeze" => r.stage \in ModelStages
  BY <1>1, BusySound DEF PromptInv, LedgerInv, SingleOK, TypedOK, RunnersOK, RunnerOK
<1>3. \A res : q(res).pc = "fail" /\ q(res).job = r.job /\ q(res).result = res
  BY <1>2 DEF Raise, Runs
<1>4. CASE Move(w, Idle)
  BY <1>1, <1>4, SoundThinks DEF Idle
<1>5. CASE \E res \in {InMemory(r), r.result} : Move(w, q(res))
  <2>1. PICK res \in {InMemory(r), r.result} : Move(w, q(res))
    BY <1>5
  <2>2. PromptsOK(res)
    BY <1>2, <2>1, InMemoryPrompts DEF Sound
  <2>3. q(res).pc = "fail" /\ q(res).job = r.job /\ q(res).result = res
    BY <1>3
  <2> HIDE DEF q
  <2>4. Sound(q(res))
    BY <2>2, <2>3 DEF Sound, InStage, Asking
  <2> QED
    BY <1>1, <2>1, <2>3, <2>4, SoundThinks
<1> QED
  BY <1>4, <1>5 DEF Fault

LEMMA StartSound ==
  ASSUME PromptInv, NEW w \in Workers, NEW j \in Jobs, Start(w, j)
  PROVE  SoundAll'
<1> DEFINE q == [Idle EXCEPT !.pc = "created", !.job = j, !.release = release]
<1>1. Taken(w, j) /\ Move(w, q) /\ row' = [row EXCEPT ![j].status = "running"]
  BY StartTakes DEF PromptInv, LedgerInv, Start
<1>2. row \in [Jobs -> Rows] /\ row[j].result = NoResult /\ PromptsOK(row[j].result)
  BY DEF PromptInv, LedgerInv, SingleOK, TypedOK, TypeOK, SoundAll, RowSound, Start
<1>3. OwnRow(j) /\ row'[j].result = NoResult
  BY <1>1, <1>2 DEF OwnRow, Rows
<1>4. q.job = j /\ q.pc = "created" /\ q.result = NoResult
  BY DEF Idle
<1> HIDE DEF q
<1>5. Sound(q)
  BY <1>2, <1>4 DEF Sound, InStage, Asking
<1> QED
  BY <1>1, <1>2, <1>3, <1>4, <1>5, SoundMove DEF Taken

LEMMA ResumeSound ==
  ASSUME PromptInv, OneRunnerPerJob, NEW w \in Workers, NEW j \in Jobs, Resume(w, j)
  PROVE  SoundAll'
<1> DEFINE q == [Idle EXCEPT !.pc = "mark", !.mode = "resume", !.job = j,
                   !.release = release, !.result = row[j].result,
                   !.candidate = row[j].result.packet]
<1>1. Taken(w, j) /\ Move(w, q) /\ UNCHANGED row /\ row[j].status # "absent"
  BY ResumeTakes DEF PromptInv, LedgerInv, Resume, ResumeJob, store
<1>2. PromptsOK(row[j].result) /\ OwnRow(j)
  BY <1>1 DEF PromptInv, SoundAll, RowSound, OwnRow
<1>3. q.job = j /\ q.pc = "mark" /\ q.result = row[j].result
  BY DEF Idle
<1> HIDE DEF q
<1>4. Sound(q)
  BY <1>2, <1>3, OutsideSound DEF Outside
<1> QED
  BY <1>1, <1>2, <1>3, <1>4, SoundMove DEF Taken
-----------------------------------------------------------------------------
LEMMA InitSound == Init => PromptInv
<1> SUFFICES ASSUME Init PROVE PromptInv
  OBVIOUS
<1>1. PromptsOK(NoResult)
  BY DEF PromptsOK, NoResult, NoPrompt, ModelStages
<1>2. SoundAll
  BY <1>1 DEF Init, SoundAll, RunnerSound, RowSound, Idle
<1> QED
  BY <1>2, InitLedger DEF PromptInv

LEMMA NextSound ==
  ASSUME OneRunnerPerJob
  PROVE  PromptInv /\ [Next]_vars => PromptInv'
<1> SUFFICES ASSUME PromptInv, [Next]_vars PROVE SoundAll'
  BY NextLedger DEF PromptInv
<1>1. ASSUME NEW w \in Workers, Step(w) \/ InterruptModel(w) \/ Fault(w) \/ Crash(w)
      PROVE  SoundAll'
  <2>1. CASE Crash(w)
    BY <2>1, SoundThinks DEF Crash, store, Idle
  <2> QED
    BY <1>1, <2>1, FirstResultSound, BeginSound, WorkSound, CompleteSound, FreezeSound,
       ModelSound, JudgeSound, RecordSound, PersistSound, FinishSound, EndSound, MarkSound,
       ResumedSound, VerifySound, RehydrateSound, FaultSound
    DEF Step
<1>2. ASSUME NEW w \in Workers, NEW j \in Jobs, Start(w, j) \/ Resume(w, j)
      PROVE  SoundAll'
  BY <1>2, StartSound, ResumeSound
<1>3. ASSUME UNCHANGED <<row, run>>
      PROVE  SoundAll'
  BY <1>3 DEF PromptInv, SoundAll, RunnerSound, RowSound
<1>4. CASE NewEvidence \/ Upgrade \/ UNCHANGED vars
  BY <1>3, <1>4 DEF NewEvidence, Upgrade, store, vars
<1> QED
  BY <1>1, <1>2, <1>3, <1>4 DEF Next

(* The provider is only ever asked a question that is already in the row   *)
(* of the running job: the frozen prompt of the stage, about the packet of *)
(* the job and the qualitative answer it accepted, also after a resume, a  *)
(* repair or a lost write (checkpoint_stage_input before the model call,   *)
(* _verify_frozen_stage_inputs on resume).                                 *)
THEOREM FrozenQuestions ==
  ASSUME OneRunnerPerJob
  PROVE  Spec => CallsUseFrozenPrompt
<1>1. Spec => []PromptInv
  BY InitSound, NextSound, PTL DEF Spec
<1>2. PromptInv =>
        \A w \in Workers :
          (At(w, "call") /\ run'[w].pc = "saveRaw") =>
            LET j == run[w].job
                frozen == row[j].result.prompt[run[w].stage]
            IN  /\ row[j].status = "running" /\ frozen # NoPrompt
                /\ frozen.packet = run[w].prompt.packet
                /\ frozen.packet = row[j].result.packet
                /\ frozen.basis = run[w].prompt.basis
  <2> SUFFICES ASSUME PromptInv, NEW w \in Workers, At(w, "call")
               PROVE  LET r == run[w]
                          result == row[r.job].result
                          frozen == result.prompt[r.stage]
                      IN  /\ row[r.job].status = "running" /\ frozen # NoPrompt
                          /\ frozen.packet = r.prompt.packet
                          /\ frozen.packet = result.packet
                          /\ frozen.basis = r.prompt.basis
    OBVIOUS
  <2> DEFINE r == run[w]
  <2>1. /\ r.pc = "call" /\ Sound(r) /\ row[r.job].result = r.result
        /\ row[r.job].status = "running" /\ r.stage \in ModelStages
    BY BusySound
    DEF At, Follows, PromptInv, LedgerInv, SingleOK, TypedOK, RunnersOK, RunnerOK
  <2>2. /\ PromptsOK(r.result) /\ r.result.prompt[r.stage] # NoPrompt /\ Fitting(r)
    BY <2>1 DEF Sound, Asking
  <2> QED
    BY <2>1, <2>2 DEF PromptsOK, Fitting, ModelStages
<1> QED
  BY <1>1, <1>2, PTL DEF CallsUseFrozenPrompt
=============================================================================
