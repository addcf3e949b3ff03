--------------------------- MODULE MonthlyRanking ---------------------------
(***************************************************************************)
(* The monthly comparative ranking and the research cohort it names.       *)
(* ComparativeRankingJob runs every day and by hand (rank-analyzed-        *)
(* candidates); refresh-agent-cohort only freezes the cohort.  Each reads  *)
(* the database call by call while analyses are accepted, challenges filed *)
(* and the watchlist ranked anew, and writes at most one cohort and one    *)
(* ranking per month: whoever comes second keeps what is there.            *)
(*                                                                         *)
(* Days are not told apart within a month: a process knows the month of    *)
(* the day it started, and of the deterministic runs of a month the last   *)
(* one is all that anyone reads.                                           *)
(***************************************************************************)
EXTENDS RankingPolicies, FiniteSetsExt

CONSTANTS
  Companies,
  Candidates,           \* the cases that analyses may lead to
  TargetSize,           \* AGENT_COHORT_TARGET_SIZE
  Processes,
  MaxMonths,            \* bound on the months
  RunsEndInTheirMonth   \* no process runs over the end of a month

ASSUME RankingAssumption ==
  /\ Candidates \subseteq Cases
  /\ TargetSize \in Nat /\ MaxMonths \in Nat \ {0} /\ RunsEndInTheirMonth \in BOOLEAN

VARIABLES
  month,      \* the month of today
  theses,     \* the latest accepted analysis of each company that has one
  blocked,    \* companies with an open high-severity challenge
  screens,    \* by month: the first TargetSize companies of its last deterministic run
  cohorts,    \* agent_cohort_snapshots, by month
  rankings,   \* ranking_runs with a snapshot_month, by month
  proc

inputs == <<month, theses, blocked, screens>>
vars == <<inputs, cohorts, rankings, proc>>
-----------------------------------------------------------------------------
Months == 1 .. MaxMonths
Tops == {top \in SUBSET Companies : Cardinality(top) <= TargetSize}

Partial(S, T) == UNION {[D -> T] : D \in SUBSET S}     \* functions from a part of S
Maybe == Months \cup {0}

Membership == [misses : 0 .. GraceMonths - 1, entered : Months]
Cohorts == [top : Tops, members : Partial(Companies, Membership)]

(* cohort: agent_cohort_snapshot_id, a month or 0 for null.                *)
Rankings ==
  [cases : Partial(Companies, Candidates), proposed : Partial(Companies, Economic),
   effective : Partial(Companies, Economic), pending : Partial(Companies, Ordered),
   tier : Partial(Companies, Tiers), cohort : Maybe, members : SUBSET Companies]

Positions ==
  {"idle", "blocks", "previous", "screen", "lookup", "before", "insert", "save"}

(* previous, prior: the months of the ranking and the snapshot before, 0   *)
(* for none; snapshots never change, so a month stands for its row.        *)
Memories ==
  [pc : Positions, ranks : BOOLEAN, month : Maybe,
   cases : Partial(Companies, Candidates), blocked : SUBSET Companies,
   previous : Maybe, top : Tops, prior : Maybe,
   cohort : Maybe, members : SUBSET Companies]

Idle ==
  [pc |-> "idle", ranks |-> FALSE, month |-> 0, cases |-> << >>, blocked |-> {},
   previous |-> 0, top |-> {}, prior |-> 0, cohort |-> 0, members |-> {}]

Init ==
  /\ month = 1 /\ theses = << >> /\ blocked = {} /\ screens = << >>
  /\ cohorts = << >> /\ rankings = << >>
  /\ proc = [p \in Processes |-> Idle]

(* The last month of a table before a given one, 0 if there is none.       *)
Before(table, m) == {k \in DOMAIN table : k < m}
LatestBefore(table, m) ==
  IF \E k \in Before(table, m) : \A i \in Before(table, m) : i <= k
  THEN Max(Before(table, m)) ELSE 0

With(table, key, value) ==
  [k \in DOMAIN table \cup {key} |-> IF k = key THEN value ELSE table[k]]

(* _insert_or_get: a row is written only if its key is not there.          *)
InsertOrGet(table, key, value) ==
  IF key \in DOMAIN table THEN table ELSE With(table, key, value)

At(p, pc) == proc[p].pc = pc
Move(p, memory) == proc' = [proc EXCEPT ![p] = memory]
-----------------------------------------------------------------------------
(* The job starts: get_latest_validated_stock_analyses.                    *)
StartRanking(p) ==
  /\ At(p, "idle") /\ theses # << >>
  /\ Move(p, [Idle EXCEPT !.pc = "blocks", !.ranks = TRUE, !.month = month, !.cases = theses])
  /\ UNCHANGED <<inputs, cohorts, rankings>>

(* refresh-agent-cohort *)
StartCohort(p) ==
  /\ At(p, "idle")
  /\ Move(p, [Idle EXCEPT !.pc = "screen", !.month = month])
  /\ UNCHANGED <<inputs, cohorts, rankings>>

(* unresolved_high_company_ids *)
ReadBlocks(p) ==
  /\ At(p, "blocks")
  /\ Move(p, [proc[p] EXCEPT !.pc = "previous", !.blocked = blocked])
  /\ UNCHANGED <<inputs, cohorts, rankings>>

(* get_latest_monthly_run_before *)
ReadPrevious(p) ==
  /\ At(p, "previous")
  /\ Move(p, [proc[p] EXCEPT !.pc = "screen",
                !.previous = LatestBefore(rankings, proc[p].month)])
  /\ UNCHANGED <<inputs, cohorts, rankings>>

(* get_latest_deterministic_run: without one the ranking goes without a    *)
(* cohort, and refresh-agent-cohort ends.                                  *)
ReadScreen(p) ==
  LET m == proc[p]
      last == LatestBefore(screens, m.month + 1)
  IN
  /\ At(p, "screen")
  /\ Move(p, IF last # 0 THEN [m EXCEPT !.pc = "lookup", !.top = screens[last]]
             ELSE IF m.ranks THEN [m EXCEPT !.pc = "save"] ELSE Idle)
  /\ UNCHANGED <<inputs, cohorts, rankings>>

(* The cohort of the month is known: the ranking goes on with it.          *)
WithCohort(m, members) ==
  IF m.ranks THEN [m EXCEPT !.pc = "save", !.cohort = m.month, !.members = members]
  ELSE Idle

(* get_for_month *)
LookUpCohort(p) ==
  LET m == proc[p] IN
  /\ At(p, "lookup")
  /\ Move(p, IF m.month \in DOMAIN cohorts
             THEN WithCohort(m, DOMAIN cohorts[m.month].members)
             ELSE [m EXCEPT !.pc = "before"])
  /\ UNCHANGED <<inputs, cohorts, rankings>>

(* get_latest_before *)
ReadPrior(p) ==
  /\ At(p, "before")
  /\ Move(p, [proc[p] EXCEPT !.pc = "insert", !.prior = LatestBefore(cohorts, proc[p].month)])
  /\ UNCHANGED <<inputs, cohorts, rankings>>

SnapshotOf(m) ==
  [top |-> m.top,
   members |-> Members(m.month, m.top,
                       IF m.prior = 0 THEN << >> ELSE cohorts[m.prior].members)]

VariantInsertCohort(p) ==     \* the loser of a race goes on with its own members
  LET m == proc[p]
      mine == SnapshotOf(m)
  IN
  /\ At(p, "insert")
  /\ cohorts' = InsertOrGet(cohorts, m.month, mine)
  /\ Move(p, WithCohort(m, DOMAIN mine.members))
  /\ UNCHANGED <<inputs, rankings>>

(* save: insert the snapshot, or go on with the one that is there.         *)
InsertCohort(p) ==
  LET m == proc[p] IN
  /\ At(p, "insert")
  /\ cohorts' = InsertOrGet(cohorts, m.month, SnapshotOf(m))
  /\ Move(p, WithCohort(m, DOMAIN cohorts'[m.month].members))
  /\ UNCHANGED <<inputs, rankings>>

Ranking(m) ==
  [RankingOf(m.cases, m.blocked,
             IF m.previous = 0 THEN NoRanking ELSE rankings[m.previous])
     EXCEPT !.cohort = m.cohort, !.members = m.members]

(* save_monthly_ranking_run: insert, or keep what is there.  The two       *)
(* attach calls that follow look for keys which every row saved here has,  *)
(* the cohort's with null if there was none: they change nothing.          *)
SaveRanking(p) ==
  /\ At(p, "save")
  /\ rankings' = InsertOrGet(rankings, proc[p].month, Ranking(proc[p]))
  /\ Move(p, Idle)
  /\ UNCHANGED <<inputs, cohorts>>

(* A call fails or the process is killed.                                  *)
Stop(p) ==
  /\ ~At(p, "idle") /\ Move(p, Idle)
  /\ UNCHANGED <<inputs, cohorts, rankings>>
-----------------------------------------------------------------------------
Analyze(c, case) ==
  /\ theses' = With(theses, c, case)
  /\ UNCHANGED <<month, blocked, screens, cohorts, rankings, proc>>

Challenge(c) ==
  /\ c \in DOMAIN theses
  /\ blocked' = IF c \in blocked THEN blocked \ {c} ELSE blocked \cup {c}
  /\ UNCHANGED <<month, theses, screens, cohorts, rankings, proc>>

RankWatchlist(top) ==
  /\ screens' = With(screens, month, top)
  /\ UNCHANGED <<month, theses, blocked, cohorts, rankings, proc>>

NextMonth ==
  /\ month < MaxMonths
  /\ RunsEndInTheirMonth => \A p \in Processes : At(p, "idle")
  /\ month' = month + 1
  /\ UNCHANGED <<theses, blocked, screens, cohorts, rankings, proc>>

Step(p) ==
  \/ StartRanking(p) \/ StartCohort(p) \/ ReadBlocks(p) \/ ReadPrevious(p) \/ ReadScreen(p)
  \/ LookUpCohort(p) \/ ReadPrior(p) \/ InsertCohort(p) \/ SaveRanking(p) \/ Stop(p)

Next ==
  \/ \E p \in Processes : Step(p)
  \/ \E c \in Companies : Challenge(c) \/ \E case \in Candidates : Analyze(c, case)
  \/ \E top \in Tops : RankWatchlist(top)
  \/ NextMonth

Spec == Init /\ [][Next]_vars
-----------------------------------------------------------------------------
(* Every variable stays in its type; a member has missed fewer than        *)
(* GraceMonths snapshots, and what is pending is an ordered tier.          *)
TypeOK ==
  /\ month \in Months /\ blocked \subseteq Companies
  /\ theses \in Partial(Companies, Candidates)
  /\ DOMAIN screens \subseteq Months /\ \A m \in DOMAIN screens : screens[m] \in Tops
  /\ DOMAIN cohorts \subseteq Months /\ \A m \in DOMAIN cohorts : cohorts[m] \in Cohorts
  /\ DOMAIN rankings \subseteq Months /\ \A m \in DOMAIN rankings : rankings[m] \in Rankings
  /\ proc \in [Processes -> Memories]

(* The snapshots after k up to m.                                          *)
Since(k, m) == {i \in DOMAIN cohorts : k < i /\ i <= m}
MemberAt(c, m) == c \in DOMAIN cohorts[m].members

(* A ranking with a cohort has the members of the snapshot that is stored  *)
(* for its month, whoever else was freezing the cohort at the time.        *)
RankingNamesStoredCohort ==
  \A m \in DOMAIN rankings :
    rankings[m].cohort # 0 =>
      /\ rankings[m].cohort = m /\ m \in DOMAIN cohorts
      /\ rankings[m].members = DOMAIN cohorts[m].members

(* Two consecutive rankings that both have company c.                      *)
Consecutive(k, m, c) ==
  /\ m \in DOMAIN rankings /\ k = LatestBefore(rankings, m) /\ k # 0
  /\ c \in DOMAIN rankings[k].cases \cap DOMAIN rankings[m].cases

(* The economic tier of a company that is not blocked makes a small move   *)
(* to an adjacent tier only on the same signal in two rankings in a row.   *)
TierMovesOnTwoSignals ==
  \A k, m \in DOMAIN rankings : \A c \in Companies :
    LET from == rankings[k].effective[c]
        to == rankings[m].effective[c]
    IN  (Consecutive(k, m, c) /\ rankings[m].tier[c] # "RESEARCH"
           /\ NearAdjacentMove(from, to, rankings[m].cases[c].base)) =>
             rankings[k].proposed[c] = to /\ rankings[m].proposed[c] = to

(* No tier is held against the same signal twice in a row.                 *)
SecondSignalApplies ==
  \A k, m \in DOMAIN rankings : \A c \in Companies :
    (Consecutive(k, m, c) /\ rankings[k].proposed[c] = rankings[m].proposed[c]) =>
      rankings[m].effective[c] = rankings[m].proposed[c]

(* What was frozen for a month stays, whatever runs again in that month.   *)
SnapshotsNeverChange ==
  [][/\ \A m \in DOMAIN cohorts : m \in DOMAIN cohorts' /\ cohorts'[m] = cohorts[m]
     /\ \A m \in DOMAIN rankings : m \in DOMAIN rankings' /\ rankings'[m] = rankings[m]]_vars
=============================================================================
