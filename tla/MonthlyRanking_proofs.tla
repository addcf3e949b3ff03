------------------------ MODULE MonthlyRanking_proofs ------------------------
(***************************************************************************)
(* Proofs about MonthlyRanking, for any companies, processes and bounds:   *)
(* its types, that snapshots never change, that a ranking names the stored *)
(* cohort of its month, and the two-signal rule of the tiers; and about    *)
(* the review of a ranking, for any number of reviewing processes, any     *)
(* rankings and analyses, and kills anywhere.                              *)
(***************************************************************************)
EXTENDS ComparativeReview, FiniteSetTheorems, TLAPS

(* What a process m has read of the cohorts C and the rankings R, by its   *)
(* position: the rows it names exist, and the cohort it goes on with is    *)
(* the stored one of its month.                                            *)
Fits(m, C, R) ==
  /\ m.pc # "idle" => m.month \in Months
  /\ m.previous # 0 => m.previous \in DOMAIN R
  /\ m.prior # 0 => m.prior \in DOMAIN C
  /\ m.cohort # 0 =>
       /\ m.cohort = m.month /\ m.month \in DOMAIN C
       /\ m.members = DOMAIN C[m.month].members

ProcessesOK == \A p \in Processes : Fits(proc[p], cohorts, rankings)

Inv == TypeOK /\ ProcessesOK /\ RankingNamesStoredCohort

(* Rows are only added.                                                    *)
Kept(old, new) ==
  /\ DOMAIN old \subseteq DOMAIN new
  /\ \A m \in DOMAIN old : new[m] = old[m]

LEMMA WithFacts ==
  ASSUME NEW t, NEW k, NEW v
  PROVE  /\ DOMAIN With(t, k, v) = DOMAIN t \cup {k}
         /\ With(t, k, v)[k] = v
         /\ \A i \in DOMAIN t : i # k => With(t, k, v)[i] = t[i]
BY DEF With

(* A table to which a row is added unless it has one with that key.        *)
LEMMA InsertFacts ==
  ASSUME NEW t, NEW k, NEW v
  PROVE  /\ Kept(t, InsertOrGet(t, k, v)) /\ DOMAIN InsertOrGet(t, k, v) = DOMAIN t \cup {k}
         /\ \A i \in DOMAIN t : InsertOrGet(t, k, v)[i] = t[i]
         /\ k \notin DOMAIN t => InsertOrGet(t, k, v)[k] = v
<1> DEFINE u == InsertOrGet(t, k, v)
<1>1. CASE k \in DOMAIN t
  BY <1>1 DEF Kept, InsertOrGet
<1>2. CASE k \notin DOMAIN t
  <2>1. DOMAIN u = DOMAIN t \cup {k} /\ u[k] = v /\ \A i \in DOMAIN t : u[i] = t[i]
    BY <1>2 DEF With, InsertOrGet
  <2> HIDE DEF u
  <2> QED
    BY <1>2, <2>1 DEF Kept, u
<1> QED
  BY <1>1, <1>2

LEMMA PartialFacts ==
  ASSUME NEW S, NEW T, NEW f
  PROVE  f \in Partial(S, T) <=> DOMAIN f \subseteq S /\ f \in [DOMAIN f -> T]
BY DEF Partial

LEMMA PartialWith ==
  ASSUME NEW S, NEW T, NEW f \in Partial(S, T), NEW k \in S, NEW v \in T
  PROVE  With(f, k, v) \in Partial(S, T)
<1>1. f \in [DOMAIN f -> T] /\ DOMAIN f \subseteq S
  BY PartialFacts
<1>2. With(f, k, v) \in [DOMAIN f \cup {k} -> T]
  BY <1>1 DEF With
<1> QED
  BY <1>1, <1>2, PartialFacts

LEMMA EmptyPartial ==
  ASSUME NEW S, NEW T
  PROVE  << >> \in Partial(S, T) /\ DOMAIN << >> = {}
<1>1. << >> \in [{} -> T] /\ DOMAIN << >> = {}
  OBVIOUS
<1> QED
  BY <1>1 DEF Partial

LEMMA LatestFacts ==
  ASSUME NEW t, NEW m, DOMAIN t \subseteq Int
  PROVE  LatestBefore(t, m) = 0 \/ LatestBefore(t, m) \in DOMAIN t
<1>1. ASSUME \E k \in Before(t, m) : \A i \in Before(t, m) : i <= k
      PROVE  Max(Before(t, m)) \in Before(t, m)
  <2>1. PICK k \in Before(t, m) : \A i \in Before(t, m) : i <= k
    BY <1>1
  <2>2. \A i \in Before(t, m) : k >= i
    BY <1>1, <2>1 DEF Before
  <2> QED
    BY <2>1, <2>2 DEF Max
<1> QED
  BY <1>1 DEF LatestBefore, Before

-----------------------------------------------------------------------------
LEMMA ProposedType == \A case \in Cases : ProposedTier(case) \in Economic
BY DEF ProposedTier, Economic

LEMMA FinalType ==
  \A case \in Cases : \A tier \in Economic : \A b \in BOOLEAN : FinalTier(tier, case, b) \in Tiers
BY DEF FinalTier, Lowered, Economic, Tiers

(* A ranking of typed cases after a typed ranking is typed.                *)
LEMMA RankingTypes ==
  ASSUME NEW cases \in Partial(Companies, Candidates), NEW b \in SUBSET Companies,
         NEW effective \in Partial(Companies, Economic), NEW previous,
         previous.effective = effective
  PROVE  RankingOf(cases, b, previous) \in Rankings
<1> DEFINE R == RankingOf(cases, b, previous)
           D == DOMAIN cases
           held == Held(cases, b, previous)
<1>1. D \subseteq Companies /\ \A c \in D : cases[c] \in Candidates /\ cases[c] \in Cases
  BY PartialFacts, RankingAssumption
<1>2. held \subseteq D /\ \A c \in held : c \in DOMAIN effective /\ ProposedTier(cases[c]) # "IE"
  BY DEF Held
<1>3. \A c \in DOMAIN effective : effective[c] \in Economic
  BY PartialFacts
<1>4. \A c \in D : R.proposed[c] \in Economic /\ R.proposed[c] = ProposedTier(cases[c])
  BY <1>1, ProposedType DEF RankingOf
<1>5. \A c \in D : R.effective[c] \in Economic
  <2>1. \A c \in D : R.effective[c] = IF c \in held THEN effective[c] ELSE ProposedTier(cases[c])
    BY DEF RankingOf
  <2> QED
    BY <1>1, <1>2, <1>3, <2>1, ProposedType
<1>6. \A c \in D : R.tier[c] \in Tiers
  <2>1. \A c \in D : R.tier[c] = FinalTier(R.effective[c], cases[c], c \in b)
    BY DEF RankingOf
  <2>2. \A c \in D : (c \in b) \in BOOLEAN
    OBVIOUS
  <2> HIDE DEF R, D
  <2> QED
    BY <1>1, <1>5, <2>1, <2>2, FinalType
<1>7. R.proposed \in [D -> Economic] /\ R.effective \in [D -> Economic] /\ R.tier \in [D -> Tiers]
  BY <1>4, <1>5, <1>6 DEF RankingOf
<1>8. R.pending \in [held -> Ordered]
  <2>1. \A c \in held : ProposedTier(cases[c]) \in Ordered
    BY <1>1, <1>2, ProposedType DEF Economic, Ordered
  <2> QED
    BY <1>2, <2>1 DEF RankingOf
<1>9. R.cohort \in Maybe /\ R.members \in SUBSET Companies /\ R.cases = cases
  BY DEF RankingOf, Maybe
<1>10. R = [cases |-> R.cases, proposed |-> R.proposed, effective |-> R.effective,
            pending |-> R.pending, cohort |-> R.cohort, members |-> R.members, tier |-> R.tier]
  BY DEF RankingOf
<1> HIDE DEF R, held
<1>11. /\ R.proposed \in Partial(Companies, Economic) /\ R.effective \in Partial(Companies, Economic)
       /\ R.tier \in Partial(Companies, Tiers) /\ R.pending \in Partial(Companies, Ordered)
  BY <1>1, <1>2, <1>7, <1>8 DEF Partial
<1>12. R \in Rankings
  BY <1>9, <1>10, <1>11 DEF Rankings
<1> QED
  BY <1>12 DEF R

LEMMA MembersType ==
  ASSUME NEW m \in Months, NEW top \in SUBSET Companies,
         NEW prior \in Partial(Companies, Membership)
  PROVE  Members(m, top, prior) \in Partial(Companies, Membership)
<1> DEFINE stay == {c \in DOMAIN prior : c \in top \/ prior[c].misses + 1 < GraceMonths}
           M == Members(m, top, prior)
<1>1. DOMAIN prior \subseteq Companies /\ \A c \in DOMAIN prior : prior[c] \in Membership
  BY PartialFacts
<1>2. \A c \in top \cup stay :
        [misses |-> IF c \in top THEN 0 ELSE prior[c].misses + 1,
         entered |-> IF c \in DOMAIN prior THEN prior[c].entered ELSE m] \in Membership
  BY <1>1, PolicyAssumption DEF Membership, Months
<1>3. M \in [top \cup stay -> Membership]
  BY <1>2 DEF Members
<1> QED
  BY <1>1, <1>3 DEF Partial

-----------------------------------------------------------------------------
LEMMA FitsKept ==
  ASSUME NEW m, NEW C, NEW C2, NEW R, NEW R2, Kept(C, C2), Kept(R, R2), Fits(m, C, R)
  PROVE  Fits(m, C2, R2)
BY DEF Fits, Kept

(* A step of a process: it goes on with a memory that fits the tables,     *)
(* to which typed rows may have been added.                                *)
LEMMA Stepped ==
  ASSUME Inv, NEW p \in Processes, NEW memory \in Memories, Move(p, memory), UNCHANGED inputs,
         Kept(cohorts, cohorts'), Kept(rankings, rankings'),
         DOMAIN cohorts' \subseteq Months, \A m \in DOMAIN cohorts' : cohorts'[m] \in Cohorts,
         DOMAIN rankings' \subseteq Months, \A m \in DOMAIN rankings' : rankings'[m] \in Rankings,
         Fits(memory, cohorts', rankings'), RankingNamesStoredCohort'
  PROVE  Inv'
<1>1. proc' \in [Processes -> Memories] /\ proc'[p] = memory
      /\ \A q \in Processes \ {p} : proc'[q] = proc[q]
  BY DEF Inv, TypeOK, Move
<1>2. TypeOK'
  BY <1>1 DEF Inv, TypeOK, inputs
<1>3. ProcessesOK'
  <2>1. \A q \in Processes : Fits(proc[q], cohorts', rankings')
    BY FitsKept DEF Inv, ProcessesOK
  <2> QED
    BY <1>1, <2>1 DEF ProcessesOK
<1> QED
  BY <1>2, <1>3 DEF Inv

LEMMA KeptSelf == \A t : Kept(t, t)
BY DEF Kept

(* A step of a process that writes nothing.                                *)
LEMMA Reading ==
  ASSUME Inv, NEW p \in Processes, NEW memory \in Memories, Move(p, memory),
         UNCHANGED <<inputs, cohorts, rankings>>, Fits(memory, cohorts, rankings)
  PROVE  Inv'
<1>1. RankingNamesStoredCohort'
  BY DEF Inv, RankingNamesStoredCohort
<1>2. /\ DOMAIN cohorts' \subseteq Months /\ \A m \in DOMAIN cohorts' : cohorts'[m] \in Cohorts
      /\ DOMAIN rankings' \subseteq Months /\ \A m \in DOMAIN rankings' : rankings'[m] \in Rankings
  BY DEF Inv, TypeOK
<1> QED
  BY <1>1, <1>2, KeptSelf, Stepped

LEMMA IdleFits ==
  Idle \in Memories /\ \A C, R : Fits(Idle, C, R)
<1>1. << >> \in Partial(Companies, Candidates)
  BY EmptyPartial
<1>2. {} \in Tops
  BY FS_EmptySet, RankingAssumption DEF Tops
<1>3. Idle \in Memories
  BY <1>1, <1>2 DEF Idle, Memories, Positions, Maybe
<1>4. \A C, R : Fits(Idle, C, R)
  BY DEF Fits, Idle
<1> QED
  BY <1>3, <1>4

-----------------------------------------------------------------------------
(* What is known of the memory of a process, field by field.               *)
LEMMA ProcessFacts ==
  ASSUME Inv, NEW p \in Processes
  PROVE  /\ proc[p] \in Memories /\ Fits(proc[p], cohorts, rankings)
         /\ proc[p].top \in Tops /\ proc[p].members \subseteq Companies
         /\ proc[p].month \in Maybe /\ proc[p].cohort \in Maybe
         /\ proc[p].cases \in Partial(Companies, Candidates) /\ proc[p].blocked \subseteq Companies
BY DEF Inv, TypeOK, ProcessesOK, Memories

LEMMA Starting ==
  ASSUME Inv, NEW p \in Processes, StartRanking(p) \/ StartCohort(p)
  PROVE  Inv'
<1>1. CASE StartRanking(p)
  <2> DEFINE memory == [Idle EXCEPT !.pc = "blocks", !.ranks = TRUE, !.month = month, !.cases = theses]
  <2>1. memory \in Memories
    BY IdleFits DEF Inv, TypeOK, Idle, Memories, Positions, Maybe
  <2>2. Fits(memory, cohorts, rankings)
    BY DEF Inv, TypeOK, Idle, Fits
  <2>3. Move(p, memory) /\ UNCHANGED <<inputs, cohorts, rankings>>
    BY <1>1 DEF StartRanking
  <2> HIDE DEF memory
  <2> QED
    BY <2>1, <2>2, <2>3, Reading
<1>2. CASE StartCohort(p)
  <2> DEFINE memory == [Idle EXCEPT !.pc = "screen", !.month = month]
  <2>1. memory \in Memories
    BY IdleFits DEF Inv, TypeOK, Idle, Memories, Positions, Maybe
  <2>2. Fits(memory, cohorts, rankings)
    BY DEF Inv, TypeOK, Idle, Fits
  <2>3. Move(p, memory) /\ UNCHANGED <<inputs, cohorts, rankings>>
    BY <1>2 DEF StartCohort
  <2> HIDE DEF memory
  <2> QED
    BY <2>1, <2>2, <2>3, Reading
<1> QED
  BY <1>1, <1>2

LEMMA ReadingBlocks ==
  ASSUME Inv, NEW p \in Processes, ReadBlocks(p)
  PROVE  Inv'
<1> DEFINE memory == [proc[p] EXCEPT !.pc = "previous", !.blocked = blocked]
<1>1. memory \in Memories
  BY ProcessFacts DEF Inv, TypeOK, Memories, Positions
<1>2. Fits(memory, cohorts, rankings)
  BY ProcessFacts DEF Fits, ReadBlocks, At, Memories
<1>3. Move(p, memory) /\ UNCHANGED <<inputs, cohorts, rankings>>
  BY DEF ReadBlocks
<1> HIDE DEF memory
<1> QED
  BY <1>1, <1>2, <1>3, Reading

LEMMA LatestType ==
  ASSUME NEW t, NEW m, DOMAIN t \subseteq Months
  PROVE  LatestBefore(t, m) \in Maybe /\ (LatestBefore(t, m) # 0 => LatestBefore(t, m) \in DOMAIN t)
<1>1. DOMAIN t \subseteq Int
  BY DEF Months
<1> QED
  BY <1>1, LatestFacts DEF Maybe

LEMMA ReadingPrevious ==
  ASSUME Inv, NEW p \in Processes, ReadPrevious(p)
  PROVE  Inv'
<1> DEFINE last == LatestBefore(rankings, proc[p].month)
           memory == [proc[p] EXCEPT !.pc = "screen", !.previous = last]
<1>1. last \in Maybe /\ (last # 0 => last \in DOMAIN rankings)
  BY LatestType DEF Inv, TypeOK
<1>2. Move(p, memory) /\ UNCHANGED <<inputs, cohorts, rankings>>
  BY DEF ReadPrevious
<1> HIDE DEF last
<1>3. memory \in Memories
  BY <1>1, ProcessFacts DEF Memories, Positions
<1>4. Fits(memory, cohorts, rankings)
  BY <1>1, ProcessFacts DEF Fits, ReadPrevious, At, Memories
<1> HIDE DEF memory
<1> QED
  BY <1>2, <1>3, <1>4, Reading

LEMMA ReadingPrior ==
  ASSUME Inv, NEW p \in Processes, ReadPrior(p)
  PROVE  Inv'
<1> DEFINE last == LatestBefore(cohorts, proc[p].month)
           memory == [proc[p] EXCEPT !.pc = "insert", !.prior = last]
<1>1. last \in Maybe /\ (last # 0 => last \in DOMAIN cohorts)
  BY LatestType DEF Inv, TypeOK
<1>2. Move(p, memory) /\ UNCHANGED <<inputs, cohorts, rankings>>
  BY DEF ReadPrior
<1> HIDE DEF last
<1>3. memory \in Memories
  BY <1>1, ProcessFacts DEF Memories, Positions
<1>4. Fits(memory, cohorts, rankings)
  BY <1>1, ProcessFacts DEF Fits, ReadPrior, At, Memories
<1> HIDE DEF memory
<1> QED
  BY <1>2, <1>3, <1>4, Reading

LEMMA ReadingScreen ==
  ASSUME Inv, NEW p \in Processes, ReadScreen(p)
  PROVE  Inv'
<1> DEFINE m == proc[p]
           last == LatestBefore(screens, m.month + 1)
           found == [m EXCEPT !.pc = "lookup", !.top = screens[last]]
           none == [m EXCEPT !.pc = "save"]
           memory == IF last # 0 THEN found ELSE IF m.ranks THEN none ELSE Idle
<1>1. last # 0 => screens[last] \in Tops
  BY LatestType DEF Inv, TypeOK
<1>2. last # 0 => found \in Memories
  BY <1>1, ProcessFacts DEF Memories, Positions
<1>3. none \in Memories
  BY ProcessFacts DEF Memories, Positions
<1>4. Fits(found, cohorts, rankings) /\ Fits(none, cohorts, rankings)
  BY ProcessFacts DEF Fits, ReadScreen, At, Memories
<1>5. Move(p, memory) /\ UNCHANGED <<inputs, cohorts, rankings>>
  BY DEF ReadScreen
<1> HIDE DEF last, found, none
<1>6. memory \in Memories /\ Fits(memory, cohorts, rankings)
  BY <1>2, <1>3, <1>4, IdleFits
<1> HIDE DEF memory
<1> QED
  BY <1>5, <1>6, Reading

(* Going on with the stored cohort of the month.                           *)
LEMMA CohortFits ==
  ASSUME NEW m \in Memories, NEW C, NEW R, Fits(m, C, R), m.pc # "idle", m.month \in DOMAIN C,
         DOMAIN C[m.month].members \subseteq Companies
  PROVE  /\ WithCohort(m, DOMAIN C[m.month].members) \in Memories
         /\ Fits(WithCohort(m, DOMAIN C[m.month].members), C, R)
<1> DEFINE M == DOMAIN C[m.month].members
           goes == [m EXCEPT !.pc = "save", !.cohort = m.month, !.members = M]
<1>1. M \subseteq Companies
  OBVIOUS
<1>2. Fits(goes, C, R)
  BY DEF Fits, Memories
<1> HIDE DEF M
<1>3. goes \in Memories
  BY <1>1 DEF Memories, Positions
<1> HIDE DEF goes
<1>4. WithCohort(m, M) = IF m.ranks THEN goes ELSE Idle
  BY DEF WithCohort, goes
<1> QED
  BY <1>2, <1>3, <1>4, IdleFits DEF M

LEMMA StoredMembers ==
  ASSUME TypeOK, NEW m \in DOMAIN cohorts
  PROVE  /\ cohorts[m].members \in Partial(Companies, Membership)
         /\ DOMAIN cohorts[m].members \subseteq Companies
<1>1. cohorts[m].members \in Partial(Companies, Membership)
  BY DEF TypeOK, Cohorts
<1> QED
  BY <1>1, PartialFacts

LEMMA LookingUp ==
  ASSUME Inv, NEW p \in Processes, LookUpCohort(p)
  PROVE  Inv'
<1> DEFINE m == proc[p]
           found == WithCohort(m, DOMAIN cohorts[m.month].members)
           none == [m EXCEPT !.pc = "before"]
           memory == IF m.month \in DOMAIN cohorts THEN found ELSE none
<1>1. m \in Memories /\ Fits(m, cohorts, rankings) /\ m.pc # "idle"
  BY ProcessFacts DEF LookUpCohort, At
<1>2. m.month \in DOMAIN cohorts => found \in Memories /\ Fits(found, cohorts, rankings)
  BY <1>1, CohortFits, StoredMembers DEF Inv
<1>3. none \in Memories /\ Fits(none, cohorts, rankings)
  BY <1>1 DEF Memories, Positions, Fits
<1>4. Move(p, memory) /\ UNCHANGED <<inputs, cohorts, rankings>>
  BY DEF LookUpCohort
<1> HIDE DEF found, none
<1>5. memory \in Memories /\ Fits(memory, cohorts, rankings)
  BY <1>2, <1>3
<1> HIDE DEF memory
<1> QED
  BY <1>4, <1>5, Reading

LEMMA SnapshotType ==
  ASSUME TypeOK, NEW m \in Memories, Fits(m, cohorts, rankings), m.month \in Months
  PROVE  SnapshotOf(m) \in Cohorts
<1> DEFINE prior == IF m.prior = 0 THEN << >> ELSE cohorts[m.prior].members
<1>1. m.top \in Tops /\ m.top \in SUBSET Companies
  BY DEF Memories, Tops
<1>2. prior \in Partial(Companies, Membership)
  BY EmptyPartial, StoredMembers DEF Fits
<1> HIDE DEF prior
<1>3. Members(m.month, m.top, prior) \in Partial(Companies, Membership)
  BY <1>1, <1>2, MembersType
<1>4. SnapshotOf(m) = [top |-> m.top, members |-> Members(m.month, m.top, prior)]
  BY DEF SnapshotOf, prior
<1> QED
  BY <1>1, <1>3, <1>4 DEF Cohorts

LEMMA InsertingCohort ==
  ASSUME Inv, NEW p \in Processes, InsertCohort(p)
  PROVE  Inv'
<1> DEFINE m == proc[p]
           memory == WithCohort(m, DOMAIN cohorts'[m.month].members)
<1>1. m \in Memories /\ Fits(m, cohorts, rankings) /\ m.pc # "idle" /\ m.month \in Months
  BY ProcessFacts DEF InsertCohort, At, Fits
<1> DEFINE mine == SnapshotOf(m)
           table == InsertOrGet(cohorts, m.month, mine)
<1>2. cohorts' = table
  BY DEF InsertCohort
<1>11. mine \in Cohorts
  BY <1>1, SnapshotType DEF Inv
<1> HIDE DEF mine
<1>12. /\ Kept(cohorts, table) /\ DOMAIN table = DOMAIN cohorts \cup {m.month}
       /\ \A k \in DOMAIN cohorts : table[k] = cohorts[k]
       /\ m.month \notin DOMAIN cohorts => table[m.month] = mine
  BY InsertFacts
<1> HIDE DEF table
<1>3. Kept(cohorts, cohorts') /\ m.month \in DOMAIN cohorts'
  BY <1>2, <1>12
<1>4. DOMAIN cohorts' \subseteq Months /\ \A k \in DOMAIN cohorts' : cohorts'[k] \in Cohorts
  BY <1>1, <1>2, <1>11, <1>12 DEF Inv, TypeOK
<1>5. rankings' = rankings /\ UNCHANGED inputs /\ Move(p, memory)
  BY DEF InsertCohort
<1>6. DOMAIN cohorts'[m.month].members \subseteq Companies
  <2>1. cohorts'[m.month].members \in Partial(Companies, Membership)
    BY <1>3, <1>4 DEF Cohorts
  <2> QED
    BY <2>1, PartialFacts
<1>7. Fits(m, cohorts', rankings)
  BY <1>1, <1>3, KeptSelf, FitsKept
<1>8. memory \in Memories /\ Fits(memory, cohorts', rankings')
  BY <1>1, <1>3, <1>5, <1>6, <1>7, CohortFits
<1>9. RankingNamesStoredCohort'
  BY <1>3, <1>5 DEF Inv, RankingNamesStoredCohort, Kept
<1>10. /\ Kept(rankings, rankings') /\ DOMAIN rankings' \subseteq Months
       /\ \A k \in DOMAIN rankings' : rankings'[k] \in Rankings
  BY <1>5, KeptSelf DEF Inv, TypeOK
<1> HIDE DEF memory
<1> QED
  BY <1>3, <1>4, <1>5, <1>8, <1>9, <1>10, Stepped

(* The row a process saves is typed and names the cohort it goes on with.  *)
LEMMA RowType ==
  ASSUME TypeOK, NEW m \in Memories, Fits(m, cohorts, rankings)
  PROVE  Ranking(m) \in Rankings /\ Ranking(m).cohort = m.cohort /\ Ranking(m).members = m.members
<1> DEFINE previous == IF m.previous = 0 THEN NoRanking ELSE rankings[m.previous]
           row == RankingOf(m.cases, m.blocked, previous)
<1>1. previous.effective \in Partial(Companies, Economic)
  BY EmptyPartial DEF TypeOK, Fits, NoRanking, Rankings
<1>2. Ranking(m) = [row EXCEPT !.cohort = m.cohort, !.members = m.members]
  BY DEF Ranking
<1> HIDE DEF previous
<1>3. /\ m.cases \in Partial(Companies, Candidates) /\ m.blocked \in SUBSET Companies
      /\ m.cohort \in Maybe /\ m.members \in SUBSET Companies
  BY DEF Memories
<1>4. row \in Rankings
  BY <1>1, <1>3, RankingTypes
<1> HIDE DEF row
<1> QED
  BY <1>2, <1>3, <1>4 DEF Rankings

LEMMA SavingRanking ==
  ASSUME Inv, NEW p \in Processes, SaveRanking(p)
  PROVE  Inv'
<1> DEFINE m == proc[p]
           row == Ranking(m)
<1>1. m \in Memories /\ Fits(m, cohorts, rankings) /\ m.pc # "idle" /\ m.month \in Months
  BY ProcessFacts DEF SaveRanking, At, Fits
<1> DEFINE table == InsertOrGet(rankings, m.month, row)
<1>2. rankings' = table
  BY DEF SaveRanking
<1>3. row \in Rankings /\ row.cohort = m.cohort /\ row.members = m.members
  BY <1>1, RowType DEF Inv
<1> HIDE DEF row
<1>4. /\ Kept(rankings, table) /\ DOMAIN table = DOMAIN rankings \cup {m.month}
      /\ \A k \in DOMAIN rankings : table[k] = rankings[k]
      /\ m.month \notin DOMAIN rankings => table[m.month] = row
  BY InsertFacts
<1> HIDE DEF table
<1>5. DOMAIN rankings' \subseteq Months /\ \A k \in DOMAIN rankings' : rankings'[k] \in Rankings
  BY <1>1, <1>2, <1>3, <1>4 DEF Inv, TypeOK
<1>6. cohorts' = cohorts /\ UNCHANGED inputs /\ Move(p, Idle)
  BY DEF SaveRanking
<1>7. RankingNamesStoredCohort'
  <2> SUFFICES ASSUME NEW k \in DOMAIN rankings', rankings'[k].cohort # 0
               PROVE  /\ rankings'[k].cohort = k /\ k \in DOMAIN cohorts
                      /\ rankings'[k].members = DOMAIN cohorts[k].members
    BY <1>6 DEF RankingNamesStoredCohort
  <2>1. CASE k \in DOMAIN rankings
    BY <1>2, <1>4, <2>1 DEF Kept, Inv, RankingNamesStoredCohort
  <2>2. CASE k \notin DOMAIN rankings
    <3>1. k = m.month /\ rankings'[k] = row
      BY <1>2, <1>4, <2>2
    <3> QED
      BY <1>1, <1>3, <3>1 DEF Fits
  <2> QED
    BY <2>1, <2>2
<1>8. /\ Kept(cohorts, cohorts') /\ DOMAIN cohorts' \subseteq Months
      /\ \A k \in DOMAIN cohorts' : cohorts'[k] \in Cohorts
  BY <1>6, KeptSelf DEF Inv, TypeOK
<1> QED
  BY <1>2, <1>4, <1>5, <1>6, <1>7, <1>8, IdleFits, Stepped

LEMMA Stopping ==
  ASSUME Inv, NEW p \in Processes, Stop(p)
  PROVE  Inv'
<1>1. Move(p, Idle) /\ UNCHANGED <<inputs, cohorts, rankings>>
  BY DEF Stop
<1> QED
  BY <1>1, IdleFits, Reading

(* What happens around the processes: analyses, challenges, deterministic  *)
(* runs, months.                                                           *)
Around ==
  \/ \E c \in Companies : Challenge(c) \/ \E case \in Candidates : Analyze(c, case)
  \/ \E top \in Tops : RankWatchlist(top)
  \/ NextMonth

LEMMA AroundInv ==
  ASSUME Inv, Around
  PROVE  Inv' /\ UNCHANGED <<cohorts, rankings, proc>>
<1>1. UNCHANGED <<cohorts, rankings, proc>>
  BY DEF Around, Challenge, Analyze, RankWatchlist, NextMonth
<1>2. TypeOK'
  <2>1. ASSUME NEW c \in Companies, Challenge(c)
        PROVE  TypeOK'
    BY <1>1, <2>1 DEF Inv, TypeOK, Challenge
  <2>2. ASSUME NEW c \in Companies, NEW case \in Candidates, Analyze(c, case)
        PROVE  TypeOK'
    <3>1. theses' \in Partial(Companies, Candidates)
      BY <2>2, PartialWith DEF Analyze, Inv, TypeOK
    <3> QED
      BY <1>1, <2>2, <3>1 DEF Inv, TypeOK, Analyze
  <2>3. ASSUME NEW top \in Tops, RankWatchlist(top)
        PROVE  TypeOK'
    <3>1. DOMAIN screens' \subseteq Months /\ \A m \in DOMAIN screens' : screens'[m] \in Tops
      BY <2>3 DEF RankWatchlist, With, Inv, TypeOK
    <3> QED
      BY <1>1, <2>3, <3>1 DEF Inv, TypeOK, RankWatchlist
  <2>4. CASE NextMonth
    BY <1>1, <2>4, RankingAssumption DEF Inv, TypeOK, NextMonth, Months
  <2> QED
    BY <2>1, <2>2, <2>3, <2>4 DEF Around
<1>3. ProcessesOK' /\ RankingNamesStoredCohort'
  BY <1>1 DEF Inv, ProcessesOK, RankingNamesStoredCohort
<1> QED
  BY <1>1, <1>2, <1>3 DEF Inv

LEMMA InitInv == Init => Inv
<1> SUFFICES ASSUME Init PROVE Inv
  OBVIOUS
<1>1. TypeOK
  BY EmptyPartial, IdleFits, RankingAssumption DEF Init, TypeOK, Months
<1>2. ProcessesOK
  BY IdleFits DEF Init, ProcessesOK
<1>3. RankingNamesStoredCohort
  BY EmptyPartial DEF Init, RankingNamesStoredCohort
<1> QED
  BY <1>1, <1>2, <1>3 DEF Inv

LEMMA NextInv == Inv /\ [Next]_vars => Inv'
<1> SUFFICES ASSUME Inv, [Next]_vars PROVE Inv'
  OBVIOUS
<1>1. ASSUME NEW p \in Processes, Step(p) PROVE Inv'
  BY <1>1, Starting, ReadingBlocks, ReadingPrevious, ReadingScreen, LookingUp, ReadingPrior,
     InsertingCohort, SavingRanking, Stopping DEF Step
<1>2. CASE Around
  BY <1>2, AroundInv
<1>3. CASE UNCHANGED vars
  BY <1>3 DEF vars, inputs, Inv, TypeOK, ProcessesOK, RankingNamesStoredCohort
<1> QED
  BY <1>1, <1>2, <1>3 DEF Next, Around

(* Every variable stays in its type, whatever the processes interleave.    *)
THEOREM TypeCorrect == Spec => []TypeOK
<1>1. Inv => TypeOK
  BY DEF Inv
<1> QED
  BY InitInv, NextInv, <1>1, PTL DEF Spec

(* A ranking with a cohort has the members that are stored for its month,  *)
(* also when another process froze the cohort in between.                  *)
THEOREM NamesStoredCohort == Spec => []RankingNamesStoredCohort
<1>1. Inv => RankingNamesStoredCohort
  BY DEF Inv
<1> QED
  BY InitInv, NextInv, <1>1, PTL DEF Spec

LEMMA TablesKept ==
  ASSUME [Next]_vars
  PROVE  Kept(cohorts, cohorts') /\ Kept(rankings, rankings')
<1>1. ASSUME NEW p \in Processes, InsertCohort(p)
      PROVE  Kept(cohorts, cohorts') /\ rankings' = rankings
  BY <1>1, InsertFacts DEF InsertCohort
<1>2. ASSUME NEW p \in Processes, SaveRanking(p)
      PROVE  Kept(rankings, rankings') /\ cohorts' = cohorts
  BY <1>2, InsertFacts DEF SaveRanking
<1>3. ASSUME NEW p \in Processes, Step(p), ~InsertCohort(p), ~SaveRanking(p)
      PROVE  cohorts' = cohorts /\ rankings' = rankings
  BY <1>3 DEF Step, StartRanking, StartCohort, ReadBlocks, ReadPrevious, ReadScreen,
              LookUpCohort, ReadPrior, Stop
<1>4. ~(\E p \in Processes : Step(p)) => cohorts' = cohorts /\ rankings' = rankings
  BY DEF Next, Challenge, Analyze, RankWatchlist, NextMonth, vars
<1> QED
  BY <1>1, <1>2, <1>3, <1>4, KeptSelf

(* What was frozen for a month is never changed nor lost.                  *)
THEOREM Frozen == Spec => SnapshotsNeverChange
<1>1. [Next]_vars =>
        [/\ \A m \in DOMAIN cohorts : m \in DOMAIN cohorts' /\ cohorts'[m] = cohorts[m]
         /\ \A m \in DOMAIN rankings : m \in DOMAIN rankings' /\ rankings'[m] = rankings[m]]_vars
  BY TablesKept DEF Kept
<1> QED
  BY <1>1, PTL DEF Spec, SnapshotsNeverChange
-----------------------------------------------------------------------------
(* The two-signal rule: as long as no process runs over the end of its     *)
(* month, every ranking is built on the one before it, and then a small    *)
(* move of a tier takes the same signal in two rankings in a row, and no   *)
(* more than two.                                                          *)
Previous(R, m) == IF LatestBefore(R, m) = 0 THEN NoRanking ELSE R[LatestBefore(R, m)]

(* The row is the ranking of its cases after a previous one, for some      *)
(* blocked companies.                                                      *)
Follows(row, previous) ==
  \E b \in SUBSET Companies :
    LET r == RankingOf(row.cases, b, previous) IN
    /\ row.proposed = r.proposed /\ row.effective = r.effective
    /\ row.pending = r.pending /\ row.tier = r.tier

Chain(R) == \A m \in DOMAIN R : Follows(R[m], Previous(R, m))

(* A process is in its month, and from the screen on a ranking process     *)
(* has the ranking before its month.                                       *)
UpToDate(m) ==
  /\ m.pc # "idle" => m.month = month
  /\ m.pc = "save" => m.ranks
  /\ (m.ranks /\ m.pc \notin {"idle", "blocks", "previous"}) =>
       m.previous = LatestBefore(rankings, month)

TierInv ==
  /\ RunsEndInTheirMonth
  /\ DOMAIN rankings \subseteq 1 .. month
  /\ \A p \in Processes : UpToDate(proc[p])
  /\ Chain(rankings)
-----------------------------------------------------------------------------
(* A row of the month m changes nothing before m.                          *)
LEMMA SamePrevious ==
  ASSUME NEW t, NEW u, NEW m \in Int, DOMAIN t \subseteq Int, DOMAIN u = DOMAIN t \cup {m},
         Kept(t, u), NEW k \in Int, k <= m
  PROVE  LatestBefore(u, k) = LatestBefore(t, k) /\ Previous(u, k) = Previous(t, k)
<1>1. Before(u, k) = Before(t, k)
  BY DEF Before
<1>2. LatestBefore(u, k) = LatestBefore(t, k)
  BY <1>1 DEF LatestBefore
<1>3. LatestBefore(t, k) = 0 \/ LatestBefore(t, k) \in DOMAIN t
  BY LatestFacts
<1> QED
  BY <1>2, <1>3 DEF Previous, Kept

(* What a ranking says of a company: its move is pending, or it is made.   *)
LEMMA RowFacts ==
  ASSUME NEW cases, NEW b, NEW previous, NEW c \in DOMAIN cases
  PROVE  LET r == RankingOf(cases, b, previous) IN
         /\ DOMAIN r.effective = DOMAIN cases
         /\ r.proposed[c] = ProposedTier(cases[c])
         /\ c \in DOMAIN r.pending <=> c \in Held(cases, b, previous)
         /\ c \in DOMAIN r.pending =>
              r.pending[c] = r.proposed[c] /\ r.effective[c] = previous.effective[c]
         /\ c \notin DOMAIN r.pending => r.effective[c] = r.proposed[c]
         /\ c \in b => r.tier[c] = "RESEARCH"
<1> DEFINE held == Held(cases, b, previous)
           r == RankingOf(cases, b, previous)
<1>1. held \subseteq DOMAIN cases
  BY DEF Held
<1> HIDE DEF held
<1>2. r.proposed[c] = ProposedTier(cases[c]) /\ DOMAIN r.pending = held
  BY DEF RankingOf, held
<1>3. /\ DOMAIN r.effective = DOMAIN cases
      /\ r.effective[c] = IF c \in held THEN previous.effective[c] ELSE ProposedTier(cases[c])
  BY DEF RankingOf, held
<1>4. c \in held => r.pending[c] = ProposedTier(cases[c])
  BY DEF RankingOf, held
<1>5. c \in b => r.tier[c] = "RESEARCH"
  BY DEF RankingOf, held, FinalTier
<1> QED
  BY <1>2, <1>3, <1>4, <1>5 DEF held

LEMMA NoMoveToItself ==
  ASSUME NEW tier, NEW base
  PROVE  ~NearAdjacentMove(tier, tier, base)
<1>1. tier \in Ordered => Order(tier) \in Int
  BY DEF Ordered, Order
<1> QED
  BY <1>1 DEF NearAdjacentMove

(* The two-signal rule, of two rows of which one follows the other.        *)
LEMMA TwoRows ==
  ASSUME NEW Q, NEW R, NEW before, Follows(Q, before), Follows(R, Q),
         NEW c \in DOMAIN Q.cases \cap DOMAIN R.cases
  PROVE  /\ (/\ R.tier[c] # "RESEARCH"
             /\ NearAdjacentMove(Q.effective[c], R.effective[c], R.cases[c].base)) =>
               Q.proposed[c] = R.effective[c] /\ R.proposed[c] = R.effective[c]
         /\ Q.proposed[c] = R.proposed[c] => R.effective[c] = R.proposed[c]
<1>1. /\ DOMAIN Q.effective = DOMAIN Q.cases
      /\ c \in DOMAIN Q.pending => Q.pending[c] = Q.proposed[c]
      /\ c \notin DOMAIN Q.pending => Q.effective[c] = Q.proposed[c]
  BY RowFacts DEF Follows
<1>2. PICK b \in SUBSET Companies :
        LET r == RankingOf(R.cases, b, Q) IN
        /\ R.proposed = r.proposed /\ R.effective = r.effective
        /\ R.pending = r.pending /\ R.tier = r.tier
  BY DEF Follows
<1>3. /\ R.proposed[c] = ProposedTier(R.cases[c])
      /\ c \in DOMAIN R.pending <=> c \in Held(R.cases, b, Q)
      /\ c \in DOMAIN R.pending => R.effective[c] = Q.effective[c]
      /\ c \notin DOMAIN R.pending => R.effective[c] = R.proposed[c]
      /\ c \in b => R.tier[c] = "RESEARCH"
  BY <1>2, RowFacts
<1>4. c \in Held(R.cases, b, Q) <=>
        /\ c \notin b /\ R.proposed[c] # "IE"
        /\ NearAdjacentMove(Q.effective[c], R.proposed[c], R.cases[c].base)
        /\ ~(c \in DOMAIN Q.pending /\ Q.pending[c] = R.proposed[c])
  BY <1>1, <1>3 DEF Held
<1>5. ASSUME R.tier[c] # "RESEARCH",
             NearAdjacentMove(Q.effective[c], R.effective[c], R.cases[c].base)
      PROVE  Q.proposed[c] = R.effective[c] /\ R.proposed[c] = R.effective[c]
  <2>1. c \notin Held(R.cases, b, Q)
    BY <1>3, <1>5, NoMoveToItself
  <2>2. R.effective[c] = R.proposed[c] /\ R.proposed[c] # "IE"
    BY <1>3, <1>5, <2>1 DEF NearAdjacentMove, Ordered
  <2> QED
    BY <1>1, <1>3, <1>4, <1>5, <2>1, <2>2
<1>6. ASSUME Q.proposed[c] = R.proposed[c]
      PROVE  R.effective[c] = R.proposed[c]
  <2>1. c \notin Held(R.cases, b, Q)
    BY <1>1, <1>4, <1>6, NoMoveToItself
  <2> QED
    BY <1>3, <2>1
<1> QED
  BY <1>5, <1>6

-----------------------------------------------------------------------------
LEMMA InitTiers == RunsEndInTheirMonth /\ Init => TierInv
<1> SUFFICES ASSUME RunsEndInTheirMonth, Init PROVE TierInv
  OBVIOUS
<1>1. DOMAIN rankings = {}
  BY EmptyPartial DEF Init
<1>2. \A p \in Processes : UpToDate(proc[p])
  BY DEF Init, UpToDate, Idle
<1> QED
  BY <1>1, <1>2 DEF TierInv, Chain

(* A step of a process that saves no ranking.                              *)
LEMMA QuietStep ==
  ASSUME Inv, TierInv, NEW p \in Processes, NEW memory, Move(p, memory),
         month' = month, rankings' = rankings, UpToDate(memory)
  PROVE  TierInv'
<1>1. proc'[p] = memory /\ \A q \in Processes \ {p} : proc'[q] = proc[q]
  BY DEF Move, Inv, TypeOK
<1>2. \A q \in Processes : UpToDate(proc[q])'
  BY <1>1 DEF TierInv, UpToDate
<1> QED
  BY <1>2 DEF TierInv, Chain, Previous, Follows

LEMMA ProcessUpToDate ==
  ASSUME Inv, TierInv, NEW p \in Processes
  PROVE  proc[p] \in Memories /\ UpToDate(proc[p])
BY DEF Inv, TypeOK, TierInv

LEMMA IdleUpToDate == UpToDate(Idle)
BY DEF UpToDate, Idle

LEMMA CohortUpToDate ==
  ASSUME NEW m \in Memories, UpToDate(m), m.pc \notin {"idle", "blocks", "previous"}, NEW M
  PROVE  UpToDate(WithCohort(m, M))
<1>1. UpToDate([m EXCEPT !.pc = "save", !.cohort = m.month, !.members = M]) \/ ~m.ranks
  BY DEF UpToDate, Memories
<1> QED
  BY <1>1, IdleUpToDate DEF WithCohort

LEMMA QuietSteps ==
  ASSUME Inv, TierInv, NEW p \in Processes, Step(p), ~SaveRanking(p)
  PROVE  TierInv'
<1> DEFINE m == proc[p]
<1>1. m \in Memories /\ UpToDate(m)
  BY ProcessUpToDate
<1>2. CASE StartRanking(p)
  <2> DEFINE memory == [Idle EXCEPT !.pc = "blocks", !.ranks = TRUE, !.month = month, !.cases = theses]
  <2>1. UpToDate(memory) /\ Move(p, memory) /\ month' = month /\ rankings' = rankings
    BY <1>2 DEF StartRanking, UpToDate, Idle, inputs
  <2> HIDE DEF memory
  <2> QED
    BY <2>1, QuietStep
<1>3. CASE StartCohort(p)
  <2> DEFINE memory == [Idle EXCEPT !.pc = "screen", !.month = month]
  <2>1. UpToDate(memory) /\ Move(p, memory) /\ month' = month /\ rankings' = rankings
    BY <1>3 DEF StartCohort, UpToDate, Idle, inputs
  <2> HIDE DEF memory
  <2> QED
    BY <2>1, QuietStep
<1>4. CASE ReadBlocks(p)
  <2> DEFINE memory == [m EXCEPT !.pc = "previous", !.blocked = blocked]
  <2>1. UpToDate(memory) /\ Move(p, memory) /\ month' = month /\ rankings' = rankings
    BY <1>1, <1>4 DEF ReadBlocks, At, UpToDate, Memories, inputs
  <2> HIDE DEF memory
  <2> QED
    BY <2>1, QuietStep
<1>5. CASE ReadPrevious(p)
  <2> DEFINE memory == [m EXCEPT !.pc = "screen", !.previous = LatestBefore(rankings, m.month)]
  <2>1. UpToDate(memory) /\ Move(p, memory) /\ month' = month /\ rankings' = rankings
    BY <1>1, <1>5 DEF ReadPrevious, At, UpToDate, Memories, inputs
  <2> HIDE DEF memory
  <2> QED
    BY <2>1, QuietStep
<1>6. CASE ReadScreen(p)
  <2> DEFINE last == LatestBefore(screens, m.month + 1)
             found == [m EXCEPT !.pc = "lookup", !.top = screens[last]]
             none == [m EXCEPT !.pc = "save"]
             memory == IF last # 0 THEN found ELSE IF m.ranks THEN none ELSE Idle
  <2>1. Move(p, memory) /\ month' = month /\ rankings' = rankings
    BY <1>6 DEF ReadScreen, inputs
  <2>2. UpToDate(found) /\ (m.ranks => UpToDate(none))
    BY <1>1, <1>6 DEF ReadScreen, At, UpToDate, Memories
  <2> HIDE DEF found, none, last
  <2>3. UpToDate(memory)
    BY <2>2, IdleUpToDate
  <2> HIDE DEF memory
  <2> QED
    BY <2>1, <2>3, QuietStep
<1>7. CASE LookUpCohort(p)
  <2> DEFINE found == WithCohort(m, DOMAIN cohorts[m.month].members)
             none == [m EXCEPT !.pc = "before"]
             memory == IF m.month \in DOMAIN cohorts THEN found ELSE none
  <2>1. Move(p, memory) /\ month' = month /\ rankings' = rankings
    BY <1>7 DEF LookUpCohort, inputs
  <2>2. UpToDate(found)
    BY <1>1, <1>7, CohortUpToDate DEF LookUpCohort, At
  <2>3. UpToDate(none)
    BY <1>1, <1>7 DEF LookUpCohort, At, UpToDate, Memories
  <2> HIDE DEF found, none
  <2>4. UpToDate(memory)
    BY <2>2, <2>3
  <2> HIDE DEF memory
  <2> QED
    BY <2>1, <2>4, QuietStep
<1>8. CASE ReadPrior(p)
  <2> DEFINE memory == [m EXCEPT !.pc = "insert", !.prior = LatestBefore(cohorts, m.month)]
  <2>1. UpToDate(memory) /\ Move(p, memory) /\ month' = month /\ rankings' = rankings
    BY <1>1, <1>8 DEF ReadPrior, At, UpToDate, Memories, inputs
  <2> HIDE DEF memory
  <2> QED
    BY <2>1, QuietStep
<1>9. CASE InsertCohort(p)
  <2> DEFINE memory == WithCohort(m, DOMAIN cohorts'[m.month].members)
  <2>1. Move(p, memory) /\ month' = month /\ rankings' = rankings
    BY <1>9 DEF InsertCohort, inputs
  <2>2. UpToDate(memory)
    BY <1>1, <1>9, CohortUpToDate DEF InsertCohort, At
  <2> HIDE DEF memory
  <2> QED
    BY <2>1, <2>2, QuietStep
<1>10. CASE Stop(p)
  <2>1. Move(p, Idle) /\ month' = month /\ rankings' = rankings
    BY <1>10 DEF Stop, inputs
  <2> QED
    BY <2>1, IdleUpToDate, QuietStep
<1> QED
  BY <1>2, <1>3, <1>4, <1>5, <1>6, <1>7, <1>8, <1>9, <1>10 DEF Step

(* The saved row follows the ranking before its month, which is still the  *)
(* one the process has read, and comes after every other row.              *)
LEMMA SavingTiers ==
  ASSUME Inv, TierInv, NEW p \in Processes, SaveRanking(p)
  PROVE  TierInv'
<1> DEFINE m == proc[p]
           row == Ranking(m)
           before == Previous(rankings, month)
           table == InsertOrGet(rankings, month, row)
<1>1. /\ m \in Memories /\ m.pc = "save" /\ m.ranks /\ m.month = month
      /\ m.previous = LatestBefore(rankings, month) /\ m.blocked \in SUBSET Companies
  BY ProcessUpToDate DEF SaveRanking, At, UpToDate, Memories
<1>2. /\ month' = month /\ Move(p, Idle) /\ rankings' = table
      /\ month \in Int /\ DOMAIN rankings \subseteq Int
  BY <1>1 DEF SaveRanking, inputs, Inv, TypeOK, Months
<1>3. Follows(row, before)
  <2> DEFINE r == RankingOf(m.cases, m.blocked, before)
  <2>1. row = [r EXCEPT !.cohort = m.cohort, !.members = m.members]
    BY <1>1 DEF Ranking, Previous
  <2>2. r = [cases |-> m.cases, proposed |-> r.proposed, effective |-> r.effective,
             pending |-> r.pending, cohort |-> 0, members |-> {}, tier |-> r.tier]
    BY DEF RankingOf
  <2> HIDE DEF r, row
  <2>3. /\ row.cases = m.cases /\ row.proposed = r.proposed /\ row.effective = r.effective
        /\ row.pending = r.pending /\ row.tier = r.tier
    BY <2>1, <2>2
  <2> HIDE DEF before
  <2> QED
    BY <1>1, <2>3 DEF Follows, r
<1> HIDE DEF row
<1>4. /\ Kept(rankings, table) /\ DOMAIN table = DOMAIN rankings \cup {month}
      /\ month \notin DOMAIN rankings => table[month] = row
  BY InsertFacts
<1> HIDE DEF table
<1>5. \A k \in 1 .. month : /\ LatestBefore(table, k) = LatestBefore(rankings, k)
                            /\ Previous(table, k) = Previous(rankings, k)
  BY <1>2, <1>4, SamePrevious
<1>6. Chain(table)
  <2> SUFFICES ASSUME NEW k \in DOMAIN table PROVE Follows(table[k], Previous(table, k))
    BY DEF Chain
  <2>1. k \in 1 .. month
    BY <1>4, <1>2 DEF TierInv, Inv, TypeOK, Months
  <2>2. CASE k \in DOMAIN rankings
    BY <1>4, <1>5, <2>1, <2>2 DEF Kept, TierInv, Chain
  <2>3. CASE k \notin DOMAIN rankings
    BY <1>3, <1>4, <1>5, <2>1, <2>3
  <2> QED
    BY <2>2, <2>3
<1>7. month \in 1 .. month
  BY DEF Inv, TypeOK, Months
<1>8. \A q \in Processes : UpToDate(proc[q])'
  <2>1. proc'[p] = Idle /\ \A q \in Processes \ {p} : proc'[q] = proc[q]
    BY <1>2 DEF Move, Inv, TypeOK
  <2>2. LatestBefore(rankings', month') = LatestBefore(rankings, month)
    BY <1>2, <1>5, <1>7
  <2> QED
    BY <1>2, <2>1, <2>2 DEF TierInv, UpToDate, Idle
<1>9. DOMAIN rankings' \subseteq 1 .. month'
  BY <1>2, <1>4, <1>7 DEF TierInv
<1>10. Chain(rankings)'
  BY <1>2, <1>6 DEF Chain, Follows, Previous
<1> QED
  BY <1>8, <1>9, <1>10 DEF TierInv

LEMMA NextTiers == Inv /\ TierInv /\ [Next]_vars => TierInv'
<1> SUFFICES ASSUME Inv, TierInv, [Next]_vars PROVE TierInv'
  OBVIOUS
<1>1. ASSUME NEW p \in Processes, Step(p) PROVE TierInv'
  BY <1>1, QuietSteps, SavingTiers
<1>2. ASSUME UNCHANGED <<month, rankings, proc>> PROVE TierInv'
  BY <1>2 DEF TierInv, UpToDate, Chain, Previous, Follows
<1>3. CASE NextMonth
  <2>1. /\ rankings' = rankings /\ proc' = proc /\ month' = month + 1
        /\ \A p \in Processes : proc[p].pc = "idle"
    BY <1>3 DEF NextMonth, TierInv, At
  <2>2. \A p \in Processes : UpToDate(proc[p])'
    BY <2>1 DEF UpToDate
  <2>3. DOMAIN rankings' \subseteq 1 .. month'
    BY <2>1 DEF TierInv, Inv, TypeOK, Months
  <2> QED
    BY <2>1, <2>2, <2>3 DEF TierInv, Chain, Previous, Follows
<1>4. CASE Around /\ ~NextMonth
  BY <1>2, <1>4 DEF Around, Challenge, Analyze, RankWatchlist
<1> QED
  BY <1>1, <1>2, <1>3, <1>4 DEF Next, Around, vars, inputs

(* A small move of a tier that is not blocked takes the same signal in two *)
(* rankings in a row.                                                      *)
THEOREM TierMovesTakeTwoSignals ==
  RunsEndInTheirMonth /\ Spec => []TierMovesOnTwoSignals
<1>1. Inv /\ TierInv => TierMovesOnTwoSignals
  <2> SUFFICES ASSUME Inv, TierInv, NEW k \in DOMAIN rankings, NEW m \in DOMAIN rankings,
                      NEW c \in Companies, Consecutive(k, m, c)
               PROVE  (/\ rankings[m].tier[c] # "RESEARCH"
                       /\ NearAdjacentMove(rankings[k].effective[c], rankings[m].effective[c],
                                           rankings[m].cases[c].base)) =>
                        /\ rankings[k].proposed[c] = rankings[m].effective[c]
                        /\ rankings[m].proposed[c] = rankings[m].effective[c]
    BY DEF TierMovesOnTwoSignals
  <2>1. /\ Follows(rankings[k], Previous(rankings, k)) /\ Follows(rankings[m], rankings[k])
        /\ c \in DOMAIN rankings[k].cases \cap DOMAIN rankings[m].cases
    BY DEF Consecutive, TierInv, Chain, Previous
  <2> QED
    BY <2>1, TwoRows
<1> QED
  BY InitInv, NextInv, InitTiers, NextTiers, <1>1, PTL DEF Spec

(* And no more than two: the second time, the signal is the tier.          *)
THEOREM SecondSignalMovesTier ==
  RunsEndInTheirMonth /\ Spec => []SecondSignalApplies
<1>1. Inv /\ TierInv => SecondSignalApplies
  <2> SUFFICES ASSUME Inv, TierInv, NEW k \in DOMAIN rankings, NEW m \in DOMAIN rankings,
                      NEW c \in Companies, Consecutive(k, m, c),
                      rankings[k].proposed[c] = rankings[m].proposed[c]
               PROVE  rankings[m].effective[c] = rankings[m].proposed[c]
    BY DEF SecondSignalApplies
  <2>1. /\ Follows(rankings[k], Previous(rankings, k)) /\ Follows(rankings[m], rankings[k])
        /\ c \in DOMAIN rankings[k].cases \cap DOMAIN rankings[m].cases
    BY DEF Consecutive, TierInv, Chain, Previous
  <2> QED
    BY <2>1, TwoRows
<1> QED
  BY InitInv, NextInv, InitTiers, NextTiers, <1>1, PTL DEF Spec

-----------------------------------------------------------------------------
(* What a ranking says of its review is what was accepted.  The memory of  *)
(* a process is what needs an invariant: one that is about to attach holds *)
(* the ranks of the accepted row, because an accepted row never changes    *)
(* again.                                                                  *)
ReviewRow(row) == row = [status |-> row.status, raw |-> row.raw, ranks |-> row.ranks]
Memory(m) ==
  m = [pc |-> m.pc, month |-> m.month, cases |-> m.cases, raw |-> m.raw, ranks |-> m.ranks]

HasRow == {"validate", "rerank", "reject", "accept", "attach"}

(* What the memory m of a process knows of the reviews R.                  *)
Justified(m, R) ==
  /\ Memory(m)
  /\ m.pc \in HasRow => m.month \in DOMAIN R
  /\ m.pc = "attach" => R[m.month].status = "accepted" /\ R[m.month].ranks = m.ranks

(* Rows stay, and an accepted row stays as it is.                          *)
AcceptedKept(old, new) ==
  \A m \in DOMAIN old :
    m \in DOMAIN new /\ (old[m].status = "accepted" => new[m] = old[m])

RowsWhole(R) == \A m \in DOMAIN R : ReviewRow(R[m])

ReviewInv ==
  /\ reviewer = [p \in Processes |-> reviewer[p]]
  /\ \A p \in Processes : Justified(reviewer[p], reviews)
  /\ RowsWhole(reviews)
  /\ ProvenanceIsAccepted
-----------------------------------------------------------------------------
LEMMA IdleReviewer ==
  ASSUME NEW R
  PROVE  Justified(NoReview, R)
BY DEF Justified, Memory, HasRow, NoReview

(* A memory of which some fields are set.                                  *)
LEMMA SetRaw ==
  ASSUME NEW m, Memory(m), NEW pc, NEW raw
  PROVE  [m EXCEPT !.pc = pc, !.raw = raw] =
           [pc |-> pc, month |-> m.month, cases |-> m.cases, raw |-> raw, ranks |-> m.ranks]
<1> DEFINE set == [m EXCEPT !.pc = pc]
<1>1. set = [pc |-> pc, month |-> m.month, cases |-> m.cases, raw |-> m.raw, ranks |-> m.ranks]
  BY DEF Memory
<1>2. [m EXCEPT !.pc = pc, !.raw = raw] = [set EXCEPT !.raw = raw]
  OBVIOUS
<1> HIDE DEF set
<1> QED
  BY <1>1, <1>2

LEMMA SetRanks ==
  ASSUME NEW m, Memory(m), NEW pc, NEW ranks
  PROVE  [m EXCEPT !.pc = pc, !.ranks = ranks] =
           [pc |-> pc, month |-> m.month, cases |-> m.cases, raw |-> m.raw, ranks |-> ranks]
<1> DEFINE set == [m EXCEPT !.pc = pc]
<1>1. set = [pc |-> pc, month |-> m.month, cases |-> m.cases, raw |-> m.raw, ranks |-> m.ranks]
  BY DEF Memory
<1>2. [m EXCEPT !.pc = pc, !.ranks = ranks] = [set EXCEPT !.ranks = ranks]
  OBVIOUS
<1> HIDE DEF set
<1> QED
  BY <1>1, <1>2

LEMMA SetStart ==
  ASSUME NEW m, Memory(m), NEW pc, NEW k, NEW cases
  PROVE  [m EXCEPT !.pc = pc, !.month = k, !.cases = cases] =
           [pc |-> pc, month |-> k, cases |-> cases, raw |-> m.raw, ranks |-> m.ranks]
<1> DEFINE set == [m EXCEPT !.pc = pc]
           also == [set EXCEPT !.month = k]
<1>1. set = [pc |-> pc, month |-> m.month, cases |-> m.cases, raw |-> m.raw, ranks |-> m.ranks]
  BY DEF Memory
<1>2. also = [pc |-> pc, month |-> k, cases |-> m.cases, raw |-> m.raw, ranks |-> m.ranks]
  <2> HIDE DEF set
  <2> QED
    BY <1>1
<1>3. [m EXCEPT !.pc = pc, !.month = k, !.cases = cases] = [also EXCEPT !.cases = cases]
  OBVIOUS
<1> HIDE DEF also
<1> QED
  BY <1>2, <1>3

(* A row that is inserted, or was there.                                   *)
LEMMA Inserted ==
  ASSUME NEW t, NEW k, NEW v
  PROVE  LET u == InsertOrGet(t, k, v) IN
         /\ DOMAIN u = DOMAIN t \cup {k}
         /\ \A i \in DOMAIN t : u[i] = t[i]
         /\ k \notin DOMAIN t => u[k] = v
<1> DEFINE u == InsertOrGet(t, k, v)
<1>1. CASE k \in DOMAIN t
  BY <1>1 DEF InsertOrGet
<1>2. CASE k \notin DOMAIN t
  <2>1. u = With(t, k, v)
    BY <1>2 DEF InsertOrGet
  <2> QED
    BY <1>2, <2>1, WithFacts
<1> QED
  BY <1>1, <1>2

(* What a process knows stays true, whatever the others do.                *)
LEMMA JustifiedStays ==
  ASSUME NEW m, NEW old, NEW new, Justified(m, old), AcceptedKept(old, new)
  PROVE  Justified(m, new)
<1>1. m.pc = "attach" => m.pc \in HasRow
  BY DEF HasRow
<1>2. m.pc \in HasRow => m.month \in DOMAIN old
  BY DEF Justified
<1> QED
  BY <1>1, <1>2 DEF Justified, AcceptedKept

LEMMA NothingChanged ==
  ASSUME NEW old
  PROVE  AcceptedKept(old, old)
BY DEF AcceptedKept

(* A step of p that leaves provenance alone and keeps what is accepted.    *)
LEMMA ReviewerMoves ==
  ASSUME ReviewInv, NEW p \in Processes, NEW n, reviewer' = [reviewer EXCEPT ![p] = n],
         Justified(n, reviews'), AcceptedKept(reviews, reviews'), RowsWhole(reviews'),
         UNCHANGED provenance
  PROVE  ReviewInv'
<1>1. reviewer' = [q \in Processes |-> reviewer'[q]]
  BY DEF ReviewInv
<1>2. ASSUME NEW q \in Processes PROVE Justified(reviewer'[q], reviews')
  <2>1. Justified(reviewer[q], reviews')
    BY JustifiedStays DEF ReviewInv
  <2>2. reviewer'[q] = IF q = p THEN n ELSE reviewer[q]
    BY DEF ReviewInv
  <2> QED
    BY <2>1, <2>2
<1>3. ProvenanceIsAccepted'
  BY DEF ReviewInv, ProvenanceIsAccepted, AcceptedKept
<1> QED
  BY <1>1, <1>2, <1>3 DEF ReviewInv

(* A step of p that writes nothing.                                        *)
LEMMA ReviewerReads ==
  ASSUME ReviewInv, NEW p \in Processes, NEW n, Review(p, n), Justified(n, reviews),
         UNCHANGED <<reviews, provenance>>
  PROVE  ReviewInv'
BY ReviewerMoves, NothingChanged DEF Review, ReviewInv

(* What p knows, with the parts of its memory.                             *)
LEMMA ReviewerKnows ==
  ASSUME ReviewInv, NEW p \in Processes
  PROVE  /\ Justified(reviewer[p], reviews)
         /\ Memory(reviewer[p])
         /\ reviewer[p].pc \in HasRow =>
              reviewer[p].month \in DOMAIN reviews /\ ReviewRow(reviews[reviewer[p].month])
BY DEF ReviewInv, Justified, RowsWhole
-----------------------------------------------------------------------------
(* get_by_ranking_run: whatever it finds, the row is there, and an         *)
(* accepted one is attached with its own ranks.                            *)
LEMMA LookUpKeeps ==
  ASSUME ReviewInv, NEW p \in Processes, LookUpReview(p)
  PROVE  ReviewInv'
<1> DEFINE m == reviewer[p]
<1>1. Memory(m) /\ UNCHANGED <<reviews, provenance>>
  BY ReviewerKnows DEF LookUpReview
<1> HIDE DEF m
<1>2. CASE m.month \notin DOMAIN reviews
  <2>1. Review(p, [m EXCEPT !.pc = "ask"])
    BY <1>2 DEF LookUpReview, m
  <2>2. Justified([m EXCEPT !.pc = "ask"], reviews)
    BY <1>1 DEF Justified, Memory, HasRow
  <2> QED
    BY <1>1, <2>1, <2>2, ReviewerReads
<1>3. CASE m.month \in DOMAIN reviews /\ reviews[m.month].status = "accepted"
  <2> DEFINE ranks == reviews[m.month].ranks
             n == [m EXCEPT !.pc = "attach", !.ranks = ranks]
  <2>1. Review(p, n)
    BY <1>3 DEF LookUpReview, m
  <2>2. n = [pc |-> "attach", month |-> m.month, cases |-> m.cases, raw |-> m.raw, ranks |-> ranks]
    <3> HIDE DEF ranks
    <3> QED
      BY <1>1, SetRanks
  <2>3. Justified(n, reviews)
    <3> HIDE DEF n
    <3> QED
      BY <1>3, <2>2 DEF Justified, Memory
  <2> QED
    BY <1>1, <2>1, <2>3, ReviewerReads
<1>4. CASE m.month \in DOMAIN reviews /\ reviews[m.month].status # "accepted"
  <2> DEFINE raw == reviews[m.month].raw
             n == [m EXCEPT !.pc = "validate", !.raw = raw]
  <2>1. Review(p, n)
    BY <1>4 DEF LookUpReview, m
  <2>2. n = [pc |-> "validate", month |-> m.month, cases |-> m.cases, raw |-> raw, ranks |-> m.ranks]
    <3> HIDE DEF raw
    <3> QED
      BY <1>1, SetRaw
  <2>3. Justified(n, reviews)
    <3> HIDE DEF n
    <3> QED
      BY <1>4, <2>2 DEF Justified, Memory
  <2> QED
    BY <1>1, <2>1, <2>3, ReviewerReads
<1> QED
  BY <1>2, <1>3, <1>4

(* save_attempt: a row is added, or another process was faster.            *)
LEMMA SaveAttemptKeeps ==
  ASSUME ReviewInv, NEW p \in Processes, SaveAttempt(p)
  PROVE  ReviewInv'
<1> DEFINE m == reviewer[p]
           row == [status |-> "pending", raw |-> m.raw, ranks |-> << >>]
           n == [m EXCEPT !.pc = "validate"]
<1>1. Memory(m) /\ UNCHANGED provenance /\ RowsWhole(reviews)
  BY ReviewerKnows DEF SaveAttempt, ReviewInv
<1>2. reviews' = InsertOrGet(reviews, m.month, row)
  BY DEF SaveAttempt
<1>3. /\ DOMAIN reviews' = DOMAIN reviews \cup {m.month}
      /\ \A i \in DOMAIN reviews : reviews'[i] = reviews[i]
      /\ m.month \notin DOMAIN reviews => reviews'[m.month] = row
  <2> DEFINE k == m.month
             u == InsertOrGet(reviews, k, row)
  <2> HIDE DEF k, row
  <2>1. /\ DOMAIN u = DOMAIN reviews \cup {k}
        /\ \A i \in DOMAIN reviews : u[i] = reviews[i]
        /\ k \notin DOMAIN reviews => u[k] = row
    BY Inserted
  <2>2. reviews' = u
    BY <1>2 DEF k
  <2> HIDE DEF u
  <2> QED
    BY <2>1, <2>2 DEF k
<1>4. AcceptedKept(reviews, reviews')
  BY <1>3 DEF AcceptedKept
<1>5. RowsWhole(reviews')
  <2>1. ReviewRow(row)
    BY DEF ReviewRow
  <2> HIDE DEF row, m
  <2> QED
    BY <1>1, <1>3, <2>1 DEF RowsWhole
<1>6. CASE m.month \in DOMAIN reviews
  <2>1. reviewer' = [reviewer EXCEPT ![p] = NoReview]
    BY <1>6 DEF SaveAttempt, Review
  <2> QED
    BY <1>1, <1>4, <1>5, <2>1, IdleReviewer, ReviewerMoves
<1>7. CASE m.month \notin DOMAIN reviews
  <2>1. reviewer' = [reviewer EXCEPT ![p] = n]
    BY <1>7 DEF SaveAttempt, Review
  <2>2. Justified(n, reviews')
    <3> HIDE DEF m
    <3> QED
      BY <1>1, <1>3 DEF Justified, Memory, HasRow
  <2> HIDE DEF n
  <2> QED
    BY <1>1, <1>4, <1>5, <2>1, <2>2, ReviewerMoves
<1> QED
  BY <1>6, <1>7

(* reject: only a row that is not accepted.                                *)
LEMMA RejectKeeps ==
  ASSUME ReviewInv, NEW p \in Processes, RejectReview(p)
  PROVE  ReviewInv'
<1> DEFINE k == reviewer[p].month
<1>1. k \in DOMAIN reviews /\ ReviewRow(reviews[k]) /\ RowsWhole(reviews)
  BY ReviewerKnows DEF RejectReview, ReviewAt, HasRow, ReviewInv
<1>2. reviewer' = [reviewer EXCEPT ![p] = NoReview] /\ UNCHANGED provenance
  BY DEF RejectReview, Review
<1>3. CASE ~Undecided(k)
  <2>1. reviews' = reviews
    BY <1>3 DEF RejectReview
  <2> QED
    BY <1>1, <1>2, <2>1, IdleReviewer, NothingChanged, ReviewerMoves
<1>4. CASE Undecided(k)
  <2>1. reviews' = [reviews EXCEPT ![k].status = "rejected"]
    BY <1>4 DEF RejectReview
  <2> HIDE DEF k
  <2>2. reviews'[k] = [status |-> "rejected", raw |-> reviews[k].raw, ranks |-> reviews[k].ranks]
    BY <1>1, <2>1 DEF ReviewRow
  <2>3. DOMAIN reviews' = DOMAIN reviews /\ \A i \in DOMAIN reviews : i # k => reviews'[i] = reviews[i]
    BY <2>1
  <2>4. AcceptedKept(reviews, reviews')
    BY <1>4, <2>3 DEF AcceptedKept, Undecided
  <2>5. RowsWhole(reviews')
    BY <1>1, <2>2, <2>3 DEF RowsWhole, ReviewRow
  <2> QED
    BY <1>2, <2>4, <2>5, IdleReviewer, ReviewerMoves
<1> QED
  BY <1>3, <1>4

(* accept: once, and the process goes on with what it wrote.               *)
LEMMA AcceptKeeps ==
  ASSUME ReviewInv, NEW p \in Processes, AcceptReview(p)
  PROVE  ReviewInv'
<1> DEFINE m == reviewer[p]
           n == [m EXCEPT !.pc = "attach"]
<1>1. /\ m.month \in DOMAIN reviews /\ ReviewRow(reviews[m.month]) /\ RowsWhole(reviews)
      /\ Memory(m) /\ UNCHANGED provenance
  BY ReviewerKnows DEF AcceptReview, ReviewAt, HasRow, ReviewInv
<1>2. CASE ~Undecided(m.month)
  <2>1. reviews' = reviews /\ reviewer' = [reviewer EXCEPT ![p] = NoReview]
    BY <1>2 DEF AcceptReview, Review
  <2> QED
    BY <1>1, <2>1, IdleReviewer, NothingChanged, ReviewerMoves
<1>3. CASE Undecided(m.month)
  <2> DEFINE k == m.month
  <2>1. /\ reviews' = [reviews EXCEPT ![k].status = "accepted", ![k].ranks = m.ranks]
        /\ reviewer' = [reviewer EXCEPT ![p] = n]
    BY <1>3 DEF AcceptReview, Review
  <2> HIDE DEF m
  <2>2. reviews'[k] = [status |-> "accepted", raw |-> reviews[k].raw, ranks |-> m.ranks]
    BY <1>1, <2>1 DEF ReviewRow
  <2>3. DOMAIN reviews' = DOMAIN reviews /\ \A i \in DOMAIN reviews : i # k => reviews'[i] = reviews[i]
    BY <2>1
  <2>4. AcceptedKept(reviews, reviews')
    BY <1>3, <2>3 DEF AcceptedKept, Undecided
  <2>5. RowsWhole(reviews')
    BY <1>1, <2>2, <2>3 DEF RowsWhole, ReviewRow
  <2>6. n = [pc |-> "attach", month |-> k, cases |-> m.cases, raw |-> m.raw, ranks |-> m.ranks]
    BY <1>1 DEF Memory
  <2> HIDE DEF n
  <2>7. Justified(n, reviews')
    BY <1>1, <2>2, <2>3, <2>6 DEF Justified, Memory
  <2> QED
    BY <1>1, <2>1, <2>4, <2>5, <2>7, ReviewerMoves
<1> QED
  BY <1>2, <1>3

(* attach_to_ranking_run: what is merged in is what is accepted.           *)
LEMMA AttachKeeps ==
  ASSUME ReviewInv, NEW p \in Processes, AttachReview(p)
  PROVE  ReviewInv'
<1> DEFINE m == reviewer[p]
<1>1. m.month \in DOMAIN reviews /\ reviews[m.month].status = "accepted" /\ reviews[m.month].ranks = m.ranks
  BY ReviewerKnows DEF AttachReview, ReviewAt, Justified, HasRow
<1>2. /\ provenance' = InsertOrGet(provenance, m.month, Actionable(m.ranks))
      /\ reviewer' = [reviewer EXCEPT ![p] = NoReview] /\ reviews' = reviews
  BY DEF AttachReview, Review
<1> HIDE DEF m
<1>3. /\ DOMAIN provenance' = DOMAIN provenance \cup {m.month}
      /\ \A i \in DOMAIN provenance : provenance'[i] = provenance[i]
      /\ m.month \notin DOMAIN provenance => provenance'[m.month] = Actionable(m.ranks)
  <2> DEFINE k == m.month
             companies == Actionable(m.ranks)
             u == InsertOrGet(provenance, k, companies)
  <2>1. provenance' = u
    BY <1>2
  <2> HIDE DEF k, companies
  <2>2. /\ DOMAIN u = DOMAIN provenance \cup {k}
        /\ \A i \in DOMAIN provenance : u[i] = provenance[i]
        /\ k \notin DOMAIN provenance => u[k] = companies
    BY Inserted
  <2> HIDE DEF u
  <2> QED
    BY <2>1, <2>2 DEF k, companies
<1>4. ProvenanceIsAccepted'
  BY <1>1, <1>2, <1>3 DEF ReviewInv, ProvenanceIsAccepted
<1>5. reviewer' = [q \in Processes |-> reviewer'[q]]
  BY <1>2 DEF ReviewInv
<1>6. \A q \in Processes : Justified(reviewer'[q], reviews')
  BY <1>2, IdleReviewer DEF ReviewInv
<1> QED
  BY <1>2, <1>4, <1>5, <1>6 DEF ReviewInv

(* The steps that only change the memory of p.                             *)
LEMMA MemoryStepsKeep ==
  ASSUME ReviewInv, NEW p \in Processes,
         \/ \E m \in Months : StartReview(p, m)
         \/ AskReviewer(p) \/ ValidateReview(p) \/ Rerank(p) \/ StopReview(p)
  PROVE  ReviewInv'
<1>1. Memory(reviewer[p])
  BY ReviewerKnows
<1>2. ASSUME NEW k \in Months, StartReview(p, k) PROVE ReviewInv'
  <2> DEFINE n == [NoReview EXCEPT !.pc = "lookup", !.month = k, !.cases = theses]
  <2>1. n = [pc |-> "lookup", month |-> k, cases |-> theses, raw |-> NoReview.raw,
             ranks |-> NoReview.ranks]
    <3>1. Memory(NoReview)
      BY IdleReviewer DEF Justified
    <3> QED
      BY <3>1, SetStart
  <2>3. Justified(n, reviews)
    <3> HIDE DEF n
    <3> QED
      BY <2>1 DEF Justified, Memory, HasRow
  <2>2. Review(p, n) /\ UNCHANGED <<reviews, provenance>>
    BY <1>2 DEF StartReview
  <2> HIDE DEF n
  <2> QED
    BY <2>2, <2>3, ReviewerReads
<1>3. CASE AskReviewer(p)
  <2>1. PICK response : Review(p, [reviewer[p] EXCEPT !.pc = "save", !.raw = response])
    BY <1>3 DEF AskReviewer
  <2> DEFINE n == [reviewer[p] EXCEPT !.pc = "save", !.raw = response]
  <2>2. Justified(n, reviews)
    <3> DEFINE m == reviewer[p]
    <3> HIDE DEF m
    <3>1. n = [pc |-> "save", month |-> m.month, cases |-> m.cases, raw |-> response, ranks |-> m.ranks]
      BY <1>1, SetRaw DEF m
    <3> HIDE DEF n
    <3> QED
      BY <3>1 DEF Justified, Memory, HasRow
  <2>3. UNCHANGED <<reviews, provenance>>
    BY <1>3 DEF AskReviewer
  <2> HIDE DEF n
  <2> QED
    BY <2>1, <2>2, <2>3, ReviewerReads DEF n
<1>4. CASE ValidateReview(p)
  <2> DEFINE m == reviewer[p]
             n == [m EXCEPT !.pc = IF Valid(m.raw, m.cases) THEN "rerank" ELSE "reject"]
  <2>1. m.month \in DOMAIN reviews
    BY <1>4, ReviewerKnows DEF ValidateReview, ReviewAt, HasRow
  <2>2. Review(p, n) /\ UNCHANGED <<reviews, provenance>>
    BY <1>4 DEF ValidateReview
  <2>3. Justified(n, reviews)
    <3> HIDE DEF m
    <3> QED
      BY <1>1, <2>1 DEF Justified, Memory, HasRow, m
  <2> HIDE DEF n
  <2> QED
    BY <2>2, <2>3, ReviewerReads
<1>5. CASE Rerank(p)
  <2> DEFINE m == reviewer[p]
             ranks == Reranked(m, blocked)
             n == [m EXCEPT !.pc = "accept", !.ranks = ranks]
  <2>1. m.month \in DOMAIN reviews
    BY <1>5, ReviewerKnows DEF Rerank, ReviewAt, HasRow
  <2>2. Review(p, n) /\ UNCHANGED <<reviews, provenance>>
    BY <1>5 DEF Rerank
  <2>3. Justified(n, reviews)
    <3> HIDE DEF m, ranks
    <3>1. n = [pc |-> "accept", month |-> m.month, cases |-> m.cases, raw |-> m.raw, ranks |-> ranks]
      BY <1>1, SetRanks DEF m
    <3> HIDE DEF n
    <3> QED
      BY <2>1, <3>1 DEF Justified, Memory
  <2> HIDE DEF n
  <2> QED
    BY <2>2, <2>3, ReviewerReads
<1>6. CASE StopReview(p)
  BY <1>6, IdleReviewer, ReviewerReads DEF StopReview
<1> QED
  BY <1>2, <1>3, <1>4, <1>5, <1>6
-----------------------------------------------------------------------------
(* Nothing is reviewed and nothing is attached at first.                   *)
LEMMA ReviewInitially == ReviewInit => ReviewInv
<1> SUFFICES ASSUME ReviewInit PROVE ReviewInv
  OBVIOUS
<1>1. DOMAIN reviews = {} /\ DOMAIN provenance = {}
  BY DEF ReviewInit
<1>2. reviewer = [p \in Processes |-> NoReview]
  BY DEF ReviewInit
<1> QED
  BY <1>1, <1>2, IdleReviewer DEF ReviewInv, RowsWhole, ProvenanceIsAccepted

(* Every step of the ranking job and of the reviewers keeps the invariant. *)
LEMMA ReviewStepKeeps ==
  ReviewInv /\ [ReviewNext]_<<vars, reviewVars>> => ReviewInv'
<1> SUFFICES ASSUME ReviewInv, [ReviewNext]_<<vars, reviewVars>> PROVE ReviewInv'
  OBVIOUS
<1>1. CASE UNCHANGED reviewVars
  BY <1>1 DEF reviewVars, ReviewInv, ProvenanceIsAccepted
<1>2. ASSUME NEW p \in Processes, ReviewStep(p) PROVE ReviewInv'
  BY <1>2, LookUpKeeps, SaveAttemptKeeps, RejectKeeps, AcceptKeeps, AttachKeeps, MemoryStepsKeep
  DEF ReviewStep
<1> QED
  BY <1>1, <1>2 DEF ReviewNext

(* A process may be killed between any two calls, and another may accept   *)
(* or attach in its place: the companies a ranking calls actionable after  *)
(* its review are always those of the accepted response.                   *)
THEOREM ReviewProvenance == ReviewSpec => []ProvenanceIsAccepted
<1>1. ReviewInv => ProvenanceIsAccepted
  BY DEF ReviewInv
<1> QED
  BY <1>1, ReviewInitially, ReviewStepKeeps, PTL DEF ReviewSpec
=============================================================================
