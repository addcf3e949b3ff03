---------------------------- MODULE Valuation_proofs ----------------------------
(***************************************************************************)
(* What is proved of the numbers of a company: its place in the forward    *)
(* ranking (any book of cases), its scores and its place in the            *)
(* deterministic ranking (any findings), what its price implies (any       *)
(* dossier), and its scenario valuation with what drives it (any facts and *)
(* any proposals).                                                         *)
(***************************************************************************)
EXTENDS ForwardScenario, DeterministicRanking, ReverseDcf, BoundedSets, FiniteSetTheorems, TLAPS
-----------------------------------------------------------------------------
(* The keys of the forward ranking are six integers, in the order of their *)
(* first difference.                                                       *)
SixInts(key) ==
  /\ Len(key) = 6
  /\ key[1] \in Int /\ key[2] \in Int /\ key[3] \in Int
  /\ key[4] \in Int /\ key[5] \in Int /\ key[6] \in Int

LEMMA KeyIsSixInts ==
  ASSUME NEW case, IsCase(case)
  PROVE  SixInts(TieKey(case))
<1> DEFINE Q(percent) == IF case.available THEN Quantize(percent) ELSE Nothing
<1>1. \A percent \in Int : Quantize(percent) \in Int
  BY DEF Quantize
<1>2. Nothing \in Int
  BY DEF Nothing
<1>3. Q(case.bear) \in Int /\ Q(case.base[1]) \in Int /\ Q(case.bull) \in Int
      /\ Q(case.base[2] - case.base[1]) \in Int
  <2>1. CASE case.available
    <3>1. case.bear \in Int /\ case.bull \in Int /\ case.base[1] \in Int /\ case.base[2] \in Int
      BY <2>1 DEF IsCase
    <3>2. case.base[2] - case.base[1] \in Int
      BY <3>1
    <3> QED
      BY <1>1, <2>1, <3>1, <3>2
  <2>2. CASE ~case.available
    BY <1>2, <2>2
  <2> QED
    BY <2>1, <2>2
<1>4. ShownTier(case) \in DOMAIN TierOrder
  BY DEF ShownTier, EconomicTier, IsCase, TierOrder
<1>5. TierOrder[ShownTier(case)] \in Int
  BY <1>4 DEF TierOrder
<1>6. ConfidenceOrder[case.confidence] \in Int
  BY DEF IsCase, ConfidenceOrder
<1> HIDE DEF Q
<1>7. TieKey(case) = <<TierOrder[ShownTier(case)], -Q(case.bear), -Q(case.base[1]),
                       -ConfidenceOrder[case.confidence],
                       Q(case.base[2] - case.base[1]), -Q(case.bull)>>
  BY DEF TieKey, Q
<1> QED
  BY <1>3, <1>5, <1>6, <1>7 DEF SixInts

LEMMA PrecedesTransitive ==
  ASSUME NEW x, NEW y, NEW z, SixInts(x), SixInts(y), SixInts(z),
         Precedes(x, y), Precedes(y, z)
  PROVE  Precedes(x, z)
<1>1. \A i \in 1 .. 6 : x[i] \in Int /\ y[i] \in Int /\ z[i] \in Int
  BY DEF SixInts
<1>2. PICK i \in 1 .. 6 : x[i] < y[i] /\ \A k \in 1 .. i - 1 : x[k] = y[k]
  BY DEF Precedes, SixInts
<1>3. PICK j \in 1 .. 6 : y[j] < z[j] /\ \A k \in 1 .. j - 1 : y[k] = z[k]
  BY DEF Precedes, SixInts
<1>4. \E n \in 1 .. 6 : x[n] < z[n] /\ \A k \in 1 .. n - 1 : x[k] = z[k]
  <2>1. CASE i <= j
    <3>1. x[i] < z[i]
      <4>1. CASE i = j
        BY <1>1, <1>2, <1>3, <4>1
      <4>2. CASE i < j
        BY <1>1, <1>2, <1>3, <4>2
      <4> QED
        BY <2>1, <4>1, <4>2
    <3>2. \A k \in 1 .. i - 1 : x[k] = z[k]
      BY <2>1, <1>2, <1>3
    <3> QED
      BY <3>1, <3>2
  <2>2. CASE j < i
    <3>1. x[j] < z[j]
      BY <1>1, <1>2, <1>3, <2>2
    <3>2. \A k \in 1 .. j - 1 : x[k] = z[k]
      BY <2>2, <1>2, <1>3
    <3> QED
      BY <3>1, <3>2
  <2> QED
    BY <2>1, <2>2
<1> QED
  BY <1>4 DEF Precedes, SixInts

LEMMA PrecedesIrreflexive ==
  ASSUME NEW x, SixInts(x)
  PROVE  ~Precedes(x, x)
BY DEF Precedes, SixInts

(* A case with less confidence is shown in no better tier, and is ordered  *)
(* behind what it was.                                                     *)
LEMMA DoubtComesLater ==
  ASSUME NEW case, IsCase(case), NEW confidence \in DOMAIN ConfidenceOrder,
         ConfidenceOrder[confidence] < ConfidenceOrder[case.confidence]
  PROVE  LET doubted == [case EXCEPT !.confidence = confidence] IN
         /\ IsCase(doubted) /\ doubted.company = case.company
         /\ Precedes(TieKey(case), TieKey(doubted))
         /\ Actionable(doubted) => Actionable(case)
<1> DEFINE doubted == [case EXCEPT !.confidence = confidence]
           Q(percent) == IF case.available THEN Quantize(percent) ELSE Nothing
<1>1. /\ doubted = [company |-> case.company, available |-> case.available,
                    bear |-> case.bear, base |-> case.base, bull |-> case.bull,
                    confidence |-> confidence, challenged |-> case.challenged,
                    held |-> case.held, required |-> case.required]
  BY DEF IsCase
<1> HIDE DEF doubted
<1>2. /\ doubted.company = case.company /\ doubted.available = case.available
      /\ doubted.bear = case.bear /\ doubted.base = case.base /\ doubted.bull = case.bull
      /\ doubted.confidence = confidence /\ doubted.challenged = case.challenged
      /\ doubted.held = case.held /\ doubted.required = case.required
  BY <1>1
<1>3. IsCase(doubted)
  BY <1>1, <1>2 DEF IsCase
<1>4. EconomicTier(doubted) = EconomicTier(case)
  BY <1>2 DEF EconomicTier
<1>5. case.confidence # "low"
  BY DEF ConfidenceOrder, IsCase
<1>6. EconomicTier(case) \in {"A", "B", "C", "IE"}
  BY DEF EconomicTier, IsCase
<1>7. /\ TierOrder[ShownTier(case)] <= TierOrder[ShownTier(doubted)]
      /\ Actionable(doubted) => Actionable(case)
  <2>1. CASE case.challenged
    BY <1>2, <2>1 DEF ShownTier, Actionable, TierOrder
  <2>2. CASE ~case.challenged
    <3>1. ShownTier(case) = EconomicTier(case)
      BY <1>5, <2>2 DEF ShownTier
    <3>2. ShownTier(doubted) = EconomicTier(case)
          \/ (EconomicTier(case) = "A" /\ ShownTier(doubted) = "B")
          \/ (EconomicTier(case) \in {"B", "C"} /\ ShownTier(doubted) = "C")
      BY <1>2, <1>4, <1>6, <2>2 DEF ShownTier
    <3> QED
      BY <1>6, <3>1, <3>2 DEF Actionable, TierOrder
  <2> QED
    BY <2>1, <2>2 DEF IsCase
<1>8. SixInts(TieKey(case)) /\ SixInts(TieKey(doubted))
  BY <1>3, KeyIsSixInts
<1>9. /\ TieKey(case)[1] <= TieKey(doubted)[1]
      /\ TieKey(case)[2] = TieKey(doubted)[2] /\ TieKey(case)[3] = TieKey(doubted)[3]
      /\ TieKey(case)[4] < TieKey(doubted)[4]
  <2>1. TieKey(case) = <<TierOrder[ShownTier(case)], -Q(case.bear), -Q(case.base[1]),
                         -ConfidenceOrder[case.confidence],
                         Q(case.base[2] - case.base[1]), -Q(case.bull)>>
    BY DEF TieKey
  <2>2. TieKey(doubted) = <<TierOrder[ShownTier(doubted)], -Q(case.bear), -Q(case.base[1]),
                            -ConfidenceOrder[confidence],
                            Q(case.base[2] - case.base[1]), -Q(case.bull)>>
    BY <1>2 DEF TieKey
  <2> HIDE DEF Q
  <2>3. -ConfidenceOrder[case.confidence] < -ConfidenceOrder[confidence]
    BY DEF ConfidenceOrder, IsCase
  <2> QED
    BY <1>7, <2>1, <2>2, <2>3
<1>10. Precedes(TieKey(case), TieKey(doubted))
  <2> DEFINE x == TieKey(case)
             y == TieKey(doubted)
  <2> SUFFICES Precedes(x, y)
    OBVIOUS
  <2> HIDE DEF x, y
  <2>1. SixInts(x) /\ SixInts(y)
    BY <1>8 DEF x, y
  <2>2. x[1] <= y[1] /\ x[2] = y[2] /\ x[3] = y[3] /\ x[4] < y[4]
    BY <1>9 DEF x, y
  <2>3. CASE x[1] < y[1]
    <3>1. 1 \in 1 .. 6 /\ \A k \in 1 .. 1 - 1 : x[k] = y[k]
      OBVIOUS
    <3> QED
      BY <2>1, <2>3, <3>1 DEF Precedes, SixInts
  <2>4. CASE x[1] = y[1]
    <3>1. 4 \in 1 .. 6 /\ \A k \in 1 .. 4 - 1 : x[k] = y[k]
      BY <2>2, <2>4
    <3> QED
      BY <2>1, <2>2, <3>1 DEF Precedes, SixInts
  <2>5. x[1] < y[1] \/ x[1] = y[1]
    BY <2>1, <2>2 DEF SixInts
  <2> QED
    BY <2>3, <2>4, <2>5
<1> QED
  BY <1>2, <1>3, <1>7, <1>10 DEF doubted

(* With less confidence, whatever was before a case still is.              *)
LEMMA DoubtRanksNoBetter ==
  ASSUME NEW cases \in Books, NEW case \in cases, NEW confidence \in DOMAIN ConfidenceOrder,
         ConfidenceOrder[confidence] < ConfidenceOrder[case.confidence]
  PROVE  LET doubted == [case EXCEPT !.confidence = confidence]
             other == Ranks((cases \ {case}) \cup {doubted})
         IN  /\ other[case.company].rank >= Ranks(cases)[case.company].rank
             /\ other[case.company].actionable => Ranks(cases)[case.company].actionable
<1> DEFINE doubted == [case EXCEPT !.confidence = confidence]
           others == (cases \ {case}) \cup {doubted}
<1>1. IsFiniteSet(cases) /\ (\A x \in cases : IsCase(x))
      /\ \A x, y \in cases : x.company = y.company => x = y
  BY BooksHaveCases
<1>2. /\ IsCase(doubted) /\ doubted.company = case.company
      /\ Precedes(TieKey(case), TieKey(doubted))
      /\ Actionable(doubted) => Actionable(case)
  BY <1>1, DoubtComesLater
<1> HIDE DEF doubted
<1>3. (CHOOSE x \in cases : x.company = case.company) = case
  BY <1>1
<1>4. (CHOOSE x \in others : x.company = case.company) = doubted
  <2>1. \A x \in others : x.company = case.company => x = doubted
    BY <1>1, <1>2
  <2>2. doubted \in others
    OBVIOUS
  <2> QED
    BY <1>2, <2>1, <2>2
<1>5. /\ Ranks(cases)[case.company].rank = 1 + Cardinality(Ahead(case, cases))
      /\ Ranks(cases)[case.company].actionable = Actionable(case)
  <2>1. case.company \in {x.company : x \in cases}
    OBVIOUS
  <2> QED
    BY <1>3, <2>1 DEF Ranks
<1>6. /\ Ranks(others)[case.company].rank = 1 + Cardinality(Ahead(doubted, others))
      /\ Ranks(others)[case.company].actionable = Actionable(doubted)
  <2>1. case.company \in {x.company : x \in others}
    BY <1>2
  <2> HIDE DEF others
  <2> QED
    BY <1>4, <2>1 DEF Ranks
<1>7. Ahead(case, cases) \subseteq Ahead(doubted, others)
  <2> SUFFICES ASSUME NEW x \in cases, Precedes(TieKey(x), TieKey(case))
               PROVE  x \in Ahead(doubted, others)
    BY DEF Ahead
  <2>1. SixInts(TieKey(x)) /\ SixInts(TieKey(case)) /\ SixInts(TieKey(doubted))
    BY <1>1, <1>2, KeyIsSixInts
  <2>2. x # case
    BY <2>1, PrecedesIrreflexive
  <2>3. Precedes(TieKey(x), TieKey(doubted))
    BY <1>2, <2>1, PrecedesTransitive
  <2> QED
    BY <2>2, <2>3 DEF Ahead
<1>8. IsFiniteSet(others)
  <2>1. IsFiniteSet(cases \ {case})
    BY <1>1, FS_RemoveElement
  <2> QED
    BY <2>1, FS_AddElement
<1>9. IsFiniteSet(Ahead(doubted, others))
  <2>1. Ahead(doubted, others) \in SUBSET others
    BY DEF Ahead
  <2> QED
    BY <1>8, <2>1, FS_Subset
<1> HIDE DEF others
<1>10. Cardinality(Ahead(case, cases)) <= Cardinality(Ahead(doubted, others))
       /\ IsFiniteSet(Ahead(case, cases))
  BY <1>7, <1>9, FS_Subset
<1>11. Cardinality(Ahead(case, cases)) \in Nat /\ Cardinality(Ahead(doubted, others)) \in Nat
  BY <1>9, <1>10, FS_CardinalityType
<1>12. 1 + Cardinality(Ahead(doubted, others)) >= 1 + Cardinality(Ahead(case, cases))
  BY <1>10, <1>11
<1>13. /\ Ranks(others)[case.company].rank >= Ranks(cases)[case.company].rank
       /\ Ranks(others)[case.company].actionable => Ranks(cases)[case.company].actionable
  BY <1>2, <1>5, <1>6, <1>12
<1> QED
  BY <1>13 DEF others, doubted

(* A ranking is that of its book.                                          *)
BookRanked == book \in Books /\ (ranks # << >> => ranks = Ranks(book))

LEMMA BookIsRanked == ValuationSpec => []BookRanked
<1>1. ValuationInit => BookRanked
  BY DEF ValuationInit, BookRanked
<1>2. BookRanked /\ [ValuationNext]_valuationVars => BookRanked'
  <2> SUFFICES ASSUME BookRanked, [ValuationNext]_valuationVars PROVE BookRanked'
    OBVIOUS
  <2>1. UNCHANGED <<book, ranks>> \/ (UNCHANGED book /\ ranks' = Ranks(book))
    BY DEF ValuationNext, PassGate, SaveAttribution, RankBook, Value, valuationVars
  <2> QED
    BY <2>1 DEF BookRanked
<1> QED
  BY <1>1, <1>2, PTL DEF ValuationSpec

(* In any book, a company whose evidence were less certain would have no   *)
(* better rank and would not become actionable                             *)
(* (ForwardScenarioRanker.rank and _prepare).                              *)
THEOREM DoubtIsNoHelp == ValuationSpec => []DoubtNeverHelps
<1>1. BookRanked => DoubtNeverHelps
  <2> SUFFICES ASSUME BookRanked, ranks # << >>,
                      NEW case \in book, NEW confidence \in DOMAIN ConfidenceOrder,
                      ConfidenceOrder[confidence] < ConfidenceOrder[case.confidence]
               PROVE  LET doubted == Ranks((book \ {case})
                                             \cup {[case EXCEPT !.confidence = confidence]})
                      IN  /\ doubted[case.company].rank >= ranks[case.company].rank
                          /\ doubted[case.company].actionable
                               => ranks[case.company].actionable
    BY DEF DoubtNeverHelps
  <2>1. book \in Books /\ ranks = Ranks(book)
    BY DEF BookRanked
  <2> QED
    BY <2>1, DoubtRanksNoBetter
<1> QED
  BY <1>1, BookIsRanked, PTL
-----------------------------------------------------------------------------
(* The deterministic ranking.  A division rounds down and keeps the order. *)
LEMMA DivisionKeepsOrder ==
  ASSUME NEW a \in Int, NEW b \in Int, NEW d \in Int, d > 0, a <= b
  PROVE  a \div d <= b \div d /\ a \div d \in Int /\ b \div d \in Int
<1> DEFINE p == a \div d
           q == b \div d
<1>1. p \in Int /\ d * p <= a /\ a < d * p + d
  OBVIOUS
<1>2. q \in Int /\ d * q <= b /\ b < d * q + d
  OBVIOUS
<1> SUFFICES ASSUME p > q PROVE FALSE
  BY <1>1, <1>2
<1> HIDE DEF p, q
<1>3. p >= q + 1
  BY <1>1, <1>2
<1>4. d * p >= d * (q + 1)
  BY <1>1, <1>2, <1>3
<1>5. d * (q + 1) = d * q + d
  BY <1>2
<1> QED
  BY <1>1, <1>2, <1>4, <1>5

LEMMA MinOfTwo ==
  ASSUME NEW a \in Int, NEW b \in Int
  PROVE  Min({a, b}) = IF a <= b THEN a ELSE b
BY DEF Min

LEMMA MaxOfTwo ==
  ASSUME NEW a \in Int, NEW b \in Int
  PROVE  Max({a, b}) = IF a <= b THEN b ELSE a
BY DEF Max

LEMMA ClampKeepsOrder ==
  ASSUME NEW a \in Int, NEW b \in Int, a <= b
  PROVE  Clamp(a) <= Clamp(b) /\ Clamp(a) \in 0 .. 1000 /\ Clamp(b) \in 0 .. 1000
<1>1. \A s \in Int : Clamp(s) = IF s <= 0 THEN 0 ELSE IF s >= 1000 THEN 1000 ELSE s
  <2> TAKE s \in Int
  <2>1. Min({1000, s}) = IF 1000 <= s THEN 1000 ELSE s
    BY MinOfTwo
  <2>2. Min({1000, s}) \in Int
    BY <2>1
  <2>3. Max({0, Min({1000, s})}) = IF 0 <= Min({1000, s}) THEN Min({1000, s}) ELSE 0
    BY <2>2, MaxOfTwo
  <2> QED
    BY <2>1, <2>3 DEF Clamp
<1> QED
  BY <1>1

(* No better value has a better score, on a scale of either direction.     *)
LEMMA LinearKeepsOrder ==
  ASSUME NEW v \in Int, NEW w \in Int, NEW worst \in Int, NEW best \in Int, Unknown \notin Int,
         worst < best => v <= w, best < worst => w <= v, worst # best
  PROVE  /\ Linear(v, worst, best) \in 0 .. 1000 /\ Linear(w, worst, best) \in 0 .. 1000
         /\ Linear(v, worst, best) <= Linear(w, worst, best)
<1>1. CASE worst < best
  <2> DEFINE d == best - worst
             a == 1000 * (v - worst)
             b == 1000 * (w - worst)
  <2>1. a \in Int /\ b \in Int /\ d \in Int /\ d > 0 /\ a <= b
    BY <1>1
  <2>2. Linear(v, worst, best) = Clamp(a \div d) /\ Linear(w, worst, best) = Clamp(b \div d)
    BY <1>1 DEF Linear
  <2> HIDE DEF a, b, d
  <2>3. a \div d <= b \div d /\ a \div d \in Int /\ b \div d \in Int
    BY <2>1, DivisionKeepsOrder
  <2>4. /\ Clamp(a \div d) <= Clamp(b \div d)
        /\ Clamp(a \div d) \in 0 .. 1000 /\ Clamp(b \div d) \in 0 .. 1000
    <3> DEFINE p == a \div d
               q == b \div d
    <3>1. p \in Int /\ q \in Int /\ p <= q
      BY <2>3
    <3> HIDE DEF p, q
    <3>2. Clamp(p) <= Clamp(q) /\ Clamp(p) \in 0 .. 1000 /\ Clamp(q) \in 0 .. 1000
      BY <3>1, ClampKeepsOrder, ZenonT(40)
    <3> QED
      BY <3>2 DEF p, q
  <2> QED
    BY <2>2, <2>4, ZenonT(40)
<1>2. CASE best < worst
  <2> DEFINE d == worst - best
             a == 1000 * (worst - v)
             b == 1000 * (worst - w)
  <2>1. a \in Int /\ b \in Int /\ d \in Int /\ d > 0 /\ a <= b
    BY <1>2
  <2>2. Linear(v, worst, best) = Clamp(a \div d) /\ Linear(w, worst, best) = Clamp(b \div d)
    BY <1>2 DEF Linear
  <2> HIDE DEF a, b, d
  <2>3. a \div d <= b \div d /\ a \div d \in Int /\ b \div d \in Int
    BY <2>1, DivisionKeepsOrder
  <2>4. /\ Clamp(a \div d) <= Clamp(b \div d)
        /\ Clamp(a \div d) \in 0 .. 1000 /\ Clamp(b \div d) \in 0 .. 1000
    <3> DEFINE p == a \div d
               q == b \div d
    <3>1. p \in Int /\ q \in Int /\ p <= q
      BY <2>3
    <3> HIDE DEF p, q
    <3>2. Clamp(p) <= Clamp(q) /\ Clamp(p) \in 0 .. 1000 /\ Clamp(q) \in 0 .. 1000
      BY <3>1, ClampKeepsOrder, ZenonT(40)
    <3> QED
      BY <3>2 DEF p, q
  <2> QED
    BY <2>2, <2>4, ZenonT(40)
<1> QED
  BY <1>1, <1>2

LEMMA LinearRange ==
  ASSUME NEW v \in Int, NEW worst \in Int, NEW best \in Int, Unknown \notin Int, worst # best
  PROVE  Linear(v, worst, best) \in 0 .. 1000
<1> DEFINE w == v
<1>1. w \in Int /\ (worst < best => v <= w) /\ (best < worst => w <= v)
  OBVIOUS
<1> HIDE DEF w
<1>2. /\ Linear(v, worst, best) \in 0 .. 1000 /\ Linear(w, worst, best) \in 0 .. 1000
      /\ Linear(v, worst, best) <= Linear(w, worst, best)
  <2>1. CASE worst < best
    BY <1>1, <2>1, LinearKeepsOrder
  <2>2. CASE best < worst
    BY <1>1, <2>2, LinearKeepsOrder
  <2> QED
    BY <2>1, <2>2
<1> QED
  BY <1>2

(* A score of the better of two findings: known where the other is, an     *)
(* integer where it is known, and no lower.                                *)
NoLower(new, old) ==
  \/ new = Unknown /\ old = Unknown
  \/ new \in Nat /\ old \in Nat /\ new >= old

LEMMA CurveKeepsOrder ==
  ASSUME NEW v \in Int, NEW w \in Int, v <= w, Unknown \notin Int
  PROVE  Curve(v) \in 0 .. 999 /\ Curve(w) \in 0 .. 999 /\ Curve(v) <= Curve(w)
<1>1. \A n \in Int : Curve(n) = CASE n <= 0 -> 0 [] n = 1 -> 393 [] n = 2 -> 632 [] n = 3 -> 776
                                  [] n = 4 -> 864 [] n = 5 -> 917 [] n = 6 -> 950
                                  [] n = 7 -> 969 [] n = 8 -> 981 [] n = 9 -> 988
                                  [] n = 10 -> 993 [] n = 11 -> 995 [] n = 12 -> 997
                                  [] n = 13 -> 998 [] OTHER -> 999
  <2> TAKE n \in Int
  <2>1. n # Unknown
    OBVIOUS
  <2>2. CASE n <= 0
    BY <2>1, <2>2 DEF Curve
  <2>3. CASE n > 13
    BY <2>1, <2>3 DEF Curve
  <2>4. CASE n \in 1 .. 13
    <3>1. Curve(n) = <<393, 632, 776, 864, 917, 950, 969, 981, 988, 993, 995, 997, 998>>[n]
      BY <2>1, <2>4 DEF Curve
    <3>2. \/ n = 1 \/ n = 2 \/ n = 3 \/ n = 4 \/ n = 5 \/ n = 6 \/ n = 7
          \/ n = 8 \/ n = 9 \/ n = 10 \/ n = 11 \/ n = 12 \/ n = 13
      BY <2>4
    <3> QED
      BY <3>1, <3>2
  <2> QED
    BY <2>2, <2>3, <2>4
<1> QED
  BY <1>1

LEMMA FindingsCompared ==
  ASSUME NEW x, NEW y, IsFinding(x), IsFinding(y), NoWorse(x, y)
  PROVE  /\ x.model = y.model /\ x.reported = y.reported
         /\ x.model = "general" =>
              /\ x.valued = y.valued /\ x.one_off = y.one_off /\ x.equity = y.equity
              /\ x.turn = y.turn /\ x.net_cash = y.net_cash
BY DEF NoWorse, IsFinding, Facets

LEMMA MetricCompared ==
  ASSUME NEW x, NEW y, IsFinding(x), IsFinding(y), NoWorse(x, y),
         NEW m \in Metrics(x.model), m \notin Facets
  PROVE  \/ x[m] = Unknown /\ y[m] = Unknown
         \/ /\ x[m] \in Int /\ y[m] \in Int
            /\ m \in Falling => x[m] <= y[m]
            /\ m \notin Falling => x[m] >= y[m]
<1>1. m \in DOMAIN x \ Facets /\ m \in DOMAIN y \ Facets
  BY DEF NoWorse, IsFinding
<1>2. x[m] \in Int \cup {Unknown} /\ y[m] \in Int \cup {Unknown}
  BY <1>1 DEF IsFinding
<1>3. \/ x[m] = y[m]
      \/ Unknown \notin {x[m], y[m]} /\ IF m \in Falling THEN x[m] < y[m] ELSE x[m] > y[m]
  BY <1>1 DEF NoWorse
<1> QED
  BY <1>2, <1>3

(* The metrics of every model, and how each is scored.                     *)
Linears == DOMAIN Scale
Growths == Turning \cup {"recent_revenue_growth"}
Specials == {"margin_of_safety", "price_to_book", "debt_to_equity", "net_debt_ebitda"}

LEMMA MetricKinds ==
  ASSUME NEW model \in DOMAIN MetricWeight, NEW category \in Categories,
         NEW m \in DOMAIN MetricWeight[model][category]
  PROVE  /\ m \in Linears \/ m \in Growths \/ m \in Specials
         /\ m \in Specials => model = "general"
         /\ m = "recent_revenue_growth" => model = "general"
         /\ m \notin {"margin_of_safety", "price_to_book"} => m \in Metrics(model) /\ m \notin Facets
         /\ MetricWeight[model][category][m] \in Nat \ {0}
<1>1. model = "general" \/ model = "property" \/ model = "bank"
  BY DEF MetricWeight
<1>2. category = "quality" \/ category = "growth" \/ category = "valuation" \/ category = "balance_sheet"
  BY DEF Categories
<1>3. m \notin {"margin_of_safety", "price_to_book"} => m \in Metrics(model)
  <2> DEFINE all == UNION {DOMAIN MetricWeight[model][c] : c \in Categories}
  <2>1. DOMAIN MetricWeight[model][category] \in {DOMAIN MetricWeight[model][c] : c \in Categories}
    OBVIOUS
  <2>2. m \in all
    BY <2>1, Zenon
  <2>3. Metrics(model) = all \ {"margin_of_safety", "price_to_book"}
    BY Zenon DEF Metrics
  <2> HIDE DEF all
  <2> QED
    BY <2>2, <2>3
<1>4. CASE model = "general"
  <2>1. CASE category = "quality"
    BY <1>3, <1>4, <2>1 DEF MetricWeight, Linears, Scale, Growths, Turning, Specials, Facets
  <2>2. CASE category = "growth"
    BY <1>3, <1>4, <2>2 DEF MetricWeight, Linears, Scale, Growths, Turning, Specials, Facets
  <2>3. CASE category = "valuation"
    BY <1>3, <1>4, <2>3 DEF MetricWeight, Linears, Scale, Growths, Turning, Specials, Facets
  <2>4. CASE category = "balance_sheet"
    BY <1>3, <1>4, <2>4 DEF MetricWeight, Linears, Scale, Growths, Turning, Specials, Facets
  <2> QED
    BY <1>2, <2>1, <2>2, <2>3, <2>4
<1>5. CASE model = "property"
  <2>1. CASE category = "quality"
    BY <1>3, <1>5, <2>1 DEF MetricWeight, Linears, Scale, Growths, Turning, Specials, Facets
  <2>2. CASE category = "growth"
    BY <1>3, <1>5, <2>2 DEF MetricWeight, Linears, Scale, Growths, Turning, Specials, Facets
  <2>3. CASE category = "valuation"
    BY <1>3, <1>5, <2>3 DEF MetricWeight, Linears, Scale, Growths, Turning, Specials, Facets
  <2>4. CASE category = "balance_sheet"
    BY <1>3, <1>5, <2>4 DEF MetricWeight, Linears, Scale, Growths, Turning, Specials, Facets
  <2> QED
    BY <1>2, <2>1, <2>2, <2>3, <2>4
<1>6. CASE model = "bank"
  <2>1. CASE category = "quality"
    BY <1>3, <1>6, <2>1 DEF MetricWeight, Linears, Scale, Growths, Turning, Specials, Facets
  <2>2. CASE category = "growth"
    BY <1>3, <1>6, <2>2 DEF MetricWeight, Linears, Scale, Growths, Turning, Specials, Facets
  <2>3. CASE category = "valuation"
    BY <1>3, <1>6, <2>3 DEF MetricWeight, Linears, Scale, Growths, Turning, Specials, Facets
  <2>4. CASE category = "balance_sheet"
    BY <1>3, <1>6, <2>4 DEF MetricWeight, Linears, Scale, Growths, Turning, Specials, Facets
  <2> QED
    BY <1>2, <2>1, <2>2, <2>3, <2>4
<1> QED
  BY <1>1, <1>4, <1>5, <1>6

LEMMA ScaleIsTyped ==
  ASSUME NEW m \in DOMAIN Scale
  PROVE  /\ Scale[m][1] \in Int /\ Scale[m][2] \in Int /\ Scale[m][1] # Scale[m][2]
         /\ m \in Falling <=> Scale[m][2] < Scale[m][1]
         /\ m \notin Specials
<1>1. /\ Scale[m][1] \in Int /\ Scale[m][2] \in Int /\ Scale[m][1] # Scale[m][2]
      /\ m \notin Specials
  BY DEF Scale, Specials
<1>2. m \notin {"debt_to_equity", "net_debt_ebitda"}
  BY <1>1 DEF Specials
<1> QED
  BY <1>1, <1>2 DEF Falling

(* A metric on a scale, of the better of two findings.                     *)
LEMMA LinearNoLower ==
  ASSUME NEW x, NEW y, IsFinding(x), IsFinding(y), NoWorse(x, y), Unknown \notin Int,
         NEW m \in Metrics(x.model), m \notin Facets, NEW worst \in Int, NEW best \in Int,
         worst # best, m \in Falling <=> best < worst
  PROVE  NoLower(Linear(x[m], worst, best), Linear(y[m], worst, best))
<1>1. CASE x[m] = Unknown /\ y[m] = Unknown
  BY <1>1 DEF Linear, NoLower
<1>2. CASE /\ x[m] \in Int /\ y[m] \in Int
           /\ m \in Falling => x[m] <= y[m]
           /\ m \notin Falling => x[m] >= y[m]
  <2> DEFINE v == x[m]
             w == y[m]
  <2>1. v \in Int /\ w \in Int /\ (worst < best => w <= v) /\ (best < worst => v <= w)
    BY <1>2
  <2> HIDE DEF v, w
  <2>2. /\ Linear(v, worst, best) \in 0 .. 1000 /\ Linear(w, worst, best) \in 0 .. 1000
        /\ Linear(w, worst, best) <= Linear(v, worst, best)
    <3>1. CASE worst < best
      BY <2>1, <3>1, LinearKeepsOrder
    <3>2. CASE best < worst
      BY <2>1, <3>2, LinearKeepsOrder
    <3> QED
      BY <3>1, <3>2
  <2>3. NoLower(Linear(v, worst, best), Linear(w, worst, best))
    <3> DEFINE p == Linear(v, worst, best)
               q == Linear(w, worst, best)
    <3> HIDE DEF p, q
    <3>1. p \in 0 .. 1000 /\ q \in 0 .. 1000 /\ q <= p
      BY <2>2 DEF p, q
    <3>2. NoLower(p, q)
      BY <3>1 DEF NoLower
    <3> QED
      BY <3>2 DEF p, q
  <2> QED
    BY <2>3 DEF v, w
<1> QED
  BY <1>1, <1>2, MetricCompared

LEMMA GrowthNoLower ==
  ASSUME NEW x, NEW y, IsFinding(x), IsFinding(y), NoWorse(x, y), Unknown \notin Int,
         NEW m \in Growths, m \in Metrics(x.model), m \notin Facets,
         m = "recent_revenue_growth" => x.model = "general"
  PROVE  NoLower(GrowthScore(x, m), GrowthScore(y, m))
<1>1. /\ x.model = y.model
      /\ x.model = "general" => x.one_off = y.one_off /\ x.turn = y.turn
  BY FindingsCompared
<1>2. m \notin Falling
  BY DEF Falling, Growths, Turning, Scale
<1>3. \/ x[m] = Unknown /\ y[m] = Unknown
      \/ x[m] \in Int /\ y[m] \in Int /\ x[m] >= y[m]
  BY <1>2, MetricCompared
<1> DEFINE turn == IF x.model = "general" /\ m # "recent_revenue_growth" THEN x.turn[m] ELSE "none"
           capped == /\ x.model = "general" /\ x.one_off /\ x[m] # Unknown
                     /\ m \in {"ebit_growth", "net_income_growth"}
           Score(c) == CASE turn = "turnaround"    -> 500
                         [] turn = "deterioration" -> 0
                         [] OTHER -> IF capped THEN Min({Curve(c), 600}) ELSE Curve(c)
<1>4. GrowthScore(x, m) = Score(x[m])
  BY DEF GrowthScore
<1>5. GrowthScore(y, m) = Score(y[m])
  <2>1. x[m] # Unknown <=> y[m] # Unknown
    BY <1>3
  <2> QED
    BY <1>1, <2>1 DEF GrowthScore
<1>6. turn = "none" \/ turn = "turnaround" \/ turn = "deterioration"
  <2>1. CASE x.model = "general" /\ m # "recent_revenue_growth"
    BY <2>1 DEF IsFinding, Growths
  <2>2. CASE ~(x.model = "general" /\ m # "recent_revenue_growth")
    BY <2>2
  <2> QED
    BY <2>1, <2>2
<1> HIDE DEF turn, capped
<1>7. NoLower(Score(x[m]), Score(y[m]))
  <2>1. CASE turn = "turnaround"
    BY <2>1 DEF NoLower
  <2>2. CASE turn = "deterioration"
    BY <2>2 DEF NoLower
  <2>3. CASE turn = "none"
    <3>1. \A c : Score(c) = IF capped THEN Min({Curve(c), 600}) ELSE Curve(c)
      BY <2>3
    <3> HIDE DEF Score
    <3>2. CASE x[m] = Unknown /\ y[m] = Unknown
      <4>1. ~capped
        BY <3>2 DEF capped
      <4>2. Curve(Unknown) = Unknown
        BY DEF Curve
      <4> QED
        BY <3>1, <3>2, <4>1, <4>2 DEF NoLower
    <3>3. CASE x[m] \in Int /\ y[m] \in Int /\ x[m] >= y[m]
      <4> DEFINE p == Curve(x[m])
                 q == Curve(y[m])
      <4>1. p \in 0 .. 999 /\ q \in 0 .. 999 /\ q <= p
        <5> DEFINE a == x[m]
                   b == y[m]
        <5>1. a \in Int /\ b \in Int /\ b <= a
          BY <3>3
        <5> HIDE DEF a, b
        <5>2. Curve(b) \in 0 .. 999 /\ Curve(a) \in 0 .. 999 /\ Curve(b) <= Curve(a)
          BY <5>1, CurveKeepsOrder
        <5> QED
          BY <5>2 DEF a, b
      <4>2. Score(x[m]) = (IF capped THEN Min({p, 600}) ELSE p)
            /\ Score(y[m]) = (IF capped THEN Min({q, 600}) ELSE q)
        BY <3>1
      <4> HIDE DEF p, q
      <4>3. Min({p, 600}) = (IF p <= 600 THEN p ELSE 600) /\ Min({q, 600}) = (IF q <= 600 THEN q ELSE 600)
        BY <4>1, MinOfTwo
      <4> QED
        BY <4>1, <4>2, <4>3 DEF NoLower
    <3> QED
      BY <1>3, <3>2, <3>3
  <2> QED
    BY <1>6, <2>1, <2>2, <2>3
<1> QED
  BY <1>4, <1>5, <1>7

LEMMA DebtNoLower ==
  ASSUME NEW x, NEW y, IsFinding(x), IsFinding(y), NoWorse(x, y), Unknown \notin Int,
         x.model = "general"
  PROVE  NoLower(DebtScore(x), DebtScore(y)) /\ NoLower(NetDebtScore(x), NetDebtScore(y))
<1>1. /\ x.equity = y.equity /\ x.net_cash = y.net_cash
      /\ Indebted(x) = Indebted(y) /\ Indebted(x) \in BOOLEAN
  BY FindingsCompared DEF Indebted
<1>2. "balance_sheet" \in Categories /\ "general" \in DOMAIN MetricWeight
  BY DEF Categories, MetricWeight
<1>3. "debt_to_equity" \in DOMAIN MetricWeight["general"]["balance_sheet"]
      /\ "net_debt_ebitda" \in DOMAIN MetricWeight["general"]["balance_sheet"]
  BY DEF MetricWeight
<1>4. /\ "debt_to_equity" \in Metrics(x.model) /\ "debt_to_equity" \notin Facets
      /\ "net_debt_ebitda" \in Metrics(x.model) /\ "net_debt_ebitda" \notin Facets
  BY <1>2, <1>3, MetricKinds
<1>5. "debt_to_equity" \in Falling /\ "net_debt_ebitda" \in Falling
  BY DEF Falling
<1>6. NoLower(Linear(x["net_debt_ebitda"], 40, 0), Linear(y["net_debt_ebitda"], 40, 0))
  BY <1>4, <1>5, LinearNoLower
<1>7. NoLower(NetDebtScore(x), NetDebtScore(y))
  <2>1. CASE Indebted(x)
    BY <1>1, <2>1 DEF NetDebtScore, NoLower
  <2>2. CASE ~Indebted(x)
    BY <1>1, <1>6, <2>2 DEF NetDebtScore
  <2> QED
    BY <2>1, <2>2
<1> DEFINE v == x.debt_to_equity
           w == y.debt_to_equity
<1>8. \/ v = Unknown /\ w = Unknown
      \/ v \in Int /\ w \in Int /\ v <= w
  BY <1>4, <1>5, MetricCompared
<1>9. NoLower(Linear(v, 20, 0), Linear(w, 20, 0))
  BY <1>4, <1>5, LinearNoLower
<1>10. \A d \in Int : Linear(d, 20, 0) \in 0 .. 1000
  <2> DEFINE worst == 20
             best == 0
  <2>1. worst \in Int /\ best \in Int /\ worst # best
    OBVIOUS
  <2> HIDE DEF worst, best
  <2>2. \A d \in Int : Linear(d, worst, best) \in 0 .. 1000
    BY <2>1, LinearRange, ZenonT(40)
  <2> QED
    BY <2>2 DEF worst, best
<1> DEFINE cash == IF x.net_cash THEN 1000 ELSE Unknown
           owes == Indebted(x)
           Debt(d) == CASE owes -> 0
                        [] ~owes /\ d = Unknown -> cash
                        [] ~owes /\ d # Unknown /\ d <= 0 -> 1000
                        [] OTHER -> Linear(d, 20, 0)
<1>11. DebtScore(x) = Debt(v) /\ DebtScore(y) = Debt(w)
  BY <1>1 DEF DebtScore
<1>12. NoLower(cash, cash)
  BY DEF NoLower
<1> HIDE DEF v, w, cash, owes
<1>13. NoLower(Debt(v), Debt(w))
  <2>1. CASE owes
    BY <2>1 DEF NoLower
  <2>2. CASE ~owes
    <3>1. CASE v = Unknown /\ w = Unknown
      BY <1>12, <2>2, <3>1
    <3>2. CASE v \in Int /\ w \in Int /\ v <= w
      <4>1. v # Unknown /\ w # Unknown
        BY <3>2
      <4>2. Debt(v) = IF v <= 0 THEN 1000 ELSE Linear(v, 20, 0)
        BY <1>1, <2>2, <3>2, <4>1
      <4>3. Debt(w) = IF w <= 0 THEN 1000 ELSE Linear(w, 20, 0)
        BY <1>1, <2>2, <3>2, <4>1
      <4> HIDE DEF Debt
      <4>4. Linear(w, 20, 0) \in 0 .. 1000 /\ Linear(v, 20, 0) \in 0 .. 1000
        BY <1>10, <3>2
      <4>5. Linear(v, 20, 0) >= Linear(w, 20, 0)
        BY <1>9, <4>4 DEF NoLower
      <4> QED
        BY <3>2, <4>2, <4>3, <4>4, <4>5 DEF NoLower
    <3> QED
      BY <1>8, <3>1, <3>2
  <2> QED
    BY <2>1, <2>2
<1> QED
  BY <1>7, <1>11, <1>13

(* A thirtieth or less of the points of quality and growth lowers the      *)
(* yield required, a debt raises it.                                       *)
Premium(k, score) == Max({0, (k * (score - 500)) \div 500})

LEMMA PremiumKeepsOrder ==
  ASSUME NEW a \in Int, NEW b \in Int, NEW k \in Nat, a <= b
  PROVE  Premium(k, a) \in Nat /\ Premium(k, b) \in Nat /\ Premium(k, a) <= Premium(k, b)
<1> DEFINE d == 500
           e == k * (a - 500)
           f == k * (b - 500)
<1>1. d \in Int /\ d > 0 /\ e \in Int /\ f \in Int
  OBVIOUS
<1>2. e <= f
  <2>1. b - a \in Nat
    OBVIOUS
  <2>2. k * (b - a) \in Nat /\ f = e + k * (b - a)
    BY <2>1
  <2> QED
    BY <1>1, <2>2
<1> HIDE DEF d, e, f
<1>3. e \div d <= f \div d /\ e \div d \in Int /\ f \div d \in Int
  BY <1>1, <1>2, DivisionKeepsOrder
<1> DEFINE p == e \div d
           q == f \div d
<1>4. p \in Int /\ q \in Int /\ p <= q
  BY <1>3
<1> HIDE DEF p, q
<1>5. \A s \in Int : Max({0, s}) = IF 0 <= s THEN s ELSE 0
  BY MaxOfTwo
<1>6. Max({0, p}) = (IF 0 <= p THEN p ELSE 0) /\ Max({0, q}) = (IF 0 <= q THEN q ELSE 0)
  BY <1>4, <1>5
<1>7. Max({0, p}) \in Nat /\ Max({0, q}) \in Nat /\ Max({0, p}) <= Max({0, q})
  BY <1>4, <1>6
<1> QED
  BY <1>7 DEF p, q, d, e, f, Premium

LEMMA PenaltyKeepsOrder ==
  ASSUME NEW a \in Int, NEW b \in Int, a <= b
  PROVE  /\ Min({25 * Max({0, a}), 500}) \in Nat /\ Min({25 * Max({0, b}), 500}) \in Nat
         /\ Min({25 * Max({0, a}), 500}) <= Min({25 * Max({0, b}), 500})
<1>1. \A s \in Int : Max({0, s}) = IF 0 <= s THEN s ELSE 0
  BY MaxOfTwo
<1>2. \A s \in Int : Min({s, 500}) = IF s <= 500 THEN s ELSE 500
  BY MinOfTwo
<1> DEFINE p == Max({0, a})
           q == Max({0, b})
<1>3. p \in Nat /\ q \in Nat /\ p <= q
  BY <1>1
<1> HIDE DEF p, q
<1>4. /\ Min({25 * p, 500}) = (IF 25 * p <= 500 THEN 25 * p ELSE 500)
      /\ Min({25 * q, 500}) = (IF 25 * q <= 500 THEN 25 * q ELSE 500)
  BY <1>2, <1>3
<1>5. /\ Min({25 * p, 500}) \in Nat /\ Min({25 * q, 500}) \in Nat
      /\ Min({25 * p, 500}) <= Min({25 * q, 500})
  BY <1>3, <1>4
<1> QED
  BY <1>5 DEF p, q

LEMMA MarginNoLower ==
  ASSUME NEW x, NEW y, IsFinding(x), IsFinding(y), NoWorse(x, y), Unknown \notin Int,
         x.model = "general", NEW qx \in Int, NEW qy \in Int, NEW gx \in Int, NEW gy \in Int,
         qx >= qy, gx >= gy
  PROVE  NoLower(MarginOfSafety(x, qx, gx), MarginOfSafety(y, qy, gy))
<1>1. {"valuation", "balance_sheet"} \subseteq Categories /\ "general" \in DOMAIN MetricWeight
  BY DEF Categories, MetricWeight
<1>2. "debt_to_equity" \in DOMAIN MetricWeight["general"]["balance_sheet"]
      /\ "fcf_yield" \in DOMAIN MetricWeight["general"]["valuation"]
  BY DEF MetricWeight
<1>3. /\ "debt_to_equity" \in Metrics(x.model) /\ "debt_to_equity" \notin Facets
      /\ "fcf_yield" \in Metrics(x.model) /\ "fcf_yield" \notin Facets
  BY <1>1, <1>2, MetricKinds
<1>4. "debt_to_equity" \in Falling /\ "fcf_yield" \notin Falling
  BY DEF Falling, Scale
<1> DEFINE Owed(c) == IF c.reported /\ c.debt_to_equity # Unknown THEN c.debt_to_equity ELSE 0
           a == Owed(x)
           b == Owed(y)
<1>5. a \in Int /\ b \in Int /\ a <= b
  <2>1. \/ x.debt_to_equity = Unknown /\ y.debt_to_equity = Unknown
        \/ x.debt_to_equity \in Int /\ y.debt_to_equity \in Int
           /\ x.debt_to_equity <= y.debt_to_equity
    BY <1>3, <1>4, MetricCompared
  <2>2. x.reported = y.reported
    BY FindingsCompared
  <2> QED
    BY <2>1, <2>2
<1> HIDE DEF Owed, a, b
<1> DEFINE pa == Min({25 * Max({0, a}), 500})
           pb == Min({25 * Max({0, b}), 500})
           m == 300
           n == 200
           ux == Premium(m, qx)
           uy == Premium(m, qy)
           wx == Premium(n, gx)
           wy == Premium(n, gy)
<1>6. pa \in Nat /\ pb \in Nat /\ pa <= pb
  BY <1>5, PenaltyKeepsOrder
<1>7. m \in Nat /\ n \in Nat
  OBVIOUS
<1> HIDE DEF m, n
<1>8. ux \in Nat /\ uy \in Nat /\ uy <= ux
  <2>1. qy <= qx
    OBVIOUS
  <2> QED
    BY <1>7, <2>1, PremiumKeepsOrder
<1>9. wx \in Nat /\ wy \in Nat /\ wy <= wx
  <2>1. gy <= gx
    OBVIOUS
  <2> QED
    BY <1>7, <2>1, PremiumKeepsOrder
<1>10. RequiredYield(x, qx, gx) = 800 + pa - ux - wx /\ RequiredYield(y, qy, gy) = 800 + pb - uy - wy
  BY Zenon DEF RequiredYield, Premium, a, b, Owed, m, n
<1> HIDE DEF pa, pb, ux, uy, wx, wy
<1> DEFINE rx == RequiredYield(x, qx, gx)
           ry == RequiredYield(y, qy, gy)
<1>11. rx \in Int /\ ry \in Int /\ rx <= ry
  BY <1>6, <1>8, <1>9, <1>10
<1>12. /\ MarginOfSafety(x, qx, gx)
            = IF x.fcf_yield = Unknown THEN Unknown ELSE Linear(100 * x.fcf_yield - rx, -500, 500)
       /\ MarginOfSafety(y, qy, gy)
            = IF y.fcf_yield = Unknown THEN Unknown ELSE Linear(100 * y.fcf_yield - ry, -500, 500)
  BY DEF MarginOfSafety
<1> HIDE DEF rx, ry
<1>13. CASE x["fcf_yield"] = Unknown /\ y["fcf_yield"] = Unknown
  BY <1>12, <1>13 DEF NoLower
<1>14. CASE x["fcf_yield"] \in Int /\ y["fcf_yield"] \in Int /\ x["fcf_yield"] >= y["fcf_yield"]
  <2> DEFINE v == 100 * x.fcf_yield - rx
             w == 100 * y.fcf_yield - ry
             worst == -500
             best == 500
  <2>1. v \in Int /\ w \in Int /\ w <= v
    BY <1>11, <1>14
  <2>2. worst \in Int /\ best \in Int /\ worst < best /\ worst # best /\ ~(best < worst)
    OBVIOUS
  <2>3. MarginOfSafety(x, qx, gx) = Linear(v, worst, best)
        /\ MarginOfSafety(y, qy, gy) = Linear(w, worst, best)
    BY <1>12, <1>14
  <2> HIDE DEF v, w, worst, best
  <2>4. /\ Linear(v, worst, best) \in 0 .. 1000 /\ Linear(w, worst, best) \in 0 .. 1000
        /\ Linear(w, worst, best) <= Linear(v, worst, best)
    BY <2>1, <2>2, LinearKeepsOrder
  <2> QED
    BY <2>3, <2>4 DEF NoLower
<1> QED
  BY <1>3, <1>4, <1>13, <1>14, MetricCompared

LEMMA MetricNoLower ==
  ASSUME NEW x, NEW y, IsFinding(x), IsFinding(y), NoWorse(x, y), Unknown \notin Int,
         NEW category \in Categories, NEW m \in DOMAIN MetricWeight[x.model][category],
         NEW qx \in Int, NEW qy \in Int, NEW gx \in Int, NEW gy \in Int, qx >= qy, gx >= gy
  PROVE  NoLower(MetricScore(x, m, qx, gx), MetricScore(y, m, qy, gy))
<1>1. x.model \in DOMAIN MetricWeight
  BY DEF IsFinding
<1>2. /\ m \in Linears \/ m \in Growths \/ m \in Specials
      /\ m \in Specials => x.model = "general"
      /\ m = "recent_revenue_growth" => x.model = "general"
      /\ m \notin {"margin_of_safety", "price_to_book"} => m \in Metrics(x.model) /\ m \notin Facets
  BY <1>1, MetricKinds
<1>3. CASE m \in Linears
  <2> DEFINE worst == Scale[m][1]
             best == Scale[m][2]
  <2>1. /\ worst \in Int /\ best \in Int /\ worst # best
        /\ m \in Falling <=> best < worst
        /\ m \notin Specials
    BY <1>3, ScaleIsTyped DEF Linears
  <2>2. MetricScore(x, m, qx, gx) = Linear(x[m], worst, best)
        /\ MetricScore(y, m, qy, gy) = Linear(y[m], worst, best)
    BY <1>3, <2>1 DEF MetricScore, Linears, Specials
  <2>3. m \in Metrics(x.model) /\ m \notin Facets
    BY <1>2, <2>1 DEF Specials
  <2> HIDE DEF worst, best
  <2>4. NoLower(Linear(x[m], worst, best), Linear(y[m], worst, best))
    BY <2>1, <2>3, LinearNoLower
  <2> QED
    BY <2>2, <2>4
<1>4. CASE m \in Growths
  <2>1. m \notin Specials /\ m \notin DOMAIN Scale
    BY <1>4 DEF Growths, Turning, Specials, Scale
  <2>2. MetricScore(x, m, qx, gx) = GrowthScore(x, m) /\ MetricScore(y, m, qy, gy) = GrowthScore(y, m)
    BY <2>1 DEF MetricScore, Specials
  <2>3. m \in Metrics(x.model) /\ m \notin Facets
    BY <1>2, <2>1 DEF Specials
  <2> QED
    BY <1>2, <1>4, <2>2, <2>3, GrowthNoLower
<1>5. CASE m \in Specials
  <2>1. x.model = "general" /\ m \notin DOMAIN Scale
    BY <1>2, <1>5 DEF Specials, Scale
  <2>2. CASE m = "margin_of_safety"
    <3>1. MetricScore(x, m, qx, gx) = MarginOfSafety(x, qx, gx)
          /\ MetricScore(y, m, qy, gy) = MarginOfSafety(y, qy, gy)
      BY <2>1, <2>2 DEF MetricScore
    <3> QED
      BY <2>1, <3>1, MarginNoLower
  <2>3. CASE m = "price_to_book"
    BY <2>1, <2>3 DEF MetricScore, NoLower
  <2>4. CASE m = "debt_to_equity"
    <3>1. MetricScore(x, m, qx, gx) = DebtScore(x) /\ MetricScore(y, m, qy, gy) = DebtScore(y)
      BY <2>1, <2>4 DEF MetricScore
    <3> QED
      BY <2>1, <3>1, DebtNoLower
  <2>5. CASE m = "net_debt_ebitda"
    <3>1. MetricScore(x, m, qx, gx) = NetDebtScore(x) /\ MetricScore(y, m, qy, gy) = NetDebtScore(y)
      BY <2>1, <2>5 DEF MetricScore
    <3> QED
      BY <2>1, <3>1, DebtNoLower
  <2> QED
    BY <1>5, <2>2, <2>3, <2>4, <2>5 DEF Specials
<1> QED
  BY <1>2, <1>3, <1>4, <1>5

(* There are finitely many metrics.                                        *)
LEMMA EightAreFinite ==
  ASSUME NEW a, NEW b, NEW c, NEW d, NEW e, NEW f, NEW g, NEW h
  PROVE  IsFiniteSet({a, b, c, d, e, f, g, h})
<1>1. IsFiniteSet({a}) /\ IsFiniteSet({b})
  BY FS_Singleton
<1> DEFINE s2 == {a} \cup {b}
           s3 == s2 \cup {c}
           s4 == s3 \cup {d}
           s5 == s4 \cup {e}
           s6 == s5 \cup {f}
           s7 == s6 \cup {g}
           s8 == s7 \cup {h}
<1>2. IsFiniteSet(s2)
  BY <1>1, FS_AddElement, Zenon
<1>3. IsFiniteSet(s3)
  BY <1>2, FS_AddElement, Zenon
<1>4. IsFiniteSet(s4)
  BY <1>3, FS_AddElement, Zenon
<1>5. IsFiniteSet(s5)
  BY <1>4, FS_AddElement, Zenon
<1>6. IsFiniteSet(s6)
  BY <1>5, FS_AddElement, Zenon
<1>7. IsFiniteSet(s7)
  BY <1>6, FS_AddElement, Zenon
<1>8. IsFiniteSet(s8)
  BY <1>7, FS_AddElement, Zenon
<1>9. {a, b, c, d, e, f, g, h} = s8
  OBVIOUS
<1> QED
  BY <1>8, <1>9

LEMMA MetricsAreFinite ==
  ASSUME NEW model \in DOMAIN MetricWeight, NEW category \in Categories
  PROVE  IsFiniteSet(DOMAIN MetricWeight[model][category])
<1> DEFINE one == {"roe", "roa", "net_margin", "fcf_margin", "roic", "cash_conversion",
                   "margin_stability", "fcf_consistency"}
           two == {"fcf_yield", "earnings_yield", "ev_ebit_percentile", "pe_percentile",
                   "dividend_yield", "occupancy", "nav_discount", "price_to_income"}
           three == {"ltv", "interest_coverage", "cost_income", "credit_losses", "pb_relative",
                     "cet1", "capital_adequacy", "lcr"}
           four == {"revenue_growth", "ebit_growth", "net_income_growth", "recent_revenue_growth",
                    "margin_of_safety", "price_to_book", "debt_to_equity", "net_debt_ebitda"}
<1>1. IsFiniteSet(one) /\ IsFiniteSet(two) /\ IsFiniteSet(three) /\ IsFiniteSet(four)
  BY EightAreFinite
<1>2. \A m \in DOMAIN MetricWeight[model][category] : m \in Linears \/ m \in Growths \/ m \in Specials
  BY MetricKinds
<1>3. Linears \subseteq one \cup two \cup three
  BY DEF Linears, Scale
<1>4. Growths \cup Specials \subseteq four
  BY DEF Growths, Turning, Specials
<1> HIDE DEF one, two, three, four
<1>5. DOMAIN MetricWeight[model][category] \subseteq ((one \cup two) \cup three) \cup four
  BY <1>2, <1>3, <1>4
<1>6. IsFiniteSet(one \cup two)
  BY <1>1, FS_Union
<1>7. IsFiniteSet((one \cup two) \cup three)
  BY <1>1, <1>6, FS_Union
<1>8. IsFiniteSet(((one \cup two) \cup three) \cup four)
  BY <1>1, <1>7, FS_Union
<1> QED
  BY <1>5, <1>8, FS_Subset

(* The score of a category is the mean of what is available, of the same   *)
(* metrics for both findings.                                              *)
LEMMA ComponentsCompared ==
  ASSUME NEW x, NEW y, IsFinding(x), IsFinding(y), NoWorse(x, y), Unknown \notin Int,
         NEW category \in Categories,
         NEW qx \in Int, NEW qy \in Int, NEW gx \in Int, NEW gy \in Int, qx >= qy, gx >= gy
  PROVE  LET px == Components(x, category, qx, gx)
             py == Components(y, category, qy, gy)
         IN  /\ DOMAIN px = DOMAIN py /\ IsFiniteSet(DOMAIN px)
             /\ \A m \in DOMAIN px : /\ NoLower(px[m].score, py[m].score)
                                     /\ px[m].weight = py[m].weight
                                     /\ px[m].weight \in Nat \ {0}
<1> DEFINE D == IF Reads(x, category) THEN DOMAIN MetricWeight[x.model][category] ELSE {}
           px == Components(x, category, qx, gx)
           py == Components(y, category, qy, gy)
<1>1. /\ x.model = y.model /\ x.reported = y.reported
      /\ x.model = "general" => x.valued = y.valued
      /\ x.model \in DOMAIN MetricWeight
  BY FindingsCompared DEF IsFinding
<1>2. Reads(x, category) = Reads(y, category)
  BY <1>1 DEF Reads
<1>3. px = [m \in D |-> [weight |-> MetricWeight[x.model][category][m],
                         score  |-> MetricScore(x, m, qx, gx)]]
  BY Zenon DEF Components
<1>4. py = [m \in D |-> [weight |-> MetricWeight[x.model][category][m],
                         score  |-> MetricScore(y, m, qy, gy)]]
  BY <1>1, <1>2, Zenon DEF Components
<1>5. IsFiniteSet(D)
  <2>1. IsFiniteSet({})
    BY FS_EmptySet
  <2>2. IsFiniteSet(DOMAIN MetricWeight[x.model][category])
    BY <1>1, MetricsAreFinite
  <2> QED
    BY <2>1, <2>2
<1>6. \A m \in D : m \in DOMAIN MetricWeight[x.model][category]
  OBVIOUS
<1> HIDE DEF D, px, py
<1>7. ASSUME NEW m \in D
      PROVE  /\ NoLower(px[m].score, py[m].score)
             /\ px[m].weight = py[m].weight
             /\ px[m].weight \in Nat \ {0}
  <2>1. m \in DOMAIN MetricWeight[x.model][category]
    BY <1>6
  <2>2. NoLower(MetricScore(x, m, qx, gx), MetricScore(y, m, qy, gy))
    BY <2>1, MetricNoLower
  <2>3. MetricWeight[x.model][category][m] \in Nat \ {0}
    BY <1>1, <2>1, MetricKinds
  <2> QED
    BY <1>3, <1>4, <2>2, <2>3
<1>8. DOMAIN px = D /\ DOMAIN py = D
  BY <1>3, <1>4
<1> QED
  BY <1>5, <1>7, <1>8 DEF px, py

LEMMA CategoryNoLower ==
  ASSUME NEW x, NEW y, IsFinding(x), IsFinding(y), NoWorse(x, y), Unknown \notin Int,
         NEW category \in Categories,
         NEW qx \in Int, NEW qy \in Int, NEW gx \in Int, NEW gy \in Int, qx >= qy, gx >= gy
  PROVE  /\ CategoryScore(x, category, Components(x, category, qx, gx)) \in Int
         /\ CategoryScore(y, category, Components(y, category, qy, gy)) \in Int
         /\ CategoryScore(x, category, Components(x, category, qx, gx))
              >= CategoryScore(y, category, Components(y, category, qy, gy))
<1> DEFINE px == Components(x, category, qx, gx)
           py == Components(y, category, qy, gy)
           S == Scored(px)
<1>1. /\ DOMAIN px = DOMAIN py /\ IsFiniteSet(DOMAIN px)
      /\ \A m \in DOMAIN px : /\ NoLower(px[m].score, py[m].score)
                              /\ px[m].weight = py[m].weight
                              /\ px[m].weight \in Nat \ {0}
  BY ComponentsCompared
<1> HIDE DEF px, py
<1>2. Scored(px) = Scored(py)
  BY <1>1 DEF Scored, NoLower
<1>3. S \in SUBSET DOMAIN px /\ IsFiniteSet(S)
  BY <1>1, FS_Subset DEF Scored
<1>4. \A m \in S : px[m].score \in Nat /\ py[m].score \in Nat /\ px[m].score >= py[m].score
  BY <1>1 DEF Scored, NoLower
<1>5. Weighs(x, category) = Weighs(y, category)
  BY FindingsCompared DEF Weighs
<1> DEFINE weight == [m \in S |-> IF Weighs(x, category) THEN px[m].weight ELSE 1]
           fx == [m \in S |-> weight[m] * px[m].score]
           fy == [m \in S |-> weight[m] * py[m].score]
           d == AddUp(weight)
           a == AddUp(fy)
           b == AddUp(fx)
<1>6. CategoryScore(x, category, px) = IF S = {} THEN 0 ELSE b \div d
  BY DEF CategoryScore
<1>7. CategoryScore(y, category, py) = IF S = {} THEN 0 ELSE a \div d
  <2>1. weight = [m \in Scored(py) |-> IF Weighs(y, category) THEN py[m].weight ELSE 1]
    BY <1>1, <1>2, <1>3, <1>5
  <2> HIDE DEF weight
  <2> QED
    BY <1>2, <2>1, Zenon DEF CategoryScore
<1> HIDE DEF S
<1>8. weight \in [S -> Int] /\ \A m \in S : weight[m] > 0
  BY <1>1, <1>3
<1> HIDE DEF weight
<1>9. fx \in [S -> Int] /\ fy \in [S -> Int] /\ \A m \in S : fy[m] <= fx[m]
  <2>1. ASSUME NEW m \in S
        PROVE  /\ weight[m] * px[m].score \in Int /\ weight[m] * py[m].score \in Int
               /\ weight[m] * py[m].score <= weight[m] * px[m].score
    <3> DEFINE w == weight[m]
               s == px[m].score
               t == py[m].score
    <3>1. w \in Int /\ w > 0 /\ s \in Int /\ t \in Int /\ s - t \in Nat
      BY <1>4, <1>8
    <3> HIDE DEF w, s, t
    <3>2. w * (s - t) \in Nat /\ w * s = w * t + w * (s - t) /\ w * s \in Int /\ w * t \in Int
      BY <3>1
    <3>3. w * t <= w * s
      BY <3>2
    <3> QED
      BY <3>2, <3>3 DEF w, s, t
  <2> QED
    BY <2>1
<1> HIDE DEF fx, fy
<1>10. CASE S = {}
  BY <1>6, <1>7, <1>10 DEF px, py
<1>11. CASE S # {}
  <2>1. a \in Int /\ b \in Int /\ d \in Int /\ a <= b
    BY <1>3, <1>8, <1>9, SumInt, SumOrder
  <2>2. d > 0
    BY <1>3, <1>8, <1>11, SumPositive
  <2> HIDE DEF a, b, d
  <2>3. a \div d <= b \div d /\ a \div d \in Int /\ b \div d \in Int
    BY <2>1, <2>2, DivisionKeepsOrder
  <2>4. CategoryScore(x, category, px) = b \div d /\ CategoryScore(y, category, py) = a \div d
    BY <1>6, <1>7, <1>11
  <2> DEFINE u == b \div d
             v == a \div d
  <2> HIDE DEF u, v
  <2>5. u \in Int /\ v \in Int /\ u >= v
    BY <2>3 DEF u, v
  <2>6. CategoryScore(x, category, px) = u /\ CategoryScore(y, category, py) = v
    BY <2>4 DEF u, v
  <2>7. CategoryScore(x, category, px) >= CategoryScore(y, category, py)
        /\ CategoryScore(x, category, px) \in Int /\ CategoryScore(y, category, py) \in Int
    BY <2>5, <2>6
  <2> QED
    BY <2>7 DEF px, py
<1> QED
  BY <1>10, <1>11

LEMMA ScoresNoLower ==
  ASSUME NEW x, NEW y, IsFinding(x), IsFinding(y), NoWorse(x, y), Unknown \notin Int
  PROVE  \A category \in Categories :
           /\ Scores(x)[category] \in Int /\ Scores(y)[category] \in Int
           /\ Scores(x)[category] >= Scores(y)[category]
<1> DEFINE Of(c, category, q, g) == CategoryScore(c, category, Components(c, category, q, g))
           qx == Of(x, "quality", 0, 0)
           qy == Of(y, "quality", 0, 0)
           gx == Of(x, "growth", 0, 0)
           gy == Of(y, "growth", 0, 0)
           vx == Of(x, "valuation", qx, gx)
           vy == Of(y, "valuation", qy, gy)
           bx == Of(x, "balance_sheet", 0, 0)
           by == Of(y, "balance_sheet", 0, 0)
<1>1. /\ "quality" \in Categories /\ "growth" \in Categories
      /\ "valuation" \in Categories /\ "balance_sheet" \in Categories
  BY DEF Categories
<1>2. \A category \in Categories, ex, ey, fx, fy \in Int :
        ex >= ey /\ fx >= fy =>
          /\ Of(x, category, ex, fx) \in Int /\ Of(y, category, ey, fy) \in Int
          /\ Of(x, category, ex, fx) >= Of(y, category, ey, fy)
  BY CategoryNoLower
<1>3. Scores(x) = [quality |-> qx, growth |-> gx, valuation |-> vx, balance_sheet |-> bx]
  BY Zenon DEF Scores
<1>4. Scores(y) = [quality |-> qy, growth |-> gy, valuation |-> vy, balance_sheet |-> by]
  BY Zenon DEF Scores
<1> HIDE DEF Of
<1>5. 0 \in Int /\ 0 >= 0
  OBVIOUS
<1>6. qx \in Int /\ qy \in Int /\ qx >= qy
  BY <1>1, <1>2, <1>5, Zenon
<1>7. gx \in Int /\ gy \in Int /\ gx >= gy
  BY <1>1, <1>2, <1>5, Zenon
<1>8. bx \in Int /\ by \in Int /\ bx >= by
  BY <1>1, <1>2, <1>5, Zenon
<1>9. vx \in Int /\ vy \in Int /\ vx >= vy
  BY <1>1, <1>2, <1>6, <1>7, Zenon
<1> HIDE DEF qx, qy, gx, gy, vx, vy, bx, by
<1> QED
  BY <1>3, <1>4, <1>6, <1>7, <1>8, <1>9 DEF Categories

LEMMA TotalNoLower ==
  ASSUME NEW x, NEW y, IsFinding(x), IsFinding(y), NoWorse(x, y), Unknown \notin Int
  PROVE  Total(x, Scores(x)) >= Total(y, Scores(y))
<1> DEFINE sx == Scores(x)
           sy == Scores(y)
           W == CategoryWeight[x.model]
           fx == [category \in Categories |-> W[category] * sx[category]]
           fy == [category \in Categories |-> W[category] * sy[category]]
           a == AddUp(fy)
           b == AddUp(fx)
           d == 100
<1>1. x.model = y.model /\ x.model \in DOMAIN MetricWeight
  BY FindingsCompared DEF IsFinding
<1>2. Total(x, sx) = b \div d /\ Total(y, sy) = a \div d
  BY <1>1, Zenon DEF Total
<1>3. \A category \in Categories : W[category] \in Nat
  BY <1>1 DEF Categories, CategoryWeight, MetricWeight
<1>4. \A category \in Categories :
        sx[category] \in Int /\ sy[category] \in Int /\ sx[category] >= sy[category]
  BY ScoresNoLower
<1>5. IsFiniteSet(Categories)
  <2>1. Categories = {"quality", "growth", "valuation", "balance_sheet",
                      "balance_sheet", "balance_sheet", "balance_sheet", "balance_sheet"}
    BY DEF Categories
  <2> QED
    BY <2>1, EightAreFinite
<1>6. d \in Int /\ d > 0
  OBVIOUS
<1> HIDE DEF sx, sy, W, d
<1>7. fx \in [Categories -> Int] /\ fy \in [Categories -> Int]
      /\ \A category \in Categories : fy[category] <= fx[category]
  <2>1. ASSUME NEW category \in Categories
        PROVE  /\ W[category] * sx[category] \in Int /\ W[category] * sy[category] \in Int
               /\ W[category] * sy[category] <= W[category] * sx[category]
    <3> DEFINE w == W[category]
               s == sx[category]
               t == sy[category]
    <3>1. w \in Nat /\ s \in Int /\ t \in Int /\ s - t \in Nat
      BY <1>3, <1>4
    <3> HIDE DEF w, s, t
    <3>2. w * (s - t) \in Nat /\ w * s = w * t + w * (s - t) /\ w * s \in Int /\ w * t \in Int
      BY <3>1
    <3>3. w * t <= w * s
      BY <3>2
    <3> QED
      BY <3>2, <3>3 DEF w, s, t
  <2> QED
    BY <2>1
<1> HIDE DEF fx, fy
<1>8. a \in Int /\ b \in Int /\ a <= b
  BY <1>5, <1>7, SumInt, SumOrder
<1> HIDE DEF a, b
<1>9. a \div d <= b \div d /\ a \div d \in Int /\ b \div d \in Int
  BY <1>6, <1>8, DivisionKeepsOrder
<1> DEFINE u == b \div d
           v == a \div d
<1>10. Total(x, sx) = u /\ Total(y, sy) = v /\ u \in Int /\ v \in Int /\ u >= v
  <2>1. u \in Int /\ v \in Int /\ v <= u
    BY <1>9
  <2> HIDE DEF u, v
  <2>2. u >= v
    BY <2>1
  <2> QED
    BY <1>2, <2>1, <2>2 DEF u, v
<1> HIDE DEF u, v
<1>11. Total(x, sx) >= Total(y, sy)
  BY <1>10
<1> QED
  BY <1>11 DEF sx, sy

(* The run to come, and every run saved, is of findings of the companies   *)
(* watched, and has their rows.                                            *)
RunsAreScored ==
  /\ found \in [Known -> Findings]
  /\ rankings \in Seq([of : [Known -> Findings], rows : {ScoreRows(f) : f \in [Known -> Findings]}])
  /\ \A i \in DOMAIN rankings : rankings[i].rows = ScoreRows(rankings[i].of)

LEMMA EveryRunIsScored == RankingSpec => []RunsAreScored
<1>1. RankingInit => RunsAreScored
  BY DEF RankingInit, RunsAreScored
<1>2. RunsAreScored /\ [RankingNext]_rankingVars => RunsAreScored'
  <2> SUFFICES ASSUME RunsAreScored, [RankingNext]_rankingVars PROVE RunsAreScored'
    OBVIOUS
  <2>1. CASE UNCHANGED <<found, rankings>>
    BY <2>1 DEF RunsAreScored
  <2>2. CASE \E id \in Known, results \in Findings : Restate(id, results)
    <3> PICK id \in Known, results \in Findings : Restate(id, results)
      BY <2>2
    <3>1. found' \in [Known -> Findings] /\ UNCHANGED rankings
      BY DEF Restate, RunsAreScored
    <3> QED
      BY <3>1 DEF RunsAreScored
  <2>3. CASE RankWatched
    <3> DEFINE run == [of |-> found, rows |-> ScoreRows(found)]
               Run == [of : [Known -> Findings], rows : {ScoreRows(f) : f \in [Known -> Findings]}]
    <3>1. run \in Run /\ run.rows = ScoreRows(run.of) /\ rankings \in Seq(Run)
      BY DEF RunsAreScored
    <3>2. rankings' = Append(rankings, run) /\ UNCHANGED found
      BY <2>3 DEF RankWatched
    <3> HIDE DEF run, Run
    <3>3. rankings' \in Seq(Run)
      BY <3>1, <3>2
    <3>4. \A i \in DOMAIN rankings' : rankings'[i].rows = ScoreRows(rankings'[i].of)
      <4> TAKE i \in DOMAIN rankings'
      <4>1. (i \in DOMAIN rankings /\ rankings'[i] = rankings[i]) \/ rankings'[i] = run
        BY <3>1, <3>2
      <4>2. \A j \in DOMAIN rankings : rankings[j].rows = ScoreRows(rankings[j].of)
        BY DEF RunsAreScored
      <4> QED
        BY <3>1, <4>1, <4>2, Zenon
    <3> QED
      BY <3>2, <3>3, <3>4 DEF RunsAreScored, Run
  <2>4. UNCHANGED <<found, rankings>> \/ (\E id \in Known, results \in Findings : Restate(id, results))
        \/ RankWatched
    BY DEF RankingNext, CloseMonth, SnapshotChallenger, SelectPortfolio, rankingVars
  <2> QED
    BY <2>1, <2>2, <2>3, <2>4
<1> QED
  BY <1>1, <1>2, PTL DEF RankingSpec

(* A company has one row in a run.                                         *)
LEMMA RowOfCompany ==
  ASSUME NEW results, NEW id \in Known
  PROVE  (CHOOSE x \in ScoreRows(results) : x.row.company = id).row = Row(id, results[id])
<1> DEFINE scores == {Row(o, results[o]) : o \in Known}
           At(o) == CHOOSE i \in DOMAIN Watched : Watched[i] = o
           Key(row) == (IF row.eligible THEN 2000 ELSE 0) + row.total
           Before(x, y) == \/ Key(x) > Key(y)
                           \/ Key(x) = Key(y) /\ At(x.company) < At(y.company)
           Place(row) == 1 + Cardinality({x \in scores : Before(x, row)})
<1>0. ScoreRows(results) = {[row |-> row, place |-> Place(row)] : row \in scores}
  BY Zenon DEF ScoreRows
<1> HIDE DEF Place
<1>1. \A x \in ScoreRows(results) : \E o \in Known : x.row = Row(o, results[o])
  BY <1>0
<1>2. \E x \in ScoreRows(results) : x.row = Row(id, results[id])
  <2>1. Row(id, results[id]) \in scores
    OBVIOUS
  <2> DEFINE row == Row(id, results[id])
  <2> HIDE DEF scores, row
  <2>2. [row |-> row, place |-> Place(row)] \in ScoreRows(results)
    BY <1>0, <2>1 DEF row
  <2> QED
    BY <2>2 DEF row
<1>3. \A o : Row(o, results[o]).company = o
  BY DEF Row
<1> DEFINE rows == ScoreRows(results)
<1> HIDE DEF rows
<1>4. (CHOOSE x \in rows : x.row.company = id) \in rows
      /\ (CHOOSE x \in rows : x.row.company = id).row.company = id
  BY <1>2, <1>3 DEF rows
<1> QED
  BY <1>1, <1>3, <1>4 DEF rows

(* Between two runs, a company whose metrics became no worse, none of them *)
(* known or unknown for the first time, is not scored lower                *)
(* (RankingEngine.rank and score_company).                                 *)
THEOREM BetterScoresNoLower == RankingSpec => []BetterNeverScoresLower
<1>1. RunsAreScored => BetterNeverScoresLower
  <2> SUFFICES ASSUME RunsAreScored, NEW i \in 2 .. Len(rankings), NEW id \in Known,
                      NoWorse(rankings[i].of[id], rankings[i - 1].of[id])
               PROVE  (CHOOSE x \in rankings[i].rows : x.row.company = id).row.total
                        >= (CHOOSE x \in rankings[i - 1].rows : x.row.company = id).row.total
    BY DEF BetterNeverScoresLower
  <2> DEFINE new == rankings[i].of
             old == rankings[i - 1].of
  <2>1. /\ rankings[i].rows = ScoreRows(new) /\ rankings[i - 1].rows = ScoreRows(old)
        /\ new \in [Known -> Findings] /\ old \in [Known -> Findings]
    <3> DEFINE Run == [of : [Known -> Findings], rows : {ScoreRows(f) : f \in [Known -> Findings]}]
    <3>1. rankings \in Seq(Run) /\ \A j \in DOMAIN rankings : rankings[j].rows = ScoreRows(rankings[j].of)
      BY DEF RunsAreScored
    <3>2. \A r \in Run : r.of \in [Known -> Findings]
      OBVIOUS
    <3> HIDE DEF Run
    <3>3. /\ i \in DOMAIN rankings /\ i - 1 \in DOMAIN rankings
          /\ rankings[i] \in Run /\ rankings[i - 1] \in Run
      BY <3>1
    <3> QED
      BY <3>1, <3>2, <3>3, Zenon
  <2> HIDE DEF new, old
  <2>2. IsFinding(new[id]) /\ IsFinding(old[id]) /\ Unknown \notin Int
    BY <2>1, FindingsAreTyped
  <2>3. Row(id, new[id]).total = Total(new[id], Scores(new[id]))
        /\ Row(id, old[id]).total = Total(old[id], Scores(old[id]))
    BY DEF Row
  <2>4. NoWorse(new[id], old[id])
    BY DEF new, old
  <2>5. Row(id, new[id]).total >= Row(id, old[id]).total
    BY <2>2, <2>3, <2>4, TotalNoLower
  <2>6. (CHOOSE x \in rankings[i].rows : x.row.company = id).row = Row(id, new[id])
        /\ (CHOOSE x \in rankings[i - 1].rows : x.row.company = id).row = Row(id, old[id])
    BY <2>1, RowOfCompany
  <2> QED
    BY <2>5, <2>6
<1> QED
  BY <1>1, EveryRunIsScored, PTL
-----------------------------------------------------------------------------
(* The reverse DCF.  A ratio is rounded down to thousandths.               *)
LEMMA RatioKeepsOrder ==
  ASSUME NEW x \in Int, NEW y \in Int, NEW d \in Int, d > 0, x <= y
  PROVE  Ratio(x, d) \in Int /\ Ratio(y, d) \in Int /\ Ratio(x, d) <= Ratio(y, d)
<1> DEFINE a == 1000 * x
           b == 1000 * y
<1>1. a \in Int /\ b \in Int /\ a <= b
  OBVIOUS
<1> HIDE DEF a, b
<1>2. a \div d <= b \div d /\ a \div d \in Int /\ b \div d \in Int
  BY <1>1, DivisionKeepsOrder
<1> QED
  BY <1>2 DEF a, b, Ratio

LEMMA RatioBounds ==
  ASSUME NEW x \in Int, NEW d \in Int, d > 0
  PROVE  Ratio(x, d) \in Int /\ d * Ratio(x, d) <= 1000 * x /\ 1000 * x < d * Ratio(x, d) + d
<1> DEFINE a == 1000 * x
           q == a \div d
<1>1. a \in Int
  OBVIOUS
<1> HIDE DEF a
<1>2. q \in Int /\ d * q <= a /\ a < d * q + d
  BY <1>1
<1> QED
  BY <1>2 DEF a, Ratio

(* A report that counts has a positive revenue, and an EBIT.               *)
IsEconomic(r) == r.revenue \in Int /\ r.revenue > 0 /\ r.ebit \in Int

(* The margin of some reports is between the least and the greatest of     *)
(* theirs: it is weighted by revenue.                                      *)
LEMMA MarginIsMean ==
  ASSUME NEW reports, NEW n \in Nat \ {0}, DOMAIN reports = 1 .. n, Missing \notin Int,
         \A i \in 1 .. n : IsEconomic(reports[i])
  PROVE  /\ MarginOf(reports, "ebit") \in Int
         /\ \E i \in 1 .. n : Ratio(reports[i].ebit, reports[i].revenue) <= MarginOf(reports, "ebit")
         /\ \E i \in 1 .. n : Ratio(reports[i].ebit, reports[i].revenue) >= MarginOf(reports, "ebit")
<1> DEFINE D == 1 .. n
           E == [i \in D |-> reports[i].ebit]
           R == [i \in D |-> reports[i].revenue]
           e == AddUp(E)
           r == AddUp(R)
           m == Ratio(e, r)
           At(i) == Ratio(reports[i].ebit, reports[i].revenue)
<1>1. {i \in DOMAIN reports : reports[i]["ebit"] # Missing} = D /\ D # {}
  BY DEF IsEconomic
<1>2. MarginOf(reports, "ebit") = m
  <2>1. MarginOf(reports, "ebit")
          = Ratio(AddUp([i \in D |-> reports[i]["ebit"]]), AddUp([i \in D |-> reports[i].revenue]))
    BY <1>1, Zenon DEF MarginOf
  <2> QED
    BY <2>1
<1>3. IsFiniteSet(D)
  BY FS_Interval
<1>4. E \in [D -> Int] /\ R \in [D -> Int] /\ \A i \in D : R[i] > 0
  BY DEF IsEconomic
<1>5. \A i \in D : At(i) = Ratio(E[i], R[i])
  OBVIOUS
<1> HIDE DEF D, E, R, At
<1>6. e \in Int /\ r \in Int /\ r > 0
  BY <1>1, <1>3, <1>4, SumInt, SumPositive
<1> HIDE DEF e, r
<1>7. m \in Int /\ r * m <= 1000 * e /\ 1000 * e < r * m + r
  BY <1>6, RatioBounds, ZenonT(40)
<1> HIDE DEF m
<1>8. \A i \in D : /\ At(i) \in Int /\ R[i] * At(i) <= 1000 * E[i]
                   /\ 1000 * E[i] < R[i] * At(i) + R[i]
  <2> TAKE i \in D
  <2> DEFINE x == E[i]
             d == R[i]
  <2>1. x \in Int /\ d \in Int /\ d > 0
    BY <1>4
  <2> HIDE DEF x, d
  <2>2. Ratio(x, d) \in Int /\ d * Ratio(x, d) <= 1000 * x /\ 1000 * x < d * Ratio(x, d) + d
    BY <2>1, RatioBounds, ZenonT(40)
  <2> QED
    BY <1>5, <2>2 DEF x, d
<1> DEFINE k == 1000
           EE == [i \in D |-> k * E[i]]
<1>9. k \in Int
  OBVIOUS
<1> HIDE DEF k
<1>10. EE \in [D -> Int] /\ AddUp(EE) = k * e
  BY <1>3, <1>4, <1>9, SumScales DEF e
<1>11. \E i \in D : At(i) <= m
  <2> SUFFICES ASSUME \A i \in D : At(i) > m PROVE FALSE
    BY <1>7, <1>8
  <2> DEFINE s == m + 1
             RR == [i \in D |-> s * R[i]]
  <2>1. s \in Int
    BY <1>7
  <2> HIDE DEF s
  <2>2. RR \in [D -> Int] /\ AddUp(RR) = s * r
    <3>1. AddUp([i \in D |-> s * R[i]]) = s * AddUp(R)
      BY <1>3, <1>4, <2>1, SumScales
    <3>2. \A i \in D : s * R[i] \in Int
      BY <1>4, <2>1
    <3> QED
      BY <3>1, <3>2 DEF r
  <2>3. \A i \in D : RR[i] <= EE[i]
    <3> TAKE i \in D
    <3> DEFINE a == At(i)
               d == R[i]
               x == E[i]
    <3>1. a \in Int /\ a >= s /\ d \in Int /\ d > 0 /\ d * a <= 1000 * x /\ x \in Int /\ s \in Int
      BY <1>4, <1>7, <1>8, <2>1 DEF s
    <3>2. RR[i] = s * d /\ EE[i] = 1000 * x
      BY DEF k
    <3> HIDE DEF a, d, x
    <3>3. a - s \in Nat
      BY <3>1
    <3>4. d * (a - s) \in Nat /\ d * a = d * s + d * (a - s)
      BY <3>1, <3>3
    <3>5. s * d = d * s /\ d * s \in Int /\ d * a \in Int
      BY <3>1
    <3>6. s * d <= 1000 * x
      BY <3>1, <3>4, <3>5
    <3> HIDE DEF RR, EE
    <3> QED
      BY <3>2, <3>6
  <2> HIDE DEF RR, EE
  <2>4. AddUp(RR) <= AddUp(EE)
    BY <1>3, <1>10, <2>2, <2>3, SumOrder
  <2>5. (m + 1) * r <= 1000 * e
    BY <1>10, <2>2, <2>4 DEF s, k
  <2>6. (m + 1) * r = r * m + r
    BY <1>6, <1>7
  <2> QED
    BY <1>6, <1>7, <2>5, <2>6
<1>12. \E i \in D : At(i) >= m
  <2> SUFFICES ASSUME \A i \in D : At(i) < m PROVE FALSE
    BY <1>7, <1>8
  <2> DEFINE RR == [i \in D |-> m * R[i]]
             Gap == [i \in D |-> RR[i] - EE[i]]
             MEE == [i \in D |-> (-1) * EE[i]]
  <2>1. RR \in [D -> Int] /\ AddUp(RR) = m * r
    BY <1>3, <1>4, <1>7, SumScales DEF r
  <2>2. \A i \in D : EE[i] < RR[i]
    <3> TAKE i \in D
    <3> DEFINE a == At(i)
               d == R[i]
               x == E[i]
    <3>1. a \in Int /\ a + 1 <= m /\ d \in Int /\ d > 0 /\ 1000 * x < d * a + d /\ x \in Int
      BY <1>4, <1>7, <1>8
    <3>2. RR[i] = m * d /\ EE[i] = 1000 * x
      BY DEF k
    <3> HIDE DEF a, d, x
    <3>3. m - (a + 1) \in Nat
      BY <1>7, <3>1
    <3>4. d * (m - (a + 1)) \in Nat /\ d * m = (d * a + d) + d * (m - (a + 1))
      BY <1>7, <3>1, <3>3
    <3>5. m * d = d * m /\ d * m \in Int /\ d * a \in Int
      BY <1>7, <3>1
    <3>6. 1000 * x < m * d
      BY <3>1, <3>4, <3>5
    <3> HIDE DEF RR, EE
    <3> QED
      BY <3>2, <3>6
  <2> HIDE DEF RR, EE
  <2>3. Gap \in [D -> Int] /\ \A i \in D : Gap[i] > 0
    BY <1>10, <2>1, <2>2
  <2>4. AddUp(Gap) > 0
    BY <1>1, <1>3, <2>3, SumPositive
  <2>5. AddUp(Gap) + AddUp(EE) = AddUp(RR)
    <3> DEFINE Both == [i \in D |-> Gap[i] + EE[i]]
    <3>1. Both = RR
      BY <1>10, <2>1
    <3> HIDE DEF Gap
    <3>2. AddUp(Both) = AddUp(Gap) + AddUp(EE)
      BY <1>3, <1>10, <2>3, SumAdds, ZenonT(40)
    <3> QED
      BY <3>1, <3>2
  <2>6. AddUp(Gap) \in Int
    BY <1>3, <2>3, SumInt
  <2>7. 1000 * e < m * r
    BY <1>6, <1>7, <1>10, <2>1, <2>4, <2>5, <2>6 DEF k
  <2>8. m * r = r * m
    BY <1>6, <1>7
  <2> QED
    BY <1>6, <1>7, <2>7, <2>8
<1> QED
  BY <1>2, <1>7, <1>11, <1>12 DEF D, At
-----------------------------------------------------------------------------
(* The annual reports of a dossier are reports it holds, with revenue and  *)
(* EBIT, of as many years as there are reports, where years are known.     *)
ToldIn(e) == {Filed(e)[i] : i \in Reported(e)}
Enough(e) ==
  \/ Cardinality(YearsReported(e)) >= 3
  \/ YearsReported(e) = {} /\ Cardinality(Reported(e)) >= 3

LEMMA AnnualsAreTold ==
  ASSUME NEW e, IsDossier(e), Missing \notin Int
  PROVE  \E n \in Nat :
           /\ DOMAIN Annuals(e) = 1 .. n /\ Len(Annuals(e)) = n
           /\ \A k \in 1 .. n : Annuals(e)[k] \in ToldIn(e) /\ IsEconomic(Annuals(e)[k])
           /\ n >= 3 => Enough(e)
           /\ \A i \in Recent(e) : \E k \in 1 .. n : k > n - 5 /\ Annuals(e)[k] = Filed(e)[i]
<1> DEFINE all == Append(e.history, e.annual)
           valid == {i \in DOMAIN all : HasEconomics(all[i])}
           dated == {all[i].year : i \in valid} \ {Missing}
           years == {all[i].year : i \in valid}
           Of(year) == Max({i \in valid : all[i].year = year})
           n == Cardinality(IF dated = {} THEN valid ELSE dated)
           Place(k) == IF dated = {} THEN InOrder(valid)[k] ELSE Of(InOrder(dated)[k])
<1>1. Annuals(e) = [k \in 1 .. n |-> all[Place(k)]]
  BY Zenon DEF Annuals
<1>2. all \in Seq(ReportFields \cup {Missing})
  <2>1. e.history \in Seq(ReportFields) /\ e.annual \in ReportFields \cup {Missing}
    BY DEF IsDossier
  <2> HIDE DEF all
  <2> QED
    BY <2>1 DEF all
<1>3. Filed(e) = all /\ Reported(e) = valid /\ YearsReported(e) = dated
      /\ ToldIn(e) = {all[i] : i \in valid}
  BY DEF ToldIn, Filed, Reported, YearsReported
<1> HIDE DEF all
<1>4. DOMAIN all = 1 .. Len(all) /\ Len(all) \in Nat /\ \A i \in DOMAIN all : all[i] \in ReportFields \cup {Missing}
  BY <1>2
<1>5. \A i \in valid : all[i] \in ReportFields /\ IsEconomic(all[i])
  BY <1>4 DEF HasEconomics, MoreThanZero, IsEconomic, ReportFields, Amounts
<1>6. valid \in SUBSET Int /\ IsFiniteSet(valid)
  <2>1. IsFiniteSet(1 .. Len(all))
    BY <1>4, FS_Interval
  <2>2. valid \in SUBSET (1 .. Len(all))
    BY <1>4
  <2> QED
    BY <2>1, <2>2, FS_Subset
<1>7. dated \in SUBSET Int /\ dated \subseteq years
  BY <1>5 DEF ReportFields, Amounts
<1>8. IsFiniteSet(years)
  <2>1. IsFiniteSet({all[i].year : i \in valid})
    <3> DEFINE image == {all[i].year : i \in valid}
               f == [i \in valid |-> all[i].year]
    <3>1. f \in Surjection(valid, image)
      BY DEF Surjection
    <3> HIDE DEF f, image, valid
    <3>2. IsFiniteSet(image)
      BY <1>6, <3>1, FS_Surjection
    <3> QED
      BY <3>2 DEF image
  <2> QED
    BY <2>1
<1> HIDE DEF valid, dated, years
<1>9. IsFiniteSet(dated) /\ Cardinality(dated) <= Cardinality(years)
  BY <1>7, <1>8, FS_Subset
<1>10. n \in Nat
  BY <1>6, <1>9, FS_CardinalityType
<1>11. \A k \in 1 .. n : Place(k) \in valid
  <2>1. CASE dated = {}
    <3>1. InOrder(valid) \in [1 .. Cardinality(valid) -> valid]
      BY <1>6, InOrderLists
    <3> QED
      BY <2>1, <3>1
  <2>2. CASE dated # {}
    <3>1. InOrder(dated) \in [1 .. Cardinality(dated) -> dated]
      BY <1>7, <1>9, InOrderLists
    <3>2. ASSUME NEW year \in dated PROVE Of(year) \in valid
      <4> DEFINE S == {i \in valid : all[i].year = year}
      <4>1. S \in SUBSET valid
        OBVIOUS
      <4>2. S # {}
        BY DEF dated
      <4> HIDE DEF S
      <4>3. IsFiniteSet(S) /\ S \in SUBSET Int
        BY <1>6, <4>1, FS_Subset
      <4>4. Max(S) \in S
        BY <4>2, <4>3, MaxOfInts
      <4> QED
        BY <4>1, <4>4 DEF S
    <3> HIDE DEF Of
    <3> QED
      BY <2>2, <3>1, <3>2
  <2> QED
    BY <2>1, <2>2
<1>12. n >= 3 => Enough(e)
  BY <1>3 DEF Enough
<1>13. ASSUME NEW i \in Recent(e) PROVE \E k \in 1 .. n : k > n - 5 /\ Place(k) = i
  <2>1. CASE dated = {}
    <3>1. i \in valid /\ Cardinality({k \in valid : k > i}) < 5
      BY <1>3, <2>1 DEF Recent
    <3>2. \E k \in 1 .. Cardinality(valid) : InOrder(valid)[k] = i /\ k > Cardinality(valid) - 5
      BY <1>6, <3>1, LateInOrder
    <3> QED
      BY <2>1, <3>2
  <2>2. CASE dated # {}
    <3> DEFINE year == all[i].year
               S == {k \in valid : all[k].year = year}
    <3>1. /\ i \in valid /\ year # Missing
          /\ \A k \in valid : all[k].year = year => k <= i
          /\ Cardinality({y \in dated : y > year}) < 5
      BY <1>3, <2>2 DEF Recent
    <3>2. year \in dated
      BY <3>1 DEF dated
    <3>3. PICK k \in 1 .. Cardinality(dated) :
            InOrder(dated)[k] = year /\ k > Cardinality(dated) - 5
      BY <1>7, <1>9, <3>1, <3>2, LateInOrder
    <3>4. Max(S) = i
      <4>1. i \in S /\ S \in SUBSET valid /\ \A x \in S : x <= i
        BY <3>1
      <4> HIDE DEF S
      <4>2. IsFiniteSet(S) /\ S \in SUBSET Int /\ S # {}
        BY <1>6, <4>1, FS_Subset
      <4> DEFINE last == Max(S)
      <4>3. last \in S /\ \A x \in S : x <= last
        BY <4>2, MaxOfInts
      <4> HIDE DEF last
      <4>4. last \in Int /\ i \in Int /\ last <= i /\ i <= last
        BY <4>1, <4>2, <4>3
      <4>5. last = i
        BY <4>4
      <4> QED
        BY <4>5 DEF last
    <3>5. Of(year) = i
      BY <3>4
    <3> HIDE DEF Of
    <3> QED
      BY <2>2, <3>3, <3>5
  <2> QED
    BY <2>1, <2>2
<1> HIDE DEF n, Place
<1>14. DOMAIN Annuals(e) = 1 .. n /\ Len(Annuals(e)) = n
  BY <1>1, <1>10
<1>15. \A k \in 1 .. n : Annuals(e)[k] \in ToldIn(e) /\ IsEconomic(Annuals(e)[k])
  BY <1>1, <1>3, <1>5, <1>11
<1>16. \A i \in Recent(e) : \E k \in 1 .. n : k > n - 5 /\ Annuals(e)[k] = Filed(e)[i]
  BY <1>1, <1>3, <1>13
<1> QED
  BY <1>10, <1>12, <1>14, <1>15, <1>16

(* What is selected are economic reports, and three or more of them are    *)
(* annual reports of the dossier.                                          *)
LEMMA SelectedIsTold ==
  ASSUME NEW e, IsDossier(e), Missing \notin Int, Selected(e) # << >>
  PROVE  \E n \in Nat \ {0} :
           /\ DOMAIN Selected(e) = 1 .. n /\ Len(Selected(e)) = n
           /\ \A k \in 1 .. n : IsEconomic(Selected(e)[k])
           /\ n >= 3 => /\ \A k \in 1 .. n : Selected(e)[k] \in ToldIn(e)
                        /\ Enough(e)
<1> DEFINE annuals == Annuals(e)
<1>1. PICK len \in Nat :
        /\ DOMAIN annuals = 1 .. len /\ Len(annuals) = len
        /\ \A k \in 1 .. len : annuals[k] \in ToldIn(e) /\ IsEconomic(annuals[k])
        /\ len >= 3 => Enough(e)
  BY AnnualsAreTold
<1>2. Selected(e) = CASE len >= 5 -> LatestOf(5, annuals)
                      [] len \in 3 .. 4 -> LatestOf(3, annuals)
                      [] len < 3 /\ HasEconomics(e.annual) -> <<e.annual>>
                      [] len < 3 /\ ~HasEconomics(e.annual) /\ HasEconomics(e.current) -> <<e.current>>
                      [] OTHER -> << >>
  BY <1>1, Zenon DEF Selected
<1> HIDE DEF annuals
<1>3. \A count \in {3, 5} : len >= count =>
        /\ DOMAIN LatestOf(count, annuals) = 1 .. count /\ Len(LatestOf(count, annuals)) = count
        /\ \A k \in 1 .. count : LatestOf(count, annuals)[k] \in ToldIn(e)
                                 /\ IsEconomic(LatestOf(count, annuals)[k])
  <2> TAKE count \in {3, 5}
  <2> HAVE len >= count
  <2> DEFINE first == len - count + 1
             latest == LatestOf(count, annuals)
  <2>1. first \in 1 .. len /\ count \in Int
    OBVIOUS
  <2>2. \A k \in Int : 1 <= k => Max({1, k}) = k
    BY MaxOfTwo
  <2>3. Max({1, len - count + 1}) = first
    BY <2>1, <2>2
  <2>4. latest = SubSeq(annuals, first, len)
    BY <1>1, <2>3, Zenon DEF LatestOf
  <2>5. annuals \in Seq(ToldIn(e))
    <3>1. annuals = [k \in 1 .. len |-> annuals[k]]
      <4>1. annuals = [k \in DOMAIN annuals |-> annuals[k]]
        BY DEF annuals, Annuals
      <4> QED
        BY <1>1, <4>1
    <3> QED
      BY <1>1, <3>1
  <2> HIDE DEF first, latest
  <2>6. Len(latest) = len - first + 1 /\ DOMAIN latest = 1 .. (len - first + 1)
        /\ \A k \in 1 .. (len - first + 1) : latest[k] = annuals[first + k - 1]
    BY <1>1, <2>1, <2>4, <2>5
  <2>7. len - first + 1 = count
    BY <2>1 DEF first
  <2>8. \A k \in 1 .. count : first + k - 1 \in 1 .. len
    BY <2>1, <2>7
  <2>9. /\ DOMAIN latest = 1 .. count /\ Len(latest) = count
        /\ \A k \in 1 .. count : latest[k] \in ToldIn(e) /\ IsEconomic(latest[k])
    BY <1>1, <2>6, <2>7, <2>8
  <2> QED
    BY <2>9 DEF latest
<1>4. CASE len >= 5
  <2>1. Selected(e) = LatestOf(5, annuals)
    BY <1>2, <1>4
  <2> DEFINE count == 5
  <2>2. count \in {3, 5} /\ len >= count /\ count \in Nat \ {0} /\ len >= 3
    BY <1>1, <1>4
  <2>3. Selected(e) = LatestOf(count, annuals)
    BY <2>1
  <2> HIDE DEF count
  <2>4. /\ DOMAIN Selected(e) = 1 .. count /\ Len(Selected(e)) = count
        /\ \A k \in 1 .. count : Selected(e)[k] \in ToldIn(e) /\ IsEconomic(Selected(e)[k])
    BY <1>3, <2>2, <2>3
  <2> QED
    BY <1>1, <2>2, <2>4
<1>5. CASE len \in 3 .. 4
  <2>1. Selected(e) = LatestOf(3, annuals)
    BY <1>2, <1>5
  <2> DEFINE count == 3
  <2>2. count \in {3, 5} /\ len >= count /\ count \in Nat \ {0} /\ len >= 3
    BY <1>1, <1>5
  <2>3. Selected(e) = LatestOf(count, annuals)
    BY <2>1
  <2> HIDE DEF count
  <2>4. /\ DOMAIN Selected(e) = 1 .. count /\ Len(Selected(e)) = count
        /\ \A k \in 1 .. count : Selected(e)[k] \in ToldIn(e) /\ IsEconomic(Selected(e)[k])
    BY <1>3, <2>2, <2>3
  <2> QED
    BY <1>1, <2>2, <2>4
<1>6. CASE len < 3
  <2>1. \A r : (HasEconomics(r) /\ (r = e.annual \/ r = e.current)) => IsEconomic(r)
    BY DEF HasEconomics, IsEconomic, MoreThanZero, IsDossier, ReportFields, Amounts
  <2>2. PICK r : Selected(e) = <<r>> /\ IsEconomic(r)
    BY <1>2, <1>6, <2>1
  <2>3. DOMAIN <<r>> = 1 .. 1 /\ Len(<<r>>) = 1 /\ <<r>>[1] = r
    OBVIOUS
  <2>4. \A k \in 1 .. 1 : IsEconomic(Selected(e)[k])
    BY <2>2
  <2> QED
    BY <2>2, <2>3, <2>4
<1>7. len >= 5 \/ len \in 3 .. 4 \/ len < 3
  OBVIOUS
<1> QED
  BY <1>4, <1>5, <1>6, <1>7, Zenon

(* The reports of the five latest years are those whose cash flows count.  *)
LEMMA RecentAreLatest ==
  ASSUME NEW e, IsDossier(e), Missing \notin Int, NEW i \in Recent(e)
  PROVE  Filed(e)[i] \in ToSet(LatestOf(5, Annuals(e)))
<1> DEFINE annuals == Annuals(e)
           latest == LatestOf(5, annuals)
<1>1. PICK len \in Nat :
        /\ DOMAIN annuals = 1 .. len /\ Len(annuals) = len
        /\ \A k \in 1 .. len : annuals[k] \in ToldIn(e)
        /\ \E k \in 1 .. len : k > len - 5 /\ annuals[k] = Filed(e)[i]
  BY AnnualsAreTold
<1>2. PICK k \in 1 .. len : k > len - 5 /\ annuals[k] = Filed(e)[i]
  BY <1>1
<1>3. annuals \in Seq(ToldIn(e))
  <2>1. annuals = [j \in DOMAIN annuals |-> annuals[j]]
    BY DEF Annuals
  <2>2. annuals = [j \in 1 .. len |-> annuals[j]]
    BY <1>1, <2>1
  <2> QED
    BY <1>1, <2>2
<1> DEFINE first == Max({1, len - 5 + 1})
<1>4. first \in 1 .. k
  <2>1. first = IF 1 <= len - 5 + 1 THEN len - 5 + 1 ELSE 1
    BY MaxOfTwo
  <2> HIDE DEF first
  <2> QED
    BY <1>2, <2>1
<1>5. latest = SubSeq(annuals, first, len)
  BY <1>1, Zenon DEF LatestOf
<1> HIDE DEF first, latest, annuals
<1>6. DOMAIN latest = 1 .. (len - first + 1)
      /\ \A j \in 1 .. (len - first + 1) : latest[j] = annuals[first + j - 1]
  BY <1>1, <1>3, <1>4, <1>5
<1> DEFINE j == k - first + 1
<1>7. j \in 1 .. (len - first + 1) /\ first + j - 1 = k
  BY <1>4
<1> HIDE DEF j
<1>8. j \in DOMAIN latest /\ latest[j] = Filed(e)[i]
  BY <1>2, <1>6, <1>7
<1> QED
  BY <1>8 DEF ToSet, latest, annuals
-----------------------------------------------------------------------------
(* What the policy hands over, and what the solver makes of it: everything *)
(* between the bounds, and a required return above the terminal growth.    *)
Sound ==
  [growth : -100 .. 300, fadeTo : {MatureGrowth}, margin : Int, start : Amounts,
   rate : 100 .. 150, terminal : -10 .. 40, roic : {r \in Int : r > 0} \cup {Missing},
   reinvestment : Int]
Complete(e) == PriceGaps(e) \cup PolicyGaps(e) \cup ReportGaps(e) = {}

LEMMA CompleteHolds ==
  ASSUME NEW e, IsDossier(e), Missing \notin Int, Complete(e)
  PROVE  /\ e.price # Missing /\ e.price.close \in Int
         /\ e.current # Missing /\ e.current.revenue \in Int /\ e.current.revenue > 0
         /\ e.current.ebit \in Amounts /\ e.current.debt \in Int
         /\ MarketCap(e) \in Int
         /\ Selected(e) # << >>
<1>1. PriceGaps(e) = {} /\ PolicyGaps(e) = {} /\ ReportGaps(e) = {}
  BY DEF Complete
<1>2. e.price # Missing /\ e.price.close \in Int
  BY <1>1 DEF PriceGaps, IsDossier
<1>3. e.current # Missing /\ MoreThanZero(e.current.revenue)
  BY <1>1 DEF PolicyGaps
<1>4. Selected(e) # << >>
  BY <1>1, <1>3 DEF PolicyGaps
<1>5. MoreThanZero(e.current.shares) /\ e.current.debt # Missing
  <2>1. ReportGaps(e) = {gap \in {"shares"} : ~MoreThanZero(e.current.shares)}
                          \cup {gap \in {"debt"} : e.current.debt = Missing}
    BY <1>3 DEF ReportGaps
  <2>2. "shares" \notin {gap \in {"shares"} : ~MoreThanZero(e.current.shares)}
        /\ "debt" \notin {gap \in {"debt"} : e.current.debt = Missing}
    BY <1>1, <2>1
  <2> QED
    BY <2>2
<1>6. \A name \in {"revenue", "ebit", "shares", "debt"} : e.current[name] \in Amounts
  BY <1>3 DEF IsDossier
<1>7. /\ e.current.revenue \in Amounts /\ e.current.ebit \in Amounts
      /\ e.current.shares \in Amounts /\ e.current.debt \in Amounts
  BY <1>6
<1>8. MarketCap(e) = e.price.close * e.current.shares
  BY <1>2, <1>3, <1>5 DEF MarketCap, Shares
<1> QED
  BY <1>2, <1>3, <1>4, <1>5, <1>7, <1>8 DEF MoreThanZero, Amounts

LEMMA WithinBounds ==
  ASSUME NEW v \in Int, NEW least \in Int, NEW most \in Int
  PROVE  Within(v, least, most) \in Int
<1> DEFINE m == Min({most, v})
<1>1. m \in Int
  BY MinOfTwo
<1> HIDE DEF m
<1>2. Max({least, m}) \in Int
  BY <1>1, MaxOfTwo
<1> QED
  BY <1>2 DEF Within, m

LEMMA WithinRanges ==
  ASSUME NEW v \in Int
  PROVE  Within(v, 0, 1000) \in Int /\ Within(v, -50, 150) \in Int
  BY WithinBounds

LEMMA GrowthBounds ==
  ASSUME NEW e
  PROVE  Growth(e) \in -50 .. 150
<1> DEFINE Grown(b) == {g \in -5 .. 15 : \/ g = -5
                                        \/ b.revenue * (100 + g) ^ b.periods
                                             <= e.annual.revenue * 100 ^ b.periods}
<1>1. Growth(e) = 0 \/ \E b : Growth(e) = 10 * Max(Grown(b))
  BY Zenon DEF Growth
<1>2. ASSUME NEW b PROVE Max(Grown(b)) \in -5 .. 15
  <2> DEFINE S == Grown(b)
  <2>1. S \in SUBSET (-5 .. 15) /\ -5 \in S
    OBVIOUS
  <2> HIDE DEF S
  <2>2. IsFiniteSet(-5 .. 15)
    <3>1. \A lo, hi \in Int : IsFiniteSet(lo .. hi)
      BY FS_Interval
    <3>2. -5 \in Int /\ 15 \in Int
      OBVIOUS
    <3> QED
      BY <3>1, <3>2, Zenon
  <2>3. IsFiniteSet(S)
    BY <2>1, <2>2, FS_Subset
  <2>5. S \in SUBSET Int
    BY <2>1
  <2>4. Max(S) \in S
    BY <2>1, <2>3, <2>5, MaxOfInts
  <2> QED
    BY <2>1, <2>4 DEF S
<1> HIDE DEF Grown
<1> QED
  BY <1>1, <1>2

LEMMA TimesIsInt ==
  ASSUME NEW x \in Int, NEW rate \in Int
  PROVE  Times(x, rate) \in Int
<1> DEFINE p == x * rate
<1>1. p \in Int
  OBVIOUS
<1> HIDE DEF p
<1>2. p \div 1000 \in Int
  BY <1>1
<1> QED
  BY <1>2 DEF p, Times

LEMMA MarginIsAmount ==
  ASSUME NEW r, r.revenue \in Int, r.revenue > 0, r.ebit \in Amounts, Missing \notin Int
  PROVE  MarginOf(<<r>>, "ebit") \in Amounts
<1> DEFINE one == <<r>>
<1>1. DOMAIN one = 1 .. 1 /\ one[1] = r
  OBVIOUS
<1> HIDE DEF one
<1>2. CASE r.ebit = Missing
  <2>1. {i \in DOMAIN one : one[i]["ebit"] # Missing} = {}
    BY <1>1, <1>2
  <2>2. MarginOf(one, "ebit") = Missing
    BY <2>1, Zenon DEF MarginOf
  <2> QED
    BY <2>2 DEF one, Amounts
<1>3. CASE r.ebit \in Int
  <2>1. \A i \in 1 .. 1 : IsEconomic(one[i])
    BY <1>1, <1>3 DEF IsEconomic
  <2> DEFINE n == 1
  <2>2. n \in Nat \ {0} /\ DOMAIN one = 1 .. n /\ \A i \in 1 .. n : IsEconomic(one[i])
    BY <1>1, <2>1
  <2> HIDE DEF n
  <2>3. MarginOf(one, "ebit") \in Int
    BY <2>2, MarginIsMean
  <2> QED
    BY <2>3 DEF one, Amounts
<1> QED
  BY <1>2, <1>3 DEF Amounts

LEMMA AssumptionsAreSound ==
  ASSUME NEW e, IsDossier(e), Missing \notin Int, Complete(e)
  PROVE  /\ Assumptions(e) \in Sound /\ Calculable(Assumptions(e))
         /\ Assumptions(e).margin = MarginOf(Selected(e), "ebit")
         /\ MoreThanZero(e.roic) => Assumptions(e).roic = e.roic
<1> DEFINE roic == IF MoreThanZero(e.roic) THEN e.roic ELSE Missing
           margin == MarginOf(Selected(e), "ebit")
           ratio == Ratio(Growth(e), roic)
           share == IF roic = Missing THEN 0 ELSE Within(ratio, 0, 1000)
           paid == Times(margin, 1000 - TaxRate)
           put == Times(paid, share)
           a == Assumptions(e)
<1>1. a = [growth |-> Growth(e), fadeTo |-> MatureGrowth, margin |-> margin,
           start |-> MarginOf(<<e.current>>, "ebit"), rate |-> Hurdle(MarketCap(e)),
           terminal |-> MatureGrowth, roic |-> roic, reinvestment |-> Within(put, -50, 150)]
  BY Zenon DEF Assumptions
<1>2. Growth(e) \in -50 .. 150
  BY GrowthBounds
<1>3. roic \in {r \in Int : r > 0} \cup {Missing}
  BY DEF IsDossier, MoreThanZero, Amounts
<1>4. Selected(e) # << >> /\ MarketCap(e) \in Int
  BY CompleteHolds
<1>5. margin \in Int
  <2> PICK n \in Nat \ {0} : /\ DOMAIN Selected(e) = 1 .. n
                             /\ \A k \in 1 .. n : IsEconomic(Selected(e)[k])
    BY <1>4, SelectedIsTold
  <2> QED
    BY MarginIsMean
<1>6. MarginOf(<<e.current>>, "ebit") \in Amounts
  BY CompleteHolds, MarginIsAmount
<1>7. Hurdle(MarketCap(e)) \in 100 .. 150
  BY <1>4 DEF Hurdle
<1>8. share \in Int
  <2>1. CASE roic = Missing
    BY <2>1
  <2>2. CASE roic # Missing
    <3>1. roic \in Int /\ roic > 0 /\ Growth(e) \in Int
      BY <1>2, <1>3, <2>2
    <3>2. ratio \in Int
      <4> HIDE DEF roic
      <4> QED
        BY <3>1, RatioBounds
    <3> HIDE DEF ratio, roic
    <3>3. Within(ratio, 0, 1000) \in Int
      BY <3>2, WithinRanges
    <3> QED
      BY <2>2, <3>3
  <2> QED
    BY <2>1, <2>2
<1> HIDE DEF roic, margin, share
<1>9. paid \in Int
  <2>1. 1000 - TaxRate \in Int
    BY DEF TaxRate
  <2> QED
    BY <1>5, <2>1, TimesIsInt
<1> HIDE DEF paid
<1>10. put \in Int
  BY <1>8, <1>9, TimesIsInt
<1> HIDE DEF put
<1>11. Within(put, -50, 150) \in Int
  BY <1>10, WithinRanges
<1> HIDE DEF a
<1>12. a \in Sound
  BY <1>1, <1>2, <1>3, <1>5, <1>6, <1>7, <1>11 DEF Sound, MatureGrowth
<1>13. Calculable(a)
  BY <1>1, <1>2, <1>3, <1>7 DEF Calculable, MatureGrowth
<1>14. a.margin = margin /\ a.roic = roic
  BY <1>1
<1> QED
  BY <1>12, <1>13, <1>14 DEF a, margin, roic

(* An analysis that is available is that of a dossier without gaps.        *)
DossierAnalyzed ==
  /\ dossier \in Dossiers
  /\ analysis # Missing => analysis.status # "raised"
  /\ Available =>
       LET a == Assumptions(dossier) IN
       /\ Complete(dossier) /\ analysis.assumptions = a
       /\ analysis.confidence = Confidence(dossier)
       /\ analysis.expectations = [name \in DOMAIN SolveBounds |-> Solve(dossier, a, name)]
       /\ analysis.curve = [g \in CurveGrowth |->
                              Solve(dossier, [a EXCEPT !.growth = g], "margin")]

LEMMA EveryDossierIsAnalyzed == DcfSpec => []DossierAnalyzed
<1>1. DcfInit => DossierAnalyzed
  BY DEF DcfInit, DossierAnalyzed, Available
<1>2. DossierAnalyzed /\ [Analyze]_dcfVars => DossierAnalyzed'
  <2> SUFFICES ASSUME DossierAnalyzed, [Analyze]_dcfVars PROVE DossierAnalyzed'
    OBVIOUS
  <2>1. CASE UNCHANGED dcfVars
    BY <2>1 DEF dcfVars, DossierAnalyzed, Available
  <2>2. CASE Analyze
    <3> DEFINE e == dossier
               gaps == PriceGaps(e) \cup PolicyGaps(e) \cup ReportGaps(e)
               a == Assumptions(e)
               explained == [name \in DOMAIN SolveBounds |-> Solve(e, a, name)]
               curve == [g \in CurveGrowth |-> Solve(e, [a EXCEPT !.growth = g], "margin")]
    <3>1. /\ dossier' = dossier
          /\ analysis' =
               CASE Unsupported(e) -> [status |-> "unsupported_model"]
                 [] ~Unsupported(e) /\ gaps # {} -> [status |-> "unavailable", missing |-> gaps]
                 [] ~Unsupported(e) /\ gaps = {} /\ ~Calculable(a) -> [status |-> "raised"]
                 [] OTHER -> [status |-> "available", assumptions |-> a,
                              confidence |-> Confidence(e), expectations |-> explained,
                              curve |-> curve]
      BY <2>2, Zenon DEF Analyze
    <3>2. dossier \in Dossiers /\ IsDossier(e) /\ Missing \notin Int
      BY DossiersAreTyped DEF DossierAnalyzed
    <3>3. gaps = {} => Complete(e) /\ Calculable(a)
      BY <3>2, AssumptionsAreSound DEF Complete
    <3> HIDE DEF gaps, a, explained, curve
    <3>4. \/ analysis' = [status |-> "unsupported_model"]
          \/ analysis' = [status |-> "unavailable", missing |-> gaps]
          \/ /\ Complete(e)
             /\ analysis' = [status |-> "available", assumptions |-> a,
                             confidence |-> Confidence(e), expectations |-> explained,
                             curve |-> curve]
      BY <3>1, <3>3, Zenon
    <3>5. CASE Complete(e) /\ analysis' = [status |-> "available", assumptions |-> a,
                             confidence |-> Confidence(e), expectations |-> explained,
                             curve |-> curve]
      <4>1. /\ analysis'.status = "available" /\ analysis'.assumptions = a
            /\ analysis'.confidence = Confidence(e)
            /\ analysis'.expectations = explained /\ analysis'.curve = curve
        BY <3>5
      <4>2. analysis'.status # "raised"
        BY <4>1
      <4> QED
        BY <3>1, <3>2, <3>5, <4>1, <4>2, Zenon DEF DossierAnalyzed, a, explained, curve
    <3>6. CASE analysis' = [status |-> "unsupported_model"]
      BY <3>1, <3>2, <3>6 DEF DossierAnalyzed, Available
    <3>7. CASE analysis' = [status |-> "unavailable", missing |-> gaps]
      BY <3>1, <3>2, <3>7 DEF DossierAnalyzed, Available
    <3> QED
      BY <3>4, <3>5, <3>6, <3>7
  <2> QED
    BY <2>1, <2>2
<1> QED
  BY <1>1, <1>2, PTL DEF DcfSpec

(* No analysis of a dossier ends in an exception, and confidence above low *)
(* rests on three distinct years (on three reports, where none is dated),  *)
(* on a margin between those of its reports, on a positive return on       *)
(* capital, and on five latest years that told no free cash flow that was  *)
(* not positive (DcfAssumptionPolicy.build).                               *)
THEOREM HistoryBearsConfidence == DcfSpec => []ConfidenceRestsOnHistory
<1>1. DossierAnalyzed => ConfidenceRestsOnHistory
  <2> SUFFICES ASSUME DossierAnalyzed PROVE ConfidenceRestsOnHistory
    OBVIOUS
  <2> DEFINE e == dossier
             margin == MarginOf(Selected(e), "ebit")
             Of(i) == Filed(e)[i]
  <2>1. IsDossier(e) /\ Missing \notin Int
    BY DossiersAreTyped DEF DossierAnalyzed
  <2>2. SUFFICES ASSUME Available, analysis.confidence # "low"
                 PROVE  /\ Enough(e)
                        /\ \E i \in Reported(e) :
                             Ratio(Of(i).ebit, Of(i).revenue) <= analysis.assumptions.margin
                        /\ \E i \in Reported(e) :
                             Ratio(Of(i).ebit, Of(i).revenue) >= analysis.assumptions.margin
                        /\ \A i \in Recent(e) : Of(i).fcf # Missing => Of(i).fcf > 0
                        /\ analysis.assumptions.roic # Missing
    BY DEF ConfidenceRestsOnHistory, DossierAnalyzed, Enough
  <2>3. Complete(e) /\ analysis.assumptions = Assumptions(e) /\ Reasons(e) = {}
    BY <2>2 DEF DossierAnalyzed, Confidence
  <2>4. Len(Selected(e)) >= 3 /\ MoreThanZero(e.roic)
    <3>1. "few_years" \notin Reasons(e) /\ "no_roic" \notin Reasons(e)
      BY <2>3
    <3>2. ~(Len(Selected(e)) < 3) /\ MoreThanZero(e.roic)
      BY <3>1, Zenon DEF Reasons
    <3>3. Selected(e) # << >>
      BY <2>1, <2>3, CompleteHolds
    <3>4. Len(Selected(e)) \in Nat
      BY <2>1, <3>3, SelectedIsTold
    <3> QED
      BY <3>2, <3>4
  <2>5. Selected(e) # << >>
    BY <2>1, <2>3, CompleteHolds
  <2> PICK n \in Nat \ {0} :
        /\ DOMAIN Selected(e) = 1 .. n /\ Len(Selected(e)) = n
        /\ \A k \in 1 .. n : IsEconomic(Selected(e)[k])
        /\ n >= 3 => /\ \A k \in 1 .. n : Selected(e)[k] \in ToldIn(e)
                     /\ Enough(e)
    BY <2>1, <2>5, SelectedIsTold
  <2>6. /\ \A k \in 1 .. n : \E i \in Reported(e) : Selected(e)[k] = Of(i)
        /\ Enough(e)
    BY <2>4 DEF ToldIn
  <2>7. /\ \E i \in 1 .. n : Ratio(Selected(e)[i].ebit, Selected(e)[i].revenue) <= margin
        /\ \E i \in 1 .. n : Ratio(Selected(e)[i].ebit, Selected(e)[i].revenue) >= margin
    BY <2>1, MarginIsMean
  <2>8. analysis.assumptions.margin = margin /\ analysis.assumptions.roic # Missing
    BY <2>1, <2>3, <2>4, AssumptionsAreSound DEF MoreThanZero
  <2>9. ASSUME NEW i \in Recent(e), Of(i).fcf # Missing PROVE Of(i).fcf > 0
    <3>1. "negative_fcf" \notin Reasons(e)
      BY <2>3
    <3>2. \A r \in ToSet(LatestOf(5, Annuals(e))) : ~(r.fcf # Missing /\ r.fcf <= 0)
      BY <3>1, Zenon DEF Reasons
    <3>3. Of(i) \in ToSet(LatestOf(5, Annuals(e)))
      BY <2>1, RecentAreLatest
    <3>4. Of(i).fcf \in Int
      <4>1. i \in Reported(e)
        BY DEF Recent
      <4>2. /\ Of(i) \in ReportFields \cup {Missing} /\ Of(i) # Missing
        <5>1. Filed(e) \in Seq(ReportFields \cup {Missing})
          <6>1. e.history \in Seq(ReportFields) /\ e.annual \in ReportFields \cup {Missing}
            BY <2>1 DEF IsDossier
          <6> QED
            BY <6>1 DEF Filed
        <5>2. i \in DOMAIN Filed(e) /\ HasEconomics(Of(i))
          BY <4>1 DEF Reported
        <5> HIDE DEF e
        <5> QED
          BY <5>1, <5>2 DEF HasEconomics
      <4> QED
        BY <2>9, <4>2 DEF ReportFields, Amounts
    <3> QED
      BY <2>9, <3>2, <3>3, <3>4
  <2> HIDE DEF e, margin, Of
  <2> QED
    BY <2>6, <2>7, <2>8, <2>9
<1> QED
  BY <1>1, EveryDossierIsAnalyzed, PTL
-----------------------------------------------------------------------------
(* The engine.  Its value is an integer, and no higher margin has a lower  *)
(* one.                                                                    *)
LEMMA ThousandKeepsOrder ==
  ASSUME NEW p \in Int, NEW q \in Int, p <= q
  PROVE  p \div 1000 \in Int /\ q \div 1000 \in Int /\ p \div 1000 <= q \div 1000
<1> DEFINE d == 1000
<1>1. d \in Int /\ d > 0
  OBVIOUS
<1> HIDE DEF d
<1>2. p \div d <= q \div d /\ p \div d \in Int /\ q \div d \in Int
  BY <1>1, DivisionKeepsOrder
<1> QED
  BY <1>2 DEF d

LEMMA TimesKeepsOrder ==
  ASSUME NEW x \in Int, NEW y \in Int, NEW rate \in Nat, x <= y
  PROVE  Times(x, rate) \in Int /\ Times(y, rate) \in Int /\ Times(x, rate) <= Times(y, rate)
<1> DEFINE p == x * rate
           q == y * rate
<1>1. p \in Int /\ q \in Int /\ p <= q
  <2>1. y - x \in Nat
    OBVIOUS
  <2>2. (y - x) * rate \in Nat /\ y * rate = x * rate + (y - x) * rate
    BY <2>1
  <2> QED
    BY <2>2
<1> HIDE DEF p, q
<1>2. p \div 1000 \in Int /\ q \div 1000 \in Int /\ p \div 1000 <= q \div 1000
  BY <1>1, ThousandKeepsOrder
<1> QED
  BY <1>2 DEF p, q, Times

LEMMA RateKeepsOrder ==
  ASSUME NEW x \in Nat, NEW r \in Int, NEW s \in Int, r <= s
  PROVE  Times(x, r) \in Int /\ Times(x, s) \in Int /\ Times(x, r) <= Times(x, s)
<1> DEFINE p == x * r
           q == x * s
<1>1. p \in Int /\ q \in Int /\ p <= q
  <2>1. s - r \in Nat
    OBVIOUS
  <2>2. x * (s - r) \in Nat /\ x * s = x * r + x * (s - r)
    BY <2>1
  <2> QED
    BY <2>2
<1> HIDE DEF p, q
<1>2. p \div 1000 \in Int /\ q \div 1000 \in Int /\ p \div 1000 <= q \div 1000
  BY <1>1, ThousandKeepsOrder
<1> QED
  BY <1>2 DEF p, q, Times

LEMMA TimesIsNat ==
  ASSUME NEW x \in Nat, NEW rate \in Nat
  PROVE  Times(x, rate) \in Nat
<1> DEFINE p == x * rate
<1>1. p \in Nat
  OBVIOUS
<1> HIDE DEF p
<1>2. p \div 1000 \in Nat
  BY <1>1
<1> QED
  BY <1>2 DEF p, Times

LEMMA FadeKeepsOrder ==
  ASSUME NEW start \in Amounts, NEW m \in Int, NEW n \in Int, m <= n, NEW y \in 1 .. 5
  PROVE  Fade(start, m, y) \in Int /\ Fade(start, n, y) \in Int /\ Fade(start, m, y) <= Fade(start, n, y)
<1>1. CASE start = Missing
  BY <1>1 DEF Fade
<1>2. CASE start \in Int /\ start # Missing
  <2>1. Fade(start, m, y) = start + ((m - start) * (y - 1)) \div 4
        /\ Fade(start, n, y) = start + ((n - start) * (y - 1)) \div 4
    BY <1>2 DEF Fade, Years
  <2> DEFINE p == (m - start) * (y - 1)
             q == (n - start) * (y - 1)
             d == 4
  <2>2. p \in Int /\ q \in Int /\ p <= q
    <3>1. n - m \in Nat /\ y - 1 \in Nat /\ m - start \in Int
      BY <1>2
    <3>2. (n - m) * (y - 1) \in Nat
      BY <3>1
    <3>3. (n - start) * (y - 1) = (m - start) * (y - 1) + (n - m) * (y - 1)
      BY <1>2
    <3> QED
      BY <1>2, <3>2, <3>3
  <2>3. d \in Int /\ d > 0
    OBVIOUS
  <2> HIDE DEF p, q, d
  <2>4. p \div d <= q \div d /\ p \div d \in Int /\ q \div d \in Int
    BY <2>2, <2>3, DivisionKeepsOrder
  <2>5. Fade(start, m, y) = start + p \div d /\ Fade(start, n, y) = start + q \div d
    BY <2>1 DEF p, q, d
  <2> DEFINE u == p \div d
             v == q \div d
  <2>6. u \in Int /\ v \in Int /\ u <= v
    BY <2>4
  <2> HIDE DEF u, v
  <2>7. Fade(start, m, y) = start + u /\ Fade(start, n, y) = start + v
    BY <2>5 DEF u, v
  <2> QED
    BY <1>2, <2>6, <2>7
<1> QED
  BY <1>1, <1>2 DEF Amounts

LEMMA GrowthIsBounded ==
  ASSUME NEW a \in Sound, NEW y \in 1 .. 5, Missing \notin Int
  PROVE  GrowthIn(a, y) \in Int /\ 1000 + GrowthIn(a, y) \in Nat
<1> DEFINE g == a.growth
           d == ((20 - g) * (y - 1)) \div 4
<1>1. g \in -100 .. 300 /\ a.fadeTo = 20 /\ g # Missing
  BY DEF Sound, MatureGrowth
<1>2. GrowthIn(a, y) = g + d
  BY <1>1 DEF GrowthIn, Fade, Years
<1> HIDE DEF g
<1>3. d \in Int /\ d >= -300
  <2>1. y = 1 \/ y = 2 \/ y = 3 \/ y = 4 \/ y = 5
    OBVIOUS
  <2>2. CASE y = 1
    BY <1>1, <2>2
  <2>3. CASE y = 2
    BY <1>1, <2>3
  <2>4. CASE y = 3
    BY <1>1, <2>4
  <2>5. CASE y = 4
    BY <1>1, <2>5
  <2>6. CASE y = 5
    BY <1>1, <2>6
  <2> QED
    BY <2>1, <2>2, <2>3, <2>4, <2>5, <2>6
<1> HIDE DEF d
<1> QED
  BY <1>1, <1>2, <1>3

(* Sales, a year after the other.                                          *)
LEMMA SalesAre ==
  ASSUME NEW revenue \in Nat, NEW a \in Sound, Missing \notin Int
  PROVE  LET s == Sales(revenue, a) IN
         /\ s = [y \in 0 .. 5 |-> IF y = 0 THEN revenue ELSE Times(s[y - 1], 1000 + GrowthIn(a, y))]
         /\ \A y \in 0 .. 5 : s[y] \in Nat
<1> DEFINE s == Sales(revenue, a)
           Rate(y) == 1000 + GrowthIn(a, y)
           t1 == Times(revenue, Rate(1))
           t2 == Times(t1, Rate(2))
           t3 == Times(t2, Rate(3))
           t4 == Times(t3, Rate(4))
           t5 == Times(t4, Rate(5))
           t == [y \in 0 .. 5 |-> CASE y = 0 -> revenue [] y = 1 -> t1 [] y = 2 -> t2
                                    [] y = 3 -> t3 [] y = 4 -> t4 [] OTHER -> t5]
<1>1. \A y \in 1 .. 5 : Rate(y) \in Nat
  BY GrowthIsBounded
<1>2. s = CHOOSE f : f = [y \in 0 .. 5 |-> IF y = 0 THEN revenue ELSE Times(f[y - 1], Rate(y))]
  BY Zenon DEF Sales, Years
<1> HIDE DEF s, Rate
<1>0. /\ t1 = Times(revenue, Rate(1)) /\ t2 = Times(t1, Rate(2)) /\ t3 = Times(t2, Rate(3))
      /\ t4 = Times(t3, Rate(4)) /\ t5 = Times(t4, Rate(5))
  BY Zenon
<1> HIDE DEF t1, t2, t3, t4, t5
<1>3. t = [y \in 0 .. 5 |-> IF y = 0 THEN revenue ELSE Times(t[y - 1], Rate(y))]
  <2>1. t[0] = revenue /\ t[1] = t1 /\ t[2] = t2 /\ t[3] = t3 /\ t[4] = t4 /\ t[5] = t5
    OBVIOUS
  <2>2. t = [y \in 0 .. 5 |-> t[y]]
    OBVIOUS
  <2> HIDE DEF t
  <2>3. \A y \in 0 .. 5 : t[y] = IF y = 0 THEN revenue ELSE Times(t[y - 1], Rate(y))
    <3> TAKE y \in 0 .. 5
    <3>1. y = 0 \/ y = 1 \/ y = 2 \/ y = 3 \/ y = 4 \/ y = 5
      OBVIOUS
    <3> QED
      BY <1>0, <2>1, <3>1
  <2> QED
    BY <2>2, <2>3
<1> HIDE DEF t
<1>4. s = [y \in 0 .. 5 |-> IF y = 0 THEN revenue ELSE Times(s[y - 1], Rate(y))]
  BY <1>2, <1>3, Zenon
<1>5. /\ s[0] = revenue /\ s[1] = Times(s[0], Rate(1)) /\ s[2] = Times(s[1], Rate(2))
      /\ s[3] = Times(s[2], Rate(3)) /\ s[4] = Times(s[3], Rate(4)) /\ s[5] = Times(s[4], Rate(5))
  BY <1>4
<1>6. s[0] \in Nat
  BY <1>5
<1>a. /\ Rate(1) \in Nat /\ Rate(2) \in Nat /\ Rate(3) \in Nat
      /\ Rate(4) \in Nat /\ Rate(5) \in Nat
  BY <1>1
<1>7. s[1] \in Nat
  BY <1>a, <1>5, <1>6, TimesIsNat
<1>8. s[2] \in Nat
  BY <1>a, <1>5, <1>7, TimesIsNat
<1>9. s[3] \in Nat
  BY <1>a, <1>5, <1>8, TimesIsNat
<1>10. s[4] \in Nat
  BY <1>a, <1>5, <1>9, TimesIsNat
<1>11. s[5] \in Nat
  BY <1>a, <1>5, <1>10, TimesIsNat
<1>12. \A y \in 0 .. 5 : s[y] \in Nat
  <2> TAKE y \in 0 .. 5
  <2>1. y = 0 \/ y = 1 \/ y = 2 \/ y = 3 \/ y = 4 \/ y = 5
    OBVIOUS
  <2> QED
    BY <2>1, <1>6, <1>7, <1>8, <1>9, <1>10, <1>11
<1> QED
  BY <1>4, <1>12, Zenon DEF s, Rate

(* The same assumptions, but for the margin.                               *)
AlikeBelow(a, b) ==
  /\ a.margin <= b.margin /\ a.growth = b.growth /\ a.fadeTo = b.fadeTo /\ a.start = b.start
  /\ a.rate = b.rate /\ a.terminal = b.terminal /\ a.roic = b.roic
  /\ a.reinvestment = b.reinvestment

LEMMA SalesAreAlike ==
  ASSUME NEW revenue \in Nat, NEW a \in Sound, NEW b \in Sound, AlikeBelow(a, b), Missing \notin Int
  PROVE  Sales(revenue, a) = Sales(revenue, b)
<1> DEFINE s == Sales(revenue, a)
           t == Sales(revenue, b)
<1>1. \A y : GrowthIn(a, y) = GrowthIn(b, y)
  BY DEF GrowthIn, AlikeBelow
<1>2. s = [y \in 0 .. 5 |-> IF y = 0 THEN revenue ELSE Times(s[y - 1], 1000 + GrowthIn(a, y))]
  BY SalesAre
<1>3. t = [y \in 0 .. 5 |-> IF y = 0 THEN revenue ELSE Times(t[y - 1], 1000 + GrowthIn(b, y))]
  BY SalesAre
<1> HIDE DEF s, t
<1> DEFINE Rate(y) == 1000 + GrowthIn(b, y)
<1>4. s[0] = revenue /\ \A y \in 1 .. 5 : s[y] = Times(s[y - 1], Rate(y))
  BY <1>1, <1>2
<1>5. t[0] = revenue /\ \A y \in 1 .. 5 : t[y] = Times(t[y - 1], Rate(y))
  BY <1>3
<1>6. DOMAIN s = 0 .. 5 /\ DOMAIN t = 0 .. 5
  BY <1>2, <1>3
<1>7. s = [y \in DOMAIN s |-> s[y]] /\ t = [y \in DOMAIN t |-> t[y]]
  BY <1>2, <1>3
<1> HIDE DEF Rate
<1>8. s[1] = t[1]
  BY <1>4, <1>5
<1>9. s[2] = t[2]
  BY <1>4, <1>5, <1>8
<1>10. s[3] = t[3]
  BY <1>4, <1>5, <1>9
<1>11. s[4] = t[4]
  BY <1>4, <1>5, <1>10
<1>12. s[5] = t[5]
  BY <1>4, <1>5, <1>11
<1>13. \A y \in 0 .. 5 : s[y] = t[y]
  <2> TAKE y \in 0 .. 5
  <2>1. y = 0 \/ y = 1 \/ y = 2 \/ y = 3 \/ y = 4 \/ y = 5
    OBVIOUS
  <2> QED
    BY <2>1, <1>4, <1>5, <1>8, <1>9, <1>10, <1>11, <1>12
<1> QED
  BY <1>6, <1>7, <1>13 DEF s, t
-----------------------------------------------------------------------------
LEMMA CashFlowKeepsOrder ==
  ASSUME NEW revenue \in Nat, NEW p \in Int, NEW q \in Int, p <= q, NEW growth \in Int,
         NEW a \in Sound, NEW b \in Sound, AlikeBelow(a, b), Missing \notin Int
  PROVE  /\ CashFlow(revenue, p, a, growth) \in Int /\ CashFlow(revenue, q, b, growth) \in Int
         /\ CashFlow(revenue, p, a, growth) <= CashFlow(revenue, q, b, growth)
<1>1. a.roic = b.roic /\ a.reinvestment = b.reinvestment
      /\ a.roic \in {r \in Int : r > 0} \cup {Missing} /\ a.reinvestment \in Int
  BY DEF AlikeBelow, Sound
<1>2. CASE a.roic = Missing
  <2> DEFINE spent == Times(revenue, a.reinvestment)
  <2>1. spent \in Int
    <3> DEFINE rate == a.reinvestment
    <3>1. revenue \in Int /\ rate \in Int
      BY <1>1
    <3> HIDE DEF rate
    <3>2. Times(revenue, rate) \in Int
      BY <3>1, TimesIsInt
    <3> QED
      BY <3>2 DEF rate
  <2>2. CashFlow(revenue, p, a, growth) = p - spent /\ CashFlow(revenue, q, b, growth) = q - spent
    BY <1>1, <1>2 DEF CashFlow
  <2> HIDE DEF spent
  <2> QED
    BY <2>1, <2>2
<1>3. CASE a.roic \in Int /\ a.roic > 0 /\ a.roic # Missing
  <2> DEFINE grown == Max({growth, 0})
             roic == a.roic
             put == Ratio(grown, roic)
             cap == 1000
             least == Min({cap, put})
             rate == 1000 - least
  <2>1. grown \in Int
    <3>1. \A k \in Int : Max({growth, k}) \in Int
      BY MaxOfTwo
    <3>2. 0 \in Int
      OBVIOUS
    <3> QED
      BY <3>1, <3>2, Zenon
  <2>2. CashFlow(revenue, p, a, growth) = Times(p, rate) /\ CashFlow(revenue, q, b, growth) = Times(q, rate)
    <3>1. \A n, c : c.roic # Missing =>
            CashFlow(revenue, n, c, growth) = Times(n, 1000 - Min({1000, Ratio(Max({growth, 0}), c.roic)}))
      BY SMTT(20) DEF CashFlow
    <3>2. a.roic # Missing /\ b.roic = a.roic
      BY <1>1, <1>3
    <3> QED
      BY <3>1, <3>2
  <2>3. roic \in Int /\ roic > 0
    BY <1>3
  <2> HIDE DEF grown, roic
  <2>4. put \in Int
    BY <2>1, <2>3, RatioBounds
  <2> HIDE DEF put
  <2>5. cap \in Int /\ cap <= 1000
    OBVIOUS
  <2> HIDE DEF cap
  <2>6. least = IF cap <= put THEN cap ELSE put
    BY <2>4, <2>5, MinOfTwo
  <2> HIDE DEF least
  <2>7. rate \in Nat
    BY <2>4, <2>5, <2>6
  <2> HIDE DEF rate
  <2>8. Times(p, rate) \in Int /\ Times(q, rate) \in Int /\ Times(p, rate) <= Times(q, rate)
    BY <2>7, TimesKeepsOrder
  <2> QED
    BY <2>2, <2>8
<1> QED
  BY <1>1, <1>2, <1>3

LEMMA AfterTaxKeepsOrder ==
  ASSUME NEW revenue \in Nat, NEW m \in Int, NEW n \in Int, m <= n
  PROVE  /\ AfterTax(revenue, m) \in Int /\ AfterTax(revenue, n) \in Int
         /\ AfterTax(revenue, m) <= AfterTax(revenue, n)
<1> DEFINE p == Times(revenue, m)
           q == Times(revenue, n)
           rate == 1000 - TaxRate
<1>1. p \in Int /\ q \in Int /\ p <= q
  BY RateKeepsOrder
<1>2. rate \in Nat
  BY DEF TaxRate
<1> HIDE DEF p, q, rate
<1>3. Times(p, rate) \in Int /\ Times(q, rate) \in Int /\ Times(p, rate) <= Times(q, rate)
  BY <1>1, <1>2, TimesKeepsOrder
<1> QED
  BY <1>3 DEF p, q, rate, AfterTax

LEMMA FlowKeepsOrder ==
  ASSUME NEW sales, NEW y \in 1 .. 5, sales[y] \in Nat,
         NEW a \in Sound, NEW b \in Sound, AlikeBelow(a, b), Missing \notin Int
  PROVE  /\ Flow(sales, a, y) \in Int /\ Flow(sales, b, y) \in Int
         /\ Flow(sales, a, y) <= Flow(sales, b, y)
<1> DEFINE revenue == sales[y]
           start == a.start
           m == a.margin
           n == b.margin
           v == Fade(start, m, y)
           w == Fade(start, n, y)
           p == AfterTax(revenue, v)
           q == AfterTax(revenue, w)
           g == GrowthIn(a, y)
<1>1. start \in Amounts /\ m \in Int /\ n \in Int /\ m <= n /\ b.start = start
  BY DEF AlikeBelow, Sound
<1>2. GrowthIn(b, y) = g
  BY DEF GrowthIn, AlikeBelow
<1>3. Flow(sales, a, y) = CashFlow(revenue, p, a, g) /\ Flow(sales, b, y) = CashFlow(revenue, q, b, g)
  BY <1>1, <1>2, Zenon DEF Flow
<1>4. g \in Int
  BY GrowthIsBounded
<1>5. revenue \in Nat
  OBVIOUS
<1> HIDE DEF revenue, start, m, n, g
<1>6. v \in Int /\ w \in Int /\ v <= w
  BY <1>1, FadeKeepsOrder
<1> HIDE DEF v, w
<1>7. p \in Int /\ q \in Int /\ p <= q
  BY <1>5, <1>6, AfterTaxKeepsOrder
<1> HIDE DEF p, q
<1>8. /\ CashFlow(revenue, p, a, g) \in Int /\ CashFlow(revenue, q, b, g) \in Int
      /\ CashFlow(revenue, p, a, g) <= CashFlow(revenue, q, b, g)
  BY <1>4, <1>5, <1>7, CashFlowKeepsOrder
<1> QED
  BY <1>3, <1>8

LEMMA AfterKeepsOrder ==
  ASSUME NEW sales, sales[5] \in Nat,
         NEW a \in Sound, NEW b \in Sound, AlikeBelow(a, b), Missing \notin Int
  PROVE  /\ AfterYears(sales, a) \in Int /\ AfterYears(sales, b) \in Int
         /\ AfterYears(sales, a) <= AfterYears(sales, b)
<1> DEFINE sold == sales[5]
           terminal == a.terminal
           rate == 1000 + terminal
           last == Times(sold, rate)
           m == a.margin
           n == b.margin
           p == AfterTax(last, m)
           q == AfterTax(last, n)
           x == CashFlow(last, p, a, terminal)
           z == CashFlow(last, q, b, terminal)
           d == a.rate - terminal
<1>1. /\ terminal \in Int /\ rate \in Nat /\ b.terminal = terminal /\ m \in Int /\ n \in Int
      /\ m <= n /\ d \in Int /\ d > 0 /\ b.rate = a.rate
  BY DEF AlikeBelow, Sound
<1>2. AfterYears(sales, a) = Ratio(x, d) /\ AfterYears(sales, b) = Ratio(z, d)
  <2>1. \A c : AfterYears(sales, c)
               = Ratio(CashFlow(Times(sales[5], 1000 + c.terminal),
                                AfterTax(Times(sales[5], 1000 + c.terminal), c.margin), c, c.terminal),
                       c.rate - c.terminal)
    BY Zenon DEF AfterYears, Years
  <2>2. b.terminal = a.terminal /\ b.rate = a.rate
    BY <1>1
  <2> QED
    BY <2>1, <2>2
<1>3. sold \in Nat
  OBVIOUS
<1> HIDE DEF sold, terminal, rate, m, n, d
<1>4. last \in Nat
  BY <1>1, <1>3, TimesIsNat
<1> HIDE DEF last
<1>5. p \in Int /\ q \in Int /\ p <= q
  BY <1>1, <1>4, AfterTaxKeepsOrder
<1> HIDE DEF p, q
<1>6. x \in Int /\ z \in Int /\ x <= z
  BY <1>1, <1>4, <1>5, CashFlowKeepsOrder
<1> HIDE DEF x, z
<1>7. Ratio(x, d) \in Int /\ Ratio(z, d) \in Int /\ Ratio(x, d) <= Ratio(z, d)
  BY <1>1, <1>6, RatioKeepsOrder
<1> QED
  BY <1>2, <1>7

(* What the years are worth, from the last to the first.                   *)
LEMMA WorthIs ==
  ASSUME NEW sales, NEW a, AfterYears(sales, a) \in Int, \A y \in 1 .. 5 : Flow(sales, a, y) \in Int,
         a.rate \in 100 .. 150
  PROVE  LET w == Worth(sales, a)
             d == 1000 + a.rate
         IN  /\ w[6] = AfterYears(sales, a) /\ w[6] \in Int
             /\ w[5] = Ratio(Flow(sales, a, 5) + w[6], d) /\ w[5] \in Int
             /\ w[4] = Ratio(Flow(sales, a, 4) + w[5], d) /\ w[4] \in Int
             /\ w[3] = Ratio(Flow(sales, a, 3) + w[4], d) /\ w[3] \in Int
             /\ w[2] = Ratio(Flow(sales, a, 2) + w[3], d) /\ w[2] \in Int
             /\ w[1] = Ratio(Flow(sales, a, 1) + w[2], d) /\ w[1] \in Int
<1> DEFINE w == Worth(sales, a)
           d == 1000 + a.rate
           F(y) == Flow(sales, a, y)
           t6 == AfterYears(sales, a)
           t5 == Ratio(F(5) + t6, d)
           t4 == Ratio(F(4) + t5, d)
           t3 == Ratio(F(3) + t4, d)
           t2 == Ratio(F(2) + t3, d)
           t1 == Ratio(F(1) + t2, d)
           t == [y \in 1 .. 6 |-> CASE y = 6 -> t6 [] y = 5 -> t5 [] y = 4 -> t4
                                    [] y = 3 -> t3 [] y = 2 -> t2 [] OTHER -> t1]
<1>1. F(1) \in Int /\ F(2) \in Int /\ F(3) \in Int /\ F(4) \in Int /\ F(5) \in Int
      /\ t6 \in Int /\ d \in Int /\ d > 0
  OBVIOUS
<1>2. w = CHOOSE f : f = [y \in 1 .. 6 |-> IF y > 5 THEN t6 ELSE Ratio(F(y) + f[y + 1], d)]
  <2>1. 5 + 1 = 6
    OBVIOUS
  <2> QED
    BY <2>1, Zenon DEF Worth, Years
<1>3. /\ t5 = Ratio(F(5) + t6, d) /\ t4 = Ratio(F(4) + t5, d) /\ t3 = Ratio(F(3) + t4, d)
      /\ t2 = Ratio(F(2) + t3, d) /\ t1 = Ratio(F(1) + t2, d)
  BY Zenon
<1> HIDE DEF w, d, F, t1, t2, t3, t4, t5, t6
<1>4. t = [y \in 1 .. 6 |-> IF y > 5 THEN t6 ELSE Ratio(F(y) + t[y + 1], d)]
  <2>1. t[1] = t1 /\ t[2] = t2 /\ t[3] = t3 /\ t[4] = t4 /\ t[5] = t5 /\ t[6] = t6
    OBVIOUS
  <2>2. t = [y \in 1 .. 6 |-> t[y]]
    OBVIOUS
  <2> HIDE DEF t
  <2>3. \A y \in 1 .. 6 : t[y] = IF y > 5 THEN t6 ELSE Ratio(F(y) + t[y + 1], d)
    <3> TAKE y \in 1 .. 6
    <3>1. y = 1 \/ y = 2 \/ y = 3 \/ y = 4 \/ y = 5 \/ y = 6
      OBVIOUS
    <3> QED
      BY <1>3, <2>1, <3>1
  <2> QED
    BY <2>2, <2>3
<1> HIDE DEF t
<1>5. w = [y \in 1 .. 6 |-> IF y > 5 THEN t6 ELSE Ratio(F(y) + w[y + 1], d)]
  BY <1>2, <1>4, Zenon
<1>6. /\ w[6] = t6 /\ w[5] = Ratio(F(5) + w[6], d) /\ w[4] = Ratio(F(4) + w[5], d)
      /\ w[3] = Ratio(F(3) + w[4], d) /\ w[2] = Ratio(F(2) + w[3], d) /\ w[1] = Ratio(F(1) + w[2], d)
  BY <1>5
<1>7. \A u, v \in Int : Ratio(u + v, d) \in Int
  <2> TAKE u, v \in Int
  <2> DEFINE x == u + v
  <2>1. x \in Int
    OBVIOUS
  <2> HIDE DEF x
  <2>2. Ratio(x, d) \in Int
    BY <1>1, <2>1, RatioBounds
  <2> QED
    BY <2>2 DEF x
<1>8. w[6] \in Int
  BY <1>1, <1>6
<1>9. w[5] \in Int
  BY <1>1, <1>6, <1>7, <1>8
<1>10. w[4] \in Int
  BY <1>1, <1>6, <1>7, <1>9
<1>11. w[3] \in Int
  BY <1>1, <1>6, <1>7, <1>10
<1>12. w[2] \in Int
  BY <1>1, <1>6, <1>7, <1>11
<1>13. w[1] \in Int
  BY <1>1, <1>6, <1>7, <1>12
<1> QED
  BY <1>6, <1>8, <1>9, <1>10, <1>11, <1>12, <1>13 DEF w, d, F, t6

LEMMA WorthKeepsOrder ==
  ASSUME NEW sales, \A y \in 0 .. 5 : sales[y] \in Nat,
         NEW a \in Sound, NEW b \in Sound, AlikeBelow(a, b), Missing \notin Int
  PROVE  /\ Worth(sales, a)[1] \in Int /\ Worth(sales, b)[1] \in Int
         /\ Worth(sales, a)[1] <= Worth(sales, b)[1]
<1> DEFINE v == Worth(sales, a)
           w == Worth(sales, b)
           F(y) == Flow(sales, a, y)
           G(y) == Flow(sales, b, y)
           d == 1000 + a.rate
<1>1. a.rate \in 100 .. 150 /\ b.rate = a.rate /\ d \in Int /\ d > 0
  BY DEF Sound, AlikeBelow
<1>2. \A y \in 1 .. 5 : F(y) \in Int /\ G(y) \in Int /\ F(y) <= G(y)
  BY FlowKeepsOrder
<1>3. /\ AfterYears(sales, a) \in Int /\ AfterYears(sales, b) \in Int
      /\ AfterYears(sales, a) <= AfterYears(sales, b)
  BY AfterKeepsOrder
<1>4. /\ v[6] = AfterYears(sales, a) /\ v[6] \in Int
      /\ v[5] = Ratio(F(5) + v[6], d) /\ v[5] \in Int
      /\ v[4] = Ratio(F(4) + v[5], d) /\ v[4] \in Int
      /\ v[3] = Ratio(F(3) + v[4], d) /\ v[3] \in Int
      /\ v[2] = Ratio(F(2) + v[3], d) /\ v[2] \in Int
      /\ v[1] = Ratio(F(1) + v[2], d) /\ v[1] \in Int
  BY <1>1, <1>2, <1>3, WorthIs
<1>5. /\ w[6] = AfterYears(sales, b) /\ w[6] \in Int
      /\ w[5] = Ratio(G(5) + w[6], d) /\ w[5] \in Int
      /\ w[4] = Ratio(G(4) + w[5], d) /\ w[4] \in Int
      /\ w[3] = Ratio(G(3) + w[4], d) /\ w[3] \in Int
      /\ w[2] = Ratio(G(2) + w[3], d) /\ w[2] \in Int
      /\ w[1] = Ratio(G(1) + w[2], d) /\ w[1] \in Int
  <2>1. b.rate \in 100 .. 150 /\ 1000 + b.rate = d
    BY <1>1
  <2> QED
    BY <1>2, <1>3, <2>1, WorthIs
<1>6. F(1) \in Int /\ F(2) \in Int /\ F(3) \in Int /\ F(4) \in Int /\ F(5) \in Int
      /\ G(1) \in Int /\ G(2) \in Int /\ G(3) \in Int /\ G(4) \in Int /\ G(5) \in Int
      /\ F(1) <= G(1) /\ F(2) <= G(2) /\ F(3) <= G(3) /\ F(4) <= G(4) /\ F(5) <= G(5)
  BY <1>2
<1> HIDE DEF v, w, F, G, d
<1>7. \A f, g, x, z \in Int : f <= g /\ x <= z => Ratio(f + x, d) <= Ratio(g + z, d)
  <2> SUFFICES ASSUME NEW f \in Int, NEW g \in Int, NEW x \in Int, NEW z \in Int, f <= g, x <= z
               PROVE  Ratio(f + x, d) <= Ratio(g + z, d)
    BY Zenon
  <2> DEFINE p == f + x
             q == g + z
  <2>1. p \in Int /\ q \in Int /\ p <= q
    OBVIOUS
  <2> HIDE DEF p, q
  <2>2. Ratio(p, d) <= Ratio(q, d)
    BY <1>1, <2>1, RatioKeepsOrder
  <2> QED
    BY <2>2 DEF p, q
<1>8. v[6] <= w[6]
  BY <1>3, <1>4, <1>5
<1>9. v[5] <= w[5]
  BY <1>4, <1>5, <1>6, <1>7, <1>8
<1>10. v[4] <= w[4]
  BY <1>4, <1>5, <1>6, <1>7, <1>9
<1>11. v[3] <= w[3]
  BY <1>4, <1>5, <1>6, <1>7, <1>10
<1>12. v[2] <= w[2]
  BY <1>4, <1>5, <1>6, <1>7, <1>11
<1>13. v[1] <= w[1]
  BY <1>4, <1>5, <1>6, <1>7, <1>12
<1> QED
  BY <1>4, <1>5, <1>13 DEF v, w

LEMMA ValueKeepsOrder ==
  ASSUME NEW revenue \in Nat, NEW a \in Sound, NEW b \in Sound, AlikeBelow(a, b), Missing \notin Int
  PROVE  /\ EnterpriseValue(revenue, a) \in Int /\ EnterpriseValue(revenue, b) \in Int
         /\ EnterpriseValue(revenue, a) <= EnterpriseValue(revenue, b)
<1> DEFINE sales == Sales(revenue, a)
<1>1. Sales(revenue, b) = sales
  BY SalesAreAlike
<1>2. \A y \in 0 .. 5 : sales[y] \in Nat
  BY SalesAre
<1>3. EnterpriseValue(revenue, a) = Worth(sales, a)[1] /\ EnterpriseValue(revenue, b) = Worth(sales, b)[1]
  BY <1>1 DEF EnterpriseValue
<1> HIDE DEF sales
<1> QED
  BY <1>2, <1>3, WorthKeepsOrder
-----------------------------------------------------------------------------
LEMMA BoundsAre ==
  ASSUME NEW name \in DOMAIN SolveBounds
  PROVE  LET lo == SolveBounds[name][1]
             hi == SolveBounds[name][2]
         IN  lo \in Int /\ hi \in Int /\ lo < hi /\ hi - lo <= 512
             /\ \A a \in Sound, v \in lo .. hi : [a EXCEPT ![name] = v] \in Sound
<1>1. name = "growth" \/ name = "margin" \/ name = "terminal"
  BY DEF SolveBounds
<1>2. CASE name = "growth"
  BY <1>2 DEF SolveBounds, Sound
<1>3. CASE name = "margin"
  BY <1>3 DEF SolveBounds, Sound
<1>4. CASE name = "terminal"
  BY <1>4 DEF SolveBounds, Sound
<1> QED
  BY <1>1, <1>2, <1>3, <1>4

LEMMA ExcessIsInt ==
  ASSUME NEW e, IsDossier(e), Complete(e), Missing \notin Int, NEW a \in Sound,
         NEW name \in DOMAIN SolveBounds, NEW v \in SolveBounds[name][1] .. SolveBounds[name][2]
  PROVE  Excess(e, a, name, v) \in Int
<1> DEFINE revenue == 1000 * e.current.revenue
           b == [a EXCEPT ![name] = v]
           cap == 1000 * (e.current.debt + MarketCap(e))
           value == EnterpriseValue(revenue, b)
<1>1. revenue \in Nat /\ cap \in Int
  BY CompleteHolds
<1>2. b \in Sound
  BY BoundsAre
<1>3. Excess(e, a, name, v) = value - cap
  BY DEF Excess
<1> HIDE DEF revenue, b, cap
<1>4. AlikeBelow(b, b)
  BY <1>2 DEF AlikeBelow, Sound
<1>5. value \in Int
  BY <1>1, <1>2, <1>4, ValueKeepsOrder
<1> HIDE DEF value
<1> QED
  BY <1>1, <1>3, <1>5

LEMMA ExcessKeepsOrder ==
  ASSUME NEW e, IsDossier(e), Complete(e), Missing \notin Int, NEW a \in Sound,
         NEW u \in 0 .. 500, NEW v \in 0 .. 500, u <= v
  PROVE  Excess(e, a, "margin", u) <= Excess(e, a, "margin", v)
<1> DEFINE revenue == 1000 * e.current.revenue
           b == [a EXCEPT !["margin"] = u]
           c == [a EXCEPT !["margin"] = v]
           cap == 1000 * (e.current.debt + MarketCap(e))
           x == EnterpriseValue(revenue, b)
           y == EnterpriseValue(revenue, c)
<1>1. revenue \in Nat /\ cap \in Int
  BY CompleteHolds
<1>2. b \in Sound /\ c \in Sound /\ AlikeBelow(b, c)
  BY DEF Sound, AlikeBelow
<1>3. Excess(e, a, "margin", u) = x - cap /\ Excess(e, a, "margin", v) = y - cap
  BY DEF Excess
<1> HIDE DEF revenue, b, c, cap
<1>4. x \in Int /\ y \in Int /\ x <= y
  BY <1>1, <1>2, ValueKeepsOrder
<1> HIDE DEF x, y
<1> QED
  BY <1>1, <1>3, <1>4

(* The bisection.  Until it has an answer, the price is between the values *)
(* of its two ends, and the ends are close.                                *)
Bracket(name) ==
  LET range == SolveBounds[name][1] .. SolveBounds[name][2] IN
  [low : range, high : range, excess : Int, implied : range \cup {Missing}]
Answers(e, a, name, v) ==
  \/ Excess(e, a, name, v) = 0
  \/ v < SolveBounds[name][2] /\ ~SameSide(Excess(e, a, name, v), Excess(e, a, name, v + 1))
Narrows(e, a, name, b, width) ==
  /\ b \in Bracket(name)
  /\ b.implied = Missing =>
       /\ b.low < b.high /\ b.high - b.low <= width
       /\ b.excess = Excess(e, a, name, b.low) /\ b.excess # 0
       /\ ~SameSide(b.excess, Excess(e, a, name, b.high))
  /\ b.implied # Missing => Answers(e, a, name, b.implied)
HalveOnce(e, a, name, b) == IF b.implied # Missing THEN b ELSE Halve(e, a, name, b)

LEMMA HalfIsBetween ==
  ASSUME NEW l \in Int, NEW h \in Int
  PROVE  LET m == (l + h) \div 2 IN
         /\ m \in Int
         /\ l <= h => l <= m /\ m <= h
         /\ h <= l => h <= m /\ m <= l
         /\ h - l > 1 => l < m /\ m < h
         /\ h = l + 1 => m = l
         /\ \A v \in Int : h - l > 1 /\ h - l <= 2 * v => m - l <= v /\ h - m <= v
OBVIOUS

LEMMA HalvingNarrows ==
  ASSUME NEW e, IsDossier(e), Complete(e), Missing \notin Int, NEW a \in Sound,
         NEW name \in DOMAIN SolveBounds, NEW b \in Bracket(name)
  PROVE  /\ HalveOnce(e, a, name, b) \in Bracket(name)
         /\ \A w, v \in Nat :
              Narrows(e, a, name, b, w) /\ (w = 2 * v \/ (w <= 1 /\ v = 0))
                => Narrows(e, a, name, HalveOnce(e, a, name, b), v)
<1> DEFINE lo == SolveBounds[name][1]
           hi == SolveBounds[name][2]
           Ex(v) == Excess(e, a, name, v)
           l == b.low
           h == b.high
           m == (l + h) \div 2
           c == HalveOnce(e, a, name, b)
<1>1. lo \in Int /\ hi \in Int /\ lo < hi
  BY BoundsAre
<1>2. \A v \in lo .. hi : Ex(v) \in Int
  BY ExcessIsInt
<1>3. \A x : x \in Bracket(name) <=>
        x \in [low : lo .. hi, high : lo .. hi, excess : Int, implied : (lo .. hi) \cup {Missing}]
  BY DEF Bracket
<1>4. HalveOnce(e, a, name, b) =
        IF b.implied # Missing THEN b
        ELSE CASE Ex(m) = 0 \/ h - l <= 1 -> [b EXCEPT !.implied = m]
               [] Ex(m) # 0 /\ h - l > 1 /\ ~SameSide(b.excess, Ex(m)) -> [b EXCEPT !.high = m]
               [] OTHER -> [b EXCEPT !.low = m, !.excess = Ex(m)]
  BY Zenon DEF HalveOnce, Halve
<1>5. \A w : Narrows(e, a, name, b, w) <=>
        /\ b.implied = Missing => /\ l < h /\ h - l <= w
                                  /\ b.excess = Ex(l) /\ b.excess # 0 /\ ~SameSide(b.excess, Ex(h))
        /\ b.implied # Missing => Answers(e, a, name, b.implied)
  BY Zenon DEF Narrows
<1>6. \A v : Narrows(e, a, name, c, v) <=>
        /\ c \in Bracket(name)
        /\ c.implied = Missing => /\ c.low < c.high /\ c.high - c.low <= v
                                  /\ c.excess = Ex(c.low) /\ c.excess # 0 /\ ~SameSide(c.excess, Ex(c.high))
        /\ c.implied # Missing => Answers(e, a, name, c.implied)
  BY Zenon DEF Narrows
<1>7. \A v : Answers(e, a, name, v) <=> Ex(v) = 0 \/ (v < hi /\ ~SameSide(Ex(v), Ex(v + 1)))
  BY Zenon DEF Answers
<1>8. l \in lo .. hi /\ h \in lo .. hi /\ b.excess \in Int /\ b.implied \in (lo .. hi) \cup {Missing}
      /\ b \in [low : lo .. hi, high : lo .. hi, excess : Int, implied : (lo .. hi) \cup {Missing}]
  BY <1>3
<1>9. /\ m \in Int
      /\ l <= h => l <= m /\ m <= h
      /\ h <= l => h <= m /\ m <= l
      /\ h - l > 1 => l < m /\ m < h
      /\ h = l + 1 => m = l
      /\ \A v \in Int : h - l > 1 /\ h - l <= 2 * v => m - l <= v /\ h - m <= v
  <2>1. l \in Int /\ h \in Int
    BY <1>1, <1>8
  <2> HIDE DEF l, h
  <2> QED
    BY <2>1, HalfIsBetween
<1> HIDE DEF lo, hi, Ex, m, c
<1>10. m \in lo .. hi /\ Ex(m) \in Int
  <2>1. m \in lo .. hi
    BY <1>1, <1>8, <1>9
  <2> QED
    BY <1>2, <2>1
<1>11. CASE b.implied # Missing
  <2>1. c = b
    BY <1>4, <1>11 DEF c
  <2>2. \A w, v \in Nat : Narrows(e, a, name, b, w) => Narrows(e, a, name, b, v)
    BY <1>5, <1>11
  <2> QED
    BY <2>1, <2>2 DEF c
<1>12. CASE b.implied = Missing
  <2>1. m # Missing
    BY <1>9
  <2>2. CASE Ex(m) = 0 \/ h - l <= 1
    <3>1. c = [b EXCEPT !.implied = m]
      BY <1>1, <1>4, <1>8, <1>12, <2>2 DEF c
    <3>2. c \in Bracket(name) /\ c.implied = m
      BY <1>3, <1>8, <1>10, <3>1
    <3>3. ASSUME NEW w \in Nat, Narrows(e, a, name, b, w) PROVE Answers(e, a, name, m)
      <4>1. l < h /\ b.excess = Ex(l) /\ ~SameSide(b.excess, Ex(h))
        BY <1>5, <1>12, <3>3
      <4>2. CASE Ex(m) = 0
        BY <1>7, <4>2
      <4>3. CASE h - l <= 1
        <5>1. h = l + 1 /\ m = l /\ m < hi
          BY <1>1, <1>8, <1>9, <4>1, <4>3
        <5> QED
          BY <1>7, <4>1, <5>1
      <4> QED
        BY <2>2, <4>2, <4>3
    <3>4. \A w, v \in Nat : Narrows(e, a, name, b, w) => Narrows(e, a, name, c, v)
      BY <1>6, <2>1, <3>2, <3>3
    <3> QED
      BY <3>2, <3>4 DEF c
  <2>3. CASE Ex(m) # 0 /\ h - l > 1 /\ ~SameSide(b.excess, Ex(m))
    <3>1. c = [b EXCEPT !.high = m]
      BY <1>4, <1>12, <2>3 DEF c
    <3>2. c \in Bracket(name) /\ c.implied = Missing /\ c.high = m /\ c.low = l /\ c.excess = b.excess
      BY <1>3, <1>8, <1>10, <1>12, <3>1
    <3>3. ASSUME NEW w \in Nat, NEW v \in Nat, Narrows(e, a, name, b, w), w = 2 * v \/ (w <= 1 /\ v = 0)
          PROVE  Narrows(e, a, name, c, v)
      <4>1. h - l <= w /\ b.excess = Ex(l) /\ b.excess # 0
        BY <1>5, <1>12, <3>3
      <4>2. h - l <= 2 * v
        BY <1>8, <1>1, <2>3, <3>3, <4>1
      <4>3. l < m /\ m - l <= v
        BY <1>9, <2>3, <4>2
      <4> QED
        BY <1>6, <2>3, <3>2, <4>1, <4>3
    <3> QED
      BY <3>2, <3>3 DEF c
  <2>4. CASE Ex(m) # 0 /\ h - l > 1 /\ SameSide(b.excess, Ex(m))
    <3>1. c = [b EXCEPT !.low = m, !.excess = Ex(m)]
      BY <1>1, <1>4, <1>8, <1>12, <2>4 DEF c
    <3>2. c \in Bracket(name) /\ c.implied = Missing /\ c.high = h /\ c.low = m /\ c.excess = Ex(m)
      BY <1>3, <1>8, <1>10, <1>12, <3>1
    <3>3. ASSUME NEW w \in Nat, NEW v \in Nat, Narrows(e, a, name, b, w), w = 2 * v \/ (w <= 1 /\ v = 0)
          PROVE  Narrows(e, a, name, c, v)
      <4>1. h - l <= w /\ ~SameSide(b.excess, Ex(h)) /\ b.excess # 0
        BY <1>5, <1>12, <3>3
      <4>2. h - l <= 2 * v
        BY <1>8, <1>1, <2>4, <3>3, <4>1
      <4>3. m < h /\ h - m <= v
        BY <1>9, <2>4, <4>2
      <4>4. Ex(h) \in Int
        BY <1>2, <1>8
      <4>5. ~SameSide(Ex(m), Ex(h))
        BY <1>8, <1>10, <2>4, <4>1, <4>4 DEF SameSide
      <4> QED
        BY <1>6, <2>4, <3>2, <4>3, <4>5
    <3> QED
      BY <3>2, <3>3 DEF c
  <2>5. h - l <= 1 \/ h - l > 1
    BY <1>1, <1>8
  <2> QED
    BY <2>2, <2>3, <2>4, <2>5
<1> QED
  BY <1>11, <1>12
-----------------------------------------------------------------------------
LEMMA BisectionAnswers ==
  ASSUME NEW e, IsDossier(e), Complete(e), Missing \notin Int, NEW a \in Sound,
         NEW name \in DOMAIN SolveBounds, NEW b, Narrows(e, a, name, b, 512)
  PROVE  /\ Bisected(e, a, name, b) \in SolveBounds[name][1] .. SolveBounds[name][2]
         /\ Answers(e, a, name, Bisected(e, a, name, b))
<1> DEFINE X == Bracket(name)
           Step(s) == HalveOnce(e, a, name, s)
           F == [s \in X |-> Step(s)]
           Good(s, w) == Narrows(e, a, name, s, w)
           n == 12
<1>1. \A s \in X : Step(s) \in X
  BY HalvingNarrows
<1>2. \A s \in X : \A w, v \in Nat :
        Good(s, w) /\ (w = 2 * v \/ (w <= 1 /\ v = 0)) => Good(Step(s), v)
  BY HalvingNarrows
<1>3. b \in X
  BY DEF Narrows
<1>4. Bisected(e, a, name, b)
        = (CHOOSE f : f = [i \in 0 .. n |-> IF i = 0 THEN b ELSE Step(f[i - 1])])[n].implied
  BY Zenon DEF Bisected, HalveOnce, Halvings
<1>5. n \in Nat
  OBVIOUS
<1> HIDE DEF X, Step, n
<1>6. F \in [X -> X]
  BY <1>1
<1> HIDE DEF F
<1>7. PICK f \in [0 .. n -> X] : f[0] = b /\ \A i \in 1 .. n : f[i] = F[f[i - 1]]
  <2>1. Walks(X, F, b, n) # {}
    BY <1>3, <1>5, <1>6, StepsAreTaken, Zenon
  <2> QED
    BY <2>1 DEF Walks
<1>8. f = [i \in 0 .. n |-> IF i = 0 THEN b ELSE Step(f[i - 1])]
  <2>1. \A i \in 1 .. n : f[i - 1] \in X /\ f[i] = F[f[i - 1]]
    BY <1>5, <1>7
  <2>2. \A i \in 1 .. n : f[i] = Step(f[i - 1])
    BY <2>1 DEF F
  <2>3. \A i \in 0 .. n : i = 0 \/ i \in 1 .. n
    BY <1>5
  <2> QED
    BY <1>7, <2>2, <2>3
<1> DEFINE at == CHOOSE g : g = [i \in 0 .. n |-> IF i = 0 THEN b ELSE Step(g[i - 1])]
<1>9. at = [i \in 0 .. n |-> IF i = 0 THEN b ELSE Step(at[i - 1])]
  BY <1>8, Zenon
<1>10. Bisected(e, a, name, b) = at[n].implied
  BY <1>4, Zenon
<1> HIDE DEF at
<1>11. at[0] = b /\ \A i \in 1 .. 12 : at[i] = Step(at[i - 1])
  BY <1>9 DEF n
<1>12. /\ at[1] = Step(at[0]) /\ at[2] = Step(at[1]) /\ at[3] = Step(at[2]) /\ at[4] = Step(at[3])
       /\ at[5] = Step(at[4]) /\ at[6] = Step(at[5]) /\ at[7] = Step(at[6]) /\ at[8] = Step(at[7])
       /\ at[9] = Step(at[8]) /\ at[10] = Step(at[9]) /\ at[11] = Step(at[10]) /\ at[12] = Step(at[11])
  BY <1>11
<1>13. \A s : \A v \in Nat : Good(s, 2 * v) => Good(Step(s), v)
  <2>1. \A v \in Nat : 2 * v \in Nat
    OBVIOUS
  <2>2. \A s, w : Good(s, w) => s \in X
    BY DEF Narrows, X
  <2> HIDE DEF Good
  <2> QED
    BY <1>2, <2>1, <2>2
<1>14. \A s : \A w \in {0, 1} : Good(s, w) => Good(Step(s), 0)
  <2>1. \A w \in {0, 1} : w \in Nat /\ w <= 1 /\ 0 \in Nat
    OBVIOUS
  <2>2. \A s, w : Good(s, w) => s \in X
    BY DEF Narrows, X
  <2> HIDE DEF Good
  <2> QED
    BY <1>2, <2>1, <2>2
<1> HIDE DEF Good
<1>15. Good(at[0], 512)
  BY <1>11 DEF Good
<1>16. Good(at[1], 256)
  <2>1. 256 \in Nat /\ 512 = 2 * 256
    OBVIOUS
  <2> QED
    BY <1>12, <1>13, <1>15, <2>1
<1>17. Good(at[2], 128)
  <2>1. 128 \in Nat /\ 256 = 2 * 128
    OBVIOUS
  <2> QED
    BY <1>12, <1>13, <1>16, <2>1
<1>18. Good(at[3], 64)
  <2>1. 64 \in Nat /\ 128 = 2 * 64
    OBVIOUS
  <2> QED
    BY <1>12, <1>13, <1>17, <2>1
<1>19. Good(at[4], 32)
  <2>1. 32 \in Nat /\ 64 = 2 * 32
    OBVIOUS
  <2> QED
    BY <1>12, <1>13, <1>18, <2>1
<1>20. Good(at[5], 16)
  <2>1. 16 \in Nat /\ 32 = 2 * 16
    OBVIOUS
  <2> QED
    BY <1>12, <1>13, <1>19, <2>1
<1>21. Good(at[6], 8)
  <2>1. 8 \in Nat /\ 16 = 2 * 8
    OBVIOUS
  <2> QED
    BY <1>12, <1>13, <1>20, <2>1
<1>22. Good(at[7], 4)
  <2>1. 4 \in Nat /\ 8 = 2 * 4
    OBVIOUS
  <2> QED
    BY <1>12, <1>13, <1>21, <2>1
<1>23. Good(at[8], 2)
  <2>1. 2 \in Nat /\ 4 = 2 * 2
    OBVIOUS
  <2> QED
    BY <1>12, <1>13, <1>22, <2>1
<1>24. Good(at[9], 1)
  <2>1. 1 \in Nat /\ 2 = 2 * 1
    OBVIOUS
  <2> QED
    BY <1>12, <1>13, <1>23, <2>1
<1>25. Good(at[10], 0)
  BY <1>12, <1>14, <1>24
<1>26. Good(at[11], 0)
  BY <1>12, <1>14, <1>25
<1>27. Good(at[12], 0)
  BY <1>12, <1>14, <1>26
<1> DEFINE last == at[12]
           lo == SolveBounds[name][1]
           hi == SolveBounds[name][2]
<1>28. lo \in Int /\ hi \in Int
  BY BoundsAre
<1>29. /\ last \in [low : lo .. hi, high : lo .. hi, excess : Int, implied : (lo .. hi) \cup {Missing}]
       /\ last.implied = Missing => last.low < last.high /\ last.high - last.low <= 0
       /\ last.implied # Missing => Answers(e, a, name, last.implied)
  BY <1>27 DEF Good, Narrows, Bracket
<1>30. Bisected(e, a, name, b) = last.implied
  BY <1>10 DEF n
<1> HIDE DEF last, lo, hi
<1>31. last.low \in Int /\ last.high \in Int /\ last.implied \in (lo .. hi) \cup {Missing}
  BY <1>28, <1>29
<1>32. last.implied # Missing
  BY <1>29, <1>31
<1> QED
  BY <1>29, <1>30, <1>31, <1>32 DEF lo, hi

(* An answer is one the price allows, for every assumption and every       *)
(* direction in which the price moves with it.                             *)
LEMMA SolveAnswers ==
  ASSUME NEW e, IsDossier(e), Complete(e), Missing \notin Int, NEW a \in Sound,
         NEW name \in DOMAIN SolveBounds, Solve(e, a, name).status = "solved"
  PROVE  /\ Solve(e, a, name).implied \in SolveBounds[name][1] .. SolveBounds[name][2]
         /\ Answers(e, a, name, Solve(e, a, name).implied)
<1> DEFINE lo == SolveBounds[name][1]
           hi == SolveBounds[name][2]
           low == Excess(e, a, name, lo)
           high == Excess(e, a, name, hi)
           b == [low |-> lo, high |-> hi, excess |-> low, implied |-> Missing]
           Solved(v) == [status |-> "solved", implied |-> v]
<1>1. lo \in Int /\ hi \in Int /\ lo < hi /\ hi - lo <= 512
  BY BoundsAre
<1>2. low \in Int /\ high \in Int
  <2>1. lo \in lo .. hi /\ hi \in lo .. hi
    BY <1>1
  <2> QED
    BY <2>1, ExcessIsInt
<1>3. Solve(e, a, name) =
        CASE low = 0 -> Solved(lo)
          [] low # 0 /\ high = 0 -> Solved(hi)
          [] SameSide(low, high) -> [status |-> "outside_bounds", direction |-> Direction(low, high)]
          [] OTHER -> Solved(Bisected(e, a, name, b))
  BY Zenon DEF Solve
<1>4. SUFFICES ASSUME NEW v, Solve(e, a, name) = Solved(v)
               PROVE  v \in lo .. hi /\ Answers(e, a, name, v)
  <2>1. \E v : Solve(e, a, name) = Solved(v)
    <3> DEFINE w == Bisected(e, a, name, b)
               out == [status |-> "outside_bounds", direction |-> Direction(low, high)]
    <3>1. out.status # "solved"
      OBVIOUS
    <3> HIDE DEF out, w, low, high, lo, hi, Solved
    <3>2. CASE low = 0
      BY <1>3, <3>2 DEF w, out
    <3>3. CASE low # 0 /\ high = 0
      BY <1>3, <3>3 DEF w, out
    <3>4. CASE low # 0 /\ high # 0 /\ SameSide(low, high)
      <4>1. Solve(e, a, name) = out
        BY <1>3, <3>4 DEF out
      <4> QED
        BY <3>1, <4>1
    <3>5. CASE low # 0 /\ high # 0 /\ ~SameSide(low, high)
      BY <1>3, <3>5
    <3> QED
      BY <3>2, <3>3, <3>4, <3>5
  <2>2. \A v : Solved(v).implied = v
    OBVIOUS
  <2> HIDE DEF Solved
  <2> QED
    BY <2>1, <2>2
<1>5. CASE low = 0
  <2>1. v = lo
    BY <1>3, <1>4, <1>5
  <2> QED
    BY <1>1, <1>5, <2>1 DEF Answers
<1>6. CASE low # 0 /\ high = 0
  <2>1. v = hi
    BY <1>3, <1>4, <1>6
  <2> QED
    BY <1>1, <1>6, <2>1 DEF Answers
<1>7. CASE low # 0 /\ high # 0 /\ SameSide(low, high)
  <2>1. Solve(e, a, name).status = "outside_bounds"
    BY <1>2, <1>3, <1>7 DEF SameSide
  <2> QED
    BY <2>1
<1>8. CASE low # 0 /\ high # 0 /\ ~SameSide(low, high)
  <2>1. v = Bisected(e, a, name, b)
    BY <1>3, <1>4, <1>8
  <2>2. Narrows(e, a, name, b, 512)
    <3>1. b \in Bracket(name)
      <4>1. b \in [low : lo .. hi, high : lo .. hi, excess : Int, implied : (lo .. hi) \cup {Missing}]
        <5>1. lo \in lo .. hi /\ hi \in lo .. hi
          BY <1>1
        <5> HIDE DEF lo, hi, low
        <5> QED
          BY <1>2, <5>1
      <4> QED
        BY <4>1 DEF Bracket
    <3>2. b.implied = Missing /\ b.low = lo /\ b.high = hi /\ b.excess = low
      OBVIOUS
    <3> HIDE DEF b
    <3> QED
      BY <1>1, <1>8, <3>1, <3>2 DEF Narrows
  <2>3. b = b
    OBVIOUS
  <2> HIDE DEF b
  <2> QED
    BY <2>1, <2>2, BisectionAnswers
<1> QED
  BY <1>5, <1>6, <1>7, <1>8

(* A margin outside the bounds is one that no margin within them reaches,  *)
(* for the price rises with the margin.                                    *)
LEMMA OutsideIsBeyond ==
  ASSUME NEW e, IsDossier(e), Complete(e), Missing \notin Int, NEW a \in Sound,
         Solve(e, a, "margin").status = "outside_bounds"
  PROVE  /\ \A v \in 0 .. 499 : SameSide(Excess(e, a, "margin", v), Excess(e, a, "margin", v + 1))
         /\ Solve(e, a, "margin").direction = "above_upper_bound" => Excess(e, a, "margin", 500) < 0
         /\ Solve(e, a, "margin").direction = "below_lower_bound" => Excess(e, a, "margin", 0) > 0
<1> DEFINE Ex(v) == Excess(e, a, "margin", v)
           low == Ex(0)
           high == Ex(500)
<1>1. \A v \in 0 .. 500 : Ex(v) \in Int
  <2>1. "margin" \in DOMAIN SolveBounds /\ SolveBounds["margin"][1] = 0 /\ SolveBounds["margin"][2] = 500
    BY DEF SolveBounds
  <2> QED
    BY <2>1, ExcessIsInt
<1>2. \A u, v \in 0 .. 500 : u <= v => Ex(u) <= Ex(v)
  BY ExcessKeepsOrder
<1>3. \E v : Solve(e, a, "margin") =
        CASE low = 0 -> [status |-> "solved", implied |-> 0]
          [] low # 0 /\ high = 0 -> [status |-> "solved", implied |-> 500]
          [] SameSide(low, high) -> [status |-> "outside_bounds", direction |-> Direction(low, high)]
          [] OTHER -> [status |-> "solved", implied |-> v]
  <2>1. SolveBounds["margin"][1] = 0 /\ SolveBounds["margin"][2] = 500
    BY DEF SolveBounds
  <2> DEFINE name == "margin"
             b == [low |-> SolveBounds[name][1], high |-> SolveBounds[name][2],
                   excess |-> Excess(e, a, name, SolveBounds[name][1]), implied |-> Missing]
             v == Bisected(e, a, name, b)
  <2>2. Solve(e, a, name) =
          LET bounds == SolveBounds[name]
              lo == Excess(e, a, name, bounds[1])
              hi == Excess(e, a, name, bounds[2])
          IN CASE lo = 0 -> [status |-> "solved", implied |-> bounds[1]]
               [] lo # 0 /\ hi = 0 -> [status |-> "solved", implied |-> bounds[2]]
               [] SameSide(lo, hi) -> [status |-> "outside_bounds", direction |-> Direction(lo, hi)]
               [] OTHER -> [status |-> "solved", implied |-> v]
    BY Zenon DEF Solve
  <2> HIDE DEF v
  <2> QED
    BY <2>1, <2>2
<1>4. low \in Int /\ high \in Int /\ low <= high
  <2>1. 0 \in 0 .. 500 /\ 500 \in 0 .. 500 /\ 0 <= 500
    OBVIOUS
  <2>2. Ex(0) \in Int /\ Ex(500) \in Int /\ Ex(0) <= Ex(500)
    <3> HIDE DEF Ex
    <3> QED
      BY <1>1, <1>2, <2>1, ZenonT(40)
  <2> QED
    BY <2>2
<1> HIDE DEF Ex
<1>5. SameSide(low, high) /\ Solve(e, a, "margin").direction = Direction(low, high)
  <2>1. low # 0 /\ high # 0 /\ SameSide(low, high)
    BY <1>3, <1>4 DEF SameSide
  <2> QED
    BY <1>3, <2>1
<1>6. \A v \in 0 .. 500 : low <= Ex(v) /\ Ex(v) <= high
  <2> TAKE v \in 0 .. 500
  <2>1. 0 \in 0 .. 500 /\ 500 \in 0 .. 500 /\ 0 <= v /\ v <= 500
    OBVIOUS
  <2> QED
    BY <1>2, <2>1, ZenonT(40)
<1>7. \A v \in 0 .. 499 : SameSide(Ex(v), Ex(v + 1))
  <2> TAKE v \in 0 .. 499
  <2>1. v \in 0 .. 500 /\ v + 1 \in 0 .. 500
    OBVIOUS
  <2>2. /\ Ex(v) \in Int /\ low <= Ex(v) /\ Ex(v) <= high
        /\ Ex(v + 1) \in Int /\ low <= Ex(v + 1) /\ Ex(v + 1) <= high
    BY <1>1, <1>6, <2>1
  <2> QED
    BY <1>4, <1>5, <2>2 DEF SameSide
<1>8. Direction(low, high) = "above_upper_bound" => high < 0
  BY <1>4, <1>5 DEF SameSide, Direction
<1>9. Direction(low, high) = "below_lower_bound" => low > 0
  BY <1>4, <1>5 DEF SameSide, Direction
<1> QED
  BY <1>5, <1>7, <1>8, <1>9 DEF Ex

(* An implied assumption explains the price, and a margin is reported as   *)
(* outside its bounds only if none within them would, on the side it names *)
(* (ReverseDcfEngine.solve, ReverseDcfSkill._solve).                       *)
THEOREM PriceIsExplained == DcfSpec => []ExpectationsExplainPrice
<1>1. DossierAnalyzed => ExpectationsExplainPrice
  <2> SUFFICES ASSUME DossierAnalyzed, Available PROVE ExpectationsExplainPrice
    BY DEF ExpectationsExplainPrice
  <2> DEFINE e == dossier
             base == Assumptions(e)
             With(g) == [base EXCEPT !.growth = g]
  <2>1. IsDossier(e) /\ Missing \notin Int /\ Complete(e)
    BY DossiersAreTyped DEF DossierAnalyzed
  <2>2. /\ analysis.assumptions = base
        /\ \A name \in DOMAIN SolveBounds : analysis.expectations[name] = Solve(e, base, name)
        /\ \A g \in CurveGrowth : analysis.curve[g] = Solve(e, With(g), "margin")
    BY DEF DossierAnalyzed
  <2>3. base \in Sound
    BY <2>1, AssumptionsAreSound
  <2>4. \A g \in CurveGrowth : With(g) \in Sound
    <3> HIDE DEF base
    <3> QED
      BY <2>3 DEF Sound, CurveGrowth
  <2>5. "margin" \in DOMAIN SolveBounds /\ SolveBounds["margin"][1] = 0 /\ SolveBounds["margin"][2] = 500
    BY DEF SolveBounds
  <2>6. \A a \in Sound : \A name \in DOMAIN SolveBounds : SolutionHolds(a, name, Solve(e, a, name))
    <3> SUFFICES ASSUME NEW a \in Sound, NEW name \in DOMAIN SolveBounds,
                        Solve(e, a, name).status = "solved"
                 PROVE  /\ Solve(e, a, name).implied \in SolveBounds[name][1] .. SolveBounds[name][2]
                        /\ \/ Reaches(a, name, Solve(e, a, name).implied)
                           \/ Excess(dossier, a, name, Solve(e, a, name).implied) = 0
      BY Zenon DEF SolutionHolds
    <3>1. /\ Solve(e, a, name).implied \in SolveBounds[name][1] .. SolveBounds[name][2]
          /\ Answers(e, a, name, Solve(e, a, name).implied)
      BY <2>1, SolveAnswers
    <3> QED
      BY <3>1, Zenon DEF Answers, Reaches
  <2>7. \A g \in CurveGrowth :
          analysis.curve[g].status = "outside_bounds" =>
            /\ ~Attainable(With(g), "margin")
            /\ analysis.curve[g].direction = "above_upper_bound" => Excess(dossier, With(g), "margin", 500) < 0
            /\ analysis.curve[g].direction = "below_lower_bound" => Excess(dossier, With(g), "margin", 0) > 0
    <3> SUFFICES ASSUME NEW g \in CurveGrowth, Solve(e, With(g), "margin").status = "outside_bounds"
                 PROVE  /\ ~Attainable(With(g), "margin")
                        /\ Solve(e, With(g), "margin").direction = "above_upper_bound"
                             => Excess(dossier, With(g), "margin", 500) < 0
                        /\ Solve(e, With(g), "margin").direction = "below_lower_bound"
                             => Excess(dossier, With(g), "margin", 0) > 0
      <4> HIDE DEF With
      <4> QED
        BY <2>2
    <3> DEFINE a == With(g)
    <3>1. a \in Sound
      BY <2>4
    <3> HIDE DEF a
    <3>2. Solve(e, a, "margin").status = "outside_bounds"
      BY DEF a
    <3>3. /\ \A v \in 0 .. 499 : SameSide(Excess(e, a, "margin", v), Excess(e, a, "margin", v + 1))
          /\ Solve(e, a, "margin").direction = "above_upper_bound" => Excess(e, a, "margin", 500) < 0
          /\ Solve(e, a, "margin").direction = "below_lower_bound" => Excess(e, a, "margin", 0) > 0
      BY <2>1, <3>1, <3>2, OutsideIsBeyond
    <3>4. ~Attainable(a, "margin")
      <4>1. SolveBounds["margin"][1] .. SolveBounds["margin"][2] - 1 = 0 .. 499
        BY <2>5
      <4> QED
        BY <3>3, <4>1, Zenon DEF Attainable, Reaches
    <3> QED
      BY <3>3, <3>4, Zenon DEF a
  <2>8. \A name \in DOMAIN SolveBounds : SolutionHolds(analysis.assumptions, name, analysis.expectations[name])
    BY <2>2, <2>3, <2>6
  <2>9. \A g \in CurveGrowth : SolutionHolds(With(g), "margin", analysis.curve[g])
    <3> HIDE DEF With, base, e
    <3> QED
      BY <2>2, <2>4, <2>5, <2>6
  <2>10. \A g \in CurveGrowth : [analysis.assumptions EXCEPT !.growth = g] = With(g)
    BY <2>2
  <2> HIDE DEF With
  <2> QED
    BY <2>7, <2>8, <2>9, <2>10 DEF ExpectationsExplainPrice
<1> QED
  BY <1>1, EveryDossierIsAnalyzed, PTL
-----------------------------------------------------------------------------
(* The engine of the scenarios.  What is multiplied by more is more, and   *)
(* what a common factor multiplies compares as before.                     *)
LEMMA ProductKeepsOrder ==
  ASSUME NEW a \in Nat, NEW b \in Nat, NEW c \in Nat, NEW d \in Nat, a <= b, c <= d
  PROVE  a * c \in Nat /\ b * d \in Nat /\ a * c <= b * d
<1>1. a * c \in Nat /\ b * c \in Nat /\ b * d \in Nat
  OBVIOUS
<1>2. a * c <= b * c
  OBVIOUS
<1>3. b * c <= b * d
  OBVIOUS
<1> QED
  BY <1>1, <1>2, <1>3

LEMMA FactorCancels ==
  ASSUME NEW a \in Int, NEW b \in Int, NEW d \in Int, d > 0, a * d <= b * d
  PROVE  a <= b
<1> SUFFICES ASSUME b + 1 <= a PROVE FALSE
  OBVIOUS
<1>1. (b + 1) * d <= a * d
  OBVIOUS
<1>2. (b + 1) * d = b * d + d
  OBVIOUS
<1>3. a * d \in Int /\ b * d \in Int
  OBVIOUS
<1> QED
  BY <1>1, <1>2, <1>3

LEMMA PowerIs ==
  ASSUME NEW n \in 2 .. 4, NEW x \in Int
  PROVE  /\ Power(x, n) \in Int
         /\ n = 2 => Power(x, n) = x * x
         /\ n = 3 => Power(x, n) = x * x * x
         /\ n = 4 => Power(x, n) = x * x * x * x
<1>1. n = 2 \/ n = 3 \/ n = 4
  OBVIOUS
<1>2. CASE n = 2
  BY <1>2 DEF Power
<1>3. CASE n = 3
  BY <1>3 DEF Power
<1>4. CASE n = 4
  BY <1>4 DEF Power
<1> QED
  BY <1>1, <1>2, <1>3, <1>4

LEMMA PowerKeepsOrder ==
  ASSUME NEW n \in 2 .. 4, NEW x \in Nat, NEW y \in Nat, x <= y
  PROVE  Power(x, n) \in Nat /\ Power(y, n) \in Nat /\ Power(x, n) <= Power(y, n)
<1>1. x * x \in Nat /\ y * y \in Nat /\ x * x <= y * y
  BY ProductKeepsOrder
<1>2. x * x * x \in Nat /\ y * y * y \in Nat /\ x * x * x <= y * y * y
  BY <1>1, ProductKeepsOrder
<1>3. x * x * x * x \in Nat /\ y * y * y * y \in Nat /\ x * x * x * x <= y * y * y * y
  BY <1>2, ProductKeepsOrder
<1>4. n = 2 \/ n = 3 \/ n = 4
  OBVIOUS
<1>5. \A z \in Int : /\ n = 2 => Power(z, n) = z * z
                     /\ n = 3 => Power(z, n) = z * z * z
                     /\ n = 4 => Power(z, n) = z * z * z * z
  BY PowerIs
<1>6. x \in Int /\ y \in Int
  OBVIOUS
<1>7. CASE n = 2
  BY <1>1, <1>5, <1>6, <1>7
<1>8. CASE n = 3
  BY <1>2, <1>5, <1>6, <1>8
<1>9. CASE n = 4
  BY <1>3, <1>5, <1>6, <1>9
<1> QED
  BY <1>4, <1>7, <1>8, <1>9

LEMMA PowerIsNat ==
  ASSUME NEW n \in 2 .. 4, NEW x \in Nat
  PROVE  Power(x, n) \in Nat
<1>1. x <= x
  OBVIOUS
<1> QED
  BY <1>1, PowerKeepsOrder

LEMMA PowerOfProduct ==
  ASSUME NEW n \in 2 .. 4, NEW x \in Nat, NEW q \in Nat, q >= 1
  PROVE  Power(x * q, n) = Power(x, n) * Power(q, n) /\ q <= Power(q, n)
<1> DEFINE y == x * q
<1>1. y \in Int
  OBVIOUS
<1>2. n = 2 \/ n = 3 \/ n = 4
  OBVIOUS
<1>3. /\ n = 2 => Power(y, n) = y * y
      /\ n = 3 => Power(y, n) = y * y * y
      /\ n = 4 => Power(y, n) = y * y * y * y
  <2> HIDE DEF y
  <2> QED
    BY <1>1, PowerIs
<1>4. /\ n = 2 => Power(x, n) = x * x /\ Power(q, n) = q * q
      /\ n = 3 => Power(x, n) = x * x * x /\ Power(q, n) = q * q * q
      /\ n = 4 => Power(x, n) = x * x * x * x /\ Power(q, n) = q * q * q * q
  BY PowerIs
<1>5. Power(y, n) = Power(x, n) * Power(q, n)
  <2>1. CASE n = 2
    BY <1>3, <1>4, <2>1
  <2>2. CASE n = 3
    BY <1>3, <1>4, <2>2
  <2>3. CASE n = 4
    BY <1>3, <1>4, <2>3
  <2> QED
    BY <1>2, <2>1, <2>2, <2>3
<1>6. q <= Power(q, n)
  <2>1. q * q \in Nat /\ q <= q * q
    OBVIOUS
  <2>2. q * q * q \in Nat /\ q <= q * q * q
    <3>1. 1 * q <= (q * q) * q
      BY <2>1, ProductKeepsOrder
    <3> QED
      BY <2>1, <3>1
  <2>3. q <= q * q * q * q
    <3>1. 1 * q <= (q * q * q) * q
      BY <2>2, ProductKeepsOrder
    <3> QED
      BY <2>2, <3>1
  <2> QED
    BY <1>2, <1>4, <2>1, <2>2, <2>3
<1> QED
  BY <1>5, <1>6

LEMMA YearsAre ==
  ASSUME NEW horizon \in Horizons
  PROVE  YearsIn(horizon) \in 2 .. 4 /\ Unit(horizon) \in Nat \ {0}
<1>1. YearsIn(horizon) = 2 \/ YearsIn(horizon) = 3 \/ YearsIn(horizon) = 4
  BY DEF Horizons, YearsIn
<1>2. Unit(horizon) = 10 * Power(10, YearsIn(horizon))
  BY DEF Unit
<1> DEFINE n == YearsIn(horizon)
<1> HIDE DEF n
<1>3. n \in 2 .. 4
  BY <1>1 DEF n
<1>4. 10 \in Nat /\ 1 \in Nat /\ 1 <= 10
  OBVIOUS
<1>5. Power(10, n) = 10 * 10 \/ Power(10, n) = 10 * 10 * 10 \/ Power(10, n) = 10 * 10 * 10 * 10
  <2>1. \A x \in Int : Power(x, n) = x * x \/ Power(x, n) = x * x * x \/ Power(x, n) = x * x * x * x
    <3>1. n = 2 \/ n = 3 \/ n = 4
      BY <1>3
    <3> QED
      BY <1>3, <3>1, PowerIs
  <2> QED
    BY <1>4, <2>1
<1> QED
  BY <1>2, <1>3, <1>5 DEF n

(* What a value grew by in a year: it exists, and is no less for a value   *)
(* that is no lower.                                                       *)
Grew(n, cost, value, k) == Power(20 + k, n) * cost <= Power(20, n) * value

LEMMA GrowthFalls ==
  ASSUME NEW n \in 2 .. 4, NEW c \in Nat \ {0}, NEW v \in Nat, NEW j \in Int, NEW k \in Int,
         -20 <= j, j <= k, Grew(n, c, v, k)
  PROVE  Grew(n, c, v, j)
<1> DEFINE x == 20 + j
           y == 20 + k
           t == Power(20, n)
<1>1. x \in Nat /\ y \in Nat /\ x <= y /\ 20 \in Nat
  OBVIOUS
<1> HIDE DEF x, y
<1>2. Power(x, n) \in Nat /\ Power(y, n) \in Nat /\ Power(x, n) <= Power(y, n)
  BY <1>1, PowerKeepsOrder
<1>3. Power(x, n) * c <= Power(y, n) * c /\ Power(x, n) * c \in Nat /\ Power(y, n) * c \in Nat
  BY <1>2, ProductKeepsOrder
<1>4. t \in Int
  <2>1. \A z \in Int : Power(z, n) \in Int
    BY PowerIs
  <2> QED
    BY <2>1
<1>5. t * v \in Int /\ Power(y, n) * c <= t * v
  <2> HIDE DEF t
  <2>1. t * v \in Int
    BY <1>4
  <2> QED
    BY <2>1 DEF Grew, y, t
<1>6. Power(x, n) * c <= t * v
  <2> HIDE DEF t
  <2> QED
    BY <1>3, <1>5
<1> QED
  BY <1>6 DEF Grew, x, t

LEMMA SomethingGrew ==
  ASSUME NEW n \in 2 .. 4, NEW c \in Nat \ {0}, NEW v \in Nat
  PROVE  \E k \in -20 .. 20 * (v \div c) : Grew(n, c, v, k) /\ ~Grew(n, c, v, k + 1)
<1> DEFINE q == (v \div c) + 1
           B == 20 * q
           Fails == {i \in 0 .. B : ~Grew(n, c, v, i - 19)}
           t == Power(20, n)
<1>1. q \in Nat /\ q >= 1 /\ v < q * c /\ v \div c = q - 1
  <2> DEFINE r == v \div c
  <2>1. r \in Int /\ r >= 0 /\ c * r <= v /\ v < c * r + c
    OBVIOUS
  <2> HIDE DEF r
  <2>2. (r + 1) * c = c * r + c
    BY <2>1
  <2> QED
    BY <2>1, <2>2 DEF r
<1> HIDE DEF q
<1>2. B \in Nat
  BY <1>1
<1>3. t \in Nat /\ t > 0
  <2>1. \A z \in Nat : z >= 1 => z <= Power(z, n) /\ Power(z, n) \in Nat
    BY PowerOfProduct, PowerIsNat
  <2>2. 20 \in Nat /\ 20 >= 1
    OBVIOUS
  <2> QED
    BY <2>1, <2>2
<1>4. \A x \in Nat : Power(x, n) \in Nat
  BY PowerIsNat
<1>5. B \in Fails
  <2>1. Power(20 * q, n) = t * Power(q, n) /\ q <= Power(q, n) /\ Power(q, n) \in Nat
    <3>1. 20 \in Nat
      OBVIOUS
    <3>2. \A x \in Nat : Power(x * q, n) = Power(x, n) * Power(q, n) /\ q <= Power(q, n)
      BY <1>1, PowerOfProduct
    <3> QED
      BY <1>1, <1>4, <3>1, <3>2
  <2> DEFINE p == Power(q, n)
             y == 20 * q + 1
  <2>2. Power(20 * q, n) <= Power(y, n) /\ Power(y, n) \in Nat
    <3> DEFINE x == 20 * q
    <3>1. x \in Nat /\ y \in Nat /\ x <= y
      BY <1>1
    <3> HIDE DEF x, y
    <3>2. Power(x, n) <= Power(y, n) /\ Power(y, n) \in Nat
      BY <3>1, PowerKeepsOrder
    <3> QED
      BY <3>2 DEF x
  <2>3. y = 20 + (B - 19)
    BY <1>1
  <2> HIDE DEF t, p, y
  <2>4. p * c >= q * c /\ p * c \in Nat
    BY <1>1, <2>1, ProductKeepsOrder DEF p
  <2>5. v + 1 <= p * c
    BY <1>1, <2>4
  <2>6. t * (v + 1) <= t * (p * c)
    BY <1>3, <2>4, <2>5, ProductKeepsOrder
  <2>7. (t * p) * c <= Power(y, n) * c
    BY <1>3, <2>1, <2>2, ProductKeepsOrder DEF p
  <2>8. (t * p) * c = t * (p * c) /\ t * (v + 1) = t * v + t /\ t * v \in Int
    BY <1>3, <2>1 DEF p
  <2>9. Power(y, n) * c \in Int /\ t * (p * c) \in Int
    BY <1>3, <2>2, <2>4
  <2>10. ~(Power(y, n) * c <= t * v)
    BY <1>3, <2>6, <2>7, <2>8, <2>9
  <2>11. ~Grew(n, c, v, B - 19)
    BY <2>3, <2>10 DEF Grew, t
  <2> QED
    BY <1>2, <2>11
<1>6. PICK m \in Fails : \A i \in Fails : m <= i
  <2>1. Fails \in SUBSET (0 .. B) /\ Fails # {}
    BY <1>5
  <2> HIDE DEF Fails, B
  <2> QED
    BY <1>2, <2>1, LeastOf
<1>7. m \in 0 .. B /\ ~Grew(n, c, v, m - 19)
  OBVIOUS
<1>8. Grew(n, c, v, m - 20)
  <2>1. CASE m = 0
    <3>1. Power(0, n) = 0
      <4>1. n = 2 \/ n = 3 \/ n = 4
        OBVIOUS
      <4>2. 0 \in Int
        OBVIOUS
      <4>3. \A x \in Int : Power(x, n) = x * x \/ Power(x, n) = x * x * x \/ Power(x, n) = x * x * x * x
        BY <4>1, PowerIs
      <4> QED
        BY <4>2, <4>3
    <3>2. 20 + (m - 20) = 0
      BY <2>1
    <3> HIDE DEF t
    <3>3. 0 * c <= t * v
      BY <1>3
    <3> QED
      BY <3>1, <3>2, <3>3 DEF Grew, t
  <2>2. CASE m # 0
    <3>1. m - 1 \in 0 .. B /\ m - 1 \notin Fails
      BY <1>2, <1>6, <1>7, <2>2
    <3>2. Grew(n, c, v, (m - 1) - 19)
      BY <3>1
    <3>3. (m - 1) - 19 = m - 20
      BY <1>7, <1>2
    <3> QED
      BY <3>2, <3>3
  <2> QED
    BY <2>1, <2>2
<1>9. m - 20 \in -20 .. 20 * (v \div c) /\ (m - 20) + 1 = m - 19
  <2>1. 20 * (v \div c) = B - 20
    BY <1>1
  <2> HIDE DEF B
  <2> QED
    BY <1>2, <1>7, <2>1
<1> QED
  BY <1>7, <1>8, <1>9

LEMMA GrewMore ==
  ASSUME NEW n \in 2 .. 4, NEW m \in Nat \ {0}, NEW x1 \in Nat, NEW x2 \in Nat \ {0},
         NEW y1 \in Nat, NEW y2 \in Nat \ {0}, x1 * y2 <= y1 * x2,
         NEW k \in Int, -20 <= k, Grew(n, m * x2, x1, k)
  PROVE  Grew(n, m * y2, y1, k)
<1> DEFINE z == 20 + k
           p == Power(z, n)
           t == Power(20, n)
<1>1. p \in Nat /\ t \in Nat
  <2>1. \A x \in Nat : Power(x, n) \in Nat
    BY PowerIsNat
  <2>2. 20 \in Nat /\ z \in Nat
    OBVIOUS
  <2> HIDE DEF z
  <2> QED
    BY <2>1, <2>2
<1>2. p * (m * x2) <= t * x1
  BY DEF Grew
<1> HIDE DEF p, t
<1>3. (p * (m * x2)) * y2 <= (t * x1) * y2
  BY <1>1, <1>2, ProductKeepsOrder
<1>4. t * (x1 * y2) <= t * (y1 * x2)
  BY <1>1, ProductKeepsOrder
<1>5. /\ (p * (m * x2)) * y2 = (p * (m * y2)) * x2
      /\ (t * x1) * y2 = t * (x1 * y2) /\ t * (y1 * x2) = (t * y1) * x2
  BY <1>1
<1> DEFINE a == p * (m * y2)
           b == t * y1
<1>6. a \in Int /\ b \in Int
  BY <1>1
<1>7. a * x2 <= b * x2
  <2>1. (t * x1) * y2 \in Int /\ a * x2 \in Int /\ b * x2 \in Int
    BY <1>1
  <2> QED
    BY <1>3, <1>4, <1>5, <2>1
<1> HIDE DEF a, b
<1>8. a <= b
  BY <1>6, <1>7, FactorCancels
<1> QED
  BY <1>8 DEF Grew, a, b, p, t
-----------------------------------------------------------------------------
(* The end of a band has a price and a holding per share, which are in the *)
(* order of the prices where distributions are.                            *)
IsEnd(d) == \A name \in Drivers : d[name] \in Int
IsKnown(f) == f.revenue \in Int /\ f.debt \in Int /\ f.shares \in Int /\ f.shares > 0

LEMMA EndsAreEnds ==
  ASSUME NEW b, IsBundle(b), NEW end \in Ends
  PROVE  /\ IsEnd(AtEnd(b, end))
         /\ AtEnd(b, end).shares = b.shares /\ AtEnd(b, end).distributions = b.distributions
<1>1. \A name \in Drivers : AtEnd(b, end)[name] = IF name = "multiple" THEN b[end] ELSE b[name]
  BY DEF AtEnd
<1>2. "shares" \in Drivers /\ "distributions" \in Drivers
  BY DEF Drivers
<1>3. b[end] \in Int /\ \A name \in Drivers \ {"multiple"} : b[name] \in Int
  BY DEF IsBundle, Ends, Drivers
<1>4. IsEnd(AtEnd(b, end))
  BY <1>1, <1>3 DEF IsEnd
<1> QED
  BY <1>1, <1>2, <1>4

LEMMA HoldingIs ==
  ASSUME NEW f, IsKnown(f), NEW d, IsEnd(d), NEW horizon \in Horizons
  PROVE  /\ Price(f, d, horizon)[1] \in Int
         /\ Price(f, d, horizon)[2] = f.shares * (10 + d.shares)
         /\ f.shares * (10 + d.shares) \in Int
         /\ Holding(f, d, horizon)[1] = Price(f, d, horizon)[1]
                + d.distributions * Unit(horizon) * (f.shares * (10 + d.shares))
         /\ Holding(f, d, horizon)[1] \in Int
         /\ Holding(f, d, horizon)[2] = f.shares * (10 + d.shares)
<1> DEFINE unit == Unit(horizon)
           x == 10 + d.growth
           power == Power(x, YearsIn(horizon))
           equity == Equity(f, d, horizon)
           per == f.shares * (10 + d.shares)
<1>1. d.growth \in Int /\ d.margin \in Int /\ d.multiple \in Int /\ d.debt \in Int /\ d.shares \in Int
      /\ d.distributions \in Int
  BY DEF IsEnd, Drivers
<1>2. f.revenue \in Int /\ f.debt \in Int /\ f.shares \in Int
  BY DEF IsKnown
<1>3. unit \in Int
  BY YearsAre
<1>4. power \in Int
  <2>1. x \in Int
    BY <1>1
  <2> HIDE DEF x
  <2> QED
    BY <2>1, YearsAre, PowerIs
<1>5. equity = f.revenue * power * d.margin * d.multiple - (f.debt + d.debt) * unit
  BY DEF Equity
<1> HIDE DEF unit, power
<1>6. equity \in Int
  <2>1. f.revenue * power \in Int
    BY <1>2, <1>4
  <2>2. f.revenue * power * d.margin \in Int
    BY <1>1, <2>1
  <2>3. f.revenue * power * d.margin * d.multiple \in Int
    BY <1>1, <2>2
  <2>4. (f.debt + d.debt) * unit \in Int
    BY <1>1, <1>2, <1>3
  <2> DEFINE gain == f.revenue * power * d.margin * d.multiple
             owed == (f.debt + d.debt) * unit
  <2>5. equity = gain - owed
    BY <1>5
  <2>6. gain \in Int /\ owed \in Int
    BY <2>3, <2>4
  <2> HIDE DEF gain, owed, equity
  <2> QED
    BY <2>5, <2>6
<1>7. per \in Int
  BY <1>1, <1>2
<1>8. Price(f, d, horizon) = <<10 * equity, per>>
  BY DEF Price
<1>9. Holding(f, d, horizon) = <<10 * equity + d.distributions * unit * per, per>>
  BY <1>8 DEF Holding, unit
<1> HIDE DEF equity, per
<1>10. d.distributions * unit * per \in Int
  BY <1>1, <1>3, <1>7
<1> QED
  BY <1>6, <1>7, <1>8, <1>9, <1>10 DEF unit, per

LEMMA AddingKeepsOrder ==
  ASSUME NEW x1 \in Int, NEW x2 \in Int, NEW y1 \in Int, NEW y2 \in Int, x2 > 0, y2 > 0,
         NEW u \in Nat, NEW c \in Int, NEW d \in Int, c <= d, x1 * y2 <= y1 * x2
  PROVE  (x1 + c * u * x2) * y2 <= (y1 + d * u * y2) * x2
<1> DEFINE m == u * x2 * y2
           e == d - c
<1>1. m \in Nat
  BY ProductKeepsOrder
<1>2. e \in Nat /\ d = c + e
  OBVIOUS
<1>3. e * m \in Nat
  <2> HIDE DEF e, m
  <2> QED
    BY <1>1, <1>2
<1>4. (x1 + c * u * x2) * y2 = x1 * y2 + c * m
  OBVIOUS
<1>5. (y1 + d * u * y2) * x2 = y1 * x2 + d * m
  OBVIOUS
<1> HIDE DEF e, m
<1>6. d * m = c * m + e * m
  BY <1>1, <1>2
<1>7. x1 * y2 \in Int /\ y1 * x2 \in Int /\ c * m \in Int
  BY <1>1
<1> QED
  BY <1>3, <1>4, <1>5, <1>6, <1>7

LEMMA ReturnFollows ==
  ASSUME NEW f, f.price \in Int, f.price > 0, NEW horizon \in Horizons,
         NEW x, x[1] \in Int, x[1] > 0, x[2] \in Int, x[2] > 0,
         NEW y, y[1] \in Int, y[1] > 0, y[2] \in Int, y[2] > 0, AtMost(x, y)
  PROVE  Return(f, x, horizon) <= Return(f, y, horizon)
<1> DEFINE n == YearsIn(horizon)
           m == f.price * Unit(horizon)
           Is(v, k) == Grew(n, m * v[2], v[1], k) /\ ~Grew(n, m * v[2], v[1], k + 1)
           Span(v) == -20 .. 20 * (v[1] \div (m * v[2]))
<1>1. n \in 2 .. 4 /\ m \in Nat \ {0}
  <2> DEFINE u == Unit(horizon)
  <2>1. u \in Nat \ {0}
    BY YearsAre
  <2> HIDE DEF u
  <2>2. f.price * u \in Nat \ {0}
    BY <2>1
  <2> QED
    BY <2>2, YearsAre DEF u
<1>2. \A v : v[1] \in Int /\ v[1] > 0 => Return(f, v, horizon) = CHOOSE k \in Span(v) : Is(v, k)
  BY DEF Return, Grew
<1> HIDE DEF n, m
<1>3. \A v : v[1] \in Int /\ v[1] > 0 /\ v[2] \in Int /\ v[2] > 0 => \E k \in Span(v) : Is(v, k)
  <2> SUFFICES ASSUME NEW v, v[1] \in Int, v[1] > 0, v[2] \in Int, v[2] > 0
               PROVE  \E k \in Span(v) : Is(v, k)
    OBVIOUS
  <2> DEFINE c == m * v[2]
             w == v[1]
  <2>1. c \in Nat \ {0} /\ w \in Nat
    BY <1>1
  <2> HIDE DEF c, w
  <2>2. \E k \in -20 .. 20 * (w \div c) : Grew(n, c, w, k) /\ ~Grew(n, c, w, k + 1)
    BY <1>1, <2>1, SomethingGrew
  <2> QED
    BY <2>2 DEF c, w
<1> DEFINE i == Return(f, x, horizon)
           j == Return(f, y, horizon)
<1>4. i \in Span(x) /\ Is(x, i)
  <2>1. \E k \in Span(x) : Is(x, k)
    BY <1>3
  <2>2. i = CHOOSE k \in Span(x) : Is(x, k)
    BY <1>2
  <2> HIDE DEF Span, Is, i
  <2> QED
    BY <2>1, <2>2
<1>5. j \in Span(y) /\ Is(y, j)
  <2>1. \E k \in Span(y) : Is(y, k)
    BY <1>3
  <2>2. j = CHOOSE k \in Span(y) : Is(y, k)
    BY <1>2
  <2> HIDE DEF Span, Is, j
  <2> QED
    BY <2>1, <2>2
<1>6. i \in Int /\ j \in Int /\ -20 <= i /\ -20 <= j
  <2>1. \A v : \A k \in Span(v) : v[1] \div (m * v[2]) \in Int => k \in Int /\ -20 <= k
    OBVIOUS
  <2>2. \A v \in {x, y} : v[1] \div (m * v[2]) \in Int
    <3> TAKE v \in {x, y}
    <3> DEFINE c == m * v[2]
    <3>1. c \in Int /\ c > 0 /\ v[1] \in Int
      BY <1>1
    <3> HIDE DEF c
    <3>2. v[1] \div c \in Int
      BY <3>1
    <3> QED
      BY <3>2 DEF c
  <2> HIDE DEF Span, i, j
  <2> QED
    BY <1>4, <1>5, <2>1, <2>2
<1>7. Grew(n, m * x[2], x[1], i) /\ ~Grew(n, m * y[2], y[1], j + 1)
  BY <1>4, <1>5
<1> HIDE DEF i, j, Is, Span
<1>8. Grew(n, m * y[2], y[1], i)
  <2> DEFINE x1 == x[1]
             x2 == x[2]
             y1 == y[1]
             y2 == y[2]
  <2>1. x1 \in Nat /\ x2 \in Nat \ {0} /\ y1 \in Nat /\ y2 \in Nat \ {0} /\ x1 * y2 <= y1 * x2
    BY DEF AtMost
  <2>2. Grew(n, m * x2, x1, i)
    BY <1>7
  <2> HIDE DEF x1, x2, y1, y2
  <2>3. Grew(n, m * y2, y1, i)
    BY <1>1, <1>6, <2>1, <2>2, GrewMore
  <2> QED
    BY <2>3 DEF y1, y2
<1>9. ASSUME j + 1 <= i PROVE FALSE
  <2> DEFINE c == m * y[2]
             v == y[1]
             k == j + 1
  <2>1. c \in Nat \ {0} /\ v \in Nat /\ k \in Int /\ -20 <= k /\ k <= i
    BY <1>1, <1>6, <1>9
  <2>2. Grew(n, c, v, i) /\ ~Grew(n, c, v, k)
    BY <1>7, <1>8
  <2> HIDE DEF c, v, k
  <2> QED
    BY <1>1, <1>6, <2>1, <2>2, GrowthFalls
<1>10. i <= j
  BY <1>6, <1>9
<1> QED
  BY <1>10 DEF i, j
-----------------------------------------------------------------------------
(* What the engine accepts has its bands in order.                         *)
LEMMA BandsAreOrdered ==
  ASSUME NEW f \in Facts, NEW p \in Proposals, ProposalHolds(f, p), OutputsHold(Bands(f, p))
  PROVE  LET bands == Bands(f, p)
             Follows(x, y) == AtMost(x.holding, y.holding) /\ x.return <= y.return
         IN  /\ \A c \in ScenarioCases : Follows(bands[c].low, bands[c].high)
             /\ Follows(bands["bear"].high, bands["base"].low)
             /\ Follows(bands["base"].high, bands["bull"].low)
<1> DEFINE bands == Bands(f, p)
           At(c, end) == bands[c][end]
           Bundle(c) == p.bundles[c]
           h == p.horizon
           u == Unit(h)
           End(c, end) == AtEnd(Bundle(c), end)
           held(c, end) == Holding(f, End(c, end), h)
           paid(c) == Bundle(c).distributions
           price(c, end) == Price(f, End(c, end), h)
           Follows(x, y) == AtMost(x.holding, y.holding) /\ x.return <= y.return
<1>1. IsKnown(f) /\ f.price \in Int /\ f.price > 0
  <2>1. \A name \in {"price", "revenue", "shares", "debt"} : f[name] \in Int \cup {Absent}
    BY ValuesAreTyped
  <2>2. FactFaults(f) = {}
    BY DEF ProposalHolds
  <2>3. Positive(f["price"]) /\ Positive(f["revenue"]) /\ Positive(f["shares"]) /\ f["debt"] # Absent
    BY <2>2 DEF FactFaults
  <2> QED
    BY <2>1, <2>3 DEF IsKnown, Positive
<1>2. h \in Horizons /\ DOMAIN p.bundles = ScenarioCases /\ \A c \in ScenarioCases : Bundle(c).horizon = h
  BY DEF ProposalHolds
<1>3. u \in Nat \ {0}
  BY <1>2, YearsAre
<1>4. \A c \in ScenarioCases : IsBundle(Bundle(c)) /\ Bundle(c).shares > -10 /\ Bundle(c).shares \in Int
                               /\ paid(c) \in Int
  <2> TAKE c \in ScenarioCases
  <2>1. IsBundle(Bundle(c))
    BY <1>2, ValuesAreTyped
  <2>2. BundleFaults(Bundle(c)) = {}
    BY DEF ProposalHolds
  <2> HIDE DEF Bundle
  <2>3. ~(Bundle(c).growth <= -10 \/ Bundle(c).shares <= -10)
    BY <2>2 DEF BundleFaults
  <2>4. Bundle(c).shares \in Int /\ Bundle(c).distributions \in Int
    BY <2>1 DEF IsBundle
  <2> QED
    BY <2>1, <2>3, <2>4
<1>5. paid("bear") <= paid("base") /\ paid("base") <= paid("bull")
  BY DEF ProposalHolds, Worse
<1>6. \A c \in ScenarioCases : \A end \in Ends :
        /\ price(c, end)[1] \in Int
        /\ price(c, end)[2] \in Int /\ price(c, end)[2] > 0
        /\ held(c, end)[1] \in Int
        /\ held(c, end)[1] = price(c, end)[1] + paid(c) * u * price(c, end)[2]
        /\ held(c, end)[2] = price(c, end)[2]
  <2> TAKE c \in ScenarioCases
  <2> TAKE end \in Ends
  <2> DEFINE d == End(c, end)
             per == f.shares * (10 + d.shares)
  <2>1. IsEnd(d) /\ d.shares = Bundle(c).shares /\ d.distributions = paid(c)
    BY <1>4, EndsAreEnds
  <2> HIDE DEF d, h, paid, Bundle
  <2>2. per \in Int /\ per > 0
    <3>1. f.shares \in Int /\ f.shares > 0 /\ d.shares \in Int /\ d.shares > -10
      BY <1>1, <1>4, <2>1 DEF IsKnown
    <3> QED
      BY <3>1
  <2>3. /\ Price(f, d, h)[1] \in Int
        /\ Price(f, d, h)[2] = per
        /\ Holding(f, d, h)[1] = Price(f, d, h)[1] + d.distributions * u * per
        /\ Holding(f, d, h)[1] \in Int
        /\ Holding(f, d, h)[2] = per
    BY <1>1, <1>2, <2>1, HoldingIs
  <2> HIDE DEF per
  <2> QED
    BY <2>1, <2>2, <2>3 DEF d
<1>7. \A c \in ScenarioCases : \A end \in Ends :
        At(c, end) = [price |-> price(c, end), holding |-> held(c, end),
                      return |-> Return(f, held(c, end), h)]
  BY <1>2, Zenon DEF Bands, BandEnd
<1>8. \A c \in ScenarioCases : \A end \in Ends : price(c, end)[1] > 0 /\ held(c, end)[1] > 0
  <2>1. \A c \in ScenarioCases : \A end \in Ends : At(c, end).price[1] > 0 /\ At(c, end).holding[1] > 0
    BY Zenon DEF OutputsHold
  <2> HIDE DEF At, price, held
  <2> QED
    BY <1>7, <2>1
<1>9. /\ \A c \in ScenarioCases : AtMost(At(c, "low").price, At(c, "high").price)
      /\ AtMost(At("bear", "high").price, At("base", "low").price)
      /\ AtMost(At("base", "high").price, At("bull", "low").price)
  BY Zenon DEF OutputsHold
<1>10. "low" \in Ends /\ "high" \in Ends
       /\ "bear" \in ScenarioCases /\ "base" \in ScenarioCases /\ "bull" \in ScenarioCases
  BY DEF Ends, ScenarioCases
<1> HIDE DEF At, price, held, paid, h, u
<1>11. ASSUME NEW c \in ScenarioCases, NEW d \in ScenarioCases, NEW s \in Ends, NEW t \in Ends,
              paid(c) <= paid(d), AtMost(At(c, s).price, At(d, t).price)
       PROVE  Follows(At(c, s), At(d, t))
  <2> DEFINE x == held(c, s)
             y == held(d, t)
  <2>1. AtMost(price(c, s), price(d, t))
    BY <1>7, <1>11
  <2>2. AtMost(x, y)
    <3> DEFINE x1 == price(c, s)[1]
               x2 == price(c, s)[2]
               y1 == price(d, t)[1]
               y2 == price(d, t)[2]
    <3>1. x1 \in Int /\ x2 \in Int /\ y1 \in Int /\ y2 \in Int /\ x2 > 0 /\ y2 > 0 /\ u \in Nat
          /\ paid(c) \in Int /\ paid(d) \in Int
      BY <1>3, <1>4, <1>6
    <3>2. x1 * y2 <= y1 * x2
      BY <2>1 DEF AtMost
    <3>3. x[1] = x1 + paid(c) * u * x2 /\ x[2] = x2 /\ y[1] = y1 + paid(d) * u * y2 /\ y[2] = y2
      BY <1>6
    <3> HIDE DEF x, y, x1, x2, y1, y2
    <3>4. (x1 + paid(c) * u * x2) * y2 <= (y1 + paid(d) * u * y2) * x2
      BY <1>11, <3>1, <3>2, AddingKeepsOrder
    <3> QED
      BY <3>3, <3>4 DEF AtMost
  <2>3. /\ x[1] \in Int /\ x[1] > 0 /\ x[2] \in Int /\ x[2] > 0
        /\ y[1] \in Int /\ y[1] > 0 /\ y[2] \in Int /\ y[2] > 0
    <3>1. x[2] = price(c, s)[2] /\ y[2] = price(d, t)[2]
      BY <1>6
    <3> QED
      BY <1>6, <1>8, <3>1
  <2> HIDE DEF x, y
  <2>4. Return(f, x, h) <= Return(f, y, h)
    BY <1>1, <1>2, <2>2, <2>3, ReturnFollows
  <2>5. At(c, s).holding = x /\ At(d, t).holding = y
        /\ At(c, s).return = Return(f, x, h) /\ At(d, t).return = Return(f, y, h)
    BY <1>7 DEF x, y
  <2> QED
    BY <2>2, <2>4, <2>5
<1>12. \A c \in ScenarioCases : paid(c) <= paid(c)
  BY <1>4
<1> HIDE DEF Follows
<1>13. /\ \A c \in ScenarioCases : Follows(At(c, "low"), At(c, "high"))
       /\ Follows(At("bear", "high"), At("base", "low"))
       /\ Follows(At("base", "high"), At("bull", "low"))
  BY <1>5, <1>9, <1>10, <1>11, <1>12
<1>14. \A c : At(c, "low") = bands[c].low /\ At(c, "high") = bands[c].high
  BY DEF At
<1> HIDE DEF bands
<1>15. /\ \A c \in ScenarioCases : Follows(bands[c].low, bands[c].high)
       /\ Follows(bands["bear"].high, bands["base"].low)
       /\ Follows(bands["base"].high, bands["bull"].low)
  BY <1>13, <1>14
<1> QED
  BY <1>15, Zenon DEF Follows, bands

(* A valuation that is accepted is the analysis of a proposal the engine   *)
(* finds no fault with; only such a one is attributed.                     *)
ValuationMade ==
  /\ facts \in Facts
  /\ valuation = [stage |-> valuation.stage, proposal |-> valuation.proposal,
                  analysis |-> valuation.analysis, attribution |-> valuation.attribution]
  /\ valuation.stage \in {"valued", "saved"} =>
       /\ valuation.proposal \in Proposals
       /\ ProposalHolds(facts, valuation.proposal)
       /\ valuation.analysis.bands = Bands(facts, valuation.proposal)
       /\ OutputsHold(valuation.analysis.bands)
  /\ valuation.attribution # << >> =>
       /\ valuation.stage = "saved" /\ Attributable(facts)
       /\ valuation.attribution = [c \in ScenarioCases |-> [end \in Ends |->
            [driver \in Drivers |->
               Contribution(facts, driver, AtEnd(valuation.proposal.bundles[c], end),
                            valuation.proposal.horizon)]]]

LEMMA AcceptedIsSound ==
  ASSUME NEW f, NEW p, Analysis(f, p).status = "available"
  PROVE  ProposalHolds(f, p) /\ Analysis(f, p).bands = Bands(f, p) /\ OutputsHold(Bands(f, p))
<1> DEFINE bands == Bands(f, p)
           out == [status |-> IF OutputsHold(bands) THEN "available" ELSE "insufficient_evidence",
                   bands |-> bands]
<1>1. Analysis(f, p) = CASE f.model # "general" -> Unvalued("method_not_supported")
                         [] f.model = "general" /\ ~ProposalHolds(f, p) -> Unvalued("insufficient_evidence")
                         [] OTHER -> out
  BY Zenon DEF Analysis
<1> HIDE DEF bands
<1>2. Unvalued("method_not_supported").status # "available"
      /\ Unvalued("insufficient_evidence").status # "available"
  BY DEF Unvalued
<1>3. out.status = "available" => OutputsHold(bands)
  OBVIOUS
<1>4. out.bands = bands
  OBVIOUS
<1> HIDE DEF out
<1>5. CASE f.model # "general"
  BY <1>1, <1>2, <1>5
<1>6. CASE f.model = "general" /\ ~ProposalHolds(f, p)
  BY <1>1, <1>2, <1>6
<1>7. CASE f.model = "general" /\ ProposalHolds(f, p)
  <2>1. Analysis(f, p) = out
    BY <1>1, <1>7
  <2> QED
    BY <1>3, <1>4, <1>7, <2>1 DEF bands
<1> QED
  BY <1>5, <1>6, <1>7

LEMMA EveryValuationIsMade == ValuationSpec => []ValuationMade
<1>1. ValuationInit => ValuationMade
  <2> SUFFICES ASSUME ValuationInit PROVE ValuationMade
    OBVIOUS
  <2>1. facts \in Facts /\ valuation = Nowhere
    BY DEF ValuationInit
  <2>2. valuation.stage = "packet" /\ valuation.attribution = << >>
    BY <2>1 DEF Nowhere
  <2>3. valuation = [stage |-> valuation.stage, proposal |-> valuation.proposal,
                     analysis |-> valuation.analysis, attribution |-> valuation.attribution]
    BY <2>1 DEF Nowhere
  <2> QED
    BY <2>1, <2>2, <2>3 DEF ValuationMade
<1>2. ValuationMade /\ [ValuationNext]_valuationVars => ValuationMade'
  <2> SUFFICES ASSUME ValuationMade, [ValuationNext]_valuationVars PROVE ValuationMade'
    OBVIOUS
  <2> DEFINE v == valuation
             w == valuation'
  <2>1. /\ facts \in Facts
        /\ v = [stage |-> v.stage, proposal |-> v.proposal, analysis |-> v.analysis,
                attribution |-> v.attribution]
        /\ v.attribution # << >> => v.stage = "saved"
    BY DEF ValuationMade
  <2>2. CASE PassGate
    <3>1. PICK s \in {"refused", "qualitative", "scenario"} : w = [v EXCEPT !.stage = s]
      BY <2>2 DEF PassGate
    <3>2. v.stage = "packet" /\ facts' = facts
      BY <2>2 DEF PassGate
    <3>3. w.stage = s /\ w.attribution = v.attribution
          /\ w = [stage |-> w.stage, proposal |-> w.proposal, analysis |-> w.analysis,
                  attribution |-> w.attribution]
      BY <2>1, <3>1
    <3>4. w.attribution = << >>
      BY <2>1, <3>2, <3>3
    <3>5. s \notin {"valued", "saved"}
      OBVIOUS
    <3> QED
      BY <2>1, <3>2, <3>3, <3>4, <3>5 DEF ValuationMade
  <2>3. CASE SaveAttribution
    <3>1. v.stage = "valued" /\ facts' = facts
          /\ w = [v EXCEPT !.stage = "saved", !.attribution = Attribution(facts, v.proposal)]
      BY <2>3 DEF SaveAttribution
    <3>2. w.stage = "saved" /\ w.proposal = v.proposal /\ w.analysis = v.analysis
          /\ w.attribution = Attribution(facts, v.proposal)
          /\ w = [stage |-> w.stage, proposal |-> w.proposal, analysis |-> w.analysis,
                  attribution |-> w.attribution]
      BY <2>1, <3>1
    <3>3. /\ v.proposal \in Proposals /\ ProposalHolds(facts, v.proposal)
          /\ v.analysis.bands = Bands(facts, v.proposal) /\ OutputsHold(v.analysis.bands)
      BY <3>1 DEF ValuationMade
    <3>4. w.attribution # << >> =>
            /\ Attributable(facts)
            /\ w.attribution = [c \in ScenarioCases |-> [end \in Ends |->
                 [driver \in Drivers |->
                    Contribution(facts, driver, AtEnd(w.proposal.bundles[c], end), w.proposal.horizon)]]]
      BY <3>2 DEF Attribution
    <3> QED
      BY <2>1, <3>1, <3>2, <3>3, <3>4 DEF ValuationMade
  <2>4. ASSUME NEW p \in Proposals, Value(p) PROVE ValuationMade'
    <3> DEFINE a == Analysis(facts, p)
               s == IF a.status = "available" THEN "valued" ELSE "scenario"
    <3>1. v.stage = "scenario" /\ facts' = facts
          /\ w = [v EXCEPT !.stage = s, !.proposal = p, !.analysis = a]
      BY <2>4 DEF Value
    <3>2. s = "valued" => ProposalHolds(facts, p) /\ a.bands = Bands(facts, p) /\ OutputsHold(Bands(facts, p))
      BY AcceptedIsSound
    <3>3. s \in {"valued", "scenario"}
      OBVIOUS
    <3> HIDE DEF a, s
    <3>4. w.stage = s /\ w.proposal = p /\ w.analysis = a /\ w.attribution = v.attribution
          /\ w = [stage |-> w.stage, proposal |-> w.proposal, analysis |-> w.analysis,
                  attribution |-> w.attribution]
      BY <2>1, <3>1
    <3>5. w.attribution = << >>
      BY <2>1, <3>1, <3>4
    <3>6. w.stage \in {"valued", "saved"} => s = "valued"
      BY <3>3, <3>4
    <3>7. w.stage \in {"valued", "saved"} =>
            /\ w.proposal \in Proposals /\ ProposalHolds(facts, w.proposal)
            /\ w.analysis.bands = Bands(facts, w.proposal) /\ OutputsHold(w.analysis.bands)
      BY <3>2, <3>4, <3>6
    <3> QED
      BY <2>1, <3>1, <3>4, <3>5, <3>7 DEF ValuationMade
  <2>5. CASE RankBook
    BY <2>5 DEF RankBook, ValuationMade
  <2>6. CASE UNCHANGED valuationVars
    BY <2>6 DEF valuationVars, ValuationMade
  <2> QED
    BY <2>2, <2>3, <2>4, <2>5, <2>6 DEF ValuationNext
<1> QED
  BY <1>1, <1>2, PTL DEF ValuationSpec
-----------------------------------------------------------------------------
(* The Shapley values of six parts of a whole add up to the whole: every   *)
(* set of parts but the empty and the full one is added as often as it is  *)
(* taken away.                                                             *)
LEMMA WeightsAre ==
  /\ \A s \in 0 .. 5 : Weight(s) \in Int
  /\ Weight(0) = 10 /\ Weight(5) = 10
  /\ \A k \in 1 .. 5 : Weight(k - 1) * k = Weight(k) * (6 - k)
<1>1. /\ Weight(0) = 10 /\ Weight(1) = 2 /\ Weight(2) = 1
      /\ Weight(3) = 1 /\ Weight(4) = 2 /\ Weight(5) = 10
  BY DEF Weight
<1>2. \A s \in 0 .. 5 : s = 0 \/ s = 1 \/ s = 2 \/ s = 3 \/ s = 4 \/ s = 5
  OBVIOUS
<1>3. \A s \in 0 .. 5 : Weight(s) \in Int
  BY <1>1, <1>2
<1>4. ASSUME NEW k \in 1 .. 5 PROVE Weight(k - 1) * k = Weight(k) * (6 - k)
  <2>1. k = 1 \/ k = 2 \/ k = 3 \/ k = 4 \/ k = 5
    OBVIOUS
  <2>2. CASE k = 1
    BY <1>1, <2>2
  <2>3. CASE k = 2
    BY <1>1, <2>3
  <2>4. CASE k = 3
    BY <1>1, <2>4
  <2>5. CASE k = 4
    BY <1>1, <2>5
  <2>6. CASE k = 5
    BY <1>1, <2>6
  <2> QED
    BY <2>1, <2>2, <2>3, <2>4, <2>5, <2>6
<1> QED
  BY <1>1, <1>3, <1>4

(* A sum of one number for the members of a set and of another for the     *)
(* others.                                                                 *)
LEMMA SumOfTwo ==
  ASSUME NEW D, IsFiniteSet(D), NEW S \in SUBSET D, NEW a \in Int, NEW b \in Int
  PROVE  AddUp([d \in D |-> IF d \in S THEN a ELSE b])
           = a * Cardinality(S) + b * (Cardinality(D) - Cardinality(S))
<1> DEFINE F == [d \in D |-> IF d \in S THEN a - b ELSE 0]
           G == [d \in D |-> b]
<1>1. F \in [D -> Int] /\ G \in [D -> Int] /\ \A x \in D \ S : F[x] = 0
  OBVIOUS
<1>2. [d \in D |-> IF d \in S THEN a ELSE b] = [d \in D |-> F[d] + G[d]]
  OBVIOUS
<1>3. IsFiniteSet(S) /\ Cardinality(S) \in Nat /\ Cardinality(D) \in Nat
  BY FS_Subset, FS_CardinalityType
<1>4. AddUp(G) = b * Cardinality(D)
  BY SumConstant
<1>5. Restrict(F, S) = [d \in S |-> a - b]
  BY DEF Restrict
<1>6. AddUp([d \in S |-> a - b]) = (a - b) * Cardinality(S)
  <2> DEFINE k == a - b
  <2>1. k \in Int
    OBVIOUS
  <2> HIDE DEF k
  <2>2. AddUp([d \in S |-> k]) = k * Cardinality(S)
    BY <1>3, <2>1, SumConstant
  <2> QED
    BY <2>2 DEF k
<1> HIDE DEF F, G
<1>7. AddUp(F) = PartSum(F, S)
  BY <1>1, SumExtends
<1>8. AddUp([d \in D |-> F[d] + G[d]]) = AddUp(F) + AddUp(G)
  BY <1>1, SumAdds
<1>9. AddUp(F) = (a - b) * Cardinality(S)
  BY <1>5, <1>6, <1>7 DEF PartSum
<1> DEFINE s == Cardinality(S)
           t == Cardinality(D)
<1>10. (a - b) * s + b * t = a * s + b * (t - s)
  <2> HIDE DEF s, t
  <2> QED
    BY <1>3 DEF s, t
<1> QED
  BY <1>2, <1>4, <1>8, <1>9, <1>10

(* What a part adds to every set without it, counted over all the sets.    *)
ShareOf(D, g, d) ==
  AddUp([from \in SUBSET (D \ {d}) |-> Weight(Cardinality(from)) * (g[from \cup {d}] - g[from])])
Counted(D, g, d) ==
  [T \in SUBSET D |-> IF d \in T THEN Weight(Cardinality(T) - 1) * g[T]
                                 ELSE -(Weight(Cardinality(T)) * g[T])]

LEMMA ShareIsSum ==
  ASSUME NEW D, IsFiniteSet(D), Cardinality(D) = 6, NEW g \in [SUBSET D -> Int], NEW d \in D
  PROVE  ShareOf(D, g, d) = AddUp(Counted(D, g, d))
<1> DEFINE P == SUBSET D
           Q == SUBSET (D \ {d})
           R == {T \in P : d \in T}
           A == [from \in Q |-> Weight(Cardinality(from)) * g[from \cup {d}]]
           B == [from \in Q |-> -(Weight(Cardinality(from)) * g[from])]
           X == [T \in P |-> IF d \in T THEN Weight(Cardinality(T) - 1) * g[T] ELSE 0]
           Y == [T \in P |-> IF d \in T THEN 0 ELSE -(Weight(Cardinality(T)) * g[T])]
           b == [from \in Q |-> from \cup {d}]
<1>1. IsFiniteSet(P) /\ IsFiniteSet(Q) /\ IsFiniteSet(R) /\ Q \in SUBSET P /\ R \in SUBSET P
  <2>1. IsFiniteSet(P)
    BY FS_SUBSET
  <2>2. Q \in SUBSET P /\ R \in SUBSET P
    OBVIOUS
  <2> HIDE DEF P, Q, R
  <2> QED
    BY <2>1, <2>2, FS_Subset
<1>2. ASSUME NEW T \in P PROVE IsFiniteSet(T) /\ Cardinality(T) \in 0 .. 6
  <2>1. IsFiniteSet(T) /\ Cardinality(T) <= 6
    BY FS_Subset
  <2>2. Cardinality(T) \in Nat
    BY <2>1, FS_CardinalityType
  <2> QED
    BY <2>1, <2>2
<1>3. ASSUME NEW T \in P PROVE d \in T => Cardinality(T) - 1 \in 0 .. 5
  <2> SUFFICES ASSUME d \in T PROVE Cardinality(T) - 1 \in 0 .. 5
    OBVIOUS
  <2>1. Cardinality(T \ {d}) = Cardinality(T) - 1 /\ IsFiniteSet(T \ {d})
    BY <1>2, FS_RemoveElement
  <2>2. Cardinality(T \ {d}) \in Nat
    BY <2>1, FS_CardinalityType
  <2> QED
    BY <1>2, <2>1, <2>2
<1>4. ASSUME NEW T \in Q
      PROVE  T \in P /\ T \cup {d} \in P /\ Cardinality(T) \in 0 .. 5
             /\ Cardinality(T \cup {d}) = Cardinality(T) + 1
  <2>1. T \in P /\ T \cup {d} \in P /\ d \notin T
    OBVIOUS
  <2>2. Cardinality(T \cup {d}) = Cardinality(T) + 1
    BY <1>2, <2>1, FS_AddElement
  <2> QED
    BY <1>2, <2>1, <2>2
<1>5. \A T \in P : g[T] \in Int
  OBVIOUS
<1>6. \A s \in 0 .. 5 : Weight(s) \in Int
  BY WeightsAre
<1>7. A \in [Q -> Int] /\ B \in [Q -> Int]
  <2>1. ASSUME NEW T \in Q
        PROVE  Weight(Cardinality(T)) * g[T \cup {d}] \in Int /\ -(Weight(Cardinality(T)) * g[T]) \in Int
    <3> DEFINE w == Weight(Cardinality(T))
               y == g[T \cup {d}]
               z == g[T]
    <3>1. w \in Int /\ y \in Int /\ z \in Int
      BY <1>4, <1>5, <1>6
    <3> HIDE DEF w, y, z
    <3>2. w * y \in Int /\ -(w * z) \in Int
      BY <3>1
    <3> QED
      BY <3>2 DEF w, y, z
  <2> HIDE DEF Q
  <2> QED
    BY <2>1
<1>8. X \in [P -> Int] /\ Y \in [P -> Int]
  <2>1. \A T \in P : d \notin T => T \in Q
    OBVIOUS
  <2>2. ASSUME NEW T \in P
        PROVE  /\ d \in T => Weight(Cardinality(T) - 1) * g[T] \in Int
               /\ d \notin T => -(Weight(Cardinality(T)) * g[T]) \in Int
    <3> DEFINE w == Weight(Cardinality(T) - 1)
               y == Weight(Cardinality(T))
               z == g[T]
    <3>1. z \in Int /\ (d \in T => w \in Int) /\ (d \notin T => y \in Int)
      BY <1>3, <1>4, <1>5, <1>6, <2>1
    <3> HIDE DEF w, y, z
    <3>2. (d \in T => w * z \in Int) /\ (d \notin T => -(y * z) \in Int)
      BY <3>1
    <3> QED
      BY <3>2 DEF w, y, z
  <2> HIDE DEF P
  <2> QED
    BY <2>2
<1>9. [from \in Q |-> Weight(Cardinality(from)) * (g[from \cup {d}] - g[from])]
        = [from \in Q |-> A[from] + B[from]]
  <2>1. ASSUME NEW T \in Q
        PROVE  Weight(Cardinality(T)) * (g[T \cup {d}] - g[T]) = A[T] + B[T]
    <3> DEFINE w == Weight(Cardinality(T))
               y == g[T \cup {d}]
               z == g[T]
    <3>1. w \in Int /\ y \in Int /\ z \in Int
      BY <1>4, <1>5, <1>6
    <3>2. A[T] = w * y /\ B[T] = -(w * z)
      OBVIOUS
    <3> HIDE DEF w, y, z, A, B
    <3>3. w * (y - z) = w * y + (-(w * z))
      BY <3>1
    <3> QED
      BY <3>2, <3>3 DEF w, y, z
  <2> HIDE DEF A, B
  <2> QED
    BY <2>1
<1>10. [T \in P |-> IF d \in T THEN Weight(Cardinality(T) - 1) * g[T]
                               ELSE -(Weight(Cardinality(T)) * g[T])]
        = [T \in P |-> X[T] + Y[T]]
  <2>1. ASSUME NEW T \in P
        PROVE  (IF d \in T THEN Weight(Cardinality(T) - 1) * g[T] ELSE -(Weight(Cardinality(T)) * g[T]))
                 = X[T] + Y[T]
    <3>1. X[T] \in Int /\ Y[T] \in Int
      BY <1>8
    <3>2. X[T] = IF d \in T THEN Weight(Cardinality(T) - 1) * g[T] ELSE 0
      OBVIOUS
    <3>3. Y[T] = IF d \in T THEN 0 ELSE -(Weight(Cardinality(T)) * g[T])
      OBVIOUS
    <3> HIDE DEF X, Y
    <3> QED
      BY <3>1, <3>2, <3>3
  <2> HIDE DEF X, Y
  <2> QED
    BY <2>1
<1>11. Restrict(Y, Q) = B
  BY <1>4 DEF Restrict
<1>12. \A T \in P \ Q : Y[T] = 0
  OBVIOUS
<1>13. \A T \in P \ R : X[T] = 0
  OBVIOUS
<1> DEFINE XR == Restrict(X, R)
<1>14. XR \in [R -> Int] /\ \A T \in R : XR[T] = Weight(Cardinality(T) - 1) * g[T]
  BY <1>8 DEF Restrict
<1>15. /\ b \in [Q -> R]
       /\ \A T \in R : \E from \in Q : b[from] = T
       /\ \A x, y \in Q : b[x] = b[y] => x = y
  <2>1. b \in [Q -> R]
    OBVIOUS
  <2>2. ASSUME NEW T \in R PROVE \E from \in Q : b[from] = T
    <3>1. T \ {d} \in Q /\ b[T \ {d}] = T
      OBVIOUS
    <3> QED
      BY <3>1
  <2>3. ASSUME NEW x \in Q, NEW y \in Q, b[x] = b[y] PROVE x = y
    <3>1. x \cup {d} = y \cup {d} /\ d \notin x /\ d \notin y
      BY <2>3
    <3> QED
      BY <3>1
  <2> QED
    BY <2>1, <2>2, <2>3
<1>16. [from \in Q |-> XR[b[from]]] = A
  <2>1. ASSUME NEW T \in Q PROVE XR[b[T]] = A[T]
    <3>1. b[T] = T \cup {d} /\ b[T] \in R
      OBVIOUS
    <3>2. Cardinality(b[T]) - 1 = Cardinality(T)
      BY <1>4, <3>1
    <3> HIDE DEF XR
    <3> QED
      BY <1>14, <3>1, <3>2
  <2> HIDE DEF XR, b
  <2> QED
    BY <2>1
<1> HIDE DEF P, Q, R, A, B, X, Y, b, XR
<1>17. AddUp([from \in Q |-> A[from] + B[from]]) = AddUp(A) + AddUp(B)
  BY <1>1, <1>7, SumAdds
<1>18. AddUp([T \in P |-> X[T] + Y[T]]) = AddUp(X) + AddUp(Y)
  BY <1>1, <1>8, SumAdds
<1>19. AddUp(Y) = AddUp(B)
  <2>1. AddUp(Y) = PartSum(Y, Q)
    BY <1>1, <1>8, <1>12, SumExtends
  <2> QED
    BY <1>11, <2>1 DEF PartSum
<1>20. AddUp(X) = AddUp(A)
  <2>1. AddUp(X) = PartSum(X, R)
    BY <1>1, <1>8, <1>13, SumExtends
  <2>2. AddUp([from \in Q |-> XR[b[from]]]) = AddUp(XR)
    BY <1>1, <1>14, <1>15, SumRenamed
  <2> QED
    BY <1>16, <2>1, <2>2 DEF PartSum, XR
<1> QED
  BY <1>9, <1>10, <1>17, <1>18, <1>19, <1>20 DEF P, Q, ShareOf, Counted
-----------------------------------------------------------------------------
LEMMA SharesAddUp ==
  ASSUME NEW D, IsFiniteSet(D), Cardinality(D) = 6, NEW g \in [SUBSET D -> Int]
  PROVE  AddUp([d \in D |-> ShareOf(D, g, d)]) = 60 * (g[D] - g[{}])
<1> DEFINE P == SUBSET D
           Count(T) == Cardinality(T)
           Term(d, T) == IF d \in T THEN Weight(Count(T) - 1) * g[T] ELSE -(Weight(Count(T)) * g[T])
           F == [d \in D |-> [T \in P |-> Term(d, T)]]
           e == [T \in P |-> AddUp([d \in D |-> F[d][T]])]
           ends == {D, {}}
<1>1. \A d \in D : ShareOf(D, g, d) = AddUp(F[d])
  <2> TAKE d \in D
  <2>1. F[d] = Counted(D, g, d)
    BY DEF Counted
  <2> HIDE DEF F
  <2> QED
    BY <2>1, ShareIsSum
<1>2. \A T \in P : g[T] \in Int
  OBVIOUS
<1>3. ASSUME NEW T \in P
      PROVE  /\ IsFiniteSet(T) /\ Count(T) \in 0 .. 6
             /\ T = {} <=> Count(T) = 0
             /\ T = D <=> Count(T) = 6
  <2>1. IsFiniteSet(T) /\ Count(T) <= 6 /\ (Count(T) = 6 => T = D)
    BY FS_Subset
  <2>2. Count(T) \in Nat /\ (Count(T) = 0 <=> T = {})
    BY <2>1, FS_CardinalityType, FS_EmptySet
  <2> QED
    BY <2>1, <2>2
<1>4. \A s \in 0 .. 5 : Weight(s) \in Int
  BY WeightsAre
<1> HIDE DEF Count
<1>5. ASSUME NEW T \in P
      PROVE  \E a, b \in Int :
               /\ \A d \in D : Term(d, T) = IF d \in T THEN a ELSE b
               /\ T # {} => a = Weight(Count(T) - 1) * g[T]
               /\ T # D => b = -(Weight(Count(T)) * g[T])
  <2> DEFINE a == IF T = {} THEN 0 ELSE Weight(Count(T) - 1) * g[T]
             b == IF T = D THEN 0 ELSE -(Weight(Count(T)) * g[T])
  <2>1. a \in Int
    <3>1. CASE T = {}
      BY <3>1
    <3>2. CASE T # {}
      <4> DEFINE w == Weight(Count(T) - 1)
                 z == g[T]
      <4>1. Count(T) - 1 \in 0 .. 5
        BY <1>3, <3>2
      <4>2. w \in Int /\ z \in Int
        BY <1>2, <1>4, <4>1
      <4> HIDE DEF w, z
      <4>3. w * z \in Int
        BY <4>2
      <4> QED
        BY <3>2, <4>3 DEF w, z
    <3> QED
      BY <3>1, <3>2
  <2>2. b \in Int
    <3>1. CASE T = D
      BY <3>1
    <3>2. CASE T # D
      <4> DEFINE w == Weight(Count(T))
                 z == g[T]
      <4>1. Count(T) \in 0 .. 5
        BY <1>3, <3>2
      <4>2. w \in Int /\ z \in Int
        BY <1>2, <1>4, <4>1
      <4> HIDE DEF w, z
      <4>3. -(w * z) \in Int
        BY <4>2
      <4> QED
        BY <3>2, <4>3 DEF w, z
    <3> QED
      BY <3>1, <3>2
  <2>3. \A d \in D : Term(d, T) = IF d \in T THEN a ELSE b
    <3> TAKE d \in D
    <3>1. d \in T => T # {}
      OBVIOUS
    <3>2. d \notin T => T # D
      OBVIOUS
    <3> QED
      BY <3>1, <3>2
  <2>4. (T # {} => a = Weight(Count(T) - 1) * g[T]) /\ (T # D => b = -(Weight(Count(T)) * g[T]))
    OBVIOUS
  <2> HIDE DEF a, b, Term
  <2> QED
    BY <2>1, <2>2, <2>3, <2>4
<1>6. F \in [D -> [P -> Int]]
  <2>1. \A d \in D, T \in P : Term(d, T) \in Int
    <3> TAKE d \in D, T \in P
    <3> HIDE DEF Term, P
    <3> QED
      BY <1>5
  <2> HIDE DEF Term, P
  <2> QED
    BY <2>1
<1>7. \A d \in D, T \in P : F[d][T] = Term(d, T)
  <2> HIDE DEF Term
  <2> QED
    OBVIOUS
<1>8. IsFiniteSet(P) /\ D \in P /\ {} \in P /\ D # {}
  <2>1. D # {}
    BY FS_EmptySet
  <2> QED
    BY <2>1, FS_SUBSET
<1>9. AddUp([d \in D |-> AddUp(F[d])]) = AddUp(e)
  <2> HIDE DEF P, F
  <2> QED
    BY <1>6, <1>8, SumExchange
<1>10. ASSUME NEW T \in P
       PROVE  /\ e[T] \in Int
              /\ T = {} => e[T] = -(60 * g[T])
              /\ T = D => e[T] = 60 * g[T]
              /\ T \notin ends => e[T] = 0
  <2>1. PICK a \in Int, b \in Int :
          /\ \A d \in D : Term(d, T) = IF d \in T THEN a ELSE b
          /\ T # {} => a = Weight(Count(T) - 1) * g[T]
          /\ T # D => b = -(Weight(Count(T)) * g[T])
    <3> HIDE DEF P, Term
    <3> QED
      BY <1>5
  <2> DEFINE k == Count(T)
             z == g[T]
  <2>2. e[T] = AddUp([d \in D |-> F[d][T]])
    <3> HIDE DEF F
    <3> QED
      OBVIOUS
  <2>3. [d \in D |-> F[d][T]] = [d \in D |-> IF d \in T THEN a ELSE b]
    <3> HIDE DEF F, Term, P
    <3> QED
      BY <1>7, <2>1
  <2>4. AddUp([d \in D |-> IF d \in T THEN a ELSE b]) = a * Cardinality(T) + b * (Cardinality(D) - Cardinality(T))
    BY SumOfTwo
  <2> HIDE DEF e
  <2>5. e[T] = a * k + b * (6 - k)
    BY <2>2, <2>3, <2>4 DEF Count
  <2>6. z \in Int /\ k \in 0 .. 6 /\ (T = {} <=> k = 0) /\ (T = D <=> k = 6)
    BY <1>2, <1>3
  <2>7. (k # 0 => a = Weight(k - 1) * z) /\ (k # 6 => b = -(Weight(k) * z))
    BY <2>1, <2>6
  <2> HIDE DEF k, z
  <2>8. CASE k = 0
    <3>1. b = -(10 * z)
      BY <2>7, <2>8, WeightsAre
    <3>2. e[T] = -(60 * z) /\ e[T] \in Int
      BY <2>5, <2>6, <2>8, <3>1
    <3> QED
      BY <1>8, <2>6, <2>8, <3>2 DEF z
  <2>9. CASE k = 6
    <3>1. a = 10 * z
      <4>1. k - 1 = 5
        BY <2>9
      <4> QED
        BY <2>7, <2>9, <4>1, WeightsAre
    <3>2. e[T] = 60 * z /\ e[T] \in Int
      BY <2>5, <2>6, <2>9, <3>1
    <3> QED
      BY <1>8, <2>6, <2>9, <3>2 DEF z
  <2>10. CASE k \in 1 .. 5
    <3> DEFINE u == Weight(k - 1)
               v == Weight(k)
    <3>1. u \in Int /\ v \in Int /\ u * k = v * (6 - k)
      <4>1. k - 1 \in 0 .. 5 /\ k \in 0 .. 5
        BY <2>10
      <4> QED
        BY <1>4, <2>10, <4>1, WeightsAre
    <3>2. a = u * z /\ b = -(v * z)
      BY <2>7, <2>10
    <3> HIDE DEF u, v
    <3>3. a * k = (u * k) * z /\ b * (6 - k) = -((v * (6 - k)) * z)
      BY <2>6, <3>1, <3>2
    <3>4. a * k + b * (6 - k) = 0
      <4> DEFINE m == u * k
      <4>1. m \in Int /\ a * k = m * z /\ b * (6 - k) = -(m * z)
        BY <2>6, <3>1, <3>3
      <4> HIDE DEF m
      <4>2. m * z \in Int
        BY <2>6, <4>1
      <4> QED
        BY <4>1, <4>2
    <3> QED
      BY <2>5, <2>6, <2>10, <3>4
  <2>11. k = 0 \/ k = 6 \/ k \in 1 .. 5
    BY <2>6
  <2> QED
    BY <2>8, <2>9, <2>10, <2>11
<1>11. e \in [P -> Int]
  <2>1. e = [T \in P |-> e[T]]
    OBVIOUS
  <2> HIDE DEF e
  <2> QED
    BY <1>10, <2>1
<1> HIDE DEF e, P
<1>12. AddUp(e) = PartSum(e, ends)
  <2>1. ends \in SUBSET P /\ \A T \in P \ ends : e[T] = 0
    BY <1>8, <1>10
  <2> HIDE DEF ends
  <2> QED
    BY <1>8, <1>11, <2>1, SumExtends
<1>13. PartSum(e, ends) = e[D] + e[{}]
  <2>1. DOMAIN e = P /\ \A T \in DOMAIN e : e[T] \in Int
    BY <1>11
  <2>2. ends \in SUBSET DOMAIN e /\ D \in ends /\ ends \ {D} = {{}}
    BY <1>8, <2>1
  <2>3. PartSum(e, ends) = e[D] + PartSum(e, ends \ {D})
    <3> HIDE DEF ends
    <3> QED
      BY <1>8, <2>1, <2>2, PartSumTakes
  <2>4. PartSum(e, {{}}) = e[{}] + PartSum(e, {})
    <3> DEFINE none == {}
               one == {{}}
    <3>1. one \in SUBSET DOMAIN e /\ none \in one /\ one \ {none} = {}
      BY <1>8, <2>1
    <3>2. IsFiniteSet(DOMAIN e)
      BY <1>8, <2>1
    <3> HIDE DEF one, none
    <3>3. PartSum(e, one) = e[none] + PartSum(e, one \ {none})
      BY <2>1, <3>1, <3>2, PartSumTakes
    <3> QED
      BY <3>1, <3>3, Zenon DEF one, none
  <2>5. PartSum(e, {}) = 0
    BY <1>8, <2>1, PartSumEmpty
  <2>6. e[{}] \in Int
    BY <1>8, <1>10
  <2>7. PartSum(e, ends) = e[D] + PartSum(e, {{}})
    BY <2>2, <2>3, Zenon
  <2>8. PartSum(e, {{}}) = e[{}] + 0
    BY <2>4, <2>5, Zenon
  <2>9. PartSum(e, {{}}) = e[{}]
    BY <2>6, <2>8
  <2> QED
    BY <2>7, <2>9, Zenon
<1>14. e[D] = 60 * g[D] /\ e[{}] = -(60 * g[{}]) /\ g[D] \in Int /\ g[{}] \in Int
  BY <1>2, <1>8, <1>10
<1>15. 60 * g[D] + (-(60 * g[{}])) = 60 * (g[D] - g[{}])
  BY <1>14
<1>16. [d \in D |-> ShareOf(D, g, d)] = [d \in D |-> AddUp(F[d])]
  <2> HIDE DEF F
  <2> QED
    BY <1>1
<1> HIDE DEF F, ends
<1> QED
  BY <1>9, <1>12, <1>13, <1>14, <1>15, <1>16
-----------------------------------------------------------------------------
LEMMA SixDrivers == IsFiniteSet(Drivers) /\ Cardinality(Drivers) = 6
<1> DEFINE S1 == {"growth"}
           S2 == S1 \cup {"margin"}
           S3 == S2 \cup {"debt"}
           S4 == S3 \cup {"shares"}
           S5 == S4 \cup {"distributions"}
           S6 == S5 \cup {"multiple"}
<1>1. /\ "margin" \notin S1 /\ "debt" \notin S2 /\ "shares" \notin S3
      /\ "distributions" \notin S4 /\ "multiple" \notin S5
  OBVIOUS
<1>2. Drivers = S6
  BY DEF Drivers
<1>3. IsFiniteSet(S1) /\ Cardinality(S1) = 1
  BY FS_Singleton
<1> HIDE DEF S1
<1>4. IsFiniteSet(S2) /\ Cardinality(S2) = 2
  BY <1>1, <1>3, FS_AddElement
<1> HIDE DEF S2
<1>5. IsFiniteSet(S3) /\ Cardinality(S3) = 3
  BY <1>1, <1>4, FS_AddElement
<1> HIDE DEF S3
<1>6. IsFiniteSet(S4) /\ Cardinality(S4) = 4
  BY <1>1, <1>5, FS_AddElement
<1> HIDE DEF S4
<1>7. IsFiniteSet(S5) /\ Cardinality(S5) = 5
  BY <1>1, <1>6, FS_AddElement
<1> HIDE DEF S5
<1>8. IsFiniteSet(S6) /\ Cardinality(S6) = 6
  BY <1>1, <1>7, FS_AddElement
<1> QED
  BY <1>2, <1>8

LEMMA ScaledIsInt ==
  ASSUME NEW f, IsKnown(f), NEW d, IsEnd(d), NEW target, target.shares \in Int, target.shares > -10,
         d.shares \in {0, target.shares}, NEW horizon \in Horizons
  PROVE  ScaledHolding(f, d, target, horizon) \in Int
<1> DEFINE held == Holding(f, d, horizon)
           common == f.shares * 10 * (10 + target.shares)
           per == f.shares * (10 + d.shares)
           x == held[1]
<1>1. x \in Int /\ held[2] = per
  BY HoldingIs
<1>2. f.shares \in Int /\ f.shares > 0 /\ d.shares \in Int /\ d.shares > -10
  BY DEF IsKnown
<1>3. per \in Int /\ per > 0
  BY <1>2
<1>4. common \in Int
  BY <1>2
<1>5. ScaledHolding(f, d, target, horizon) = x * (common \div held[2])
  BY DEF ScaledHolding
<1> HIDE DEF common, per, x, held
<1>6. common \div per \in Int
  BY <1>3, <1>4
<1> QED
  BY <1>1, <1>5, <1>6

(* The drivers explain a value: they add up to what it gained, and those   *)
(* that do not change add nothing.                                         *)
Explained(f, target, h) ==
  LET parts == [driver \in Drivers |-> Contribution(f, driver, target, h)]
  IN  /\ AddUp(parts) = 60 * (ScaledHolding(f, target, target, h)
                                - ScaledHolding(f, Unchanged(f), target, h))
      /\ \A driver \in Drivers : target[driver] = Unchanged(f)[driver] => parts[driver] = 0

LEMMA AttributionExplains ==
  ASSUME NEW f, IsKnown(f), f.reportMargin \in Int, f.multiple \in Int,
         NEW b, IsBundle(b), b.shares > -10, NEW end \in Ends, NEW h \in Horizons
  PROVE  Explained(f, AtEnd(b, end), h)
<1> DEFINE target == AtEnd(b, end)
           D == Drivers
           At(from) == ScaledHolding(f, Mixed(f, target, from), target, h)
           g == [from \in SUBSET D |-> At(from)]
           Part(driver) == Contribution(f, driver, target, h)
<1>1. IsEnd(target) /\ target.shares = b.shares /\ target.shares \in Int
  BY EndsAreEnds DEF IsEnd, Drivers
<1>2. target = [name \in D |-> target[name]]
  BY DEF AtEnd
<1>3. /\ Unchanged(f) = [name \in D |-> Unchanged(f)[name]]
      /\ IsEnd(Unchanged(f)) /\ Unchanged(f).shares = 0
  BY DEF Unchanged, IsEnd, Drivers
<1> HIDE DEF target
<1>4. ASSUME NEW from \in SUBSET D PROVE At(from) \in Int
  <2> DEFINE d == Mixed(f, target, from)
  <2>1. "shares" \in D
    BY DEF Drivers
  <2>2. IsEnd(d) /\ d.shares \in {0, target.shares}
    BY <1>1, <1>3, <2>1 DEF Mixed, IsEnd
  <2> HIDE DEF d
  <2>3. ScaledHolding(f, d, target, h) \in Int
    BY <1>1, <2>2, ScaledIsInt
  <2> QED
    BY <2>3 DEF d
<1>5. Mixed(f, target, D) = target
  <2>1. Mixed(f, target, D) = [name \in D |-> target[name]]
    BY DEF Mixed
  <2> QED
    BY <1>2, <2>1
<1>6. Mixed(f, target, {}) = Unchanged(f)
  <2>1. Mixed(f, target, {}) = [name \in D |-> Unchanged(f)[name]]
    BY DEF Mixed
  <2> QED
    BY <1>3, <2>1
<1>7. \A driver \in D :
        Part(driver) = AddUp([from \in SUBSET (D \ {driver}) |->
                         Weight(Cardinality(from)) * (At(from \cup {driver}) - At(from))])
  BY Zenon DEF Contribution
<1>8. \A from \in SUBSET D : g[from] = At(from)
  OBVIOUS
<1> HIDE DEF At
<1>9. g \in [SUBSET D -> Int]
  BY <1>4
<1>10. D \in SUBSET D /\ {} \in SUBSET D
  OBVIOUS
<1>11. g[D] = ScaledHolding(f, target, target, h) /\ g[{}] = ScaledHolding(f, Unchanged(f), target, h)
  <2>1. g[D] = At(D) /\ g[{}] = At({})
    BY <1>8, <1>10
  <2> HIDE DEF g, D
  <2> QED
    BY <1>5, <1>6, <2>1 DEF At
<1> HIDE DEF g
<1>12. \A driver \in D : Part(driver) = ShareOf(D, g, driver)
  <2> TAKE driver \in D
  <2>1. \A from \in SUBSET (D \ {driver}) :
          Weight(Cardinality(from)) * (At(from \cup {driver}) - At(from))
            = Weight(Cardinality(from)) * (g[from \cup {driver}] - g[from])
    <3> TAKE from \in SUBSET (D \ {driver})
    <3>1. from \in SUBSET D /\ from \cup {driver} \in SUBSET D
      OBVIOUS
    <3>2. g[from] = At(from) /\ g[from \cup {driver}] = At(from \cup {driver})
      BY <1>8, <3>1
    <3> QED
      BY <3>2
  <2>2. [from \in SUBSET (D \ {driver}) |-> Weight(Cardinality(from)) * (At(from \cup {driver}) - At(from))]
          = [from \in SUBSET (D \ {driver}) |-> Weight(Cardinality(from)) * (g[from \cup {driver}] - g[from])]
    BY <2>1
  <2> HIDE DEF Part
  <2> QED
    BY <1>7, <2>2 DEF ShareOf
<1> DEFINE parts == [driver \in D |-> Part(driver)]
<1>13. AddUp(parts) = 60 * (g[D] - g[{}])
  <2>1. AddUp([driver \in D |-> ShareOf(D, g, driver)]) = 60 * (g[D] - g[{}])
    <3> HIDE DEF D
    <3> QED
      BY <1>9, SixDrivers, SharesAddUp DEF D
  <2>2. parts = [driver \in D |-> ShareOf(D, g, driver)]
    <3> HIDE DEF Part
    <3> QED
      BY <1>12
  <2> QED
    BY <2>1, <2>2
<1>14. ASSUME NEW driver \in D, target[driver] = Unchanged(f)[driver] PROVE Part(driver) = 0
  <2> DEFINE Q == SUBSET (D \ {driver})
             H == [from \in Q |-> Weight(Cardinality(from)) * (At(from \cup {driver}) - At(from))]
  <2>1. ASSUME NEW from \in Q PROVE H[from] = 0
    <3>1. Mixed(f, target, from \cup {driver}) = Mixed(f, target, from)
      BY <1>14 DEF Mixed
    <3>2. At(from \cup {driver}) = At(from)
      BY <3>1 DEF At
    <3>3. from \in SUBSET D /\ IsFiniteSet(from) /\ Cardinality(from) \in 0 .. 5
      <4>1. IsFiniteSet(D \ {driver}) /\ Cardinality(D \ {driver}) = 5
        BY SixDrivers, FS_RemoveElement
      <4>2. IsFiniteSet(from) /\ Cardinality(from) <= 5
        BY <4>1, FS_Subset
      <4>3. Cardinality(from) \in Nat
        BY <4>2, FS_CardinalityType
      <4> QED
        BY <4>2, <4>3
    <3>4. Weight(Cardinality(from)) \in Int /\ At(from) \in Int
      BY <1>4, <3>3, WeightsAre
    <3>5. H[from] = Weight(Cardinality(from)) * (At(from) - At(from))
      BY <3>2
    <3> DEFINE w == Weight(Cardinality(from))
               z == At(from)
    <3>6. w * (z - z) = 0
      <4>1. w \in Int /\ z \in Int
        BY <3>4
      <4> HIDE DEF w, z
      <4> QED
        BY <4>1
    <3> HIDE DEF H
    <3> QED
      BY <3>5, <3>6
  <2>2. IsFiniteSet(Q)
    <3>1. IsFiniteSet(D \ {driver})
      BY SixDrivers, FS_RemoveElement
    <3> QED
      BY <3>1, FS_SUBSET
  <2>3. H = [from \in Q |-> 0]
    <3>1. H = [from \in Q |-> H[from]]
      OBVIOUS
    <3> HIDE DEF H, Q
    <3> QED
      BY <2>1, <3>1
  <2>4. AddUp([from \in Q |-> 0]) = 0
    <3> DEFINE zero == 0
    <3>1. zero \in Int /\ \A c : c \in Nat => zero * c = 0
      OBVIOUS
    <3>2. Cardinality(Q) \in Nat
      BY <2>2, FS_CardinalityType
    <3> HIDE DEF zero, Q
    <3>3. AddUp([from \in Q |-> zero]) = zero * Cardinality(Q)
      BY <2>2, <3>1, SumConstant
    <3> QED
      BY <3>1, <3>2, <3>3 DEF zero
  <2>5. Part(driver) = AddUp(H)
    BY <1>7, Zenon
  <2> QED
    BY <2>3, <2>4, <2>5
<1>15. \A driver \in D : parts[driver] = Part(driver)
  <2> HIDE DEF Part
  <2> QED
    OBVIOUS
<1> HIDE DEF Part
<1>16. /\ AddUp(parts) = 60 * (ScaledHolding(f, target, target, h)
                                 - ScaledHolding(f, Unchanged(f), target, h))
       /\ \A driver \in D : target[driver] = Unchanged(f)[driver] => parts[driver] = 0
  <2> HIDE DEF parts
  <2> QED
    BY <1>11, <1>13, <1>14, <1>15
<1> QED
  BY <1>16, Zenon DEF parts, Part, target, Explained

(* A valuation that is stored agrees with itself, whatever the facts of    *)
(* the company and whatever was proposed: the returns the ranking reads    *)
(* are in the order of the prices the engine compared, and the drivers     *)
(* explain the whole of every value (ForwardScenarioEngine.analyze,        *)
(* build_scenario_driver_attribution).                                     *)
THEOREM StoredValuationAgrees == ValuationSpec => []ValuationAgrees
<1>1. ValuationMade => OutcomesAreOrdered
  <2> SUFFICES ASSUME ValuationMade, valuation.stage \in {"valued", "saved"} PROVE OutcomesAreOrdered
    BY DEF OutcomesAreOrdered
  <2> DEFINE p == valuation.proposal
             bands == Bands(facts, p)
             Follows(x, y) == AtMost(x.holding, y.holding) /\ x.return <= y.return
  <2>1. /\ facts \in Facts /\ p \in Proposals /\ ProposalHolds(facts, p)
        /\ valuation.analysis.bands = bands /\ OutputsHold(bands)
    BY DEF ValuationMade
  <2>2. /\ \A c \in ScenarioCases : Follows(bands[c].low, bands[c].high)
        /\ Follows(bands["bear"].high, bands["base"].low)
        /\ Follows(bands["base"].high, bands["bull"].low)
    <3> HIDE DEF p
    <3> QED
      BY <2>1, BandsAreOrdered
  <2> QED
    BY <2>1, <2>2 DEF OutcomesAreOrdered
<1>2. ValuationMade => AttributionAddsUp
  <2> SUFFICES ASSUME ValuationMade, valuation.attribution # << >>,
                      NEW c \in ScenarioCases, NEW end \in Ends
               PROVE  LET p == valuation.proposal
                          target == AtEnd(p.bundles[c], end)
                          parts == valuation.attribution[c][end]
                      IN  /\ AddUp(parts) = 60 * (ScaledHolding(facts, target, target, p.horizon)
                                 - ScaledHolding(facts, Unchanged(facts), target, p.horizon))
                          /\ \A driver \in Drivers :
                               target[driver] = Unchanged(facts)[driver] => parts[driver] = 0
    BY DEF AttributionAddsUp
  <2> DEFINE p == valuation.proposal
             b == p.bundles[c]
             h == p.horizon
             parts == [driver \in Drivers |-> Contribution(facts, driver, AtEnd(b, end), h)]
  <2>1. /\ facts \in Facts /\ p \in Proposals /\ ProposalHolds(facts, p) /\ Attributable(facts)
        /\ valuation.attribution = [k \in ScenarioCases |-> [t \in Ends |->
             [driver \in Drivers |-> Contribution(facts, driver, AtEnd(p.bundles[k], t), h)]]]
    BY DEF ValuationMade
  <2>2. valuation.attribution[c][end] = parts
    BY <2>1
  <2>3. h \in Horizons /\ IsBundle(b) /\ b.shares > -10
    <3>1. DOMAIN p.bundles = ScenarioCases /\ h \in Horizons /\ BundleFaults(b) = {}
      BY <2>1 DEF ProposalHolds
    <3>2. IsBundle(b)
      BY <2>1, <3>1, ValuesAreTyped
    <3>3. b.shares \in Int
      BY <3>2 DEF IsBundle
    <3> HIDE DEF b
    <3>4. ~(b.growth <= -10 \/ b.shares <= -10)
      BY <3>1 DEF BundleFaults
    <3> QED
      BY <3>1, <3>2, <3>3, <3>4
  <2>4. IsKnown(facts) /\ facts.reportMargin \in Int /\ facts.multiple \in Int
    <3>1. \A name \in {"price", "revenue", "shares", "debt", "multiple", "reportMargin"} :
            facts[name] \in Int \cup {Absent}
      BY <2>1, ValuesAreTyped
    <3>2. facts["reportMargin"] # Absent /\ facts["multiple"] # Absent
      BY <2>1 DEF Attributable
    <3>3. FactFaults(facts) = {}
      BY <2>1 DEF ProposalHolds
    <3>4. Positive(facts["revenue"]) /\ Positive(facts["shares"]) /\ facts["debt"] # Absent
      BY <3>3 DEF FactFaults
    <3> QED
      BY <3>1, <3>2, <3>4 DEF IsKnown, Positive
  <2>5. LET target == AtEnd(b, end)
        IN  /\ AddUp(parts) = 60 * (ScaledHolding(facts, target, target, h)
                                      - ScaledHolding(facts, Unchanged(facts), target, h))
            /\ \A driver \in Drivers : target[driver] = Unchanged(facts)[driver] => parts[driver] = 0
    <3>1. Explained(facts, AtEnd(b, end), h)
      <4> HIDE DEF b, h
      <4> QED
        BY <2>3, <2>4, AttributionExplains
    <3> QED
      BY <3>1, Zenon DEF Explained
  <2> HIDE DEF parts
  <2> QED
    BY <2>2, <2>5, Zenon
<1> QED
  BY <1>1, <1>2, EveryValuationIsMade, PTL DEF ValuationAgrees
=============================================================================
