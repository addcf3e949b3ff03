------------------------------ MODULE BoundedSets ------------------------------
(***************************************************************************)
(* Least and greatest elements of sets of integers, sums of finitely many  *)
(* integers, finite sets in order, and steps repeated.  The least-number   *)
(* principle takes the place of induction: what holds for every number up  *)
(* to a bound has no least counterexample.  It is derived from the strict  *)
(* inclusion of finite sets, which is well founded.                        *)
(***************************************************************************)
EXTENDS Sums, Functions, FiniteSetTheorems, TLAPS

(* A set of naturals up to a bound has a least element.                    *)
LEMMA LeastOf ==
  ASSUME NEW b \in Nat, NEW S \in SUBSET (0 .. b), S # {}
  PROVE  \E n \in S : \A k \in S : n <= k
<1> DEFINE T == {0 .. k : k \in S}
           R == StrictSubsetOrdering(0 .. b)
<1>1. IsFiniteSet(0 .. b)
  BY FS_Interval
<1>2. IsWellFoundedOn(R, SUBSET (0 .. b))
  <2>1. FiniteSubsetsOf(0 .. b) = SUBSET (0 .. b)
    BY <1>1, FS_FiniteSubsetsOfFinite
  <2>2. IsWellFoundedOn(StrictSubsetOrdering(0 .. b), FiniteSubsetsOf(0 .. b))
    BY FS_StrictSubsetOrderingWellFounded
  <2> QED
    BY <2>1, <2>2
<1>3. T \subseteq SUBSET (0 .. b)
  OBVIOUS
<1>4. T # {}
  <2>1. PICK k \in S : TRUE
    OBVIOUS
  <2>2. 0 .. k \in T
    BY <2>1
  <2> QED
    BY <2>2
<1>5. PICK t \in T : \A y \in T : ~(<<y, t>> \in R)
  <2> HIDE DEF R, T
  <2> QED
    BY <1>2, <1>3, <1>4, WFMin
<1>6. PICK n \in S : t = 0 .. n
  OBVIOUS
<1>7. ASSUME NEW k \in S, k < n PROVE FALSE
  <2>1. 0 .. k \in T /\ 0 .. k \subseteq 0 .. n
    BY <1>7
  <2>2. n \in 0 .. n /\ n \notin 0 .. k
    BY <1>7
  <2>3. <<0 .. k, t>> \in R
    BY <1>6, <2>1, <2>2, <1>3 DEF StrictSubsetOrdering
  <2> QED
    BY <1>5, <2>1, <2>3
<1>8. \A k \in S : n <= k
  BY <1>7
<1> QED
  BY <1>8

(* Min and Max of the community modules are in a set that is bounded.      *)
LEMMA MinIsLeast ==
  ASSUME NEW b \in Nat, NEW S \in SUBSET (0 .. b), S # {}
  PROVE  Min(S) \in S /\ \A k \in S : Min(S) <= k
<1>1. \E n \in S : \A k \in S : n <= k
  BY LeastOf
<1> QED
  BY <1>1 DEF Min

LEMMA MaxIsGreatest ==
  ASSUME NEW b \in Nat, NEW S \in SUBSET (0 .. b), S # {}
  PROVE  Max(S) \in S /\ \A k \in S : k <= Max(S)
<1> DEFINE D == {b - k : k \in S}
<1>1. D \in SUBSET (0 .. b)
  OBVIOUS
<1>2. D # {}
  <2>1. PICK k \in S : TRUE
    OBVIOUS
  <2> QED
    BY <2>1
<1>3. PICK d \in D : \A k \in D : d <= k
  <2> HIDE DEF D
  <2> QED
    BY <1>1, <1>2, LeastOf
<1>4. PICK m \in S : d = b - m
  OBVIOUS
<1>5. \A k \in S : m >= k
  <2> TAKE k \in S
  <2>1. b - k \in D
    OBVIOUS
  <2>2. b - m <= b - k
    BY <1>3, <1>4, <2>1
  <2> QED
    BY <2>2
<1>6. Max(S) \in S /\ \A k \in S : Max(S) >= k
  BY <1>5 DEF Max
<1> QED
  BY <1>6

(* Of some sets of finite sets, one has none of the others inside it.      *)
LEMMA MinimalSet ==
  ASSUME NEW D, IsFiniteSet(D), NEW T \in SUBSET SUBSET D, T # {}
  PROVE  \E s \in T : \A u \in T : u \subseteq s => u = s
<1> DEFINE R == StrictSubsetOrdering(D)
<1>1. IsWellFoundedOn(R, SUBSET D)
  BY FS_FiniteSubsetsOfFinite, FS_StrictSubsetOrderingWellFounded
<1>2. PICK s \in T : \A u \in T : ~(<<u, s>> \in R)
  <2> HIDE DEF R
  <2> QED
    BY <1>1, WFMin
<1>3. ASSUME NEW u \in T, u \subseteq s, u # s PROVE FALSE
  BY <1>2, <1>3 DEF StrictSubsetOrdering
<1> QED
  BY <1>3
-----------------------------------------------------------------------------
(* A sum takes its terms one after the other: Taken[s] is the sum of the   *)
(* terms in s.                                                             *)
Pick(s) == CHOOSE x \in s : TRUE
Taking(F, taken, T) ==
  taken = [s \in T |-> IF s = {} THEN 0 ELSE F[Pick(s)] + taken[s \ {Pick(s)}]]
Taken(F) == CHOOSE taken : Taking(F, taken, SUBSET DOMAIN F)
PartSum(F, S) == AddUp(Restrict(F, S))

LEMMA PickIn ==
  ASSUME NEW s, s # {}
  PROVE  Pick(s) \in s
BY DEF Pick

LEMMA SumIsTaken ==
  ASSUME NEW F
  PROVE  AddUp(F) = Taken(F)[DOMAIN F]
BY DEF AddUp, MapThenSumSet, MapThenFoldSet, Taken, Taking, Pick

(* There is such a function, for the sets of at most k terms first.        *)
LEMMA TakingExists ==
  ASSUME NEW F, IsFiniteSet(DOMAIN F)
  PROVE  Taking(F, Taken(F), SUBSET DOMAIN F)
<1> DEFINE D == DOMAIN F
           n == Cardinality(D)
           UpTo(k) == {s \in SUBSET D : Cardinality(s) <= k}
           Bad == {k \in 0 .. n : ~ \E taken : Taking(F, taken, UpTo(k))}
<1>1. n \in Nat
  BY FS_CardinalityType
<1>2. \A s \in SUBSET D : IsFiniteSet(s) /\ Cardinality(s) \in 0 .. n
  <2> TAKE s \in SUBSET D
  <2>1. IsFiniteSet(s) /\ Cardinality(s) <= n
    BY FS_Subset
  <2>2. Cardinality(s) \in Nat
    BY <2>1, FS_CardinalityType
  <2> QED
    BY <1>1, <2>1, <2>2
<1>3. Bad = {}
  <2> SUFFICES ASSUME Bad # {} PROVE FALSE
    OBVIOUS
  <2>1. Bad \in SUBSET (0 .. n)
    OBVIOUS
  <2>2. PICK k \in Bad : \A m \in Bad : k <= m
    <3> HIDE DEF Bad
    <3> QED
      BY <1>1, <2>1, LeastOf
  <2>3. k # 0
    <3>1. SUFFICES ASSUME k = 0 PROVE \E taken : Taking(F, taken, UpTo(0))
      BY <2>2
    <3>2. \A s \in UpTo(0) : s = {}
      BY <1>2, FS_EmptySet
    <3>3. Taking(F, [s \in UpTo(0) |-> 0], UpTo(0))
      BY <3>2 DEF Taking
    <3> QED
      BY <3>3
  <2>4. k \in 0 .. n /\ k - 1 \in 0 .. n
    BY <1>1, <2>2, <2>3
  <2>5. k - 1 \notin Bad
    <3>1. SUFFICES ASSUME k - 1 \in Bad PROVE FALSE
      OBVIOUS
    <3> HIDE DEF Bad
    <3>2. k <= k - 1
      BY <2>2, <3>1
    <3> QED
      BY <2>4, <3>2, <1>1
  <2>6. PICK less : Taking(F, less, UpTo(k - 1))
    BY <2>4, <2>5
  <2> DEFINE more == [s \in UpTo(k) |->
                        IF s = {} THEN 0 ELSE F[Pick(s)] + less[s \ {Pick(s)}]]
  <2>7. ASSUME NEW s \in UpTo(k), s # {}
        PROVE  /\ s \ {Pick(s)} \in UpTo(k - 1)
               /\ s \ {Pick(s)} \in UpTo(k)
               /\ more[s \ {Pick(s)}] = less[s \ {Pick(s)}]
    <3> DEFINE r == s \ {Pick(s)}
    <3>1. Pick(s) \in s
      BY <2>7, PickIn
    <3>2. Cardinality(r) = Cardinality(s) - 1
      BY <1>2, <3>1, FS_RemoveElement
    <3>3. r \in SUBSET D /\ Cardinality(r) <= k - 1 /\ Cardinality(r) <= k
      BY <1>2, <3>2, <1>1, <2>4
    <3>4. r \in UpTo(k - 1) /\ r \in UpTo(k)
      BY <3>3
    <3> HIDE DEF r
    <3>5. less[r] = IF r = {} THEN 0 ELSE F[Pick(r)] + less[r \ {Pick(r)}]
      BY <2>6, <3>4 DEF Taking
    <3>6. more[r] = IF r = {} THEN 0 ELSE F[Pick(r)] + less[r \ {Pick(r)}]
      BY <3>4
    <3> QED
      BY <3>4, <3>5, <3>6 DEF r
  <2>8. Taking(F, more, UpTo(k))
    <3>1. \A s \in UpTo(k) :
            more[s] = IF s = {} THEN 0 ELSE F[Pick(s)] + more[s \ {Pick(s)}]
      BY <2>7
    <3>2. more = [s \in UpTo(k) |-> more[s]]
      OBVIOUS
    <3> HIDE DEF more
    <3>3. more = [s \in UpTo(k) |->
                    IF s = {} THEN 0 ELSE F[Pick(s)] + more[s \ {Pick(s)}]]
      BY <3>1, <3>2
    <3> QED
      BY <3>3 DEF Taking
  <2> QED
    BY <2>2, <2>8
<1>4. UpTo(n) = SUBSET D
  BY <1>2, <1>1
<1>5. \E taken : Taking(F, taken, UpTo(n))
  <2>1. n \in 0 .. n /\ n \notin Bad
    <3> HIDE DEF Bad
    <3> QED
      BY <1>1, <1>3
  <2> QED
    BY <2>1
<1>6. \E taken : Taking(F, taken, SUBSET DOMAIN F)
  BY <1>4, <1>5
<1> QED
  BY <1>6 DEF Taken

LEMMA TakenStep ==
  ASSUME NEW F, IsFiniteSet(DOMAIN F), NEW s \in SUBSET DOMAIN F
  PROVE  Taken(F)[s] = IF s = {} THEN 0 ELSE F[Pick(s)] + Taken(F)[s \ {Pick(s)}]
BY TakingExists DEF Taking

(* What is taken of some terms is their sum.                               *)
LEMMA TakenIsPartSum ==
  ASSUME NEW F, IsFiniteSet(DOMAIN F), NEW S \in SUBSET DOMAIN F
  PROVE  PartSum(F, S) = Taken(F)[S]
<1> DEFINE G == Restrict(F, S)
           Bad == {s \in SUBSET S : Taken(G)[s] # Taken(F)[s]}
<1>1. IsFiniteSet(S)
  BY FS_Subset
<1>2. DOMAIN G = S /\ \A x \in S : G[x] = F[x]
  BY DEF Restrict
<1>3. Bad = {}
  <2> SUFFICES ASSUME Bad # {} PROVE FALSE
    OBVIOUS
  <2>1. Bad \in SUBSET SUBSET S
    OBVIOUS
  <2>2. PICK s \in Bad : \A u \in Bad : u \subseteq s => u = s
    <3> HIDE DEF Bad
    <3> QED
      BY <1>1, <2>1, MinimalSet
  <2>3. s \in SUBSET S /\ s \in SUBSET DOMAIN F /\ s \in SUBSET DOMAIN G
    BY <1>2
  <2> HIDE DEF G
  <2>4. Taken(F)[s] = IF s = {} THEN 0 ELSE F[Pick(s)] + Taken(F)[s \ {Pick(s)}]
    BY <2>3, TakenStep
  <2>5. Taken(G)[s] = IF s = {} THEN 0 ELSE G[Pick(s)] + Taken(G)[s \ {Pick(s)}]
    BY <1>1, <1>2, <2>3, TakenStep
  <2>6. s # {}
    BY <2>2, <2>4, <2>5
  <2>7. Pick(s) \in s
    BY <2>6, PickIn
  <2>8. G[Pick(s)] = F[Pick(s)]
    BY <1>2, <2>3, <2>7
  <2>9. s \ {Pick(s)} \notin Bad
    BY <2>2, <2>7
  <2>10. Taken(G)[s \ {Pick(s)}] = Taken(F)[s \ {Pick(s)}]
    BY <2>9, <2>3
  <2> QED
    BY <2>2, <2>4, <2>5, <2>6, <2>8, <2>10
<1>4. PartSum(F, S) = Taken(G)[S]
  BY <1>2, SumIsTaken DEF PartSum
<1> QED
  BY <1>3, <1>4

LEMMA PartSumStep ==
  ASSUME NEW F, IsFiniteSet(DOMAIN F), NEW s \in SUBSET DOMAIN F, s # {}
  PROVE  PartSum(F, s) = F[Pick(s)] + PartSum(F, s \ {Pick(s)})
<1>1. Pick(s) \in s
  BY PickIn
<1>2. s \ {Pick(s)} \in SUBSET DOMAIN F
  BY <1>1
<1>3. Taken(F)[s] = F[Pick(s)] + Taken(F)[s \ {Pick(s)}]
  BY TakenStep
<1> QED
  BY <1>2, <1>3, TakenIsPartSum

LEMMA PartSumEmpty ==
  ASSUME NEW F, IsFiniteSet(DOMAIN F)
  PROVE  PartSum(F, {}) = 0
BY TakenStep, TakenIsPartSum, Zenon

(* The sum of integers is an integer.                                      *)
LEMMA PartSumInt ==
  ASSUME NEW F, IsFiniteSet(DOMAIN F), \A x \in DOMAIN F : F[x] \in Int,
         NEW S \in SUBSET DOMAIN F
  PROVE  PartSum(F, S) \in Int
<1> DEFINE Bad == {s \in SUBSET DOMAIN F : PartSum(F, s) \notin Int}
<1>1. Bad = {}
  <2> SUFFICES ASSUME Bad # {} PROVE FALSE
    OBVIOUS
  <2>1. Bad \in SUBSET SUBSET DOMAIN F
    OBVIOUS
  <2>2. PICK s \in Bad : \A u \in Bad : u \subseteq s => u = s
    <3> HIDE DEF Bad
    <3> QED
      BY <2>1, MinimalSet
  <2>3. s # {}
    BY PartSumEmpty
  <2>4. Pick(s) \in s
    BY <2>3, PickIn
  <2>5. s \ {Pick(s)} \notin Bad
    BY <2>2, <2>4
  <2>6. PartSum(F, s \ {Pick(s)}) \in Int /\ F[Pick(s)] \in Int
    BY <2>4, <2>5
  <2>7. PartSum(F, s) = F[Pick(s)] + PartSum(F, s \ {Pick(s)})
    BY <2>3, PartSumStep
  <2>8. PartSum(F, s) \in Int
    BY <2>6, <2>7
  <2> QED
    BY <2>8
<1> QED
  BY <1>1

(* Any term may be taken first.                                            *)
LEMMA PartSumTakes ==
  ASSUME NEW F, IsFiniteSet(DOMAIN F), \A x \in DOMAIN F : F[x] \in Int,
         NEW S \in SUBSET DOMAIN F, NEW first \in S
  PROVE  PartSum(F, S) = F[first] + PartSum(F, S \ {first})
<1> DEFINE Bad == {s \in SUBSET DOMAIN F :
                     \E x \in s : PartSum(F, s) # F[x] + PartSum(F, s \ {x})}
<1>1. Bad = {}
  <2> SUFFICES ASSUME Bad # {} PROVE FALSE
    OBVIOUS
  <2>1. Bad \in SUBSET SUBSET DOMAIN F
    OBVIOUS
  <2>2. PICK s \in Bad : \A u \in Bad : u \subseteq s => u = s
    <3> HIDE DEF Bad
    <3> QED
      BY <2>1, MinimalSet
  <2>3. PICK x \in s : PartSum(F, s) # F[x] + PartSum(F, s \ {x})
    OBVIOUS
  <2> DEFINE p == Pick(s)
             without(y) == s \ {y}
             both == (s \ {x}) \ {p}
  <2>4. p \in s
    BY PickIn
  <2>5. PartSum(F, s) = F[p] + PartSum(F, s \ {p})
    BY PartSumStep
  <2>6. p # x
    BY <2>3, <2>5
  <2>7. s \ {p} \notin Bad /\ s \ {x} \notin Bad
    BY <2>2, <2>3, <2>4
  <2> HIDE DEF p
  <2>8. PartSum(F, s \ {p}) = F[x] + PartSum(F, (s \ {p}) \ {x})
    BY <2>3, <2>6, <2>7
  <2>9. PartSum(F, s \ {x}) = F[p] + PartSum(F, (s \ {x}) \ {p})
    BY <2>4, <2>6, <2>7
  <2>10. (s \ {p}) \ {x} = (s \ {x}) \ {p}
    OBVIOUS
  <2>11. both \in SUBSET DOMAIN F
    OBVIOUS
  <2>12. PartSum(F, both) \in Int
    BY <2>11, PartSumInt
  <2>13. F[x] \in Int /\ F[p] \in Int
    BY <2>3, <2>4
  <2>14. PartSum(F, s) = F[p] + (F[x] + PartSum(F, both))
    BY <2>5, <2>8, <2>10
  <2>15. PartSum(F, s) # F[x] + (F[p] + PartSum(F, both))
    BY <2>3, <2>9
  <2> DEFINE m == F[p]
             k == F[x]
             t == PartSum(F, both)
  <2> HIDE DEF m, k, t, both
  <2>16. m + (k + t) = k + (m + t)
    <3>1. m \in Int /\ k \in Int /\ t \in Int
      BY <2>12, <2>13 DEF m, k, t
    <3> QED
      BY <3>1
  <2> QED
    BY <2>14, <2>15, <2>16 DEF m, k, t
<1> QED
  BY <1>1
-----------------------------------------------------------------------------
(* The same of whole functions: a sum is that of all its terms.            *)
LEMMA SumIsPartSum ==
  ASSUME NEW D, NEW F \in [D -> Int]
  PROVE  DOMAIN F = D /\ AddUp(F) = PartSum(F, D)
<1>1. Restrict(F, D) = F
  BY DEF Restrict
<1> QED
  BY <1>1 DEF PartSum

LEMMA SumInt ==
  ASSUME NEW D, IsFiniteSet(D), NEW F \in [D -> Int]
  PROVE  AddUp(F) \in Int
BY SumIsPartSum, PartSumInt

LEMMA SumEmpty ==
  ASSUME NEW F, DOMAIN F = {}
  PROVE  AddUp(F) = 0
BY SumIsTaken, TakenStep, FS_EmptySet

LEMMA SumTakes ==
  ASSUME NEW D, IsFiniteSet(D), NEW F \in [D -> Int], NEW x \in D
  PROVE  AddUp(F) = F[x] + AddUp(Restrict(F, D \ {x}))
BY SumIsPartSum, PartSumTakes DEF PartSum

(* No smaller terms, no smaller sum.                                       *)
LEMMA SumOrder ==
  ASSUME NEW D, IsFiniteSet(D), NEW F \in [D -> Int], NEW G \in [D -> Int],
         \A x \in D : F[x] <= G[x]
  PROVE  AddUp(F) <= AddUp(G)
<1> DEFINE Bad == {s \in SUBSET D : ~(PartSum(F, s) <= PartSum(G, s))}
<1>1. Bad = {}
  <2> SUFFICES ASSUME Bad # {} PROVE FALSE
    OBVIOUS
  <2>1. Bad \in SUBSET SUBSET D
    OBVIOUS
  <2>2. PICK s \in Bad : \A u \in Bad : u \subseteq s => u = s
    <3> HIDE DEF Bad
    <3> QED
      BY <2>1, MinimalSet
  <2>3. DOMAIN F = D /\ DOMAIN G = D
    OBVIOUS
  <2>4. s # {}
    BY <2>3, PartSumEmpty
  <2> DEFINE x == Pick(s)
             r == s \ {x}
  <2>5. x \in s
    BY <2>4, PickIn
  <2>6. r \in SUBSET D /\ r \notin Bad
    BY <2>2, <2>5
  <2>7. PartSum(F, s) = F[x] + PartSum(F, r) /\ PartSum(G, s) = G[x] + PartSum(G, r)
    BY <2>3, <2>4, PartSumStep
  <2>8. PartSum(F, r) \in Int /\ PartSum(G, r) \in Int
    BY <2>3, <2>6, PartSumInt
  <2>9. PartSum(F, r) <= PartSum(G, r)
    BY <2>6
  <2>10. F[x] \in Int /\ G[x] \in Int /\ F[x] <= G[x]
    BY <2>5
  <2>11. F[x] + PartSum(F, r) <= G[x] + PartSum(G, r)
    <3> DEFINE a == F[x]  b == G[x]  c == PartSum(F, r)  d == PartSum(G, r)
    <3> HIDE DEF x, r, a, b, c, d
    <3>1. a + c <= b + d
      <4>1. a \in Int /\ b \in Int /\ c \in Int /\ d \in Int /\ a <= b /\ c <= d
        BY <2>8, <2>9, <2>10 DEF a, b, c, d
      <4> QED
        BY <4>1
    <3> QED
      BY <3>1 DEF a, b, c, d
  <2> QED
    BY <2>7, <2>11
<1>2. PartSum(F, D) <= PartSum(G, D)
  BY <1>1
<1> QED
  BY <1>2, SumIsPartSum

(* The sum of sums, term by term.                                          *)
LEMMA SumAdds ==
  ASSUME NEW D, IsFiniteSet(D), NEW F \in [D -> Int], NEW G \in [D -> Int]
  PROVE  AddUp([x \in D |-> F[x] + G[x]]) = AddUp(F) + AddUp(G)
<1> DEFINE H == [x \in D |-> F[x] + G[x]]
           Bad == {s \in SUBSET D : PartSum(H, s) # PartSum(F, s) + PartSum(G, s)}
<1>0. H \in [D -> Int] /\ \A x \in D : H[x] = F[x] + G[x]
  OBVIOUS
<1> HIDE DEF H
<1>1. Bad = {}
  <2> SUFFICES ASSUME Bad # {} PROVE FALSE
    OBVIOUS
  <2>1. Bad \in SUBSET SUBSET D
    OBVIOUS
  <2>2. PICK s \in Bad : \A u \in Bad : u \subseteq s => u = s
    <3> HIDE DEF Bad
    <3> QED
      BY <2>1, MinimalSet
  <2>3. DOMAIN F = D /\ DOMAIN G = D /\ DOMAIN H = D
    BY <1>0
  <2>4. s # {}
    <3>1. PartSum(F, {}) = 0 /\ PartSum(G, {}) = 0 /\ PartSum(H, {}) = 0
      BY <2>3, PartSumEmpty
    <3> QED
      BY <3>1
  <2> DEFINE x == Pick(s)
             r == s \ {x}
  <2>5. x \in s
    BY <2>4, PickIn
  <2>6. r \in SUBSET D /\ r \notin Bad
    BY <2>2, <2>5
  <2>7. /\ PartSum(F, s) = F[x] + PartSum(F, r) /\ PartSum(G, s) = G[x] + PartSum(G, r)
        /\ PartSum(H, s) = H[x] + PartSum(H, r)
    BY <2>3, <2>4, PartSumStep
  <2>8. PartSum(F, r) \in Int /\ PartSum(G, r) \in Int
    BY <2>3, <2>6, PartSumInt
  <2>9. PartSum(H, r) = PartSum(F, r) + PartSum(G, r)
    BY <2>6
  <2>10. F[x] \in Int /\ G[x] \in Int /\ H[x] = F[x] + G[x]
    BY <1>0, <2>5
  <2>11. H[x] + PartSum(H, r) = (F[x] + PartSum(F, r)) + (G[x] + PartSum(G, r))
    <3> DEFINE a == F[x]  b == G[x]  c == PartSum(F, r)  d == PartSum(G, r)
    <3> HIDE DEF x, r, a, b, c, d
    <3>1. (a + b) + (c + d) = (a + c) + (b + d)
      <4>1. a \in Int /\ b \in Int /\ c \in Int /\ d \in Int
        BY <2>8, <2>10 DEF a, b, c, d
      <4> QED
        BY <4>1
    <3> QED
      BY <3>1, <2>9, <2>10 DEF a, b, c, d
  <2> QED
    BY <2>7, <2>11
<1>2. PartSum(H, D) = PartSum(F, D) + PartSum(G, D)
  BY <1>1
<1>3. AddUp(H) = AddUp(F) + AddUp(G)
  BY <1>0, <1>2, SumIsPartSum
<1> QED
  BY <1>3 DEF H

(* A common factor comes out of the sum.                                   *)
LEMMA SumScales ==
  ASSUME NEW D, IsFiniteSet(D), NEW F \in [D -> Int], NEW k \in Int
  PROVE  AddUp([x \in D |-> k * F[x]]) = k * AddUp(F)
<1> DEFINE H == [x \in D |-> k * F[x]]
           Bad == {s \in SUBSET D : PartSum(H, s) # k * PartSum(F, s)}
<1>0. H \in [D -> Int] /\ \A x \in D : H[x] = k * F[x]
  OBVIOUS
<1> HIDE DEF H
<1>1. Bad = {}
  <2> SUFFICES ASSUME Bad # {} PROVE FALSE
    OBVIOUS
  <2>1. Bad \in SUBSET SUBSET D
    OBVIOUS
  <2>2. PICK s \in Bad : \A u \in Bad : u \subseteq s => u = s
    <3> HIDE DEF Bad
    <3> QED
      BY <2>1, MinimalSet
  <2>3. DOMAIN F = D /\ DOMAIN H = D
    BY <1>0
  <2>4. s # {}
    <3>1. PartSum(F, {}) = 0 /\ PartSum(H, {}) = 0
      BY <2>3, PartSumEmpty
    <3>2. k * 0 = 0
      OBVIOUS
    <3> QED
      BY <3>1, <3>2
  <2> DEFINE x == Pick(s)
             r == s \ {x}
  <2>5. x \in s
    BY <2>4, PickIn
  <2>6. r \in SUBSET D /\ r \notin Bad
    BY <2>2, <2>5
  <2>7. PartSum(F, s) = F[x] + PartSum(F, r) /\ PartSum(H, s) = H[x] + PartSum(H, r)
    BY <2>3, <2>4, PartSumStep
  <2>8. PartSum(F, r) \in Int
    BY <2>3, <2>6, PartSumInt
  <2>9. PartSum(H, r) = k * PartSum(F, r)
    BY <2>6
  <2>10. F[x] \in Int /\ H[x] = k * F[x]
    BY <1>0, <2>5
  <2>11. H[x] + PartSum(H, r) = k * (F[x] + PartSum(F, r))
    <3> DEFINE a == F[x]  b == PartSum(F, r)
    <3> HIDE DEF x, r, a, b
    <3>1. (k * a) + (k * b) = k * (a + b)
      <4>1. a \in Int /\ b \in Int
        BY <2>8, <2>10 DEF a, b
      <4> QED
        BY <4>1
    <3> QED
      BY <3>1, <2>9, <2>10 DEF a, b
  <2> QED
    BY <2>7, <2>11
<1>2. PartSum(H, D) = k * PartSum(F, D)
  BY <1>1
<1>3. AddUp(H) = k * AddUp(F)
  BY <1>0, <1>2, SumIsPartSum
<1> QED
  BY <1>3 DEF H

(* Equal terms.                                                            *)
LEMMA SumConstant ==
  ASSUME NEW D, IsFiniteSet(D), NEW k \in Int
  PROVE  AddUp([x \in D |-> k]) = k * Cardinality(D)
<1> DEFINE H == [x \in D |-> k]
           Bad == {s \in SUBSET D : PartSum(H, s) # k * Cardinality(s)}
<1>0. H \in [D -> Int] /\ \A x \in D : H[x] = k
  OBVIOUS
<1> HIDE DEF H
<1>1. Bad = {}
  <2> SUFFICES ASSUME Bad # {} PROVE FALSE
    OBVIOUS
  <2>1. Bad \in SUBSET SUBSET D
    OBVIOUS
  <2>2. PICK s \in Bad : \A u \in Bad : u \subseteq s => u = s
    <3> HIDE DEF Bad
    <3> QED
      BY <2>1, MinimalSet
  <2>3. DOMAIN H = D
    BY <1>0
  <2>4. s # {}
    <3>1. PartSum(H, {}) = 0 /\ Cardinality({}) = 0
      BY <2>3, PartSumEmpty, FS_EmptySet
    <3>2. k * 0 = 0
      OBVIOUS
    <3> QED
      BY <3>1, <3>2
  <2> DEFINE x == Pick(s)
             r == s \ {x}
  <2>5. x \in s
    BY <2>4, PickIn
  <2>6. r \in SUBSET D /\ r \notin Bad
    BY <2>2, <2>5
  <2>7. PartSum(H, s) = k + PartSum(H, r)
    BY <1>0, <2>3, <2>4, <2>5, PartSumStep
  <2>8. IsFiniteSet(s) /\ IsFiniteSet(r) /\ Cardinality(r) = Cardinality(s) - 1
    BY <2>5, FS_Subset, FS_RemoveElement
  <2>9. Cardinality(s) \in Int /\ Cardinality(r) \in Int
    BY <2>8, FS_CardinalityType
  <2>10. PartSum(H, r) = k * Cardinality(r)
    BY <2>6
  <2>11. k + k * Cardinality(r) = k * Cardinality(s)
    <3> DEFINE a == Cardinality(s)  b == Cardinality(r)
    <3> HIDE DEF x, r, a, b
    <3>1. k + k * (a - 1) = k * a
      <4>1. a \in Int
        BY <2>9 DEF a
      <4> QED
        BY <4>1
    <3>2. b = a - 1
      BY <2>8 DEF a, b
    <3> QED
      BY <3>1, <3>2 DEF a, b
  <2> QED
    BY <2>7, <2>10, <2>11
<1>2. PartSum(H, D) = k * Cardinality(D)
  BY <1>1
<1>3. AddUp(H) = k * Cardinality(D)
  BY <1>0, <1>2, SumIsPartSum
<1> QED
  BY <1>3 DEF H

(* Terms that are nothing may be left out.                                 *)
LEMMA SumExtends ==
  ASSUME NEW D, IsFiniteSet(D), NEW F \in [D -> Int], NEW S \in SUBSET D,
         \A x \in D \ S : F[x] = 0
  PROVE  AddUp(F) = PartSum(F, S)
<1> DEFINE Bad == {s \in SUBSET D : PartSum(F, s) # PartSum(F, s \cap S)}
<1>1. Bad = {}
  <2> SUFFICES ASSUME Bad # {} PROVE FALSE
    OBVIOUS
  <2>1. Bad \in SUBSET SUBSET D
    OBVIOUS
  <2>2. PICK s \in Bad : \A u \in Bad : u \subseteq s => u = s
    <3> HIDE DEF Bad
    <3> QED
      BY <2>1, MinimalSet
  <2>3. s # s \cap S
    BY <2>2
  <2>4. PICK x \in s : x \notin S
    BY <2>3
  <2> DEFINE r == s \ {x}
  <2>5. r \in SUBSET D /\ r \notin Bad /\ r \cap S = s \cap S
    BY <2>2, <2>4
  <2>6. PartSum(F, s) = F[x] + PartSum(F, r)
    BY PartSumTakes
  <2>7. PartSum(F, r) \in Int /\ F[x] = 0
    BY <2>4, <2>5, PartSumInt
  <2>8. PartSum(F, r) = PartSum(F, s \cap S)
    BY <2>5
  <2>9. F[x] + PartSum(F, r) = PartSum(F, r)
    <3> DEFINE a == PartSum(F, r)
    <3> HIDE DEF a
    <3>1. 0 + a = a
      BY <2>7 DEF a
    <3> QED
      BY <3>1, <2>7 DEF a
  <2>10. s \in Bad
    OBVIOUS
  <2> HIDE DEF r
  <2> QED
    BY <2>10, <2>6, <2>8, <2>9
<1>2. PartSum(F, D) = PartSum(F, D \cap S)
  BY <1>1
<1>3. D \cap S = S
  OBVIOUS
<1> QED
  BY <1>2, <1>3, SumIsPartSum

(* A sum of positive terms is positive.                                    *)
LEMMA SumPositive ==
  ASSUME NEW D, IsFiniteSet(D), D # {}, NEW F \in [D -> Int], \A x \in D : F[x] > 0
  PROVE  AddUp(F) > 0
<1> DEFINE ones == [x \in D |-> 1]
<1>1. ones \in [D -> Int] /\ \A x \in D : ones[x] <= F[x]
  OBVIOUS
<1>2. AddUp(ones) = 1 * Cardinality(D)
  <2>1. \A k \in Int : AddUp([x \in D |-> k]) = k * Cardinality(D)
    BY SumConstant
  <2>2. 1 \in Int
    OBVIOUS
  <2>3. AddUp([x \in D |-> 1]) = 1 * Cardinality(D)
    BY <2>1, <2>2, Zenon
  <2> QED
    BY <2>3
<1>3. Cardinality(D) \in Nat /\ Cardinality(D) # 0
  BY FS_CardinalityType, FS_EmptySet
<1>4. AddUp(ones) > 0
  BY <1>2, <1>3
<1> HIDE DEF ones
<1>5. AddUp(ones) <= AddUp(F) /\ AddUp(ones) \in Int /\ AddUp(F) \in Int
  BY <1>1, SumOrder, SumInt
<1> QED
  BY <1>4, <1>5
(* The rows and the columns of a table add up to the same.                 *)
LEMMA SumExchange ==
  ASSUME NEW D, IsFiniteSet(D), NEW E, IsFiniteSet(E), NEW F \in [D -> [E -> Int]]
  PROVE  AddUp([d \in D |-> AddUp(F[d])])
           = AddUp([e \in E |-> AddUp([d \in D |-> F[d][e]])])
<1> DEFINE Rows == [d \in D |-> AddUp(F[d])]
           Column(e) == [d \in D |-> F[d][e]]
           Columns(s) == [e \in E |-> PartSum(Column(e), s)]
           Bad == {s \in SUBSET D : PartSum(Rows, s) # AddUp(Columns(s))}
<1>1. \A d \in D : F[d] \in [E -> Int] /\ AddUp(F[d]) \in Int
  BY SumInt
<1>2. Rows \in [D -> Int] /\ \A d \in D : Rows[d] = AddUp(F[d])
  BY <1>1
<1>3. \A e \in E : Column(e) \in [D -> Int] /\ \A d \in D : Column(e)[d] = F[d][e]
  BY <1>1
<1>4. \A s \in SUBSET D : Columns(s) \in [E -> Int]
  <2> TAKE s \in SUBSET D
  <2>1. ASSUME NEW e \in E PROVE PartSum(Column(e), s) \in Int
    <3>1. Column(e) \in [D -> Int]
      BY <1>3
    <3> HIDE DEF Column
    <3> QED
      BY <3>1, PartSumInt
  <2> QED
    BY <2>1
<1>5. Bad = {}
  <2> SUFFICES ASSUME Bad # {} PROVE FALSE
    OBVIOUS
  <2>1. Bad \in SUBSET SUBSET D
    OBVIOUS
  <2>2. PICK s \in Bad : \A u \in Bad : u \subseteq s => u = s
    <3> HIDE DEF Bad
    <3> QED
      BY <2>1, MinimalSet
  <2> HIDE DEF Rows, Column
  <2>3. s # {}
    <3>1. DOMAIN Rows = D /\ PartSum(Rows, {}) = 0
      BY <1>2, PartSumEmpty
    <3>2. ASSUME NEW e \in E PROVE PartSum(Column(e), {}) = 0
      <4>1. DOMAIN Column(e) = D
        BY <1>3
      <4> QED
        BY <4>1, PartSumEmpty
    <3>3. Columns({}) = [e \in E |-> 0]
      BY <3>2
    <3>4. AddUp([e \in E |-> 0]) = 0 * Cardinality(E)
      <4>1. \A k \in Int : AddUp([e \in E |-> k]) = k * Cardinality(E)
        BY SumConstant
      <4>2. 0 \in Int
        OBVIOUS
      <4> QED
        BY <4>1, <4>2, Zenon
    <3>5. 0 * Cardinality(E) = 0
      BY FS_CardinalityType
    <3> HIDE DEF Columns
    <3>6. AddUp(Columns({})) = 0
      BY <3>3, <3>4, <3>5
    <3> QED
      BY <3>1, <3>6
  <2> DEFINE x == Pick(s)
             r == s \ {x}
  <2>4. x \in s /\ x \in D
    BY <2>3, PickIn
  <2>5. r \in SUBSET D /\ r \notin Bad
    BY <2>2, <2>4
  <2>6. PartSum(Rows, s) = AddUp(F[x]) + PartSum(Rows, r)
    BY <1>2, <2>3, <2>4, PartSumStep
  <2>7. PartSum(Rows, r) = AddUp(Columns(r))
    BY <2>5
  <2> HIDE DEF x
  <2>8. ASSUME NEW e \in E
        PROVE  Columns(s)[e] = F[x][e] + Columns(r)[e]
    <3>1. Column(e) \in [D -> Int] /\ Column(e)[x] = F[x][e]
      BY <1>3, <2>4
    <3>2. PartSum(Column(e), s) = Column(e)[x] + PartSum(Column(e), r)
      BY <3>1, <2>4, PartSumTakes
    <3> QED
      BY <3>1, <3>2
  <2>9. Columns(s) = [e \in E |-> F[x][e] + Columns(r)[e]]
    BY <2>8
  <2>10. F[x] \in [E -> Int] /\ Columns(r) \in [E -> Int]
    BY <1>1, <1>4, <2>4, <2>5
  <2> HIDE DEF Columns
  <2>11. AddUp([e \in E |-> F[x][e] + Columns(r)[e]]) = AddUp(F[x]) + AddUp(Columns(r))
    BY <2>10, SumAdds
  <2>12. PartSum(Rows, s) = AddUp(Columns(s))
    BY <2>6, <2>7, <2>9, <2>11
  <2> QED
    BY <2>12
<1>6. PartSum(Rows, D) = AddUp(Columns(D))
  BY <1>5
<1>7. Columns(D) = [e \in E |-> AddUp(Column(e))]
  <2>1. ASSUME NEW e \in E PROVE PartSum(Column(e), D) = AddUp(Column(e))
    <3>1. Column(e) \in [D -> Int]
      BY <1>3
    <3> HIDE DEF Column
    <3> QED
      BY <3>1, SumIsPartSum
  <2> QED
    BY <2>1
<1>8. AddUp(Rows) = PartSum(Rows, D)
  BY <1>2, SumIsPartSum
<1> QED
  BY <1>6, <1>7, <1>8

(* The terms may have other names.                                         *)
LEMMA SumRenamed ==
  ASSUME NEW D, IsFiniteSet(D), NEW E, IsFiniteSet(E), NEW F \in [D -> Int],
         NEW b \in [E -> D], \A x \in D : \E e \in E : b[e] = x,
         \A x, y \in E : b[x] = b[y] => x = y
  PROVE  AddUp([e \in E |-> F[b[e]]]) = AddUp(F)
<1> DEFINE H == [e \in E |-> F[b[e]]]
           Image(s) == {b[e] : e \in s}
           Bad == {s \in SUBSET E : PartSum(H, s) # PartSum(F, Image(s))}
<1>0. H \in [E -> Int] /\ \A e \in E : H[e] = F[b[e]]
  OBVIOUS
<1> HIDE DEF H
<1>1. Bad = {}
  <2> SUFFICES ASSUME Bad # {} PROVE FALSE
    OBVIOUS
  <2>1. Bad \in SUBSET SUBSET E
    OBVIOUS
  <2>2. PICK s \in Bad : \A u \in Bad : u \subseteq s => u = s
    <3> HIDE DEF Bad
    <3> QED
      BY <2>1, MinimalSet
  <2>3. DOMAIN F = D /\ DOMAIN H = E
    BY <1>0
  <2>4. s # {}
    <3>1. PartSum(H, {}) = 0 /\ PartSum(F, {}) = 0
      BY <2>3, PartSumEmpty
    <3>2. Image({}) = {}
      OBVIOUS
    <3> HIDE DEF Image
    <3> QED
      BY <3>1, <3>2
  <2> DEFINE x == Pick(s)
             r == s \ {x}
  <2>5. x \in s /\ x \in E
    BY <2>4, PickIn
  <2>6. r \in SUBSET E /\ r \notin Bad
    BY <2>2, <2>5
  <2>7. PartSum(H, s) = H[x] + PartSum(H, r)
    BY <2>3, <2>4, PartSumStep
  <2> HIDE DEF x
  <2>8. Image(s) \in SUBSET D /\ b[x] \in Image(s) /\ Image(s) \ {b[x]} = Image(r)
    <3>1. Image(s) \in SUBSET D /\ b[x] \in Image(s)
      BY <2>5
    <3>2. \A e \in s : b[e] = b[x] => e = x
      BY <2>5
    <3> QED
      BY <3>1, <3>2
  <2>9. PartSum(F, Image(s)) = F[b[x]] + PartSum(F, Image(s) \ {b[x]})
    <3> HIDE DEF Image
    <3> QED
      BY <2>3, <2>8, PartSumTakes
  <2>10. PartSum(H, r) = PartSum(F, Image(r)) /\ H[x] = F[b[x]]
    BY <1>0, <2>5, <2>6
  <2> HIDE DEF Image
  <2>11. PartSum(H, s) = PartSum(F, Image(s))
    BY <2>7, <2>8, <2>9, <2>10
  <2> QED
    BY <2>11
<1>2. PartSum(H, E) = PartSum(F, Image(E))
  BY <1>1
<1>3. Image(E) = D
  OBVIOUS
<1> HIDE DEF Image
<1>4. AddUp(H) = AddUp(F)
  BY <1>0, <1>2, <1>3, SumIsPartSum
<1> QED
  BY <1>4 DEF H
-----------------------------------------------------------------------------
(* The order of a set has every element of it once.                        *)
LEMMA InOrderLists ==
  ASSUME NEW S \in SUBSET Int, IsFiniteSet(S)
  PROVE  /\ InOrder(S) \in [1 .. Cardinality(S) -> S]
         /\ \A x \in S : \E k \in 1 .. Cardinality(S) :
              InOrder(S)[k] = x /\ Cardinality({y \in S : y < x}) = k - 1
         /\ Cardinality(S) \in Nat
<1> DEFINE n == Cardinality(S)
           Below(x) == {y \in S : y < x}
           rank == [x \in S |-> Cardinality(Below(x)) + 1]
<1>1. n \in Nat
  BY FS_CardinalityType
<1>2. \A x \in S : IsFiniteSet(Below(x)) /\ Cardinality(Below(x)) \in 0 .. n - 1
  <2> TAKE x \in S
  <2>1. Below(x) \in SUBSET S /\ Below(x) # S
    OBVIOUS
  <2> HIDE DEF Below
  <2>2. /\ IsFiniteSet(Below(x)) /\ Cardinality(Below(x)) <= n
        /\ (n = Cardinality(Below(x)) => S = Below(x))
    BY <2>1, FS_Subset
  <2>3. Cardinality(Below(x)) \in Nat
    BY <2>2, FS_CardinalityType
  <2> QED
    BY <1>1, <2>1, <2>2, <2>3
<1>3. \A x, y \in S : x < y => Cardinality(Below(x)) < Cardinality(Below(y))
  <2> TAKE x, y \in S
  <2> HAVE x < y
  <2>1. Below(x) \in SUBSET Below(y) /\ x \in Below(y) /\ x \notin Below(x)
    <3>1. x \in Int /\ y \in Int /\ \A z \in S : z \in Int
      OBVIOUS
    <3>2. \A z \in S : z < x => z < y
      BY <3>1
    <3>3. ~(x < x)
      BY <3>1
    <3> QED
      BY <3>2, <3>3
  <2>2. IsFiniteSet(Below(x)) /\ IsFiniteSet(Below(y))
        /\ Cardinality(Below(x)) \in Int /\ Cardinality(Below(y)) \in Int
    BY <1>1, <1>2
  <2> HIDE DEF Below
  <2>3. /\ Cardinality(Below(x)) <= Cardinality(Below(y))
        /\ (Cardinality(Below(y)) = Cardinality(Below(x)) => Below(y) = Below(x))
    BY <2>1, <2>2, FS_Subset
  <2> QED
    BY <2>1, <2>2, <2>3
<1>4. rank \in [S -> 1 .. n] /\ \A x \in S : rank[x] = Cardinality(Below(x)) + 1
  <2> HIDE DEF Below, n
  <2>1. \A x \in S : Cardinality(Below(x)) + 1 \in 1 .. n
    BY <1>1, <1>2
  <2> QED
    BY <2>1
<1>5. \A x, y \in S : x # y => rank[x] # rank[y]
  <2> HIDE DEF rank, Below
  <2> TAKE x, y \in S
  <2>1. CASE x < y
    BY <1>1, <1>2, <1>3, <1>4, <2>1
  <2>2. CASE y < x
    BY <1>1, <1>2, <1>3, <1>4, <2>2
  <2>3. x < y \/ y < x \/ x = y
    OBVIOUS
  <2> QED
    BY <2>1, <2>2, <2>3
<1> HIDE DEF rank
<1>6. rank \in Injection(S, 1 .. n)
  BY <1>4, <1>5 DEF Injection, IsInjective
<1>7. IsFiniteSet(1 .. n) /\ Cardinality(1 .. n) = n
  BY <1>1, FS_Interval
<1>8. rank \in Surjection(S, 1 .. n)
  BY <1>6, <1>7, FS_Injection
<1>9. \A k \in 1 .. n : \E x \in S : rank[x] = k
  BY <1>8 DEF Surjection
<1>10. ASSUME NEW k \in 1 .. n
       PROVE  InOrder(S)[k] \in S /\ rank[InOrder(S)[k]] = k
  <2>1. \E x \in S : Cardinality(Below(x)) = k - 1
    <3>1. PICK x \in S : rank[x] = k
      BY <1>9
    <3>2. Cardinality(Below(x)) = k - 1
      BY <1>1, <1>2, <1>4, <3>1
    <3> QED
      BY <3>2
  <2>2. InOrder(S)[k] = CHOOSE x \in S : Cardinality(Below(x)) = k - 1
    BY DEF InOrder
  <2>3. InOrder(S)[k] \in S /\ Cardinality(Below(InOrder(S)[k])) = k - 1
    BY <2>1, <2>2
  <2> HIDE DEF Below
  <2>4. k - 1 + 1 = k
    OBVIOUS
  <2> QED
    BY <1>4, <2>3, <2>4
<1>11. InOrder(S) \in [1 .. n -> S]
  <2>1. InOrder(S) = [k \in 1 .. n |-> InOrder(S)[k]]
    BY DEF InOrder
  <2> QED
    BY <1>10, <2>1
<1>12. ASSUME NEW x \in S
       PROVE  \E k \in 1 .. n : InOrder(S)[k] = x /\ Cardinality(Below(x)) = k - 1
  <2>1. rank[x] \in 1 .. n /\ Cardinality(Below(x)) = rank[x] - 1
    <3>1. Cardinality(Below(x)) \in Int /\ rank[x] = Cardinality(Below(x)) + 1
      BY <1>1, <1>2, <1>4
    <3> HIDE DEF Below
    <3> QED
      BY <1>4, <3>1
  <2>2. InOrder(S)[rank[x]] \in S /\ rank[InOrder(S)[rank[x]]] = rank[x]
    BY <1>10, <2>1
  <2>3. InOrder(S)[rank[x]] = x
    BY <1>5, <2>2
  <2> QED
    BY <2>1, <2>3
<1> QED
  BY <1>1, <1>11, <1>12

(* An element with fewer than some number after it is among the last.      *)
LEMMA LateInOrder ==
  ASSUME NEW S \in SUBSET Int, IsFiniteSet(S), NEW c \in Nat,
         NEW x \in S, Cardinality({y \in S : y > x}) < c
  PROVE  \E k \in 1 .. Cardinality(S) : InOrder(S)[k] = x /\ k > Cardinality(S) - c
<1> DEFINE before == {y \in S : y < x}
           behind == {y \in S : y > x}
<1>1. PICK k \in 1 .. Cardinality(S) : InOrder(S)[k] = x /\ Cardinality(before) = k - 1
  BY InOrderLists
<1>2. S = (before \cup behind) \cup {x} /\ x \notin before \cup behind /\ before \cap behind = {}
  <2>1. \A y \in S : /\ y < x \/ y > x \/ y = x
                    /\ ~(y < x /\ y > x)
    OBVIOUS
  <2>2. ~(x < x) /\ ~(x > x)
    OBVIOUS
  <2> QED
    BY <2>1, <2>2
<1>3. before \subseteq S /\ behind \subseteq S
  OBVIOUS
<1> HIDE DEF before, behind
<1>4. IsFiniteSet(before) /\ IsFiniteSet(behind)
  BY <1>3, FS_Subset
<1>5. Cardinality(before) \in Nat /\ Cardinality(behind) \in Nat /\ Cardinality(S) \in Nat
  BY <1>4, FS_CardinalityType
<1>6. IsFiniteSet(before \cup behind)
      /\ Cardinality(before \cup behind) = Cardinality(before) + Cardinality(behind)
  <2>1. Cardinality(before \cap behind) = 0
    BY <1>2, FS_EmptySet
  <2>2. IsFiniteSet(before \cup behind)
        /\ Cardinality(before \cup behind)
             = Cardinality(before) + Cardinality(behind) - Cardinality(before \cap behind)
    BY <1>4, FS_Union
  <2> QED
    BY <1>5, <2>1, <2>2
<1>7. Cardinality(S) = Cardinality(before) + Cardinality(behind) + 1
  BY <1>2, <1>5, <1>6, FS_AddElement
<1>8. Cardinality(behind) < c
  BY DEF behind
<1> QED
  BY <1>1, <1>5, <1>7, <1>8

(* A finite set of integers has a greatest element.                        *)
LEMMA MaxOfInts ==
  ASSUME NEW S \in SUBSET Int, IsFiniteSet(S), S # {}
  PROVE  Max(S) \in S /\ \A k \in S : k <= Max(S)
<1> DEFINE From(x) == {y \in S : x <= y}
           T == {From(x) : x \in S}
           D == S
<1>1. T \in SUBSET SUBSET D /\ IsFiniteSet(D) /\ T # {}
  OBVIOUS
<1> HIDE DEF T, D
<1>2. PICK u \in T : \A v \in T : v \subseteq u => v = u
  BY <1>1, MinimalSet
<1>3. PICK m \in S : u = From(m)
  BY DEF T
<1>4. ASSUME NEW k \in S, m < k PROVE FALSE
  <2>1. From(k) \in T
    BY DEF T
  <2>2. From(k) \subseteq From(m)
    <3> SUFFICES ASSUME NEW y \in S, k <= y PROVE m <= y
      OBVIOUS
    <3>1. k \in Int /\ m \in Int /\ y \in Int
      OBVIOUS
    <3> QED
      BY <1>4, <3>1
  <2>3. From(k) = From(m)
    BY <1>2, <1>3, <2>1, <2>2
  <2>4. m \in From(m) /\ m \notin From(k)
    BY <1>4
  <2> QED
    BY <2>3, <2>4
<1>5. \A k \in S : m >= k
  BY <1>4
<1>6. Max(S) \in S /\ \A k \in S : Max(S) >= k
  BY <1>5 DEF Max
<1> QED
  BY <1>6

(* From a start, a step can be repeated.                                   *)
Walks(X, F, x, n) == {f \in [0 .. n -> X] : f[0] = x /\ \A i \in 1 .. n : f[i] = F[f[i - 1]]}
LEMMA StepsAreTaken ==
  ASSUME NEW X, NEW F \in [X -> X], NEW x \in X, NEW n \in Nat
  PROVE  Walks(X, F, x, n) # {}
<1> SUFFICES \E f \in [0 .. n -> X] : f[0] = x /\ \A i \in 1 .. n : f[i] = F[f[i - 1]]
  BY DEF Walks
<1> DEFINE Walked(k, f) == f \in [0 .. k -> X] /\ f[0] = x /\ \A i \in 1 .. k : f[i] = F[f[i - 1]]
           Bad == {k \in 0 .. n : ~\E f : Walked(k, f)}
<1>1. CASE Bad = {}
  <2>1. n \notin Bad
    BY <1>1
  <2>2. PICK f : Walked(n, f)
    BY <2>1
  <2> QED
    BY <2>2
<1>2. CASE Bad # {}
  <2>1. Bad \in SUBSET (0 .. n)
    OBVIOUS
  <2>2. PICK m \in Bad : \A k \in Bad : m <= k
    <3> HIDE DEF Bad
    <3> QED
      BY <1>2, <2>1, LeastOf
  <2>3. m \in 0 .. n /\ ~\E f : Walked(m, f)
    BY <2>2
  <2>4. m # 0
    <3> DEFINE g == [i \in 0 .. 0 |-> x]
    <3>1. Walked(0, g)
      OBVIOUS
    <3> HIDE DEF g, Taken
    <3> QED
      BY <2>3, <3>1
  <2>5. m - 1 \notin Bad /\ m - 1 \in 0 .. n
    BY <2>2, <2>3, <2>4
  <2>6. PICK f : Walked(m - 1, f)
    BY <2>5
  <2> DEFINE g == [i \in 0 .. m |-> IF i = m THEN F[f[m - 1]] ELSE f[i]]
  <2>7. \A i \in 0 .. m - 1 : f[i] \in X /\ g[i] = f[i]
    BY <2>3, <2>4, <2>6
  <2>8. g[m] = F[f[m - 1]] /\ F[f[m - 1]] \in X
    <3>1. m - 1 \in 0 .. m - 1 /\ m \in 0 .. m
      BY <2>3, <2>4
    <3> QED
      BY <2>7, <3>1
  <2>9. g \in [0 .. m -> X]
    <3>1. \A i \in 0 .. m : g[i] \in X
      <4> TAKE i \in 0 .. m
      <4>1. i = m \/ i \in 0 .. m - 1
        BY <2>3
      <4> QED
        BY <2>7, <2>8, <4>1
    <3> QED
      BY <3>1
  <2>10. g[0] = x
    BY <2>3, <2>4, <2>6, <2>7
  <2>11. \A i \in 1 .. m : g[i] = F[g[i - 1]]
    <3> TAKE i \in 1 .. m
    <3>1. i - 1 \in 0 .. m - 1
      BY <2>3
    <3>2. g[i - 1] = f[i - 1]
      BY <2>7, <3>1
    <3>3. CASE i = m
      BY <2>8, <3>2, <3>3
    <3>4. CASE i \in 1 .. m - 1
      BY <2>6, <2>7, <3>2, <3>4
    <3> QED
      BY <2>3, <3>3, <3>4
  <2> HIDE DEF g
  <2> QED
    BY <2>3, <2>9, <2>10, <2>11
<1> QED
  BY <1>1, <1>2
=============================================================================
