----------------------------- MODULE StandingsProofs -----------------------------
(***************************************************************************)
(* Proofs about Standings: the table has one row for each user with a      *)
(* result, ranks count those who are better, and every row is on one page. *)
(***************************************************************************)
EXTENDS Standings, FiniteSetTheorems, NaturalsInduction, WellFoundedInduction, TLAPS

-----------------------------------------------------------------------------
(* Least numbers, least and greatest elements.                             *)

\* A set of numbers has a least one: what the proofs below use for induction.
LEMMA LeastNat ==
  ASSUME NEW T \in SUBSET Nat, T # {}
  PROVE  \E m \in T : \A n \in T : m <= n
<1> DEFINE R == OpToRel(<, Nat)
<1>1. PICK m \in T : \A n \in T : ~ (<<n, m>> \in R)
  <2>1. IsWellFoundedOn(R, Nat)
    BY NatLessThanWellFounded
  <2>2. T \subseteq Nat
    OBVIOUS
  <2> HIDE DEF R
  <2> QED BY <2>1, <2>2, WFMin
<1>2. R = {ss \in Nat \X Nat : ss[1] < ss[2]}
  BY DEF OpToRel
<1> HIDE DEF R
<1>3. ASSUME NEW n \in T PROVE m <= n
  <2>1. <<n, m>> \notin R
    BY <1>1
  <2>2. m \in Nat /\ n \in Nat
    OBVIOUS
  <2>3. <<n, m>> \in Nat \X Nat
    BY <2>2
  <2>4. <<n, m>>[1] = n /\ <<n, m>>[2] = m
    OBVIOUS
  <2>5. ~(<<n, m>>[1] < <<n, m>>[2])
    BY <2>1, <2>3, <1>2
  <2> QED BY <2>2, <2>4, <2>5
<1> QED BY <1>3

\* A finite set of integers has a greatest element, the one with the fewest above.
LEMMA MaxOfFinite ==
  ASSUME NEW S \in SUBSET Int, IsFiniteSet(S), S # {}
  PROVE  Max(S) \in S /\ \A y \in S : Max(S) >= y
<1> DEFINE above(x) == {y \in S : y > x}
           T == {Cardinality(above(x)) : x \in S}
<1>1. ASSUME NEW x \in S PROVE IsFiniteSet(above(x)) /\ Cardinality(above(x)) \in Nat
  BY FS_Subset, FS_CardinalityType
<1>2. T \in SUBSET Nat /\ T # {}
  BY <1>1
<1>3. PICK m \in T : \A n \in T : m <= n
  <2> HIDE DEF T
  <2> QED BY <1>2, LeastNat
<1>4. PICK x \in S : m = Cardinality(above(x))
  BY <1>3
<1>5. ASSUME NEW y \in S PROVE x >= y
  <2>1. SUFFICES ASSUME y > x PROVE FALSE
    OBVIOUS
  <2>2. above(y) \in SUBSET above(x) /\ y \in above(x) /\ y \notin above(y)
    <3>1. x \in Int /\ y \in Int /\ \A z \in S : z \in Int
      OBVIOUS
    <3>2. \A z \in S : z > y => z > x
      BY <2>1, <3>1
    <3>3. ~(y > y)
      BY <3>1
    <3> QED BY <2>1, <3>2, <3>3
  <2>3. Cardinality(above(y)) <= Cardinality(above(x)) /\ Cardinality(above(y)) # Cardinality(above(x))
    <3>1. IsFiniteSet(above(x))
      BY <1>1
    <3> HIDE DEF above
    <3> QED BY <2>2, <3>1, FS_Subset
  <2>4. Cardinality(above(x)) <= Cardinality(above(y))
    BY <1>3, <1>4
  <2> HIDE DEF above
  <2> QED BY <1>1, <2>3, <2>4
<1> QED BY <1>5 DEF Max

\* The same downwards.
LEMMA MinOfFinite ==
  ASSUME NEW S \in SUBSET Int, IsFiniteSet(S), S # {}
  PROVE  Min(S) \in S /\ \A y \in S : Min(S) <= y
<1> DEFINE below(x) == {y \in S : y < x}
           T == {Cardinality(below(x)) : x \in S}
<1>1. ASSUME NEW x \in S PROVE IsFiniteSet(below(x)) /\ Cardinality(below(x)) \in Nat
  BY FS_Subset, FS_CardinalityType
<1>2. T \in SUBSET Nat /\ T # {}
  BY <1>1
<1>3. PICK m \in T : \A n \in T : m <= n
  <2> HIDE DEF T
  <2> QED BY <1>2, LeastNat
<1>4. PICK x \in S : m = Cardinality(below(x))
  BY <1>3
<1>5. ASSUME NEW y \in S PROVE x <= y
  <2>1. SUFFICES ASSUME y < x PROVE FALSE
    OBVIOUS
  <2>2. below(y) \in SUBSET below(x) /\ y \in below(x) /\ y \notin below(y)
    <3>1. x \in Int /\ y \in Int /\ \A z \in S : z \in Int
      OBVIOUS
    <3>2. \A z \in S : z < y => z < x
      BY <2>1, <3>1
    <3>3. ~(y < y)
      BY <3>1
    <3> QED BY <2>1, <3>2, <3>3
  <2>3. Cardinality(below(y)) <= Cardinality(below(x)) /\ Cardinality(below(y)) # Cardinality(below(x))
    <3>1. IsFiniteSet(below(x))
      BY <1>1
    <3> HIDE DEF below
    <3> QED BY <2>2, <3>1, FS_Subset
  <2>4. Cardinality(below(x)) <= Cardinality(below(y))
    BY <1>3, <1>4
  <2> HIDE DEF below
  <2> QED BY <1>1, <2>3, <2>4
<1> QED BY <1>5 DEF Min

-----------------------------------------------------------------------------
(* The values of a row.                                                    *)

\* The results of an algorithm contest are times, those of a heuristic one scores.
Results(heur) ==
  [user : Users, problem : Problems, value : IF heur THEN Marks ELSE Times]

\* The values of a user in a problem are finitely many, and one of them is the best.
LEMMA BestIsOne ==
  ASSUME NEW heur \in BOOLEAN, NEW res \in SUBSET Results(heur), IsFiniteSet(res),
         NEW u, NEW p, Has(res, u, p)
  PROVE  /\ Best(heur, res, u, p) \in ValuesOf(res, u, p)
         /\ Best(heur, res, u, p) \in Int
         /\ ~heur => Best(heur, res, u, p) \in Nat
         /\ \A y \in ValuesOf(res, u, p) :
              IF heur THEN Best(heur, res, u, p) >= y ELSE Best(heur, res, u, p) <= y
<1> DEFINE those == {x \in res : x.user = u /\ x.problem = p}
           V == ValuesOf(res, u, p)
           f == [x \in those |-> x.value]
<1>1. IsFiniteSet(those)
  BY FS_Subset
<1>2. V = {x.value : x \in those}
  BY DEF ValuesOf
<1>3. f \in Surjection(those, V)
  BY <1>2 DEF Surjection
<1>4. IsFiniteSet(V) /\ V # {}
  BY <1>1, <1>3, FS_Surjection DEF Has
<1>5. \A x \in res : x.value \in IF heur THEN Marks ELSE Times
  BY DEF Results
<1>6. V \in SUBSET Int /\ (~heur => V \in SUBSET Nat)
  <2>1. ASSUME NEW v \in V PROVE v \in Int /\ (~heur => v \in Nat)
    <3>1. PICK x \in res : v = x.value
      BY <1>2
    <3>2. v \in IF heur THEN Marks ELSE Times
      BY <1>5, <3>1
    <3>3. Marks \in SUBSET Int /\ Times \in SUBSET Nat
      BY ConstantsAssumption
    <3>4. v \in Int
      BY <3>2, <3>3
    <3>5. ASSUME ~heur PROVE v \in Nat
      BY <3>2, <3>3, <3>5
    <3> QED BY <3>4, <3>5
  <2> HIDE DEF V
  <2> QED BY <2>1
<1> HIDE DEF V
<1>7. /\ Max(V) \in V /\ \A y \in V : Max(V) >= y
      /\ Min(V) \in V /\ \A y \in V : Min(V) <= y
  BY <1>4, <1>6, MaxOfFinite, MinOfFinite
<1>8. Best(heur, res, u, p) = IF heur THEN Max(V) ELSE Min(V)
  BY DEF Best, V
<1> QED BY <1>6, <1>7, <1>8 DEF V

-----------------------------------------------------------------------------
(* Sums.                                                                   *)

Pick(s) == CHOOSE x \in s : TRUE

\* The functions that FoldSet may sum the values g of a set S with.
Sums(g, S) ==
  {h \in [SUBSET S -> Int] : \A s \in SUBSET S :
     h[s] = IF s = {} THEN 0 ELSE h[s \ {Pick(s)}] + g[Pick(s)]}

\* The element picked from a set is one of it.
LEMMA PickIsOne ==
  ASSUME NEW s, s # {}
  PROVE  Pick(s) \in s
BY DEF Pick

\* There is one on the subsets of n elements at most, for any n.
LEMMA SumsExist ==
  ASSUME NEW S, IsFiniteSet(S), NEW g \in [S -> Int]
  PROVE  Sums(g, S) # {}
<1> DEFINE D(n) == {s \in SUBSET S : Cardinality(s) <= n}
           Up(n, h) == /\ h \in [D(n) -> Int]
                       /\ \A s \in D(n) :
                            h[s] = IF s = {} THEN 0 ELSE h[s \ {Pick(s)}] + g[Pick(s)]
           T == {n \in Nat : ~ \E h : Up(n, h)}
<1>1. ASSUME NEW s \in SUBSET S PROVE IsFiniteSet(s) /\ Cardinality(s) \in Nat
  BY FS_Subset, FS_CardinalityType
<1>2. ASSUME NEW s \in SUBSET S, s # {}
      PROVE  /\ Pick(s) \in s /\ Pick(s) \in S
             /\ s \ {Pick(s)} \in SUBSET S
             /\ Cardinality(s \ {Pick(s)}) = Cardinality(s) - 1
  <2>1. Pick(s) \in s
    BY <1>2, PickIsOne
  <2>2. Cardinality(s \ {Pick(s)}) = Cardinality(s) - 1
    BY <1>1, <2>1, FS_RemoveElement
  <2> QED BY <2>1, <2>2
<1>3. \E h : Up(0, h)
  <2> DEFINE z == [s \in D(0) |-> 0]
  <2>1. ASSUME NEW s \in D(0) PROVE s = {}
    BY <1>1, FS_EmptySet
  <2>2. Up(0, z)
    BY <2>1
  <2> QED BY <2>2
<1>4. ASSUME NEW n \in Nat, NEW h, Up(n, h) PROVE \E k : Up(n + 1, k)
  <2> DEFINE k == [s \in D(n + 1) |-> IF s = {} THEN 0 ELSE h[s \ {Pick(s)}] + g[Pick(s)]]
  <2>1. ASSUME NEW s \in D(n + 1), s # {}
        PROVE  s \ {Pick(s)} \in D(n) /\ g[Pick(s)] \in Int
    BY <1>1, <1>2, <2>1
  <2>2. k \in [D(n + 1) -> Int]
    BY <1>4, <2>1
  <2>3. ASSUME NEW s \in D(n) PROVE s \in D(n + 1) /\ k[s] = h[s]
    <3>1. s \in D(n + 1)
      BY <1>1
    <3> QED BY <1>4, <3>1
  <2>4. ASSUME NEW s \in D(n + 1)
        PROVE  k[s] = IF s = {} THEN 0 ELSE k[s \ {Pick(s)}] + g[Pick(s)]
    BY <2>1, <2>3
  <2>5. Up(n + 1, k)
    BY <2>2, <2>4
  <2> QED BY <2>5
<1>5. T = {}
  <2>1. SUFFICES ASSUME T # {} PROVE FALSE
    OBVIOUS
  <2>2. PICK m \in T : \A n \in T : m <= n
    <3>1. T \in SUBSET Nat
      OBVIOUS
    <3> HIDE DEF T
    <3> QED BY <2>1, <3>1, LeastNat
  <2> HIDE DEF Up
  <2>3. m \in Nat /\ m # 0
    BY <1>3
  <2>4. m - 1 \in Nat /\ ~(m <= m - 1) /\ (m - 1) + 1 = m
    BY <2>3
  <2>5. m - 1 \notin T
    <3> HIDE DEF T
    <3> QED BY <2>2, <2>4
  <2>6. PICK h : Up(m - 1, h)
    BY <2>4, <2>5
  <2>7. \E k : Up(m, k)
    BY <1>4, <2>4, <2>6
  <2> QED BY <2>2, <2>7
<1>6. Cardinality(S) \in Nat
  BY FS_CardinalityType
<1>7. PICK h : Up(Cardinality(S), h)
  <2> HIDE DEF Up
  <2> QED BY <1>5, <1>6
<1>8. D(Cardinality(S)) = SUBSET S
  BY FS_Subset
<1>9. h \in Sums(g, S)
  BY <1>7, <1>8 DEF Sums
<1> QED BY <1>9

\* What is true of the smaller subsets of a finite set, and then of one, is true of
\* all: T holds those it is not true of.
LEMMA NoLeastSubset ==
  ASSUME NEW S, IsFiniteSet(S), NEW T \in SUBSET (SUBSET S),
         \A s \in T : \E t \in T : t \subseteq s /\ t # s
  PROVE  T = {}
<1> DEFINE N == {Cardinality(s) : s \in T}
<1>1. ASSUME NEW s \in T PROVE IsFiniteSet(s) /\ Cardinality(s) \in Nat
  BY FS_Subset, FS_CardinalityType
<1>2. SUFFICES ASSUME T # {} PROVE FALSE
  OBVIOUS
<1>3. N \in SUBSET Nat /\ N # {}
  BY <1>1, <1>2
<1>4. PICK m \in N : \A n \in N : m <= n
  <2> HIDE DEF N
  <2> QED BY <1>3, LeastNat
<1>5. PICK s \in T : m = Cardinality(s)
  BY <1>4
<1>6. PICK t \in T : t \subseteq s /\ t # s
  OBVIOUS
<1>7. Cardinality(t) <= Cardinality(s) /\ Cardinality(t) # Cardinality(s)
  BY <1>1, <1>6, FS_Subset
<1>8. m <= Cardinality(t)
  BY <1>4
<1> QED BY <1>1, <1>5, <1>7, <1>8

FoldsUp(f, g, S) ==
  f = [s \in SUBSET S |-> IF s = {} THEN 0 ELSE f[s \ {Pick(s)}] + g[Pick(s)]]

\* All solutions are the same.
LEMMA SumsUnique ==
  ASSUME NEW S, IsFiniteSet(S), NEW g \in [S -> Int], NEW h \in Sums(g, S),
         NEW f, FoldsUp(f, g, S)
  PROVE  f = h
<1> USE DEF FoldsUp
<1> DEFINE T == {s \in SUBSET S : f[s] # h[s]}
<1>1. ASSUME NEW s \in T PROVE \E t \in T : t \subseteq s /\ t # s
  <2>1. h[s] = IF s = {} THEN 0 ELSE h[s \ {Pick(s)}] + g[Pick(s)]
    BY DEF Sums
  <2>2. f[s] = IF s = {} THEN 0 ELSE f[s \ {Pick(s)}] + g[Pick(s)]
    OBVIOUS
  <2>3. s # {} /\ f[s \ {Pick(s)}] # h[s \ {Pick(s)}]
    BY <2>1, <2>2
  <2>4. Pick(s) \in s
    BY <2>3, PickIsOne
  <2>5. s \ {Pick(s)} \in T /\ s \ {Pick(s)} \subseteq s /\ s \ {Pick(s)} # s
    BY <2>3, <2>4
  <2> QED BY <2>5
<1>2. T = {}
  <2>1. T \in SUBSET (SUBSET S)
    OBVIOUS
  <2> HIDE DEF T
  <2> QED BY <1>1, <2>1, NoLeastSubset
<1>3. \A s \in SUBSET S : f[s] = h[s]
  BY <1>2
<1>4. h \in [SUBSET S -> Int]
  BY DEF Sums
<1>5. f = [s \in SUBSET S |-> f[s]]
  OBVIOUS
<1> QED BY <1>3, <1>4, <1>5

\* The value of a problem in the row of a user.
Values(heur, res, u) ==
  [p \in Solved(res, u) |-> IF heur THEN Best(heur, res, u, p) ELSE Worth(p)]

\* The problems with a result are finitely many, and have a whole value.
LEMMA ValuesType ==
  ASSUME NEW heur \in BOOLEAN, NEW res \in SUBSET Results(heur), IsFiniteSet(res), NEW u
  PROVE  IsFiniteSet(Solved(res, u)) /\ Values(heur, res, u) \in [Solved(res, u) -> Int]
<1>1. IsFiniteSet(Solved(res, u))
  <2> DEFINE ps == {e.problem : e \in res}
             f == [e \in res |-> e.problem]
  <2>1. f \in Surjection(res, ps)
    BY DEF Surjection
  <2>2. IsFiniteSet(ps)
    BY <2>1, FS_Surjection
  <2>3. Solved(res, u) \in SUBSET ps
    BY DEF Solved, Has, ValuesOf
  <2> QED BY <2>2, <2>3, FS_Subset
<1>2. ASSUME NEW p \in Solved(res, u)
      PROVE  (IF heur THEN Best(heur, res, u, p) ELSE Worth(p)) \in Int
  <2>1. p \in Listed /\ Has(res, u, p)
    BY DEF Solved
  <2>2. Best(heur, res, u, p) \in Int
    BY <2>1, BestIsOne
  <2>3. Worth(p) \in Nat
    BY <2>1, ConstantsAssumption DEF Worth
  <2> QED BY <2>2, <2>3
<1> QED BY <1>1, <1>2 DEF Values

\* The total of a row is the sum of its values.
LEMMA TotalIsSum ==
  ASSUME NEW heur \in BOOLEAN, NEW res \in SUBSET Results(heur), IsFiniteSet(res), NEW u,
         NEW h \in Sums(Values(heur, res, u), Solved(res, u))
  PROVE  Total(heur, res, u) = h[Solved(res, u)] /\ Total(heur, res, u) \in Int
<1> DEFINE S == Solved(res, u)
           g == Values(heur, res, u)
           it == CHOOSE f : FoldsUp(f, g, S)
<1>1. IsFiniteSet(S) /\ g \in [S -> Int]
  BY ValuesType
<1>2. h \in Sums(g, S) /\ FoldsUp(h, g, S)
  BY DEF Sums, FoldsUp
<1>3. FoldsUp(it, g, S)
  BY <1>2
<1>4. it = h
  <2> HIDE DEF S, g, it
  <2> QED BY <1>1, <1>2, <1>3, SumsUnique
<1>5. Total(heur, res, u) = it[S]
  <2>1. \A f : FoldsUp(f, g, S) <=>
          f = [s \in SUBSET S |-> IF s = {} THEN 0
                 ELSE LET x == CHOOSE x \in s : TRUE
                      IN  f[s \ {x}] + IF heur THEN Best(heur, res, u, x) ELSE Worth(x)]
    <3>1. ASSUME NEW s \in SUBSET S, s # {}
          PROVE  g[Pick(s)] = IF heur THEN Best(heur, res, u, Pick(s)) ELSE Worth(Pick(s))
      BY <3>1, PickIsOne DEF Values
    <3> QED BY <3>1 DEF Pick, FoldsUp
  <2>2. it = CHOOSE f : f = [s \in SUBSET S |-> IF s = {} THEN 0
                 ELSE LET x == CHOOSE x \in s : TRUE
                      IN  f[s \ {x}] + IF heur THEN Best(heur, res, u, x) ELSE Worth(x)]
    BY <2>1
  <2> HIDE DEF it
  <2> QED BY <2>2 DEF Total, FoldSet, MapThenFoldSet
<1>6. h \in [SUBSET S -> Int]
  BY DEF Sums
<1> QED BY <1>4, <1>5, <1>6

-----------------------------------------------------------------------------
(* Rows and their order.                                                   *)

\* What a quotient is.
LEMMA Quotient ==
  ASSUME NEW n \in Nat, NEW k \in Nat \ {0}
  PROVE  /\ n \div k \in Nat
         /\ (n \div k) * k <= n
         /\ n < (n \div k) * k + k
OBVIOUS

\* Products are monotone.
LEMMA TimesMonotone ==
  ASSUME NEW m \in Nat, NEW n \in Nat, NEW k \in Nat, m <= n
  PROVE  m * k \in Nat /\ n * k \in Nat /\ m * k <= n * k
<1>1. PICK d \in Nat : n = m + d
  <2>1. n - m \in Nat /\ n = m + (n - m)
    OBVIOUS
  <2> QED BY <2>1
<1>2. n * k = m * k + d * k /\ d * k \in Nat /\ m * k \in Nat
  BY <1>1
<1> QED BY <1>2

\* Whole parts are in order.
LEMMA QuotientMonotone ==
  ASSUME NEW m \in Nat, NEW n \in Nat, NEW k \in Nat \ {0}, m <= n
  PROVE  m \div k \in Nat /\ n \div k \in Nat /\ m \div k <= n \div k
<1> DEFINE a == m \div k
           b == n \div k
<1>1. /\ a \in Nat /\ a * k <= m /\ b \in Nat /\ n < b * k + k
  BY Quotient
<1> HIDE DEF a, b
<1>2. ASSUME b < a PROVE FALSE
  <2>1. b + 1 \in Nat /\ b + 1 <= a
    BY <1>1, <1>2
  <2>2. (b + 1) * k <= a * k /\ (b + 1) * k \in Nat /\ a * k \in Nat
    BY <1>1, <2>1, TimesMonotone
  <2>3. (b + 1) * k = b * k + k
    BY <1>1
  <2> QED BY <1>1, <2>2, <2>3
<1>3. a <= b
  BY <1>1, <1>2
<1> QED BY <1>1, <1>3 DEF a, b

\* The seconds shown of a time are in the order of the times.
LEMMA ElapsedType ==
  ASSUME NEW t \in Nat
  PROVE  Elapsed(t) \in Nat /\ Elapsed(t) # NoTime /\ t # NoTime
<1>1. Larger(t - StartTime, 0) \in Nat
  BY ConstantsAssumption DEF Larger
<1>2. Larger(t - StartTime, 0) \div TicksPerSecond \in Nat
  BY <1>1, Quotient, ConstantsAssumption
<1>3. t # NoTime
  BY ConstantsAssumption
<1> QED BY <1>2, <1>3, ConstantsAssumption DEF Elapsed

\* The time shown grows with the time of a result.
LEMMA ElapsedMonotone ==
  ASSUME NEW s \in Nat, NEW t \in Nat, s <= t
  PROVE  Elapsed(s) <= Elapsed(t)
<1> DEFINE a == Larger(s - StartTime, 0)
           b == Larger(t - StartTime, 0)
<1>1. a \in Nat /\ b \in Nat /\ a <= b
  BY ConstantsAssumption DEF Larger
<1> HIDE DEF a, b
<1>2. a \div TicksPerSecond <= b \div TicksPerSecond
  BY <1>1, QuotientMonotone, ConstantsAssumption
<1>3. s # NoTime /\ t # NoTime
  BY ElapsedType
<1> QED BY <1>2, <1>3 DEF a, b, Elapsed

\* What the order of rows needs of a row.
RowLike(r) == r.total \in Int /\ r.last \in Nat \cup {NoTime}

\* The last accepted submission of a row is the latest of the first ones.
LEMMA LastIsOne ==
  ASSUME NEW heur \in BOOLEAN, NEW res \in SUBSET Results(heur), IsFiniteSet(res), NEW u,
         ~heur, Solved(res, u) # {}
  PROVE  /\ LastAc(heur, res, u) \in Nat
         /\ \E p \in Solved(res, u) : LastAc(heur, res, u) = Best(heur, res, u, p)
         /\ \A p \in Solved(res, u) : Best(heur, res, u, p) \in Nat
                                      /\ Best(heur, res, u, p) <= LastAc(heur, res, u)
<1> DEFINE S == Solved(res, u)
           B == {Best(heur, res, u, p) : p \in S}
           f == [p \in S |-> Best(heur, res, u, p)]
<1>1. f \in Surjection(S, B)
  BY DEF Surjection
<1>2. IsFiniteSet(B) /\ B # {}
  BY <1>1, ValuesType, FS_Surjection
<1>3. \A p \in S : Best(heur, res, u, p) \in Nat
  BY BestIsOne DEF Solved
<1>4. B \in SUBSET Int
  BY <1>3
<1>5. LastAc(heur, res, u) = Max(B)
  BY DEF LastAc
<1>6. Max(B) \in B /\ \A y \in B : Max(B) >= y
  <2> HIDE DEF B
  <2> QED BY <1>2, <1>4, MaxOfFinite
<1>7. PICK p \in S : Max(B) = Best(heur, res, u, p)
  BY <1>6
<1>8. \A q \in S : Best(heur, res, u, q) \in B
  OBVIOUS
<1> HIDE DEF B
<1> QED BY <1>3, <1>5, <1>6, <1>7, <1>8

\* The row of a user is one.
LEMMA RowType ==
  ASSUME NEW heur \in BOOLEAN, NEW res \in SUBSET Results(heur), IsFiniteSet(res), NEW u
  PROVE  /\ RowLike(Row(heur, res, u)) /\ Row(heur, res, u).user = u
         /\ heur => Row(heur, res, u).last = NoTime
<1>1. Total(heur, res, u) \in Int
  <2>1. PICK h : h \in Sums(Values(heur, res, u), Solved(res, u))
    BY ValuesType, SumsExist
  <2> QED BY <2>1, TotalIsSum
<1>2. LastAc(heur, res, u) \in Nat \cup {NoTime} /\ (heur => LastAc(heur, res, u) = NoTime)
  <2>1. CASE heur \/ Solved(res, u) = {}
    BY <2>1 DEF LastAc
  <2>2. CASE ~heur /\ Solved(res, u) # {}
    BY <2>2, LastIsOne
  <2> QED BY <2>1, <2>2
<1> QED BY <1>1, <1>2 DEF Row, RowLike

\* Rows are level in rank, or one is better; the comparison of sort_by puts the
\* better one first.
LEMMA RankOrder ==
  ASSUME NEW heur \in BOOLEAN, NEW r, NEW s, RowLike(r), RowLike(s)
  PROVE  /\ SameRank(heur, r, s) \/ Better(heur, r, s) \/ Better(heur, s, r)
         /\ SameRank(heur, r, s) <=> SameRank(heur, s, r)
         /\ SameRank(heur, r, s) => ~Better(heur, r, s)
         /\ SameRank(heur, r, r)
         /\ Better(heur, r, s) => Before(r, s)
<1> DEFINE a == Elapsed(r.last)
           b == Elapsed(s.last)
<1>1. /\ r.total \in Int /\ s.total \in Int
      /\ r.last \in Nat \/ r.last = NoTime
      /\ s.last \in Nat \/ s.last = NoTime
      /\ NoTime \notin Nat
  BY ConstantsAssumption DEF RowLike
<1>2. /\ r.last \in Nat => a \in Nat /\ a # NoTime
      /\ r.last = NoTime => a = NoTime
      /\ s.last \in Nat => b \in Nat /\ b # NoTime
      /\ s.last = NoTime => b = NoTime
  <2>1. Elapsed(NoTime) = NoTime
    BY DEF Elapsed
  <2> QED BY <2>1, ElapsedType
<1>3. r.last \in Nat /\ s.last \in Nat /\ a < b => r.last < s.last
  <2>1. ASSUME r.last \in Nat, s.last \in Nat, s.last <= r.last PROVE b <= a
    BY <2>1, ElapsedMonotone
  <2> QED BY <1>2, <2>1
<1> HIDE DEF a, b
<1>4. SameRank(heur, r, s) <=> r.total = s.total /\ (heur \/ a = b)
  BY DEF SameRank, a, b
<1>5. SameRank(heur, s, r) <=> r.total = s.total /\ (heur \/ a = b)
  BY DEF SameRank, a, b
<1>6. Better(heur, r, s) <=>
        \/ r.total > s.total
        \/ r.total = s.total /\ ~heur /\ a # b /\ (b = NoTime \/ (a # NoTime /\ a < b))
  BY DEF Better, a, b
<1>7. Better(heur, s, r) <=>
        \/ s.total > r.total
        \/ r.total = s.total /\ ~heur /\ a # b /\ (a = NoTime \/ (b # NoTime /\ b < a))
  BY DEF Better, a, b
<1>8. SameRank(heur, r, s) \/ Better(heur, r, s) \/ Better(heur, s, r)
  BY <1>1, <1>2, <1>4, <1>6, <1>7
<1>9. SameRank(heur, r, s) => ~Better(heur, r, s)
  BY <1>1, <1>4, <1>6
<1>10. SameRank(heur, r, r)
  BY DEF SameRank
<1>11. Better(heur, r, s) => Before(r, s)
  BY <1>1, <1>2, <1>3, <1>6 DEF Before
<1> QED BY <1>4, <1>5, <1>8, <1>9, <1>10, <1>11

\* Whoever is better than a row is better than those level with it.
LEMMA LevelRows ==
  ASSUME NEW heur \in BOOLEAN, NEW r, NEW s, NEW t, SameRank(heur, s, t)
  PROVE  /\ Better(heur, r, s) <=> Better(heur, r, t)
         /\ Better(heur, s, r) <=> Better(heur, t, r)
         /\ SameRank(heur, r, s) <=> SameRank(heur, r, t)
<1>1. s.total = t.total /\ (heur \/ Elapsed(s.last) = Elapsed(t.last))
  BY DEF SameRank
<1> QED BY <1>1 DEF Better, SameRank

InOrder(q, n) ==
  /\ Len(q) = n
  /\ \A i \in 1..n : RowLike(q[i])
  /\ \A i, j \in 1..n : i < j => ~Before(q[j], q[i])

\* The rank of a row of a sorted table is one more than the rows that are better,
\* whatever order the hash map left the ties in.
LEMMA RanksOfSorted ==
  ASSUME NEW heur \in BOOLEAN, NEW n \in Nat, NEW q, InOrder(q, n)
  PROVE  \A i \in 1..n :
           /\ Ranks(heur, q)[i] \in 1..i
           /\ Ranks(heur, q)[i] = 1 + Cardinality({j \in 1..n : Better(heur, q[j], q[i])})
<1> DEFINE B(i, j) == Better(heur, q[i], q[j])
           E(i, j) == SameRank(heur, q[i], q[j])
           First(i, k) == k \in 1..i /\ E(k, i) /\ \A m \in 1..i : E(m, i) => k <= m
           Rec(f) == f = [i \in 1..n |->
                       IF i > 1 /\ SameRank(heur, q[i], q[f[i - 1]]) THEN f[i - 1] ELSE i]
<1>0. /\ Len(q) = n
      /\ \A i \in 1..n : RowLike(q[i])
      /\ \A i, j \in 1..n : i < j => ~Before(q[j], q[i])
  BY DEF InOrder
<1>1. \A i, j \in 1..n : /\ E(i, j) \/ B(i, j) \/ B(j, i)
                         /\ E(i, j) <=> E(j, i)
                         /\ E(i, j) => ~B(i, j)
                         /\ E(i, i)
                         /\ i < j => ~B(j, i)
  BY <1>0, RankOrder
<1>2. \A i, j, k \in 1..n : E(j, k) => /\ B(i, j) <=> B(i, k)
                                       /\ B(j, i) <=> B(k, i)
                                       /\ E(i, j) <=> E(i, k)
  BY LevelRows
<1> HIDE DEF B, E
<1>3. ASSUME NEW k \in 1..n, NEW m \in 1..n, NEW i \in 1..n, k < m, m <= i, E(k, i)
      PROVE  E(m, i)
  <2>1. CASE m = i
    BY <1>1, <2>1
  <2>2. CASE m < i
    <3>1. ~B(m, k) /\ ~B(i, m)
      BY <1>1, <1>3, <2>2
    <3>2. B(m, k) <=> B(m, i)
      BY <1>2, <1>3
    <3>3. E(m, i) \/ B(m, i) \/ B(i, m)
      BY <1>1
    <3> QED BY <3>1, <3>2, <3>3
  <2> QED BY <1>3, <2>1, <2>2
<1>4. ASSUME NEW i \in 1..n PROVE \E k : First(i, k)
  <2> DEFINE T == {k \in 1..i : E(k, i)}
  <2>1. T \in SUBSET Nat /\ i \in T
    BY <1>1
  <2>2. PICK k \in T : \A m \in T : k <= m
    <3> HIDE DEF T
    <3> QED BY <2>1, LeastNat
  <2> QED BY <2>2
<1>5. ASSUME NEW i \in 1..n, NEW k, NEW m, First(i, k), First(i, m) PROVE k = m
  <2>1. k <= m /\ m <= k /\ k \in Nat /\ m \in Nat
    BY <1>5
  <2> QED BY <2>1
<1>6. ASSUME NEW i \in 2..n, NEW k, First(i - 1, k)
      PROVE  /\ k \in 1..n
             /\ E(i, k) => First(i, k)
             /\ ~E(i, k) => First(i, i)
  <2>1. /\ k \in 1..n /\ k \in 1..(i - 1) /\ i - 1 \in 1..n /\ i \in 1..n
        /\ E(k, i - 1) /\ \A m \in 1..(i - 1) : E(m, i - 1) => k <= m
    BY <1>6
  <2>2. ASSUME E(i, k) PROVE First(i, k)
    <3>1. E(k, i) /\ E(i, i - 1)
      BY <1>1, <1>2, <2>1, <2>2
    <3>2. ASSUME NEW m \in 1..i, E(m, i) PROVE k <= m
      <4>1. CASE m = i
        BY <2>1, <4>1
      <4>2. CASE m # i
        <5>1. m \in 1..(i - 1) /\ m \in 1..n
          BY <2>1, <4>2
        <5>2. E(m, i - 1)
          BY <1>2, <2>1, <3>1, <3>2, <5>1
        <5> QED BY <2>1, <5>1, <5>2
      <4> QED BY <4>1, <4>2
    <3> QED BY <2>1, <3>1, <3>2
  <2>3. ASSUME ~E(i, k) PROVE First(i, i)
    <3>1. ASSUME NEW m \in 1..i, E(m, i), m # i PROVE FALSE
      <4>1. m \in 1..n /\ m < i /\ m <= i - 1
        BY <2>1, <3>1
      <4>2. E(i - 1, i)
        <5>1. CASE m = i - 1
          BY <3>1, <5>1
        <5>2. CASE m < i - 1
          BY <1>3, <2>1, <3>1, <4>1, <5>2
        <5> QED BY <2>1, <4>1, <5>1, <5>2
      <4>3. E(k, i)
        BY <1>2, <2>1, <4>2
      <4> QED BY <1>1, <2>1, <2>3, <4>3
    <3>2. i \in 1..i /\ i <= i /\ E(i, i)
      BY <1>1, <2>1
    <3> QED BY <3>1, <3>2
  <2> QED BY <2>1, <2>2, <2>3
<1>7. ASSUME NEW k, First(1, k) PROVE k = 1
  BY <1>7
<1> DEFINE g == [i \in 1..n |-> CHOOSE k : First(i, k)]
           f == CHOOSE r : Rec(r)
<1>8. ASSUME NEW i \in 1..n PROVE First(i, g[i])
  <2>1. First(i, CHOOSE k : First(i, k))
    <3> HIDE DEF First
    <3> QED BY <1>4
  <2> QED BY <2>1
<1> HIDE DEF First, g
<1>9. ASSUME NEW i \in 1..n
      PROVE  g[i] = IF i > 1 /\ E(i, g[i - 1]) THEN g[i - 1] ELSE i
  <2>1. CASE i = 1
    <3>1. First(1, g[1])
      BY <1>8, <2>1
    <3> QED BY <1>7, <2>1, <3>1
  <2>2. CASE i > 1
    <3>1. i \in 2..n /\ i - 1 \in 1..n
      BY <2>2
    <3>2. First(i - 1, g[i - 1]) /\ First(i, g[i])
      BY <1>8, <3>1
    <3>3. /\ E(i, g[i - 1]) => First(i, g[i - 1])
          /\ ~E(i, g[i - 1]) => First(i, i)
      BY <1>6, <3>1, <3>2
    <3>4. E(i, g[i - 1]) => g[i] = g[i - 1]
      BY <1>5, <3>2, <3>3
    <3>5. ~E(i, g[i - 1]) => g[i] = i
      BY <1>5, <3>2, <3>3
    <3> QED BY <2>2, <3>4, <3>5
  <2> QED BY <2>1, <2>2
<1>10. Rec(g)
  <2>1. g = [i \in 1..n |-> g[i]]
    BY DEF g
  <2>2. \A i \in 1..n :
          g[i] = IF i > 1 /\ SameRank(heur, q[i], q[g[i - 1]]) THEN g[i - 1] ELSE i
    BY <1>9 DEF E
  <2> QED BY <2>1, <2>2
<1>11. Rec(f)
  <2> HIDE DEF Rec
  <2> QED BY <1>10
<1>12. Ranks(heur, q) = f
  BY <1>0 DEF Ranks
<1>13. ASSUME NEW i \in 1..n
       PROVE  f[i] = IF i > 1 /\ E(i, f[i - 1]) THEN f[i - 1] ELSE i
  <2> HIDE DEF f
  <2> QED BY <1>11 DEF E
<1> HIDE DEF f, Rec
<1>14. ASSUME NEW i \in 1..n PROVE f[i] = g[i]
  <2> DEFINE T == {j \in 1..n : f[j] # g[j]}
  <2>1. SUFFICES ASSUME T # {} PROVE FALSE
    OBVIOUS
  <2>2. PICK m \in T : \A j \in T : m <= j
    <3>1. T \in SUBSET Nat
      OBVIOUS
    <3> HIDE DEF T
    <3> QED BY <2>1, <3>1, LeastNat
  <2>3. m \in 1..n /\ f[m] # g[m]
    OBVIOUS
  <2>4. CASE m = 1
    BY <1>9, <1>13, <2>3, <2>4
  <2>5. CASE m > 1
    <3>1. m - 1 \in 1..n /\ ~(m <= m - 1)
      BY <2>3, <2>5
    <3>2. f[m - 1] = g[m - 1]
      BY <2>2, <3>1
    <3> QED BY <1>9, <1>13, <2>3, <2>5, <3>2
  <2> QED BY <2>3, <2>4, <2>5
<1>15. ASSUME NEW i \in 1..n
       PROVE  f[i] \in 1..i /\ f[i] = 1 + Cardinality({j \in 1..n : B(j, i)})
  <2> DEFINE k == f[i]
  <2>1. k \in 1..i /\ E(k, i) /\ \A m \in 1..i : E(m, i) => k <= m
    BY <1>8, <1>14 DEF First
  <2> HIDE DEF k
  <2>2. ASSUME NEW j \in 1..n PROVE B(j, i) <=> j \in 1..(k - 1)
    <3>1. ASSUME j < k PROVE B(j, i)
      <4>1. j \in 1..i /\ ~(k <= j) /\ j < i
        BY <2>1, <3>1
      <4>2. ~E(j, i) /\ ~B(i, j)
        BY <1>1, <2>1, <4>1
      <4> QED BY <1>1, <4>2
    <3>2. ASSUME j >= k, B(j, i) PROVE FALSE
      <4>1. k \in 1..n
        BY <2>1
      <4>2. B(j, k)
        BY <1>2, <2>1, <3>2, <4>1
      <4>3. CASE j = k
        BY <1>1, <4>1, <4>2, <4>3
      <4>4. CASE k < j
        BY <1>1, <4>1, <4>2, <4>4
      <4> QED BY <2>1, <3>2, <4>3, <4>4
    <3> QED BY <2>1, <3>1, <3>2
  <2>3. {j \in 1..n : B(j, i)} = 1..(k - 1)
    BY <2>1, <2>2
  <2>4. Cardinality(1..(k - 1)) = k - 1
    <3>1. 1 \in Int /\ k - 1 \in Int /\ k - 1 >= 0
      BY <2>1
    <3>2. Cardinality(1..(k - 1)) = IF 1 > k - 1 THEN 0 ELSE (k - 1) - 1 + 1
      BY <3>1, FS_Interval
    <3> QED BY <3>1, <3>2
  <2>5. k \in 1..i /\ k = 1 + Cardinality({j \in 1..n : B(j, i)})
    <3> DEFINE S == {j \in 1..n : B(j, i)}
    <3>1. Cardinality(S) = Cardinality(1..(k - 1))
      BY <2>3
    <3> HIDE DEF S
    <3>2. k \in 1..i /\ k = 1 + Cardinality(S)
      BY <2>1, <2>4, <3>1
    <3> QED BY <3>2 DEF S
  <2> QED BY <2>5 DEF k
<1> QED BY <1>12, <1>15 DEF B

-----------------------------------------------------------------------------
(* The table.                                                              *)

Rows(heur, res) == {Row(heur, res, u) : u \in Raced(res)}

\* There are as many rows as users with a result, finitely many.
LEMMA RowsCount ==
  ASSUME NEW heur \in BOOLEAN, NEW res \in SUBSET Results(heur), IsFiniteSet(res)
  PROVE  /\ IsFiniteSet(Raced(res)) /\ Cardinality(Raced(res)) \in Nat
         /\ IsFiniteSet(Rows(heur, res))
         /\ Cardinality(Rows(heur, res)) = Cardinality(Raced(res))
<1> DEFINE e == [x \in res |-> x.user]
           f == [u \in Raced(res) |-> Row(heur, res, u)]
<1>1. e \in Surjection(res, Raced(res))
  BY DEF Surjection, Raced
<1>2. IsFiniteSet(Raced(res)) /\ Cardinality(Raced(res)) \in Nat
  BY <1>1, FS_Surjection, FS_CardinalityType
<1>3. \A u, v \in Raced(res) : Row(heur, res, u) = Row(heur, res, v) => u = v
  BY DEF Row
<1>4. f \in Surjection(Raced(res), Rows(heur, res))
  BY DEF Surjection, Rows
<1>5. f \in Injection(Raced(res), Rows(heur, res))
  BY <1>3 DEF Injection, IsInjective, Rows
<1>6. /\ IsFiniteSet(Rows(heur, res))
      /\ Cardinality(Rows(heur, res)) = Cardinality(Raced(res))
  BY <1>2, <1>4, <1>5, FS_Surjection
<1> QED BY <1>2, <1>6

\* A table has one row for each user with a result, with what the results are
\* worth and the rank of a competition.
LEMMA TableFacts ==
  ASSUME NEW heur \in BOOLEAN, NEW res \in SUBSET Results(heur), IsFiniteSet(res),
         NEW tab \in Tables(heur, res), NEW n, n = Cardinality(Raced(res))
  PROVE  /\ n \in Nat /\ Len(tab) = n
         /\ \A i \in 1..n :
              /\ tab[i].user \in Raced(res)
              /\ tab[i].total = Row(heur, res, tab[i].user).total
              /\ tab[i].last = Row(heur, res, tab[i].user).last
              /\ tab[i].rank \in 1..n
              /\ tab[i].rank = 1 + Cardinality({j \in 1..n : Better(heur, tab[j], tab[i])})
         /\ \A u \in Raced(res) : \E i \in 1..n : tab[i].user = u
         /\ \A i, j \in 1..n : tab[i].user = tab[j].user => i = j
<1> DEFINE rows == Rows(heur, res)
<1>1. n \in Nat /\ IsFiniteSet(rows) /\ Cardinality(rows) = n
  BY RowsCount
<1>2. PICK q \in Sorted(rows) :
        tab = [i \in 1..Len(q) |->
                 [user |-> q[i].user, total |-> q[i].total, last |-> q[i].last,
                  rank |-> Ranks(heur, q)[i]]]
  BY DEF Tables, Rows, Raced
<1> HIDE DEF rows
<1>3. /\ q \in [1..n -> rows]
      /\ \A i, j \in 1..n : i < j => q[i] # q[j] /\ ~Before(q[j], q[i])
  BY <1>1, <1>2 DEF Sorted
<1>4. Len(q) = n
  BY <1>1, <1>3
<1>5. \A i, j \in 1..n : q[i] = q[j] => i = j
  <2>1. \A i, j \in 1..n : i < j \/ j < i \/ i = j
    BY <1>1
  <2> QED BY <1>3, <2>1
<1>6. \A r \in rows : \E i \in 1..n : q[i] = r
  <2>1. q \in Injection(1..n, rows)
    BY <1>3, <1>5 DEF Injection, IsInjective
  <2>2. Cardinality(1..n) = n
    <3>1. 1 \in Int /\ n \in Int /\ n >= 0
      BY <1>1
    <3>2. Cardinality(1..n) = IF 1 > n THEN 0 ELSE n - 1 + 1
      BY <3>1, FS_Interval
    <3> QED BY <3>1, <3>2
  <2>3. q \in Surjection(1..n, rows)
    BY <1>1, <2>1, <2>2, FS_Injection
  <2> QED BY <2>3 DEF Surjection
<1>7. \A i \in 1..n : \E u \in Raced(res) : q[i] = Row(heur, res, u)
  BY <1>3 DEF rows, Rows
<1>8. \A i \in 1..n : RowLike(q[i]) /\ q[i].user \in Raced(res) /\ q[i] = Row(heur, res, q[i].user)
  <2>1. ASSUME NEW i \in 1..n
        PROVE  RowLike(q[i]) /\ q[i].user \in Raced(res) /\ q[i] = Row(heur, res, q[i].user)
    <3>1. PICK u \in Raced(res) : q[i] = Row(heur, res, u)
      BY <1>7
    <3>2. RowLike(Row(heur, res, u)) /\ Row(heur, res, u).user = u
      BY RowType
    <3> QED BY <3>1, <3>2
  <2> QED BY <2>1
<1>9. \A i \in 1..n :
        /\ Ranks(heur, q)[i] \in 1..i
        /\ Ranks(heur, q)[i] = 1 + Cardinality({j \in 1..n : Better(heur, q[j], q[i])})
  <2>1. InOrder(q, n)
    BY <1>3, <1>4, <1>8 DEF InOrder
  <2> QED BY <1>1, <2>1, RanksOfSorted
<1>10. Len(tab) = n
  BY <1>1, <1>2, <1>4
<1>11. \A i \in 1..n : /\ tab[i].user = q[i].user /\ tab[i].total = q[i].total
                       /\ tab[i].last = q[i].last /\ tab[i].rank = Ranks(heur, q)[i]
  BY <1>2, <1>4
<1>12. \A i, j \in 1..n : Better(heur, tab[j], tab[i]) <=> Better(heur, q[j], q[i])
  BY <1>11 DEF Better
<1>13. ASSUME NEW i \in 1..n
       PROVE  /\ tab[i].user \in Raced(res)
              /\ tab[i].total = Row(heur, res, tab[i].user).total
              /\ tab[i].last = Row(heur, res, tab[i].user).last
              /\ tab[i].rank \in 1..n
              /\ tab[i].rank = 1 + Cardinality({j \in 1..n : Better(heur, tab[j], tab[i])})
  <2>1. {j \in 1..n : Better(heur, tab[j], tab[i])} = {j \in 1..n : Better(heur, q[j], q[i])}
    BY <1>12
  <2>2. tab[i].rank = 1 + Cardinality({j \in 1..n : Better(heur, tab[j], tab[i])})
    BY <1>9, <1>11, <2>1
  <2>3. tab[i].rank \in 1..n
    <3>1. Ranks(heur, q)[i] \in 1..i
      BY <1>9
    <3>2. tab[i].rank = Ranks(heur, q)[i]
      BY <1>11
    <3> QED BY <1>1, <3>1, <3>2
  <2>4. q[i].user \in Raced(res) /\ q[i] = Row(heur, res, q[i].user)
    BY <1>8
  <2> QED BY <1>11, <2>2, <2>3, <2>4
<1>14. ASSUME NEW u \in Raced(res) PROVE \E i \in 1..n : tab[i].user = u
  <2>1. Row(heur, res, u) \in rows /\ Row(heur, res, u).user = u
    BY DEF rows, Rows, Row
  <2>2. PICK i \in 1..n : q[i] = Row(heur, res, u)
    BY <1>6, <2>1
  <2> QED BY <1>11, <2>1, <2>2
<1>15. ASSUME NEW i \in 1..n, NEW j \in 1..n, tab[i].user = tab[j].user PROVE i = j
  <2>1. q[i].user = q[j].user
    BY <1>11, <1>15
  <2>2. q[i] = q[j]
    BY <1>8, <2>1
  <2> QED BY <1>5, <2>2
<1> QED BY <1>1, <1>10, <1>13, <1>14, <1>15

-----------------------------------------------------------------------------
(* Pages.                                                                  *)

\* The pages hold all rows, and all but the last one are full.
LEMMA PagesCover ==
  ASSUME NEW total \in Nat
  PROVE  /\ TotalPages(total) \in Nat \ {0}
         /\ total <= TotalPages(total) * PerPage
         /\ \A p \in 1..TotalPages(total) :
              /\ (p - 1) * PerPage \in Nat /\ p * PerPage \in Nat
              /\ p * PerPage = (p - 1) * PerPage + PerPage
              /\ total > 0 => (p - 1) * PerPage < total
              /\ p < TotalPages(total) => p * PerPage < total
<1> DEFINE d == (total + PerPage - 1) \div PerPage
<1> USE PerPageAssumption
<1>1. d \in Nat /\ d * PerPage <= total + PerPage - 1 /\ total + PerPage - 1 < d * PerPage + PerPage
  <2>1. total + PerPage - 1 \in Nat
    OBVIOUS
  <2> QED BY <2>1, Quotient
<1>2. TotalPages(total) = IF d >= 1 THEN d ELSE 1
  BY DEF TotalPages, Larger
<1> HIDE DEF d
<1>3. d * PerPage \in Nat /\ total <= d * PerPage
  BY <1>1
<1>4. TotalPages(total) \in Nat \ {0} /\ total <= TotalPages(total) * PerPage
  <2>1. CASE d >= 1
    BY <1>1, <1>2, <1>3, <2>1
  <2>2. CASE d = 0
    BY <1>1, <1>2, <1>3, <2>2
  <2> QED BY <1>1, <2>1, <2>2
<1>5. ASSUME total > 0 PROVE (TotalPages(total) - 1) * PerPage < total
  <2>1. CASE d >= 1
    <3>1. (d - 1) * PerPage = d * PerPage - PerPage
      BY <1>1
    <3> QED BY <1>1, <1>2, <1>3, <2>1, <3>1
  <2>2. CASE d = 0
    BY <1>2, <1>5, <2>2
  <2> QED BY <1>1, <2>1, <2>2
<1>6. ASSUME total = 0 PROVE TotalPages(total) = 1
  <2>1. d * PerPage < PerPage
    BY <1>1, <1>3, <1>6
  <2>2. d < 2
    <3>1. ASSUME d >= 2 PROVE FALSE
      <4>1. 2 * PerPage <= d * PerPage
        BY <1>1, <3>1, TimesMonotone
      <4> QED BY <1>3, <2>1, <4>1
    <3> QED BY <1>1, <3>1
  <2> QED BY <1>1, <1>2, <2>2
<1>7. ASSUME NEW p \in 1..TotalPages(total)
      PROVE  /\ (p - 1) * PerPage \in Nat /\ p * PerPage \in Nat
             /\ p * PerPage = (p - 1) * PerPage + PerPage
             /\ total > 0 => (p - 1) * PerPage < total
             /\ p < TotalPages(total) => p * PerPage < total
  <2>1. p \in Nat /\ p - 1 \in Nat /\ TotalPages(total) - 1 \in Nat
    BY <1>4
  <2>2. /\ (p - 1) * PerPage \in Nat /\ p * PerPage \in Nat
        /\ p * PerPage = (p - 1) * PerPage + PerPage
    BY <2>1
  <2>3. /\ (TotalPages(total) - 1) * PerPage \in Nat
        /\ (p - 1) * PerPage <= (TotalPages(total) - 1) * PerPage
    BY <1>4, <2>1, TimesMonotone
  <2>4. total > 0 => (p - 1) * PerPage < total
    BY <1>5, <2>2, <2>3
  <2>5. ASSUME p < TotalPages(total) PROVE p * PerPage < total
    <3>1. total > 0
      BY <1>6, <2>1, <2>5
    <3>2. p * PerPage <= (TotalPages(total) - 1) * PerPage
      BY <1>4, <2>1, <2>5, TimesMonotone
    <3> QED BY <1>5, <2>2, <2>3, <3>1, <3>2
  <2> QED BY <2>2, <2>4, <2>5
<1> QED BY <1>4, <1>7

\* The page shown is one of them, and the one asked for if there is one.
LEMMA PageShownIsAPage ==
  ASSUME NEW total \in Nat, NEW asked \in Int
  PROVE  /\ PageShown(asked, total) \in 1..TotalPages(total)
         /\ asked \in 1..TotalPages(total) => PageShown(asked, total) = asked
BY PagesCover DEF PageShown, Smaller, Larger


\* A row is on one page.
LEMMA OnePageEach ==
  ASSUME NEW n \in Nat, NEW i \in 1..n
  PROVE  Cardinality({p \in 1..TotalPages(n) : i \in PageRows(p, n)}) = 1
<1> DEFINE x == (i - 1) \div PerPage
           p0 == x + 1
<1> USE PerPageAssumption
<1>1. x \in Nat /\ x * PerPage \in Nat /\ x * PerPage <= i - 1 /\ i - 1 < x * PerPage + PerPage
  <2>1. i - 1 \in Nat
    OBVIOUS
  <2> QED BY <2>1, Quotient
<1> HIDE DEF x
<1>2. /\ p0 \in Nat \ {0} /\ p0 - 1 = x
      /\ p0 * PerPage = x * PerPage + PerPage /\ p0 * PerPage \in Nat
  BY <1>1
<1>3. /\ TotalPages(n) \in Nat \ {0} /\ n <= TotalPages(n) * PerPage
      /\ \A p \in 1..TotalPages(n) :
           /\ (p - 1) * PerPage \in Nat /\ p * PerPage \in Nat
           /\ p * PerPage = (p - 1) * PerPage + PerPage
  BY PagesCover
<1>4. p0 \in 1..TotalPages(n)
  <2>1. ASSUME TotalPages(n) < p0 PROVE FALSE
    <3>1. TotalPages(n) <= x
      BY <1>2, <1>3, <2>1
    <3>2. TotalPages(n) * PerPage <= x * PerPage /\ TotalPages(n) * PerPage \in Nat
      BY <1>1, <1>3, <3>1, TimesMonotone
    <3> QED BY <1>1, <1>3, <3>2
  <2> QED BY <1>2, <1>3, <2>1
<1>5. i \in PageRows(p0, n)
  BY <1>1, <1>2 DEF PageRows, PageEnd, Smaller
<1>6. ASSUME NEW p \in 1..TotalPages(n), i \in PageRows(p, n) PROVE p = p0
  <2>1. /\ (p - 1) * PerPage \in Nat /\ p * PerPage \in Nat /\ p \in Nat /\ p - 1 \in Nat
        /\ (p - 1) * PerPage < i /\ i <= p * PerPage
    BY <1>3, <1>6 DEF PageRows, PageEnd, Smaller
  <2>2. ASSUME p < p0 PROVE FALSE
    <3>1. p <= x
      BY <1>2, <2>1, <2>2
    <3>2. p * PerPage <= x * PerPage
      BY <1>1, <2>1, <3>1, TimesMonotone
    <3> QED BY <1>1, <2>1, <3>2
  <2>3. ASSUME p0 < p PROVE FALSE
    <3>1. p0 <= p - 1
      BY <1>2, <2>1, <2>3
    <3>2. p0 * PerPage <= (p - 1) * PerPage
      BY <1>2, <2>1, <3>1, TimesMonotone
    <3> QED BY <1>1, <1>2, <2>1, <3>2
  <2> QED BY <1>2, <2>1, <2>2, <2>3
<1> HIDE DEF p0
<1>7. {p \in 1..TotalPages(n) : i \in PageRows(p, n)} = {p0}
  BY <1>4, <1>5, <1>6
<1>8. Cardinality({p0}) = 1
  BY FS_Singleton
<1> QED BY <1>7, <1>8

\* A page holds rows of the table, no more than fit, and some if there are any.
LEMMA PageHolds ==
  ASSUME NEW n \in Nat, NEW p \in 1..TotalPages(n)
  PROVE  /\ PageRows(p, n) \subseteq 1..n
         /\ Cardinality(PageRows(p, n)) <= PerPage
         /\ PageRows(p, n) = {} => n = 0
<1> DEFINE a == (p - 1) * PerPage + 1
           b == PageEnd(p, n)
<1> USE PerPageAssumption
<1>1. /\ a \in Nat /\ 1 <= a /\ b \in Nat /\ b <= n /\ b <= a - 1 + PerPage
      /\ n > 0 => a <= b
  <2>1. /\ (p - 1) * PerPage \in Nat /\ p * PerPage \in Nat
        /\ p * PerPage = (p - 1) * PerPage + PerPage
        /\ n > 0 => (p - 1) * PerPage < n
    BY PagesCover
  <2> QED BY <2>1 DEF PageEnd, Smaller
<1>2. PageRows(p, n) = a..b
  BY DEF PageRows
<1> HIDE DEF a, b
<1>3. Cardinality(a..b) <= PerPage
  <2>1. a \in Int /\ b \in Int
    BY <1>1
  <2>2. Cardinality(a..b) = IF a > b THEN 0 ELSE b - a + 1
    BY <2>1, FS_Interval
  <2> QED BY <1>1, <2>2
<1>4. a..b \subseteq 1..n
  BY <1>1
<1>5. n > 0 => a \in a..b
  BY <1>1
<1> QED BY <1>2, <1>3, <1>4, <1>5

-----------------------------------------------------------------------------
(* The invariant.                                                          *)

\* A table computed from the results has the type it should.
LEMMA ComputedType ==
  ASSUME NEW heur \in BOOLEAN, NEW res \in SUBSET Results(heur), IsFiniteSet(res),
         NEW tab \in Tables(heur, res)
  PROVE  /\ Len(tab) = Cardinality(Raced(res))
         /\ \A i \in 1..Len(tab) : tab[i].user \in Raced(res) /\ tab[i].rank \in 1..Len(tab)
<1> DEFINE n == Cardinality(Raced(res))
<1>1. /\ Len(tab) = n
      /\ \A i \in 1..n : tab[i].user \in Raced(res) /\ tab[i].rank \in 1..n
  <2> HIDE DEF n
  <2>1. n = Cardinality(Raced(res))
    BY DEF n
  <2> QED BY <2>1, TableFacts
<1> QED BY <1>1

\* Nobody has a result, and the table is empty.
LEMMA InitIInv == Init => IInv
<1> SUFFICES ASSUME Init PROVE IInv
  OBVIOUS
<1>1. /\ heuristic \in BOOLEAN /\ results = {} /\ table = <<>>
      /\ IsFiniteSet({}) /\ Cardinality({}) = 0
  BY FS_EmptySet DEF Init
<1>2. Raced(results) = {} /\ Len(table) = 0
  BY <1>1 DEF Raced
<1>3. TypeOK
  <2>1. Len(table) = Cardinality(Raced(results)) /\ IsFiniteSet(results)
    BY <1>1, <1>2
  <2>2. 1..Len(table) = {}
    BY <1>2
  <2> QED BY <1>1, <2>1, <2>2 DEF TypeOK
<1>4. table \in Tables(heuristic, results)
  <2>1. <<>> \in Sorted({})
    <3>1. <<>> \in [1..0 -> {}]
      OBVIOUS
    <3> QED BY <1>1, <3>1 DEF Sorted
  <2>2. {Row(heuristic, results, u) : u \in {e.user : e \in results}} = {}
    BY <1>1
  <2>3. [i \in 1..Len(<<>>) |->
          [user |-> <<>>[i].user, total |-> <<>>[i].total, last |-> <<>>[i].last,
           rank |-> Ranks(heuristic, <<>>)[i]]] = <<>>
    OBVIOUS
  <2> QED BY <1>1, <2>1, <2>2, <2>3 DEF Tables
<1> QED BY <1>3, <1>4 DEF IInv

\* What a step leaves is computed from the results it leaves.
LEMMA RecomputeKeeps ==
  ASSUME heuristic' = heuristic, heuristic \in BOOLEAN,
         results' \in SUBSET Results(heuristic), IsFiniteSet(results'), Recompute
  PROVE  IInv'
<1>1. table' \in Tables(heuristic, results')
  BY DEF Recompute
<1>2. /\ Len(table') = Cardinality(Raced(results'))
      /\ \A i \in 1..Len(table') :
           table'[i].user \in Raced(results') /\ table'[i].rank \in 1..Len(table')
  BY <1>1, ComputedType
<1>3. TypeOK'
  BY <1>2 DEF TypeOK, Results, Raced
<1> QED BY <1>1, <1>3 DEF IInv

\* A result that counts is one more result.
LEMMA JudgedKeeps ==
  ASSUME IInv, NEW u \in Users, NEW p \in Problems, Judged(u, p)
  PROVE  IInv'
<1>1. /\ heuristic' = heuristic /\ heuristic \in BOOLEAN /\ Recompute
      /\ results \in SUBSET Results(heuristic) /\ IsFiniteSet(results)
  BY DEF Judged, IInv, TypeOK, Results
<1>2. PICK value \in IF heuristic THEN Marks ELSE Times :
        results' = results \cup {[user |-> u, problem |-> p, value |-> value]}
  BY DEF Judged
<1>3. [user |-> u, problem |-> p, value |-> value] \in Results(heuristic)
  BY <1>1 DEF Results
<1>4. results' \in SUBSET Results(heuristic) /\ IsFiniteSet(results')
  BY <1>1, <1>2, <1>3, FS_AddElement
<1> QED BY <1>1, <1>4, RecomputeKeeps

\* The results of an account that goes are no longer there.
LEMMA DeletedKeeps ==
  ASSUME IInv, NEW u \in Users, Deleted(u)
  PROVE  IInv'
<1>1. /\ heuristic' = heuristic /\ heuristic \in BOOLEAN /\ Recompute
      /\ results \in SUBSET Results(heuristic) /\ IsFiniteSet(results)
      /\ results' \in SUBSET results
  BY DEF Deleted, IInv, TypeOK, Results
<1>2. results' \in SUBSET Results(heuristic) /\ IsFiniteSet(results')
  BY <1>1, FS_Subset
<1> QED BY <1>1, <1>2, RecomputeKeeps

\* Every step keeps the inductive invariant.
LEMMA NextIInv == IInv /\ [Next]_vars => IInv'
<1> SUFFICES ASSUME IInv, [Next]_vars PROVE IInv'
  OBVIOUS
<1>1. ASSUME NEW u \in Users, NEW p \in Problems, Judged(u, p) PROVE IInv'
  BY <1>1, JudgedKeeps
<1>2. ASSUME NEW u \in Users, Deleted(u) PROVE IInv'
  BY <1>2, DeletedKeeps
<1>3. CASE UNCHANGED vars
  BY <1>3 DEF vars, IInv, TypeOK
<1> QED BY <1>1, <1>2, <1>3 DEF Next

-----------------------------------------------------------------------------
\* The page shows one row for each user with a result, with a rank among them, and
\* what it shows is what contest_standings computes from the results there are.
THEOREM InductiveInvariant == Spec => []IInv
<1> QED BY InitIInv, NextIInv, PTL DEF Spec

\* What TableFacts says of the state.
LEMMA ShownFacts ==
  ASSUME IInv
  PROVE  /\ Len(table) \in Nat
         /\ RanksCountTheBetter
<1> DEFINE n == Cardinality(Raced(results))
<1>1. /\ heuristic \in BOOLEAN /\ results \in SUBSET Results(heuristic)
      /\ IsFiniteSet(results) /\ table \in Tables(heuristic, results)
  BY DEF IInv, TypeOK, Results
<1>2. /\ n \in Nat /\ Len(table) = n
      /\ \A i \in 1..n : table[i].rank =
           1 + Cardinality({j \in 1..n : Better(heuristic, table[j], table[i])})
  <2>1. n = Cardinality(Raced(results))
    OBVIOUS
  <2> HIDE DEF n
  <2> QED BY <1>1, <2>1, TableFacts
<1> HIDE DEF n
<1> QED BY <1>2 DEF RanksCountTheBetter, Shown

\* The loop of contest_standings that hands out ranks gives each row one more than
\* the rows that are better by what the page shows, however the hash map ordered
\* the ties.
THEOREM RanksAreFair == Spec => []RanksCountTheBetter
<1>1. IInv => RanksCountTheBetter
  BY ShownFacts
<1> QED BY <1>1, InductiveInvariant, PTL

\* The pages of the standings show every row once, and whatever page is asked for
\* there is one to show.
THEOREM PagesShowAll == Spec => []PagesPartition
<1>1. ASSUME IInv PROVE PagesPartition
  <2> DEFINE n == Len(table)
  <2>1. n \in Nat
    BY <1>1, ShownFacts
  <2> HIDE DEF n
  <2>2. \A i \in 1..n : Cardinality({p \in 1..TotalPages(n) : i \in PageRows(p, n)}) = 1
    BY <2>1, OnePageEach
  <2>3. \A p \in 1..TotalPages(n) :
          /\ PageRows(p, n) \subseteq 1..n
          /\ Cardinality(PageRows(p, n)) <= PerPage
          /\ PageRows(p, n) = {} => n = 0
    BY <2>1, PageHolds
  <2>4. \A asked \in -1..(n + 2) :
          /\ PageShown(asked, n) \in 1..TotalPages(n)
          /\ asked \in 1..TotalPages(n) => PageShown(asked, n) = asked
    BY <2>1, PageShownIsAPage
  <2> QED BY <2>2, <2>3, <2>4 DEF PagesPartition, Shown, n
<1> QED BY <1>1, InductiveInvariant, PTL

-----------------------------------------------------------------------------
(* One more result.                                                        *)

\* A sum is that of the same values without one, plus that one.
LEMMA SumRemove ==
  ASSUME NEW S, IsFiniteSet(S), NEW g \in [S -> Int], NEW h \in Sums(g, S)
  PROVE  \A s \in SUBSET S : \A y \in s : h[s] = h[s \ {y}] + g[y]
<1> DEFINE T == {s \in SUBSET S : \E y \in s : h[s] # h[s \ {y}] + g[y]}
<1>1. /\ \A s \in SUBSET S : h[s] \in Int
      /\ \A s \in SUBSET S : s # {} => h[s] = h[s \ {Pick(s)}] + g[Pick(s)]
      /\ \A y \in S : g[y] \in Int
  BY DEF Sums
<1>2. ASSUME NEW s \in T PROVE \E t \in T : t \subseteq s /\ t # s
  <2>0. s \in SUBSET S
    OBVIOUS
  <2>1. PICK y \in s : h[s] # h[s \ {y}] + g[y]
    OBVIOUS
  <2> DEFINE x == Pick(s)
             sx == s \ {x}
             sy == s \ {y}
  <2>2. x \in s
    BY <2>1, PickIsOne
  <2>3. h[s] = h[sx] + g[x]
    BY <1>1, <2>0, <2>2
  <2>4. y # x
    BY <2>1, <2>3
  <2> HIDE DEF x
  <2>5. /\ sx \in SUBSET S /\ sy \in SUBSET S /\ y \in sx /\ x \in sy
        /\ sx \subseteq s /\ sx # s /\ sy \subseteq s /\ sy # s
        /\ sx \ {y} = sy \ {x} /\ sx \ {y} \in SUBSET S
    BY <2>0, <2>2, <2>4
  <2>6. CASE sx \in T
    BY <2>5, <2>6
  <2>7. CASE sy \in T
    BY <2>5, <2>7
  <2>8. CASE sx \notin T /\ sy \notin T
    <3>1. h[sx] = h[sx \ {y}] + g[y] /\ h[sy] = h[sy \ {x}] + g[x]
      BY <2>5, <2>8
    <3>2. h[sx] \in Int /\ h[sy] \in Int /\ h[sx \ {y}] \in Int /\ g[x] \in Int /\ g[y] \in Int
      BY <1>1, <2>0, <2>1, <2>2, <2>5
    <3>3. h[sx \ {y}] = h[sy \ {x}]
      BY <2>5
    <3> HIDE DEF sx, sy
    <3>4. h[s] = h[sy] + g[y]
      BY <2>3, <3>1, <3>2, <3>3
    <3> QED BY <2>1, <3>4 DEF sy
  <2> QED BY <2>6, <2>7, <2>8
<1>3. T = {}
  <2>1. T \in SUBSET (SUBSET S)
    OBVIOUS
  <2> HIDE DEF T
  <2> QED BY <1>2, <2>1, NoLeastSubset
<1> QED BY <1>3

\* Sums of the same values are the same.
LEMMA SumAgree ==
  ASSUME NEW S, IsFiniteSet(S), NEW g \in [S -> Int], NEW h \in Sums(g, S),
         NEW S2, NEW g2 \in [S2 -> Int], NEW h2 \in Sums(g2, S2),
         NEW same \in SUBSET S, same \in SUBSET S2, \A p \in same : g[p] = g2[p]
  PROVE  h[same] = h2[same]
<1> DEFINE T == {s \in SUBSET same : h[s] # h2[s]}
<1>1. /\ \A s \in SUBSET S :
           h[s] = IF s = {} THEN 0 ELSE h[s \ {Pick(s)}] + g[Pick(s)]
      /\ \A s \in SUBSET S2 :
           h2[s] = IF s = {} THEN 0 ELSE h2[s \ {Pick(s)}] + g2[Pick(s)]
  BY DEF Sums
<1>2. ASSUME NEW s \in T PROVE \E t \in T : t \subseteq s /\ t # s
  <2>1. s \in SUBSET S /\ s \in SUBSET S2 /\ h[s] # h2[s]
    OBVIOUS
  <2>2. s # {}
    BY <1>1, <2>1
  <2>3. Pick(s) \in s
    BY <2>2, PickIsOne
  <2>4. g[Pick(s)] = g2[Pick(s)]
    BY <2>3
  <2>5. h[s] = h[s \ {Pick(s)}] + g[Pick(s)] /\ h2[s] = h2[s \ {Pick(s)}] + g2[Pick(s)]
    BY <1>1, <2>1, <2>2
  <2>6. h[s \ {Pick(s)}] # h2[s \ {Pick(s)}]
    BY <2>1, <2>4, <2>5
  <2>7. s \ {Pick(s)} \in T /\ s \ {Pick(s)} \subseteq s /\ s \ {Pick(s)} # s
    BY <2>3, <2>6
  <2> QED BY <2>7
<1>3. T = {}
  <2>1. T \in SUBSET (SUBSET S)
    OBVIOUS
  <2> HIDE DEF T
  <2> QED BY <1>2, <2>1, NoLeastSubset
<1> QED BY <1>3

\* The row is at least as good: more points, or as many and no later.
AtLeast(heur, r, s) ==
  /\ RowLike(r) /\ RowLike(s)
  /\ \/ r.total > s.total
     \/ /\ r.total = s.total
        /\ heur \/ (r.last \in Nat /\ s.last \in Nat /\ r.last <= s.last)

\* Whoever is better than the better row is better than the other.
LEMMA AtLeastOrder ==
  ASSUME NEW heur \in BOOLEAN, NEW r, NEW s, NEW t, AtLeast(heur, r, s), RowLike(t)
  PROVE  /\ Better(heur, t, r) => Better(heur, t, s)
         /\ Better(heur, s, t) => Better(heur, r, t)
<1> DEFINE a == Elapsed(r.last)
           b == Elapsed(s.last)
           c == Elapsed(t.last)
<1>1. /\ r.total \in Int /\ s.total \in Int /\ t.total \in Int
      /\ r.last \in Nat \/ r.last = NoTime
      /\ s.last \in Nat \/ s.last = NoTime
      /\ t.last \in Nat \/ t.last = NoTime
  BY DEF AtLeast, RowLike
<1>2. Elapsed(NoTime) = NoTime /\ NoTime \notin Nat
  BY ConstantsAssumption DEF Elapsed
<1>3. c \in Nat \/ c = NoTime
  BY <1>1, <1>2, ElapsedType
<1>4. r.last \in Nat /\ s.last \in Nat /\ r.last <= s.last =>
        a \in Nat /\ b \in Nat /\ a # NoTime /\ b # NoTime /\ a <= b
  BY ElapsedType, ElapsedMonotone
<1>5. \/ r.total > s.total
      \/ r.total = s.total /\ (heur \/ (a \in Nat /\ b \in Nat /\ a # NoTime /\ b # NoTime /\ a <= b))
  BY <1>4 DEF AtLeast
<1> HIDE DEF a, b, c
<1>6. Better(heur, t, r) => Better(heur, t, s)
  BY <1>1, <1>2, <1>3, <1>5 DEF Better, a, b, c
<1>7. Better(heur, s, t) => Better(heur, r, t)
  BY <1>1, <1>2, <1>3, <1>5 DEF Better, a, b, c
<1> QED BY <1>6, <1>7

\* A result of one user leaves the rows of the others alone.
LEMMA OthersRow ==
  ASSUME NEW heur \in BOOLEAN, NEW res \in SUBSET Results(heur), IsFiniteSet(res),
         NEW x \in Results(heur), NEW v, v # x.user
  PROVE  Row(heur, res \cup {x}, v) = Row(heur, res, v)
<1> DEFINE more == res \cup {x}
<1>1. \A q : ValuesOf(more, v, q) = ValuesOf(res, v, q)
  <2>1. \A q : {y \in more : y.user = v /\ y.problem = q}
                 = {y \in res : y.user = v /\ y.problem = q}
    OBVIOUS
  <2> QED BY <2>1 DEF ValuesOf
<1>2. more \in SUBSET Results(heur) /\ IsFiniteSet(more)
  BY FS_AddElement
<1> HIDE DEF more
<1>3. /\ Solved(more, v) = Solved(res, v)
      /\ \A q : Best(heur, more, v, q) = Best(heur, res, v, q)
  BY <1>1 DEF Solved, Has, Best
<1>4. Values(heur, more, v) = Values(heur, res, v)
  BY <1>3 DEF Values
<1>5. Total(heur, more, v) = Total(heur, res, v)
  <2>1. PICK h : h \in Sums(Values(heur, res, v), Solved(res, v))
    BY ValuesType, SumsExist
  <2>2. h \in Sums(Values(heur, more, v), Solved(more, v))
    BY <1>3, <1>4, <2>1
  <2>3. Total(heur, res, v) = h[Solved(res, v)]
    BY <2>1, TotalIsSum
  <2>4. Total(heur, more, v) = h[Solved(more, v)]
    BY <1>2, <2>2, TotalIsSum
  <2> QED BY <1>3, <2>3, <2>4
<1>6. LastAc(heur, more, v) = LastAc(heur, res, v)
  BY <1>3 DEF LastAc
<1> QED BY <1>5, <1>6 DEF Row, more

\* The user's own row is at least as good as it was.
LEMMA OwnRow ==
  ASSUME NEW heur \in BOOLEAN, NEW res \in SUBSET Results(heur), IsFiniteSet(res),
         NEW x \in Results(heur), x.problem \in Listed,
         IF heur THEN Has(res, x.user, x.problem) ELSE Worth(x.problem) > 0
  PROVE  AtLeast(heur, Row(heur, res \cup {x}, x.user), Row(heur, res, x.user))
<1> DEFINE more == res \cup {x}
           u == x.user
           p == x.problem
           S == Solved(res, u)
           S2 == Solved(more, u)
           g == Values(heur, res, u)
           g2 == Values(heur, more, u)
           r == Row(heur, more, u)
           s == Row(heur, res, u)
<1>1. /\ ValuesOf(more, u, p) = ValuesOf(res, u, p) \cup {x.value}
      /\ \A q : q # p => ValuesOf(more, u, q) = ValuesOf(res, u, q)
  <2>1. {y \in more : y.user = u /\ y.problem = p}
          = {y \in res : y.user = u /\ y.problem = p} \cup {x}
    OBVIOUS
  <2>2. \A q : q # p => {y \in more : y.user = u /\ y.problem = q}
                          = {y \in res : y.user = u /\ y.problem = q}
    OBVIOUS
  <2> QED BY <2>1, <2>2 DEF ValuesOf
<1>2. more \in SUBSET Results(heur) /\ IsFiniteSet(more)
  BY FS_AddElement
<1> HIDE DEF more, u, p
<1>3. /\ p \in S2 /\ S2 = S \cup {p} /\ S \subseteq Listed
      /\ Has(more, u, p)
      /\ \A q \in S \ {p} : Best(heur, more, u, q) = Best(heur, res, u, q)
  <2>1. p \in Listed
    BY DEF p
  <2>2. Has(more, u, p) /\ \A q : q # p => (Has(more, u, q) <=> Has(res, u, q))
    BY <1>1 DEF Has
  <2>3. \A q \in S \ {p} : Best(heur, more, u, q) = Best(heur, res, u, q)
    BY <1>1 DEF Best
  <2> QED BY <2>1, <2>2, <2>3 DEF Solved
<1>4. ASSUME p \in S
      PROVE  IF heur THEN Best(heur, more, u, p) >= Best(heur, res, u, p)
             ELSE Best(heur, more, u, p) <= Best(heur, res, u, p)
  <2>1. Has(res, u, p)
    BY <1>4 DEF Solved
  <2>2. Best(heur, res, u, p) \in ValuesOf(res, u, p)
    BY <2>1, BestIsOne
  <2>3. \A y \in ValuesOf(more, u, p) :
          IF heur THEN Best(heur, more, u, p) >= y ELSE Best(heur, more, u, p) <= y
    BY <1>2, <1>3, BestIsOne
  <2> QED BY <1>1, <2>2, <2>3
<1>5. /\ IsFiniteSet(S) /\ IsFiniteSet(S2) /\ g \in [S -> Int] /\ g2 \in [S2 -> Int]
  BY <1>2, ValuesType
<1>6. PICK h : h \in Sums(g, S)
  BY <1>5, SumsExist
<1>7. PICK h2 : h2 \in Sums(g2, S2)
  <2> HIDE DEF g2, S2
  <2> QED BY <1>5, SumsExist
<1>8. s.total = h[S] /\ r.total = h2[S2]
  <2>1. Total(heur, res, u) = h[S]
    BY <1>6, TotalIsSum
  <2>2. Total(heur, more, u) = h2[S2]
    BY <1>2, <1>7, TotalIsSum
  <2> QED BY <2>1, <2>2 DEF Row
<1>9. \A q \in S2 : g2[q] = IF heur THEN Best(heur, more, u, q) ELSE Worth(q)
  BY DEF Values
<1>10. \A q \in S : g[q] = IF heur THEN Best(heur, res, u, q) ELSE Worth(q)
  BY DEF Values
<1>11. RowLike(r) /\ RowLike(s) /\ (heur => r.last = NoTime /\ s.last = NoTime)
  BY <1>2, RowType
<1>12. /\ r.last = LastAc(heur, more, u) /\ s.last = LastAc(heur, res, u)
  BY DEF Row
<1> HIDE DEF g, g2, S, S2, r, s
<1>13. h[S \ {p}] = h2[S \ {p}]
  <2>1. \A q \in S \ {p} : g[q] = g2[q]
    BY <1>3, <1>9, <1>10
  <2>2. S \ {p} \in SUBSET S /\ S \ {p} \in SUBSET S2
    BY <1>3
  <2> QED BY <1>5, <1>6, <1>7, <2>1, <2>2, SumAgree
<1>14. h2[S2] = h2[S \ {p}] + g2[p]
  <2>1. S2 \in SUBSET S2 /\ S2 \ {p} = S \ {p}
    BY <1>3
  <2>2. h2[S2] = h2[S2 \ {p}] + g2[p]
    BY <1>3, <1>5, <1>7, <2>1, SumRemove
  <2> QED BY <2>1, <2>2
<1>15. /\ h2[S \ {p}] \in Int /\ g2[p] \in Int
  <2>1. S \ {p} \in SUBSET S2
    BY <1>3
  <2>2. h2 \in [SUBSET S2 -> Int]
    BY <1>7 DEF Sums
  <2> QED BY <1>3, <1>5, <2>1, <2>2
<1>16. ASSUME p \in S PROVE AtLeast(heur, r, s)
  <2>1. h[S] = h[S \ {p}] + g[p] /\ g[p] \in Int
    <3>1. S \in SUBSET S
      OBVIOUS
    <3> QED BY <1>5, <1>6, <1>16, <3>1, SumRemove
  <2>2. CASE heur
    <3>1. g2[p] >= g[p]
      BY <1>3, <1>4, <1>9, <1>10, <1>16, <2>2
    <3>2. r.total >= s.total /\ r.total \in Int /\ s.total \in Int
      BY <1>8, <1>13, <1>14, <1>15, <2>1, <3>1
    <3> QED BY <1>11, <2>2, <3>2 DEF AtLeast
  <2>3. CASE ~heur
    <3>1. g2[p] = g[p]
      BY <1>3, <1>9, <1>10, <1>16, <2>3
    <3>2. r.total = s.total
      BY <1>8, <1>13, <1>14, <2>1, <3>1
    <3>3. S # {} /\ S2 # {} /\ S2 = S
      BY <1>3, <1>16
    <3>4. /\ r.last \in Nat
          /\ \E q \in S2 : r.last = Best(heur, more, u, q)
      BY <1>2, <1>12, <2>3, <3>3, LastIsOne DEF S2
    <3>5. /\ s.last \in Nat
          /\ \A q \in S : Best(heur, res, u, q) \in Nat /\ Best(heur, res, u, q) <= s.last
      BY <1>12, <2>3, <3>3, LastIsOne DEF S
    <3>6. PICK q \in S : r.last = Best(heur, more, u, q)
      BY <3>3, <3>4
    <3>7. r.last <= Best(heur, res, u, q)
      <4>1. CASE q = p
        BY <1>4, <1>16, <2>3, <3>6, <4>1
      <4>2. CASE q # p
        BY <1>3, <3>4, <3>6, <4>2
      <4> QED BY <4>1, <4>2
    <3>8. r.last <= s.last
      BY <3>4, <3>5, <3>7
    <3> QED BY <1>11, <3>2, <3>4, <3>5, <3>8 DEF AtLeast
  <2> QED BY <2>2, <2>3
<1>17. ASSUME p \notin S PROVE AtLeast(heur, r, s)
  <2>1. ~heur /\ Worth(p) > 0
    BY <1>17 DEF S, Solved, u, p
  <2>2. S \ {p} = S
    BY <1>17
  <2>3. g2[p] = Worth(p)
    BY <1>3, <1>9, <2>1
  <2>4. h[S] = h2[S \ {p}]
    BY <1>13, <2>2
  <2>5. r.total > s.total
    BY <1>8, <1>14, <1>15, <2>1, <2>3, <2>4
  <2> QED BY <1>11, <2>5 DEF AtLeast
<1>18. AtLeast(heur, r, s)
  BY <1>16, <1>17
<1> QED BY <1>18 DEF r, s, more, u

\* The users above a user.
Above(heur, res, u) ==
  {v \in Raced(res) : Better(heur, Row(heur, res, v), Row(heur, res, u))}

\* The rank of a user counts the users above, or all if the user has no result.
LEMMA RankOfCount ==
  ASSUME NEW heur \in BOOLEAN, NEW res \in SUBSET Results(heur), IsFiniteSet(res),
         NEW tab \in Tables(heur, res), NEW u
  PROVE  /\ Len(tab) = Cardinality(Raced(res))
         /\ u \in Raced(res) => RankOf(tab, u) = 1 + Cardinality(Above(heur, res, u))
         /\ u \notin Raced(res) => RankOf(tab, u) = 1 + Cardinality(Raced(res))
<1> DEFINE n == Cardinality(Raced(res))
<1>1. /\ n \in Nat /\ Len(tab) = n
      /\ \A i \in 1..n :
           /\ tab[i].user \in Raced(res)
           /\ tab[i].total = Row(heur, res, tab[i].user).total
           /\ tab[i].last = Row(heur, res, tab[i].user).last
           /\ tab[i].rank \in 1..n
           /\ tab[i].rank = 1 + Cardinality({j \in 1..n : Better(heur, tab[j], tab[i])})
      /\ \A v \in Raced(res) : \E i \in 1..n : tab[i].user = v
      /\ \A i, j \in 1..n : tab[i].user = tab[j].user => i = j
  <2>1. n = Cardinality(Raced(res))
    OBVIOUS
  <2> HIDE DEF n
  <2> QED BY <2>1, TableFacts
<1>2. IsFiniteSet(Raced(res))
  BY RowsCount
<1> HIDE DEF n
<1>3. ASSUME u \in Raced(res)
      PROVE  RankOf(tab, u) = 1 + Cardinality(Above(heur, res, u))
  <2>1. PICK i \in 1..n : tab[i].user = u
    BY <1>1, <1>3
  <2>2. RowOf(tab, u) = i
    BY <1>1, <2>1 DEF RowOf
  <2>3. RankOf(tab, u) = tab[i].rank
    BY <1>1, <2>1, <2>2 DEF RankOf
  <2> DEFINE J == {j \in 1..n : Better(heur, tab[j], tab[i])}
             A == Above(heur, res, u)
             f == [j \in J |-> tab[j].user]
  <2>4. \A j \in 1..n : Better(heur, tab[j], tab[i])
                          <=> Better(heur, Row(heur, res, tab[j].user), Row(heur, res, u))
    BY <1>1, <2>1 DEF Better
  <2>5. f \in [J -> A]
    BY <1>1, <2>4 DEF Above
  <2>6. \A j, k \in J : f[j] = f[k] => j = k
    BY <1>1
  <2>7. \A v \in A : \E j \in J : f[j] = v
    <3>1. ASSUME NEW v \in A PROVE \E j \in J : f[j] = v
      <4>1. v \in Raced(res) /\ Better(heur, Row(heur, res, v), Row(heur, res, u))
        BY DEF Above
      <4>2. PICK j \in 1..n : tab[j].user = v
        BY <1>1, <4>1
      <4>3. j \in J
        BY <2>4, <4>1, <4>2
      <4> QED BY <4>2, <4>3
    <3> QED BY <3>1
  <2>8. f \in Injection(J, A) /\ f \in Surjection(J, A)
    BY <2>5, <2>6, <2>7 DEF Injection, IsInjective, Surjection
  <2>9. IsFiniteSet(A)
    BY <1>2, FS_Subset DEF Above
  <2>10. Cardinality(J) = Cardinality(A)
    BY <2>8, <2>9, FS_Injection
  <2>11. tab[i].rank = 1 + Cardinality(J)
    BY <1>1
  <2> HIDE DEF J, A
  <2>12. RankOf(tab, u) = 1 + Cardinality(A)
    BY <2>3, <2>10, <2>11
  <2> QED BY <2>12 DEF A
<1>4. ASSUME u \notin Raced(res)
      PROVE  RankOf(tab, u) = 1 + n
  <2>1. ASSUME NEW i \in 1..n PROVE tab[i].user # u
    <3>1. tab[i].user \in Raced(res)
      BY <1>1
    <3> QED BY <1>4, <3>1
  <2>2. Len(tab) = n /\ n \in Nat
    BY <1>1
  <2>3. ~ \E i \in 1..Len(tab) : tab[i].user = u
    BY <2>1, <2>2
  <2>4. RankOf(tab, u) = Len(tab) + 1
    BY <2>3 DEF RankOf
  <2> QED BY <2>2, <2>4
<1> QED BY <1>1, <1>3, <1>4 DEF n

\* A user with one more result is ranked no lower, and no other one higher unless
\* the user is new to the page.
LEMMA OneMoreResult ==
  ASSUME NEW heur \in BOOLEAN, NEW res \in SUBSET Results(heur), IsFiniteSet(res),
         NEW x \in Results(heur), x.problem \in Listed,
         IF heur THEN Has(res, x.user, x.problem) ELSE Worth(x.problem) > 0,
         NEW more, more = res \cup {x},
         NEW tab \in Tables(heur, res), NEW tab2 \in Tables(heur, more)
  PROVE  /\ RankOf(tab2, x.user) <= RankOf(tab, x.user)
         /\ \A v \in Users \ {x.user} :
              Len(tab2) = Len(tab) => RankOf(tab2, v) >= RankOf(tab, v)
<1> DEFINE u == x.user
           R == Raced(res)
           R2 == Raced(more)
<1>0. more \in SUBSET Results(heur) /\ IsFiniteSet(more)
  BY FS_AddElement
<1>1. R2 = R \cup {u}
  BY DEF Raced
<1>2. /\ IsFiniteSet(R) /\ Cardinality(R) \in Nat
      /\ IsFiniteSet(R2) /\ Cardinality(R2) \in Nat
  BY <1>0, RowsCount
<1>3. \A v : v # u => Row(heur, more, v) = Row(heur, res, v)
  BY OthersRow
<1>4. AtLeast(heur, Row(heur, more, u), Row(heur, res, u))
  BY OwnRow
<1>5. \A v : RowLike(Row(heur, res, v)) /\ RowLike(Row(heur, more, v))
  BY <1>0, RowType
<1>6. /\ Len(tab) = Cardinality(R) /\ Len(tab2) = Cardinality(R2)
      /\ \A v : /\ v \in R => RankOf(tab, v) = 1 + Cardinality(Above(heur, res, v))
                /\ v \notin R => RankOf(tab, v) = 1 + Cardinality(R)
                /\ v \in R2 => RankOf(tab2, v) = 1 + Cardinality(Above(heur, more, v))
                /\ v \notin R2 => RankOf(tab2, v) = 1 + Cardinality(R2)
  <2>1. ASSUME NEW v
        PROVE  /\ Len(tab) = Cardinality(R)
               /\ v \in R => RankOf(tab, v) = 1 + Cardinality(Above(heur, res, v))
               /\ v \notin R => RankOf(tab, v) = 1 + Cardinality(R)
    BY RankOfCount
  <2>2. ASSUME NEW v
        PROVE  /\ Len(tab2) = Cardinality(R2)
               /\ v \in R2 => RankOf(tab2, v) = 1 + Cardinality(Above(heur, more, v))
               /\ v \notin R2 => RankOf(tab2, v) = 1 + Cardinality(R2)
    <3> HIDE DEF u
    <3>1. heur \in BOOLEAN /\ tab2 \in Tables(heur, more)
      OBVIOUS
    <3> QED BY <1>0, <3>1, RankOfCount
  <2> QED BY <2>1, <2>2
<1>7. \A v : /\ Above(heur, res, v) \in SUBSET R /\ Above(heur, more, v) \in SUBSET R2
             /\ IsFiniteSet(Above(heur, res, v)) /\ IsFiniteSet(Above(heur, more, v))
             /\ Cardinality(Above(heur, res, v)) \in Nat
             /\ Cardinality(Above(heur, more, v)) \in Nat
  <2>1. \A v : Above(heur, res, v) \in SUBSET R /\ Above(heur, more, v) \in SUBSET R2
    BY DEF Above
  <2> QED BY <1>2, <2>1, FS_Subset, FS_CardinalityType
<1> HIDE DEF u, R, R2
<1>8. u \notin Above(heur, more, u)
  <2>1. SameRank(heur, Row(heur, more, u), Row(heur, more, u))
    BY DEF SameRank
  <2>2. ~Better(heur, Row(heur, more, u), Row(heur, more, u))
    BY <1>5, <2>1, RankOrder
  <2> QED BY <2>2 DEF Above
<1>9. Above(heur, more, u) \in SUBSET R
  BY <1>1, <1>7, <1>8
<1>10. RankOf(tab2, u) <= RankOf(tab, u)
  <2>1. RankOf(tab2, u) = 1 + Cardinality(Above(heur, more, u))
    BY <1>1, <1>6
  <2>2. CASE u \in R
    <3>1. ASSUME NEW v \in Above(heur, more, u) PROVE v \in Above(heur, res, u)
      <4>1. v \in R /\ v # u /\ Better(heur, Row(heur, more, v), Row(heur, more, u))
        BY <1>8, <1>9 DEF Above
      <4>2. Better(heur, Row(heur, res, v), Row(heur, more, u))
        BY <1>3, <4>1
      <4>3. Better(heur, Row(heur, res, v), Row(heur, res, u))
        BY <1>4, <1>5, <4>2, AtLeastOrder
      <4> QED BY <4>1, <4>3 DEF Above, R
    <3>2. Above(heur, more, u) \in SUBSET Above(heur, res, u)
      BY <3>1
    <3>3. Cardinality(Above(heur, more, u)) <= Cardinality(Above(heur, res, u))
      BY <1>7, <3>2, FS_Subset
    <3>4. RankOf(tab, u) = 1 + Cardinality(Above(heur, res, u))
      BY <1>6, <2>2
    <3>5. Cardinality(Above(heur, res, u)) \in Nat /\ Cardinality(Above(heur, more, u)) \in Nat
      BY <1>7
    <3> QED BY <2>1, <3>3, <3>4, <3>5
  <2>3. CASE u \notin R
    <3>1. Cardinality(Above(heur, more, u)) <= Cardinality(R)
      BY <1>2, <1>9, FS_Subset
    <3>2. RankOf(tab, u) = 1 + Cardinality(R)
      BY <1>6, <2>3
    <3>3. Cardinality(Above(heur, more, u)) \in Nat
      BY <1>7
    <3> QED BY <1>2, <2>1, <3>1, <3>2, <3>3
  <2> QED BY <2>2, <2>3
<1>11. ASSUME NEW v \in Users \ {u}, Len(tab2) = Len(tab)
       PROVE  RankOf(tab2, v) >= RankOf(tab, v)
  <2>1. R2 = R
    <3>1. Cardinality(R2) = Cardinality(R)
      BY <1>6, <1>11
    <3>2. Cardinality(R \cup {u}) = IF u \in R THEN Cardinality(R) ELSE Cardinality(R) + 1
      BY <1>2, FS_AddElement
    <3>3. u \in R
      BY <1>1, <1>2, <3>1, <3>2
    <3> QED BY <1>1, <3>3
  <2>2. CASE v \notin R
    BY <1>2, <1>6, <2>1, <2>2
  <2>3. CASE v \in R
    <3>1. ASSUME NEW w \in Above(heur, res, v) PROVE w \in Above(heur, more, v)
      <4>1. w \in R /\ Better(heur, Row(heur, res, w), Row(heur, res, v))
        BY DEF Above, R
      <4>2. Better(heur, Row(heur, more, w), Row(heur, res, v))
        <5>1. CASE w = u
          BY <1>4, <1>5, <4>1, <5>1, AtLeastOrder
        <5>2. CASE w # u
          BY <1>3, <4>1, <5>2
        <5> QED BY <5>1, <5>2
      <4>3. Row(heur, more, v) = Row(heur, res, v)
        BY <1>3
      <4> QED BY <2>1, <4>1, <4>2, <4>3 DEF Above, R2
    <3>2. Above(heur, res, v) \in SUBSET Above(heur, more, v)
      BY <3>1
    <3>3. Cardinality(Above(heur, res, v)) <= Cardinality(Above(heur, more, v))
      BY <1>7, <3>2, FS_Subset
    <3>4. /\ RankOf(tab, v) = 1 + Cardinality(Above(heur, res, v))
          /\ RankOf(tab2, v) = 1 + Cardinality(Above(heur, more, v))
      BY <1>6, <2>1, <2>3
    <3> QED BY <1>7, <3>3, <3>4
  <2> QED BY <2>2, <2>3
<1> QED BY <1>10, <1>11 DEF u

\* A new result never counts against its user in contest_standings, in a problem
\* that is worth something or one where the user has a score, whatever the order
\* the judge writes the results in.
THEOREM NoResultHurts == Spec => ResultsNeverHurt
<1> DEFINE Fair == \A e \in results' \ results :
       /\ e.problem \in Listed
       /\ IF heuristic THEN Has(results, e.user, e.problem) ELSE Worth(e.problem) > 0
       => /\ RankOf(table', e.user) <= RankOf(table, e.user)
          /\ \A v \in Users \ {e.user} :
               Len(table') = Len(table) => RankOf(table', v) >= RankOf(table, v)
<1>1. ASSUME IInv, [Next]_vars PROVE Fair \/ UNCHANGED vars
  <2>1. ASSUME NEW u \in Users, NEW p \in Problems, Judged(u, p) PROVE Fair
    <3>1. /\ heuristic \in BOOLEAN /\ results \in SUBSET Results(heuristic)
          /\ IsFiniteSet(results) /\ table \in Tables(heuristic, results)
      BY <1>1 DEF IInv, TypeOK, Results
    <3>2. PICK value \in IF heuristic THEN Marks ELSE Times :
            results' = results \cup {[user |-> u, problem |-> p, value |-> value]}
      BY <2>1 DEF Judged
    <3>3. [user |-> u, problem |-> p, value |-> value] \in Results(heuristic)
      BY <3>1 DEF Results
    <3>4. table' \in Tables(heuristic, results')
      BY <2>1 DEF Judged, Recompute
    <3>5. \A e \in results' \ results : e \in Results(heuristic) /\ results' = results \cup {e}
      BY <3>2, <3>3
    <3> QED BY <3>1, <3>4, <3>5, OneMoreResult
  <2>2. ASSUME NEW u \in Users, Deleted(u) PROVE Fair
    BY <2>2 DEF Deleted
  <2> QED BY <1>1, <2>1, <2>2 DEF Next
<1> QED BY <1>1, InductiveInvariant, PTL DEF Spec, ResultsNeverHurt
===============================================================================
