-------------------------- MODULE SubmissionListProofs --------------------------
(***************************************************************************)
(* Proofs about Pagination and SubmissionList: which rows are on a page,   *)
(* where the links lead, and that a walk over the pages misses no row.     *)
(***************************************************************************)
EXTENDS SubmissionList, FiniteSetTheorems, SequenceTheorems, TLAPS

-----------------------------------------------------------------------------
(* Pages.                                                                  *)

\* Products are monotone.
LEMMA TimesMonotone ==
  ASSUME NEW m \in Nat, NEW n \in Nat, NEW k \in Nat, m <= n
  PROVE  m * k \in Nat /\ n * k \in Nat /\ m * k <= n * k
<1>1. PICK d \in Nat : n = m + d
  <2>1. n - m \in Nat /\ n = m + (n - m)
    OBVIOUS
  <2> QED BY <2>1
<1>2. n * k = m * k + d * k /\ d * k \in Nat /\ m * k \in Nat
  BY <1>1
<1> QED BY <1>2

\* What a quotient is.
LEMMA Quotient ==
  ASSUME NEW n \in Nat, NEW k \in Nat \ {0}
  PROVE  /\ n \div k \in Nat
         /\ (n \div k) * k <= n
         /\ n < (n \div k) * k + k
OBVIOUS

\* The pages hold all rows, and all but the last one are full.
LEMMA PagesCover ==
  ASSUME NEW n \in Nat
  PROVE  /\ TotalPages(n) \in Nat \ {0}
         /\ n <= TotalPages(n) * PerPage
         /\ \A p \in 1..TotalPages(n) :
              /\ (p - 1) * PerPage \in Nat /\ p * PerPage \in Nat
              /\ p * PerPage = (p - 1) * PerPage + PerPage
              /\ n > 0 => (p - 1) * PerPage < n
              /\ p < TotalPages(n) => p * PerPage < n
<1> DEFINE d == (n + PerPage - 1) \div PerPage
<1> USE PerPageAssumption
<1>1. d \in Nat /\ d * PerPage <= n + PerPage - 1 /\ n + PerPage - 1 < d * PerPage + PerPage
  <2>1. n + PerPage - 1 \in Nat
    OBVIOUS
  <2> QED BY <2>1, Quotient
<1>2. TotalPages(n) = IF d >= 1 THEN d ELSE 1
  BY DEF TotalPages, Larger
<1> HIDE DEF d
<1>3. d * PerPage \in Nat /\ n <= d * PerPage
  BY <1>1
<1>4. TotalPages(n) \in Nat \ {0} /\ n <= TotalPages(n) * PerPage
  <2>1. CASE d >= 1
    BY <1>1, <1>2, <1>3, <2>1
  <2>2. CASE d = 0
    BY <1>1, <1>2, <1>3, <2>2
  <2> QED BY <1>1, <2>1, <2>2
<1>5. ASSUME n > 0 PROVE (TotalPages(n) - 1) * PerPage < n
  <2>1. CASE d >= 1
    <3>1. (d - 1) * PerPage = d * PerPage - PerPage
      BY <1>1
    <3> QED BY <1>1, <1>2, <1>3, <2>1, <3>1
  <2>2. CASE d = 0
    BY <1>2, <1>5, <2>2
  <2> QED BY <1>1, <2>1, <2>2
<1>6. ASSUME n = 0 PROVE TotalPages(n) = 1
  <2>1. d * PerPage < PerPage
    BY <1>1, <1>3, <1>6
  <2>2. d < 2
    <3>1. ASSUME d >= 2 PROVE FALSE
      <4>1. 2 * PerPage <= d * PerPage
        BY <1>1, <3>1, TimesMonotone
      <4> QED BY <1>3, <2>1, <4>1
    <3> QED BY <1>1, <3>1
  <2> QED BY <1>1, <1>2, <2>2
<1>7. ASSUME NEW p \in 1..TotalPages(n)
      PROVE  /\ (p - 1) * PerPage \in Nat /\ p * PerPage \in Nat
             /\ p * PerPage = (p - 1) * PerPage + PerPage
             /\ n > 0 => (p - 1) * PerPage < n
             /\ p < TotalPages(n) => p * PerPage < n
  <2>1. p \in Nat /\ p - 1 \in Nat /\ TotalPages(n) - 1 \in Nat
    BY <1>4
  <2>2. /\ (p - 1) * PerPage \in Nat /\ p * PerPage \in Nat
        /\ p * PerPage = (p - 1) * PerPage + PerPage
    BY <2>1
  <2>3. /\ (TotalPages(n) - 1) * PerPage \in Nat
        /\ (p - 1) * PerPage <= (TotalPages(n) - 1) * PerPage
    BY <1>4, <2>1, TimesMonotone
  <2>4. n > 0 => (p - 1) * PerPage < n
    BY <1>5, <2>2, <2>3
  <2>5. ASSUME p < TotalPages(n) PROVE p * PerPage < n
    <3>1. n > 0
      BY <1>6, <2>1, <2>5
    <3>2. p * PerPage <= (TotalPages(n) - 1) * PerPage
      BY <1>4, <2>1, <2>5, TimesMonotone
    <3> QED BY <1>5, <2>2, <2>3, <3>1, <3>2
  <2> QED BY <2>2, <2>4, <2>5
<1> QED BY <1>4, <1>7

\* More rows have no fewer pages.
LEMMA PagesMonotone ==
  ASSUME NEW m \in Nat, NEW n \in Nat, m <= n
  PROVE  TotalPages(m) <= TotalPages(n)
<1> DEFINE a == TotalPages(m)
           b == TotalPages(n)
<1>1. a \in Nat \ {0} /\ b \in Nat \ {0} /\ n <= b * PerPage
  BY PagesCover
<1>2. ASSUME b < a PROVE FALSE
  <2>1. b * PerPage < m
    BY <1>1, <1>2, PagesCover
  <2>2. b * PerPage \in Nat
    BY <1>1, PerPageAssumption
  <2> QED BY <1>1, <2>1, <2>2
<1> QED BY <1>1, <1>2

\* The page shown is one of them, and the one asked for if there is one.
LEMMA PageShownIsAPage ==
  ASSUME NEW n \in Nat, NEW p \in Int
  PROVE  /\ PageShown(p, n) \in 1..TotalPages(n)
         /\ p \in 1..TotalPages(n) => PageShown(p, n) = p
BY PagesCover DEF PageShown, Smaller, Larger

-----------------------------------------------------------------------------
(* Positions.                                                              *)

\* A row of the list has one of its positions.
LEMMA PositionInList ==
  ASSUME NEW list \in SUBSET Nat, IsFiniteSet(list), NEW row \in list
  PROVE  Position(row, list) \in 1..Cardinality(list) /\ Cardinality(list) \in Nat
<1> DEFINE above == {r \in list : r >= row}
<1>1. /\ IsFiniteSet(above) /\ Cardinality(above) <= Cardinality(list)
      /\ Cardinality(above) \in Nat /\ Cardinality(list) \in Nat
  <2>1. above \in SUBSET list
    OBVIOUS
  <2>2. IsFiniteSet(above) /\ Cardinality(above) <= Cardinality(list)
    BY <2>1, FS_Subset
  <2> QED BY <2>2, FS_CardinalityType
<1>2. above # {}
  <2>1. row \in above
    OBVIOUS
  <2> QED BY <2>1
<1>3. Cardinality(above) # 0
  BY <1>1, <1>2, FS_EmptySet
<1> QED BY <1>1, <1>3 DEF Position

\* Rows that arrive only push others on.
LEMMA PositionGrows ==
  ASSUME NEW more \in SUBSET Nat, IsFiniteSet(more), NEW list \in SUBSET more,
         NEW row \in list
  PROVE  Position(row, list) <= Position(row, more)
<1>1. IsFiniteSet({r \in more : r >= row})
  BY FS_Subset
<1>2. {r \in list : r >= row} \in SUBSET {r \in more : r >= row}
  OBVIOUS
<1> QED BY <1>1, <1>2, FS_Subset DEF Position

\* A newer row is before an older one.
LEMMA NewerIsBefore ==
  ASSUME NEW list \in SUBSET Nat, IsFiniteSet(list),
         NEW row \in list, NEW newer \in list, row < newer
  PROVE  Position(newer, list) < Position(row, list)
<1> DEFINE a == {r \in list : r >= newer}
           b == {r \in list : r >= row}
<1>0. row \in Nat /\ newer \in Nat /\ \A r \in list : r \in Nat
  OBVIOUS
<1>1. a \in SUBSET b /\ row \in b /\ row \notin a
  <2>1. \A r \in list : r >= newer => r >= row
    BY <1>0
  <2>2. row >= row /\ ~(row >= newer)
    BY <1>0
  <2> QED BY <2>1, <2>2
<1>2. IsFiniteSet(b)
  BY FS_Subset
<1>3. Cardinality(a) <= Cardinality(b) /\ Cardinality(a) # Cardinality(b)
  BY <1>1, <1>2, FS_Subset
<1>4. Cardinality(a) \in Nat /\ Cardinality(b) \in Nat
  BY <1>1, <1>2, FS_Subset, FS_CardinalityType
<1> QED BY <1>3, <1>4 DEF Position

\* Every position of a list is that of one row.
LEMMA PositionsAreTaken ==
  ASSUME NEW list \in SUBSET Nat, IsFiniteSet(list)
  PROVE  [r \in list |-> Position(r, list)] \in Bijection(list, 1..Cardinality(list))
<1> DEFINE f == [r \in list |-> Position(r, list)]
           places == 1..Cardinality(list)
<1>1. Cardinality(list) \in Nat
  BY FS_CardinalityType
<1>2. IsFiniteSet(places) /\ Cardinality(places) = Cardinality(list)
  BY <1>1, FS_Interval
<1>3. f \in [list -> places]
  BY PositionInList
<1>4. ASSUME NEW r \in list, NEW s \in list, f[r] = f[s] PROVE r = s
  <2>1. Position(r, list) = Position(s, list)
    BY <1>4
  <2>2. Position(r, list) \in Int /\ Position(s, list) \in Int
    BY PositionInList
  <2>3. ~(r < s) /\ ~(s < r)
    BY <2>1, <2>2, NewerIsBefore
  <2>4. r \in Nat /\ s \in Nat
    OBVIOUS
  <2> QED BY <2>3, <2>4
<1>5. f \in Injection(list, places)
  BY <1>3, <1>4 DEF Injection, IsInjective
<1>6. f \in Surjection(list, places)
  BY <1>2, <1>5, FS_Injection
<1> QED BY <1>5, <1>6 DEF Bijection

\* Every position has a row.
LEMMA PositionIsTaken ==
  ASSUME NEW list \in SUBSET Nat, IsFiniteSet(list), NEW k \in 1..Cardinality(list)
  PROVE  \E r \in list : Position(r, list) = k
BY PositionsAreTaken DEF Bijection, Surjection

\* A stretch of positions has as many rows.
LEMMA RowsAtPositions ==
  ASSUME NEW list \in SUBSET Nat, IsFiniteSet(list),
         NEW a \in Nat, NEW b \in Nat, 1 <= a, a <= b, b <= Cardinality(list)
  PROVE  Cardinality({r \in list : Position(r, list) \in a..b}) = b - a + 1
<1> DEFINE S == {r \in list : Position(r, list) \in a..b}
           f == [r \in list |-> Position(r, list)]
           g == [r \in S |-> Position(r, list)]
<1>0. Cardinality(list) \in Nat /\ f \in Bijection(list, 1..Cardinality(list))
  BY FS_CardinalityType, PositionsAreTaken
<1>1. IsFiniteSet(S)
  BY FS_Subset
<1>2. g \in [S -> a..b]
  OBVIOUS
<1>3. \A r, s \in S : g[r] = g[s] => r = s
  <2>1. \A r, s \in list : f[r] = f[s] => r = s
    BY <1>0 DEF Bijection, Injection, IsInjective
  <2> QED BY <2>1
<1>4. \A k \in a..b : \E r \in S : g[r] = k
  <2>1. ASSUME NEW k \in a..b PROVE \E r \in S : g[r] = k
    <3>1. k \in 1..Cardinality(list)
      BY <1>0
    <3>2. PICK r \in list : Position(r, list) = k
      BY <3>1, PositionIsTaken
    <3>3. r \in S
      BY <3>2
    <3> QED BY <3>2, <3>3
  <2> QED BY <2>1
<1>5. g \in Bijection(S, a..b)
  BY <1>2, <1>3, <1>4 DEF Bijection, Injection, IsInjective, Surjection
<1>6. Cardinality(a..b) = Cardinality(S)
  BY <1>1, <1>5, FS_Bijection DEF ExistsBijection
<1>7. Cardinality(a..b) = b - a + 1
  BY FS_Interval
<1> QED BY <1>6, <1>7

-----------------------------------------------------------------------------
(* The links.                                                              *)

\* What is where in a concatenation.
LEMMA ConcatAt ==
  ASSUME NEW s \in Seq(Nat), NEW u \in Seq(Nat)
  PROVE  /\ s \o u \in Seq(Nat) /\ Len(s \o u) = Len(s) + Len(u)
         /\ \A i \in 1..Len(s) : (s \o u)[i] = s[i]
         /\ \A i \in 1..Len(u) : (s \o u)[Len(s) + i] = u[i]
<1>0. Len(s) \in Nat /\ Len(u) \in Nat
  OBVIOUS
<1>1. /\ s \o u \in Seq(Nat)
      /\ Len(s \o u) = Len(s) + Len(u)
      /\ \A i \in 1..(Len(s) + Len(u)) :
           (s \o u)[i] = IF i <= Len(s) THEN s[i] ELSE u[i - Len(s)]
  BY ConcatProperties
<1>2. \A i \in 1..Len(s) : (s \o u)[i] = s[i]
  BY <1>0, <1>1
<1>3. ASSUME NEW i \in 1..Len(u) PROVE (s \o u)[Len(s) + i] = u[i]
  <2>1. /\ Len(s) + i \in 1..(Len(s) + Len(u)) /\ ~(Len(s) + i <= Len(s))
        /\ (Len(s) + i) - Len(s) = i
    BY <1>0
  <2> QED BY <1>1, <2>1
<1> QED BY <1>1, <1>2, <1>3

\* The stretch of page numbers from m to n.
LEMMA FromToSeq ==
  ASSUME NEW m \in Nat, NEW n \in Nat, m <= n + 1
  PROVE  /\ FromTo(m, n) \in Seq(Nat)
         /\ Len(FromTo(m, n)) = n - m + 1
         /\ \A i \in 1..(n - m + 1) : FromTo(m, n)[i] = m + i - 1
<1>1. n - m + 1 \in Nat
  OBVIOUS
<1>2. FromTo(m, n) \in [1..(n - m + 1) -> Nat]
  BY DEF FromTo
<1>3. FromTo(m, n) \in Seq(Nat) /\ Len(FromTo(m, n)) = n - m + 1
  BY <1>1, <1>2
<1> QED BY <1>3 DEF FromTo

\* Below a page of a long list: the first page, a gap from there to the window
\* if it has one, the window, a gap from the window to the last page if it has
\* one, the last page.
LEMMA WideLinks ==
  ASSUME NEW last \in Nat, last > 7, NEW shown \in 1..last
  PROVE  LET left  == Larger(shown - 2, 2)
             right == Smaller(shown + 2, last - 1)
             a     == IF left > 2 THEN 1 ELSE 0
             b     == IF right < last - 1 THEN 1 ELSE 0
             w     == right - left + 1
             links == Links(shown, last)
         IN  /\ links \in Seq(Nat) /\ Len(links) = a + w + b + 2
             /\ links[1] = 1
             /\ a = 1 => links[2] = Ellipsis
             /\ \A i \in 1..w : links[1 + a + i] = left + i - 1
             /\ b = 1 => links[2 + a + w] = Ellipsis
             /\ links[Len(links)] = last
<1> DEFINE left  == Larger(shown - 2, 2)
           right == Smaller(shown + 2, last - 1)
           a     == IF left > 2 THEN 1 ELSE 0
           b     == IF right < last - 1 THEN 1 ELSE 0
           w     == right - left + 1
           s1 == <<1>>
           s2 == If(left > 2, Ellipsis)
           s3 == FromTo(left, right)
           s4 == If(right < last - 1, Ellipsis)
           s5 == <<last>>
<1>0. /\ left \in Nat /\ right \in Nat /\ left <= right + 1 /\ w \in Nat
      /\ Ellipsis \in Nat /\ a \in {0, 1} /\ b \in {0, 1}
  BY DEF Larger, Smaller, Ellipsis
<1>1. Links(shown, last) = s1 \o s2 \o s3 \o s4 \o s5
  BY DEF Links
<1>2. /\ s1 \in Seq(Nat) /\ Len(s1) = 1 /\ s1[1] = 1
      /\ s5 \in Seq(Nat) /\ Len(s5) = 1 /\ s5[1] = last
  OBVIOUS
<1>3. /\ s2 \in Seq(Nat) /\ Len(s2) = a /\ (a = 1 => s2[1] = Ellipsis)
  <2>1. CASE left > 2
    BY <1>0, <2>1 DEF If
  <2>2. CASE ~(left > 2)
    BY <1>0, <2>2 DEF If
  <2> QED BY <2>1, <2>2
<1>a. /\ s4 \in Seq(Nat) /\ Len(s4) = b /\ (b = 1 => s4[1] = Ellipsis)
  <2>1. CASE right < last - 1
    BY <1>0, <2>1 DEF If
  <2>2. CASE ~(right < last - 1)
    BY <1>0, <2>2 DEF If
  <2> QED BY <2>1, <2>2
<1>4. s3 \in Seq(Nat) /\ Len(s3) = w /\ \A i \in 1..w : s3[i] = left + i - 1
  BY <1>0, FromToSeq
<1> HIDE DEF left, right, a, b, w, s1, s2, s3, s4, s5
<1> DEFINE t2 == s1 \o s2
           t3 == t2 \o s3
           t4 == t3 \o s4
           t5 == t4 \o s5
<1>b. /\ 1 + a \in Nat /\ 1 + a + w \in Nat /\ 1 + a + w + b \in Nat
      /\ a \in Nat /\ b \in Nat
  BY <1>0
<1>5. /\ t2 \in Seq(Nat) /\ Len(t2) = 1 + a
      /\ t2[1] = 1 /\ (a = 1 => t2[2] = Ellipsis)
  <2>a. s1 \in Seq(Nat) /\ s2 \in Seq(Nat)
    BY <1>2, <1>3
  <2>b. /\ s1 \o s2 \in Seq(Nat) /\ Len(s1 \o s2) = Len(s1) + Len(s2)
        /\ \A i \in 1..Len(s1) : (s1 \o s2)[i] = s1[i]
        /\ \A i \in 1..Len(s2) : (s1 \o s2)[Len(s1) + i] = s2[i]
    BY <2>a, ConcatAt
  <2>1. /\ t2 \in Seq(Nat) /\ Len(t2) = 1 + a
        /\ \A i \in 1..1 : t2[i] = s1[i]
        /\ \A i \in 1..a : t2[1 + i] = s2[i]
    BY <2>b, <1>2, <1>3
  <2> QED BY <2>1, <1>0, <1>2, <1>3
<1> HIDE DEF t2
<1>6. /\ t3 \in Seq(Nat) /\ Len(t3) = 1 + a + w
      /\ t3[1] = 1 /\ (a = 1 => t3[2] = Ellipsis)
      /\ \A i \in 1..w : t3[1 + a + i] = left + i - 1
  <2>a. t2 \in Seq(Nat) /\ s3 \in Seq(Nat)
    BY <1>4, <1>5
  <2>b. /\ t2 \o s3 \in Seq(Nat) /\ Len(t2 \o s3) = Len(t2) + Len(s3)
        /\ \A i \in 1..Len(t2) : (t2 \o s3)[i] = t2[i]
        /\ \A i \in 1..Len(s3) : (t2 \o s3)[Len(t2) + i] = s3[i]
    BY <2>a, ConcatAt
  <2>1. /\ t3 \in Seq(Nat) /\ Len(t3) = 1 + a + w
        /\ \A i \in 1..(1 + a) : t3[i] = t2[i]
        /\ \A i \in 1..w : t3[1 + a + i] = s3[i]
    BY <2>b, <1>4, <1>5
  <2>2. 1 \in 1..(1 + a) /\ (a = 1 => 2 \in 1..(1 + a))
    BY <1>0
  <2>3. t3[1] = 1 /\ (a = 1 => t3[2] = Ellipsis)
    BY <2>1, <2>2, <1>5
  <2>4. \A i \in 1..w : t3[1 + a + i] = left + i - 1
    BY <2>1, <1>4
  <2> QED BY <2>1, <2>3, <2>4
<1> HIDE DEF t3
<1>7. /\ t4 \in Seq(Nat) /\ Len(t4) = 1 + a + w + b
      /\ t4[1] = 1 /\ (a = 1 => t4[2] = Ellipsis)
      /\ \A i \in 1..w : t4[1 + a + i] = left + i - 1
      /\ b = 1 => t4[2 + a + w] = Ellipsis
  <2>a. t3 \in Seq(Nat) /\ s4 \in Seq(Nat)
    BY <1>a, <1>6
  <2>b. /\ t3 \o s4 \in Seq(Nat) /\ Len(t3 \o s4) = Len(t3) + Len(s4)
        /\ \A i \in 1..Len(t3) : (t3 \o s4)[i] = t3[i]
        /\ \A i \in 1..Len(s4) : (t3 \o s4)[Len(t3) + i] = s4[i]
    BY <2>a, ConcatAt
  <2>1. /\ t4 \in Seq(Nat) /\ Len(t4) = 1 + a + w + b
        /\ \A i \in 1..(1 + a + w) : t4[i] = t3[i]
        /\ \A i \in 1..b : t4[1 + a + w + i] = s4[i]
    BY <2>b, <1>a, <1>6
  <2>2. b = 1 => t4[2 + a + w] = Ellipsis
    <3>1. 1 + a + w + 1 = 2 + a + w
      BY <1>0
    <3>2. b = 1 => 1 \in 1..b
      OBVIOUS
    <3>3. b = 1 => t4[1 + a + w + 1] = s4[1]
      BY <2>1, <3>2
    <3> QED BY <3>1, <3>3, <1>a
  <2>3. \A i \in 1..w : 1 + a + i \in 1..(1 + a + w)
    BY <1>0
  <2>4. 1 \in 1..(1 + a + w) /\ (a = 1 => 2 \in 1..(1 + a + w))
    BY <1>0
  <2> QED BY <2>1, <2>2, <2>3, <2>4, <1>6
<1> HIDE DEF t4
<1>8. /\ t5 \in Seq(Nat) /\ Len(t5) = a + w + b + 2
      /\ t5[1] = 1 /\ (a = 1 => t5[2] = Ellipsis)
      /\ \A i \in 1..w : t5[1 + a + i] = left + i - 1
      /\ b = 1 => t5[2 + a + w] = Ellipsis
      /\ t5[a + w + b + 2] = last
  <2>a. t4 \in Seq(Nat) /\ s5 \in Seq(Nat)
    BY <1>2, <1>7
  <2>b. /\ t4 \o s5 \in Seq(Nat) /\ Len(t4 \o s5) = Len(t4) + Len(s5)
        /\ \A i \in 1..Len(t4) : (t4 \o s5)[i] = t4[i]
        /\ \A i \in 1..Len(s5) : (t4 \o s5)[Len(t4) + i] = s5[i]
    BY <2>a, ConcatAt
  <2>1. /\ t5 \in Seq(Nat) /\ Len(t5) = 1 + a + w + b + 1
        /\ \A i \in 1..(1 + a + w + b) : t5[i] = t4[i]
        /\ \A i \in 1..1 : t5[1 + a + w + b + i] = s5[i]
    BY <2>b, <1>2, <1>7
  <2>2. 1 + a + w + b + 1 = a + w + b + 2
    BY <1>0
  <2>3. t5[a + w + b + 2] = last
    BY <2>1, <2>2, <1>2
  <2>4. \A i \in 1..w : 1 + a + i \in 1..(1 + a + w + b)
    BY <1>0
  <2>5. /\ 1 \in 1..(1 + a + w + b) /\ (a = 1 => 2 \in 1..(1 + a + w + b))
        /\ b = 1 => 2 + a + w \in 1..(1 + a + w + b)
    BY <1>0
  <2> QED BY <2>1, <2>2, <2>3, <2>4, <2>5, <1>7
<1>9. Links(shown, last) = t5
  BY <1>1 DEF t2, t3, t4
<1> QED BY <1>8, <1>9 DEF left, right, a, b, w

\* Up to seven pages have a link each.
LEMMA NarrowLinks ==
  ASSUME NEW last \in 1..7, NEW shown \in 1..last
  PROVE  LET links == Links(shown, last)
         IN  /\ links \in Seq(Nat) /\ Len(links) = last
             /\ \A i \in 1..last : links[i] = i
<1>1. Links(shown, last) = FromTo(1, last)
  BY DEF Links
<1>2. \A i \in 1..last : 1 + i - 1 = i
  OBVIOUS
<1>3. /\ FromTo(1, last) \in Seq(Nat) /\ Len(FromTo(1, last)) = last - 1 + 1
      /\ \A i \in 1..(last - 1 + 1) : FromTo(1, last)[i] = 1 + i - 1
  <2>1. 1 \in Nat /\ last \in Nat /\ 1 <= last + 1
    OBVIOUS
  <2> QED BY <2>1, FromToSeq
<1>4. last - 1 + 1 = last
  OBVIOUS
<1> QED BY <1>1, <1>2, <1>3, <1>4

\* The links below any page of any list: in order, with the first page, the last
\* one and the window, and a gap only where a page is left out.
LEMMA LinksWellFormed ==
  ASSUME NEW last \in Nat \ {0}, NEW shown \in 1..last
  PROVE  WellFormed(Links(shown, last), shown, last)
<1> DEFINE links == Links(shown, last)
           linked == {links[i] : i \in DOMAIN links}
<1>1. CASE last <= 7
  <2>1. /\ links \in Seq(Nat) /\ Len(links) = last
        /\ \A i \in 1..last : links[i] = i
    <3>1. last \in 1..7
      BY <1>1
    <3> QED BY <3>1, NarrowLinks
  <2> HIDE DEF links
  <2>2. DOMAIN links = 1..last
    BY <2>1
  <2>3. {n \in 1..last : n \in {1, last} \cup ((shown - 2)..(shown + 2))} \subseteq linked
    BY <2>1, <2>2
  <2>4. links[1] = 1 /\ links[Len(links)] = last
    BY <2>1
  <2>5. ASSUME NEW i \in 1..(Len(links) - 1)
        PROVE  links[i] # Ellipsis /\ links[i + 1] = links[i] + 1
    <3>1. i \in 1..last /\ i + 1 \in 1..last
      BY <2>1
    <3> QED BY <2>1, <3>1 DEF Ellipsis
  <2> QED BY <2>3, <2>4, <2>5 DEF WellFormed, links
<1>2. CASE last > 7
  <2> DEFINE left  == Larger(shown - 2, 2)
             right == Smaller(shown + 2, last - 1)
             a     == IF left > 2 THEN 1 ELSE 0
             b     == IF right < last - 1 THEN 1 ELSE 0
             w     == right - left + 1
  <2>1. /\ links \in Seq(Nat) /\ Len(links) = a + w + b + 2
        /\ links[1] = 1
        /\ a = 1 => links[2] = Ellipsis
        /\ \A i \in 1..w : links[1 + a + i] = left + i - 1
        /\ b = 1 => links[2 + a + w] = Ellipsis
        /\ links[Len(links)] = last
    BY <1>2, WideLinks
  <2>2. /\ left \in Nat /\ right \in Nat /\ w \in Nat \ {0} /\ w = right - left + 1
        /\ 2 <= left /\ right <= last - 1
        /\ a \in {0, 1} /\ b \in {0, 1}
        /\ (a = 0 => left = 2) /\ (a = 1 => left > 2)
        /\ (b = 0 => right = last - 1) /\ (b = 1 => right < last - 1)
        /\ \A n \in 2..(last - 1) : n \in (shown - 2)..(shown + 2) => left <= n /\ n <= right
    BY <1>2 DEF Larger, Smaller
  <2> HIDE DEF links, left, right, a, b, w
  <2>3. DOMAIN links = 1..(a + w + b + 2)
    BY <2>1
  <2>4. ASSUME NEW n \in 1..last, n \in {1, last} \cup ((shown - 2)..(shown + 2))
        PROVE  n \in linked
    <3>1. CASE n = 1
      <4>1. 1 \in DOMAIN links
        BY <2>2, <2>3
      <4> QED BY <2>1, <3>1, <4>1
    <3>2. CASE n = last
      <4>1. Len(links) \in DOMAIN links
        BY <2>1, <2>2, <2>3
      <4> QED BY <2>1, <3>2, <4>1
    <3>3. CASE n # 1 /\ n # last
      <4>1. left <= n /\ n <= right
        <5>1. n \in 2..(last - 1)
          BY <3>3
        <5> QED BY <5>1, <2>2, <2>4, <3>3
      <4>2. n - left + 1 \in 1..w /\ left + (n - left + 1) - 1 = n
        BY <2>2, <4>1
      <4>3. 1 + a + (n - left + 1) \in DOMAIN links
        BY <2>2, <2>3, <4>2
      <4>4. links[1 + a + (n - left + 1)] = n
        BY <2>1, <4>2
      <4> QED BY <4>3, <4>4
    <3> QED BY <3>1, <3>2, <3>3
  <2>5. ASSUME NEW i \in 1..(Len(links) - 1)
        PROVE  IF links[i] = Ellipsis
               THEN links[i - 1] + 1 < links[i + 1]
               ELSE links[i + 1] \in {Ellipsis, links[i] + 1}
    <3>1. i \in 1..(a + w + b + 1)
      BY <2>1, <2>2
    <3>2. \A j \in 1..w : links[1 + a + j] = left + j - 1
      BY <2>1
    <3>3. 1 \in 1..w /\ w \in 1..w
      BY <2>2
    <3>4. links[1 + a + 1] = left /\ links[1 + a + w] = right
      <4>1. left + 1 - 1 = left /\ left + w - 1 = right
        BY <2>2
      <4> QED BY <3>2, <3>3, <4>1
    <3>5. CASE i = 1
      <4>1. links[1] # Ellipsis
        BY <2>1 DEF Ellipsis
      <4>2. CASE a = 1
        BY <2>1, <3>5, <4>1, <4>2
      <4>3. CASE a = 0
        BY <2>1, <2>2, <3>4, <3>5, <4>1, <4>3
      <4> QED BY <2>2, <4>2, <4>3
    <3>6. CASE i = 2 /\ a = 1
      BY <2>1, <2>2, <3>4, <3>6
    <3>7. CASE \E j \in 1..w : i = 1 + a + j
      <4>1. PICK j \in 1..w : i = 1 + a + j
        BY <3>7
      <4>2. links[i] = left + j - 1 /\ links[i] # Ellipsis
        BY <2>2, <3>2, <4>1 DEF Ellipsis
      <4>3. CASE j < w
        <5>1. j + 1 \in 1..w /\ i + 1 = 1 + a + (j + 1)
          BY <2>2, <4>1, <4>3
        <5>2. links[i + 1] = left + (j + 1) - 1
          BY <3>2, <5>1
        <5> QED BY <2>2, <4>2, <5>2
      <4>4. CASE j = w /\ b = 1
        <5>1. i + 1 = 2 + a + w
          BY <2>2, <4>1, <4>4
        <5> QED BY <2>1, <4>2, <4>4, <5>1
      <4>5. CASE j = w /\ b = 0
        <5>1. i + 1 = Len(links)
          BY <2>1, <2>2, <4>1, <4>5
        <5> QED BY <2>1, <2>2, <4>2, <4>5, <5>1
      <4> QED BY <2>2, <4>3, <4>4, <4>5
    <3>8. CASE i = 2 + a + w /\ b = 1
      <4>1. i - 1 = 1 + a + w /\ i + 1 = Len(links)
        BY <2>1, <2>2, <3>8
      <4> QED BY <2>1, <2>2, <3>4, <3>8, <4>1
    <3>9. \/ i = 1 \/ (i = 2 /\ a = 1) \/ (i = 2 + a + w /\ b = 1)
          \/ (i - 1 - a \in 1..w /\ i = 1 + a + (i - 1 - a))
      BY <2>2, <3>1
    <3> QED BY <3>5, <3>6, <3>7, <3>8, <3>9
  <2>6. /\ {n \in 1..last : n \in {1, last} \cup ((shown - 2)..(shown + 2))} \subseteq linked
        /\ links[1] = 1 /\ links[Len(links)] = last
    BY <2>1, <2>4
  <2> QED BY <2>5, <2>6 DEF WellFormed, links
<1> QED BY <1>1, <1>2

\* The links are of pages there are.
LEMMA LinksArePages ==
  ASSUME NEW last \in Nat \ {0}, NEW shown \in 1..last
  PROVE  {Links(shown, last)[i] : i \in DOMAIN Links(shown, last)} \subseteq 0..last
<1> DEFINE links == Links(shown, last)
<1>1. CASE last <= 7
  <2>1. /\ links \in Seq(Nat) /\ Len(links) = last
        /\ \A i \in 1..last : links[i] = i
    <3>1. last \in 1..7
      BY <1>1
    <3> QED BY <3>1, NarrowLinks
  <2> HIDE DEF links
  <2>2. {links[i] : i \in DOMAIN links} \subseteq 0..last
    BY <2>1
  <2> QED BY <2>2 DEF links
<1>2. CASE last > 7
  <2> DEFINE left  == Larger(shown - 2, 2)
             right == Smaller(shown + 2, last - 1)
             a     == IF left > 2 THEN 1 ELSE 0
             b     == IF right < last - 1 THEN 1 ELSE 0
             w     == right - left + 1
  <2>1. /\ links \in Seq(Nat) /\ Len(links) = a + w + b + 2
        /\ links[1] = 1
        /\ a = 1 => links[2] = Ellipsis
        /\ \A i \in 1..w : links[1 + a + i] = left + i - 1
        /\ b = 1 => links[2 + a + w] = Ellipsis
        /\ links[Len(links)] = last
    BY <1>2, WideLinks
  <2>2. /\ left \in Nat /\ right \in Nat /\ w \in Nat \ {0} /\ w = right - left + 1
        /\ 2 <= left /\ right <= last - 1
        /\ a \in {0, 1} /\ b \in {0, 1}
    BY <1>2 DEF Larger, Smaller
  <2> HIDE DEF links, left, right, a, b, w
  <2>3. ASSUME NEW i \in DOMAIN links PROVE links[i] \in 0..last
    <3>1. i \in 1..(a + w + b + 2)
      BY <2>1
    <3>2. \/ i = 1 \/ (i = 2 /\ a = 1) \/ (i = 2 + a + w /\ b = 1)
          \/ i = a + w + b + 2
          \/ (i - 1 - a \in 1..w /\ i = 1 + a + (i - 1 - a))
      BY <2>2, <3>1
    <3>3. ASSUME i - 1 - a \in 1..w, i = 1 + a + (i - 1 - a) PROVE links[i] \in 0..last
      <4>1. links[i] = left + (i - 1 - a) - 1
        BY <2>1, <3>3
      <4> QED BY <2>2, <3>3, <4>1
    <3> QED BY <2>1, <3>2, <3>3, <1>2 DEF Ellipsis
  <2> QED BY <2>3 DEF links
<1> QED BY <1>1, <1>2

-----------------------------------------------------------------------------
(* What the second query brings.                                           *)

\* A list that has at least as many rows as were counted: a page before the last
\* is full, none is empty unless nothing was counted, what is past the pages before
\* is on the page or past it, and nothing is past the last page if the count is
\* that of the list.
LEMMA WhatIsFetched ==
  ASSUME NEW list \in SUBSET Nat, IsFiniteSet(list),
         NEW n \in Nat, n <= Cardinality(list), NEW p \in 1..TotalPages(n)
  PROVE  /\ Fetched(p, list) \subseteq list
         /\ p < TotalPages(n) => Cardinality(Fetched(p, list)) = PerPage
         /\ Fetched(p, list) = {} => n = 0
         /\ \A r \in list : Position(r, list) > (p - 1) * PerPage =>
              r \in Fetched(p, list) \/ Position(r, list) > p * PerPage
         /\ p = TotalPages(n) /\ n = Cardinality(list) =>
              \A r \in list : ~(Position(r, list) > p * PerPage)
<1> DEFINE first == (p - 1) * PerPage + 1
           end   == p * PerPage
           size  == Cardinality(list)
<1> USE PerPageAssumption
<1>1. size \in Nat
  BY FS_CardinalityType
<1>2. /\ n <= TotalPages(n) * PerPage /\ TotalPages(n) \in Nat
      /\ (p - 1) * PerPage \in Nat /\ end \in Nat /\ end = (p - 1) * PerPage + PerPage
      /\ n > 0 => (p - 1) * PerPage < n
      /\ p < TotalPages(n) => end < n
  BY PagesCover
<1>3. /\ first \in Nat /\ 1 <= first /\ first <= end /\ end = first - 1 + PerPage
      /\ (p - 1) * PerPage = first - 1
      /\ n > 0 => first <= size
      /\ p < TotalPages(n) => end <= size
  BY <1>1, <1>2
<1>4. Fetched(p, list) = {r \in list : Position(r, list) \in first..Smaller(end, size)}
  BY DEF Fetched, PageRows, PageEnd
<1>5. \A r \in list : Position(r, list) \in 1..size
  BY PositionInList
<1>6. n = Cardinality(list) /\ p = TotalPages(n) => size <= end
  BY <1>2
<1> HIDE DEF first, end
<1>7. ASSUME p < TotalPages(n) PROVE Cardinality(Fetched(p, list)) = PerPage
  <2>1. Smaller(end, size) = end
    BY <1>1, <1>2, <1>3, <1>7 DEF Smaller
  <2>2. Cardinality({r \in list : Position(r, list) \in first..end}) = end - first + 1
    BY <1>2, <1>3, <1>7, RowsAtPositions
  <2>3. Fetched(p, list) = {r \in list : Position(r, list) \in first..end}
    BY <1>4, <2>1
  <2>4. Cardinality(Fetched(p, list)) = end - first + 1
    BY <2>2, <2>3
  <2> QED BY <1>2, <1>3, <2>4, PerPageAssumption
<1>8. ASSUME n > 0 PROVE Fetched(p, list) # {}
  <2>1. first \in 1..size
    BY <1>1, <1>3, <1>8
  <2>2. PICK r \in list : Position(r, list) = first
    BY <2>1, PositionIsTaken
  <2>3. first \in first..Smaller(end, size)
    BY <1>1, <1>2, <1>3, <1>8 DEF Smaller
  <2> QED BY <1>4, <2>2, <2>3
<1>9. ASSUME NEW r \in list, Position(r, list) > first - 1, ~(Position(r, list) > end)
      PROVE  r \in Fetched(p, list)
  <2>1. Position(r, list) \in first..Smaller(end, size)
    BY <1>1, <1>2, <1>3, <1>5, <1>9 DEF Smaller
  <2> QED BY <1>4, <2>1
<1>10. ASSUME n = size, p = TotalPages(n), NEW r \in list
       PROVE  ~(Position(r, list) > end)
  BY <1>1, <1>2, <1>5, <1>6, <1>10
<1> QED BY <1>3, <1>4, <1>7, <1>8, <1>9, <1>10 DEF end

-----------------------------------------------------------------------------
(* The inductive invariant.                                                *)

\* The rows there can be are finitely many.
LEMMA RowsAreFew ==
  ASSUME NEW n \in 0..MaxRows, NEW list \in SUBSET (1..n)
  PROVE  /\ list \in SUBSET Nat /\ IsFiniteSet(list)
         /\ Cardinality(list) \in Nat /\ Cardinality(list) <= MaxRows
<1> USE ConstantsAssumption
<1>1. list \in SUBSET Nat
  OBVIOUS
<1>2. IsFiniteSet(1..n) /\ Cardinality(1..n) = n
  <2>1. 1 \in Int /\ n \in Int
    OBVIOUS
  <2>2. IsFiniteSet(1..n) /\ Cardinality(1..n) = IF 1 > n THEN 0 ELSE n - 1 + 1
    BY <2>1, FS_Interval
  <2> QED BY <2>2
<1>3. IsFiniteSet(list) /\ Cardinality(list) <= n
  BY <1>2, FS_Subset
<1>4. Cardinality(list) \in Nat
  BY <1>3, FS_CardinalityType
<1> QED BY <1>1, <1>3, <1>4

\* So is the list the reader is at.
LEMMA ListFacts ==
  ASSUME TypeOK
  PROVE  /\ Listable(view) \in SUBSET visible
         /\ visible \in SUBSET Nat /\ IsFiniteSet(visible)
         /\ Listable(view) \in SUBSET Nat /\ IsFiniteSet(Listable(view))
         /\ Cardinality(Listable(view)) \in Nat /\ Cardinality(visible) \in Nat
         /\ Cardinality(Listable(view)) <= Cardinality(visible)
         /\ Cardinality(visible) <= MaxRows
<1>1. begun \in 0..MaxRows /\ visible \in SUBSET (1..begun)
  BY DEF TypeOK
<1>2. Listable(view) \in SUBSET visible
  BY DEF Listable
<1>3. Listable(view) \in SUBSET (1..begun)
  BY <1>1, <1>2
<1>4. /\ visible \in SUBSET Nat /\ IsFiniteSet(visible)
      /\ Cardinality(visible) \in Nat /\ Cardinality(visible) <= MaxRows
  BY <1>1, RowsAreFew
<1>5. /\ Listable(view) \in SUBSET Nat /\ IsFiniteSet(Listable(view))
      /\ Cardinality(Listable(view)) \in Nat
  BY <1>1, <1>3, RowsAreFew
<1>6. Cardinality(Listable(view)) <= Cardinality(visible)
  BY <1>2, <1>4, FS_Subset
<1> QED BY <1>2, <1>4, <1>5, <1>6

\* An empty list has one page.
LEMMA OnePage ==
  TotalPages(0) = 1
<1>1. TotalPages(0) \in Nat \ {0} /\ \A p \in 1..TotalPages(0) : p < TotalPages(0) => p * PerPage < 0
  BY PagesCover
<1>2. 1 \in 1..TotalPages(0) /\ 1 * PerPage = PerPage
  BY <1>1, PerPageAssumption
<1>3. ~(1 * PerPage < 0)
  BY <1>2, PerPageAssumption
<1> QED BY <1>1, <1>2, <1>3

\* There is no fewer than one page, and no more than those of all rows.
LEMMA PageBounds ==
  ASSUME TypeOK
  PROVE  /\ total \in Nat /\ TotalPages(total) \in Nat \ {0}
         /\ TotalPages(MaxRows) \in Nat \ {0}
         /\ TotalPages(total) <= TotalPages(MaxRows)
<1>1. total \in Nat /\ total <= MaxRows /\ MaxRows \in Nat
  BY ListFacts, ConstantsAssumption DEF TypeOK
<1>2. TotalPages(total) \in Nat \ {0} /\ TotalPages(MaxRows) \in Nat \ {0}
  BY <1>1, PagesCover
<1>3. TotalPages(total) <= TotalPages(MaxRows)
  BY <1>1, PagesMonotone
<1> QED BY <1>1, <1>2, <1>3

\* The invariant holds before the first page.
LEMMA InitIInv == Init => IInv
<1> SUFFICES ASSUME Init PROVE IInv
  OBVIOUS
<1> USE DEF Init
<1>1. Cardinality({}) = 0
  BY FS_EmptySet
<1>2. TotalPages(MaxRows) \in Nat \ {0} /\ MaxRows \in Nat
  BY PagesCover, ConstantsAssumption
<1>3. TypeOK
  <2>1. 1 \in 0..(TotalPages(MaxRows) + 1) /\ 1 \in 1..TotalPages(MaxRows)
        /\ 0 \in 0..MaxRows /\ 0 \in 0..0
    BY <1>2
  <2> QED BY <1>1, <2>1 DEF TypeOK
<1>4. ListInv
  BY DEF ListInv
<1>5. WalkInv
  BY DEF WalkInv, Listable
<1>6. LinksLead /\ WalkMissesNothing
  BY DEF LinksLead, WalkMissesNothing
<1> QED BY <1>3, <1>4, <1>5, <1>6 DEF IInv

\* A link is to a page there is.
LEMMA LinkedPages ==
  ASSUME TypeOK, page \in 1..TotalPages(total)
  PROVE  Linked \subseteq 1..TotalPages(total)
<1>1. TotalPages(total) \in Nat \ {0}
  BY PageBounds
<1>2. {Links(page, TotalPages(total))[i] : i \in DOMAIN Links(page, TotalPages(total))}
        \subseteq 0..TotalPages(total)
  BY <1>1, LinksArePages
<1>3. Linked \subseteq (0..TotalPages(total)) \ {0}
  BY <1>2 DEF Linked, Ellipsis
<1> QED BY <1>1, <1>3

-----------------------------------------------------------------------------
(* The steps.                                                              *)

\* A row that is created is on no list yet.
LEMMA BeginInsertKeeps == IInv /\ BeginInsert => IInv'
<1> SUFFICES ASSUME IInv, BeginInsert PROVE IInv'
  OBVIOUS
<1> USE DEF BeginInsert, listVars, walkVars
<1>1. TypeOK'
  <2>1. begun' \in 0..MaxRows /\ 1..begun \subseteq 1..begun'
    BY ConstantsAssumption DEF IInv, TypeOK
  <2> QED BY <2>1 DEF IInv, TypeOK
<1>2. ListInv'
  BY DEF IInv, ListInv, Listable, Restricted
<1>3. WalkInv'
  BY DEF IInv, WalkInv, Listable
<1>4. LinksLead' /\ WalkMissesNothing'
  BY DEF IInv, LinksLead, WalkMissesNothing
<1> QED BY <1>1, <1>2, <1>3, <1>4 DEF IInv

\* A row that becomes visible pushes others on, on to pages not yet shown.
LEMMA CommitKeeps ==
  ASSUME IInv, NEW row \in 1..MaxRows, Commit(row)
  PROVE  IInv'
<1> DEFINE list == Listable(view)
           more == Listable(view)'
<1> USE DEF Commit, listVars
<1>1. visible' \in SUBSET (1..begun) /\ visible \in SUBSET visible' /\ begun \in 0..MaxRows
  BY DEF IInv, TypeOK
<1>2. /\ visible' \in SUBSET Nat /\ IsFiniteSet(visible')
      /\ Cardinality(visible') \in Nat
  BY <1>1, RowsAreFew
<1>3. Cardinality(visible) <= Cardinality(visible') /\ Cardinality(visible) \in Nat
  <2>1. Cardinality(visible) <= Cardinality(visible')
    BY <1>1, <1>2, FS_Subset
  <2> QED BY <2>1, ListFacts DEF IInv
<1>4. list \in SUBSET more /\ more \in SUBSET (1..begun)
  BY <1>1 DEF Listable
<1>5. more \in SUBSET Nat /\ IsFiniteSet(more) /\ Cardinality(more) \in Nat
  BY <1>1, <1>4, RowsAreFew
<1>6. Cardinality(list) <= Cardinality(more) /\ Cardinality(list) \in Nat
  <2>1. Cardinality(list) <= Cardinality(more)
    BY <1>4, <1>5, FS_Subset
  <2> QED BY <2>1, ListFacts DEF IInv
<1>7. TypeOK'
  <2>0. total \in 0..Cardinality(visible)
    BY DEF IInv, TypeOK
  <2> HIDE DEF Commit
  <2>1. total \in 0..Cardinality(visible')
    BY <1>2, <1>3, <2>0
  <2> USE DEF Commit
  <2> QED BY <1>1, <2>1 DEF IInv, TypeOK
<1>8. ListInv'
  <2>1. pc # "closed" => total <= Cardinality(more)
    <3>1. total \in Nat /\ (pc # "closed" => total <= Cardinality(list))
      BY PageBounds DEF IInv, ListInv
    <3> QED BY <1>5, <1>6, <3>1
  <2> QED BY <2>1 DEF IInv, ListInv, Restricted
<1>9. WalkInv'
  <2>1. known \subseteq more
    BY <1>4 DEF IInv, WalkInv
  <2>2. ASSUME NEW r \in known, NEW k \in Nat, Position(r, list) > k
        PROVE  Position(r, more) > k
    <3>1. r \in list /\ r \in more
      BY <1>4 DEF IInv, WalkInv
    <3>2. Position(r, list) \in Nat /\ Position(r, more) \in Nat
      <4>1. Position(r, list) \in 1..Cardinality(list)
        BY <3>1, ListFacts, PositionInList DEF IInv
      <4>2. Position(r, more) \in 1..Cardinality(more)
        BY <3>1, <1>5, PositionInList
      <4> QED BY <4>1, <4>2
    <3>3. Position(r, list) <= Position(r, more)
      BY <1>4, <1>5, <3>1, PositionGrows
    <3> QED BY <2>2, <3>2, <3>3
  <2>3. ASSUME walk = "going", pc = "counted", NEW r \in known \ met
        PROVE  Position(r, more) > (asked - 1) * PerPage
    <3>1. asked \in 1..TotalPages(total)
      BY <2>3 DEF IInv, ListInv
    <3>2. (asked - 1) * PerPage \in Nat
      BY <3>1, PageBounds, PagesCover DEF IInv
    <3>3. Position(r, list) > (asked - 1) * PerPage
      BY <2>3 DEF IInv, WalkInv
    <3> QED BY <2>2, <3>2, <3>3
  <2>4. ASSUME walk = "going", pc = "shown", NEW r \in known \ met
        PROVE  Position(r, more) > page * PerPage
    <3>1. page \in 1..TotalPages(total)
      BY <2>4 DEF IInv, ListInv
    <3>2. page * PerPage \in Nat
      BY <3>1, PageBounds, PagesCover DEF IInv
    <3>3. Position(r, list) > page * PerPage
      BY <2>4 DEF IInv, WalkInv
    <3> QED BY <2>2, <3>2, <3>3
  <2> HIDE DEF list
  <2>5. /\ \A r \in known \ met : walk = "going" /\ pc = "counted" =>
             Position(r, more) > (asked - 1) * PerPage
        /\ \A r \in known \ met : walk = "going" /\ pc = "shown" =>
             Position(r, more) > page * PerPage
    BY <2>3, <2>4
  <2> QED BY <2>1, <2>5 DEF IInv, WalkInv
<1>10. LinksLead'
  BY DEF IInv, LinksLead
<1>11. WalkMissesNothing'
  BY DEF IInv, WalkInv, WalkMissesNothing
<1> QED BY <1>7, <1>8, <1>9, <1>10, <1>11 DEF IInv

\* The end of the contest changes no page and no row.
LEMMA EndContestKeeps == IInv /\ EndContest => IInv'
<1> SUFFICES ASSUME IInv, EndContest PROVE IInv'
  OBVIOUS
<1> USE DEF EndContest, listVars, walkVars
<1>1. TypeOK'
  BY DEF IInv, TypeOK
<1>2. ListInv'
  BY DEF IInv, ListInv, Listable, Restricted
<1>3. WalkInv'
  BY DEF IInv, WalkInv, Listable
<1>4. LinksLead' /\ WalkMissesNothing'
  BY DEF IInv, LinksLead, WalkMissesNothing
<1> QED BY <1>1, <1>2, <1>3, <1>4 DEF IInv

\* A walk starts with all there is to show.
LEMMA OpenKeeps == IInv /\ Open => IInv'
<1> SUFFICES ASSUME IInv, Open PROVE IInv'
  OBVIOUS
<1> DEFINE list == Listable(view)
<1>0. /\ list \subseteq visible /\ list \in SUBSET Nat /\ IsFiniteSet(list)
      /\ Cardinality(list) \in Nat /\ Cardinality(visible) \in Nat
      /\ Cardinality(list) <= Cardinality(visible)
      /\ TotalPages(MaxRows) \in Nat \ {0} /\ PerPage \in Nat \ {0}
  BY ListFacts, PageBounds, PerPageAssumption DEF IInv
<1>1. CASE Restricted(view) /\ ShowRestricted /\ asked' = 1
  <2> USE <1>1 DEF ShowRestricted
  <2>1. walk = "none"
    BY DEF IInv, ListInv
  <2>2. TypeOK'
    <3>1. 0 \in 0..Cardinality(visible) /\ 1 \in 1..TotalPages(MaxRows)
          /\ 1 \in 0..(TotalPages(MaxRows) + 1)
      BY <1>0
    <3> QED BY <3>1 DEF IInv, TypeOK
  <2>3. ListInv'
    <3>1. Listable(view)' = list
      BY DEF Listable
    <3>2. 0 <= Cardinality(list) /\ 1 \in 1..TotalPages(0)
      BY <1>0, OnePage
    <3> QED BY <2>1, <3>1, <3>2 DEF ListInv, Restricted
  <2>4. WalkInv'
    BY <2>1 DEF IInv, WalkInv, Listable
  <2>5. LinksLead'
    BY OnePage DEF LinksLead
  <2>6. WalkMissesNothing'
    BY <2>1 DEF WalkMissesNothing
  <2> QED BY <2>2, <2>3, <2>4, <2>5, <2>6 DEF IInv
<1>2. CASE /\ ~Restricted(view) /\ CountRows /\ asked' = 1
           /\ walk' = "going" /\ known' = list /\ met' = {}
  <2> USE <1>2 DEF CountRows
  <2>1. Listable(view)' = list /\ total' = Cardinality(list)
    BY DEF Listable
  <2>2. TypeOK'
    <3>1. Cardinality(list) \in 0..Cardinality(visible) /\ 1 \in 0..(TotalPages(MaxRows) + 1)
      BY <1>0
    <3> QED BY <1>0, <2>1, <3>1 DEF IInv, TypeOK
  <2>3. ListInv'
    <3>1. 1 \in 1..TotalPages(Cardinality(list)) /\ Cardinality(list) <= Cardinality(list)
      BY <1>0, PagesCover
    <3>2. ~Restricted(view)'
      BY DEF Restricted
    <3> HIDE DEF list
    <3> QED BY <2>1, <3>1, <3>2 DEF ListInv
  <2>4. WalkInv'
    <3>1. ASSUME NEW r \in list PROVE Position(r, list) > (1 - 1) * PerPage
      <4>1. Position(r, list) \in 1..Cardinality(list)
        BY <1>0, PositionInList
      <4>2. (1 - 1) * PerPage = 0
        BY <1>0
      <4> QED BY <1>0, <4>1, <4>2
    <3> HIDE DEF list
    <3> QED BY <2>1, <3>1 DEF WalkInv
  <2>5. LinksLead' /\ WalkMissesNothing'
    BY DEF LinksLead, WalkMissesNothing
  <2> QED BY <2>2, <2>3, <2>4, <2>5 DEF IInv
<1> QED BY <1>1, <1>2 DEF Open

\* A link is to a page there is; past the last one there is none.
LEMMA FollowKeeps ==
  ASSUME IInv, NEW n \in 1..TotalPages(MaxRows), Follow(n)
  PROVE  IInv'
<1> DEFINE list == Listable(view)
<1> USE DEF Follow, CountRows
<1>0. /\ list \subseteq visible
      /\ Cardinality(list) \in Nat /\ Cardinality(visible) \in Nat
      /\ Cardinality(list) <= Cardinality(visible)
      /\ TotalPages(MaxRows) \in Nat \ {0}
      /\ total \in Nat /\ TotalPages(total) \in Nat \ {0}
  BY ListFacts, PageBounds DEF IInv
<1>1. page \in 1..TotalPages(total) /\ total <= Cardinality(list)
  BY DEF IInv, ListInv
<1>2. n \in 1..TotalPages(total) /\ n # page
  BY <1>1, LinkedPages DEF IInv
<1>3. ~Restricted(view)
  <2>1. Restricted(view) => total = 0 /\ page = 1
    BY DEF IInv, ListInv
  <2> QED BY <1>2, <2>1, OnePage
<1>4. walk' # "over" /\ (walk' = "going" => walk = "going" /\ n = page + 1)
      /\ walk' \in {"none", "going", "over", "jumped"}
  <2>1. walk = "over" => page = TotalPages(total)
    BY DEF IInv, WalkInv
  <2>2. walk = "over" => n # page + 1
    BY <1>0, <1>2, <2>1
  <2>3. walk \in {"none", "going", "over", "jumped"}
    BY DEF IInv, TypeOK
  <2> QED BY <2>2, <2>3
<1>5. Listable(view)' = list /\ total' = Cardinality(list)
  BY DEF Listable
<1>6. TypeOK'
  <2>1. Cardinality(list) \in 0..Cardinality(visible) /\ n \in 0..(TotalPages(MaxRows) + 1)
    BY <1>0
  <2> HIDE DEF list
  <2> QED BY <1>4, <1>5, <2>1 DEF IInv, TypeOK
<1>7. ListInv'
  <2>1. TotalPages(total) <= TotalPages(Cardinality(list)) /\ TotalPages(Cardinality(list)) \in Nat
    BY <1>0, <1>1, PagesMonotone, PagesCover
  <2>2. n \in 1..TotalPages(Cardinality(list)) /\ Cardinality(list) <= Cardinality(list)
    BY <1>0, <1>2, <2>1
  <2>3. ~Restricted(view)'
    BY <1>3 DEF Restricted
  <2> HIDE DEF list
  <2> QED BY <1>5, <2>2, <2>3 DEF ListInv
<1>8. WalkInv'
  <2>1. known \subseteq list
    BY DEF IInv, WalkInv
  <2>2. ASSUME walk' = "going", NEW r \in known \ met
        PROVE  Position(r, list) > (n - 1) * PerPage
    <3>1. Position(r, list) > page * PerPage
      BY <1>4, <2>2 DEF IInv, WalkInv
    <3>2. n - 1 = page
      BY <1>1, <1>4, <2>2
    <3> QED BY <3>1, <3>2
  <2> HIDE DEF list
  <2> QED BY <1>4, <1>5, <2>1, <2>2 DEF WalkInv
<1>9. LinksLead' /\ WalkMissesNothing'
  BY <1>4 DEF LinksLead, WalkMissesNothing
<1> QED BY <1>6, <1>7, <1>8, <1>9 DEF IInv

\* A page that was typed begins no walk.
LEMMA JumpKeeps ==
  ASSUME IInv, NEW n \in 0..(TotalPages(MaxRows) + 1), Jump(n)
  PROVE  IInv'
<1> DEFINE list == Listable(view)
<1> USE DEF Jump, CountRows
<1>0. /\ Cardinality(list) \in Nat /\ Cardinality(visible) \in Nat
      /\ Cardinality(list) <= Cardinality(visible)
  BY ListFacts DEF IInv
<1>1. Listable(view)' = list /\ total' = Cardinality(list)
  BY DEF Listable
<1>2. TypeOK'
  <2>1. Cardinality(list) \in 0..Cardinality(visible)
    BY <1>0
  <2> HIDE DEF list
  <2> QED BY <1>1, <2>1 DEF IInv, TypeOK
<1>3. ListInv'
  <2>1. ~Restricted(view)'
    BY DEF Restricted
  <2>2. Cardinality(list) <= Cardinality(list)
    BY <1>0
  <2> HIDE DEF list
  <2> QED BY <1>1, <2>1, <2>2 DEF ListInv
<1>4. WalkInv'
  <2>1. known \subseteq list
    BY DEF IInv, WalkInv
  <2> HIDE DEF list
  <2> QED BY <1>1, <2>1 DEF WalkInv
<1>5. LinksLead' /\ WalkMissesNothing'
  BY DEF LinksLead, WalkMissesNothing
<1> QED BY <1>2, <1>3, <1>4, <1>5 DEF IInv

\* The page shown holds the next rows of the walk, all that are left if it is the
\* last one and nothing has come in between.
LEMMA FetchKeeps == IInv /\ Fetch => IInv'
<1> SUFFICES ASSUME IInv, Fetch PROVE IInv'
  OBVIOUS
<1> DEFINE list == Listable(view)
           p    == PageFor
           shown == Fetched(p, list)
<1>0. /\ list \subseteq visible /\ list \in SUBSET Nat /\ IsFiniteSet(list)
      /\ Cardinality(list) \in Nat
      /\ TotalPages(MaxRows) \in Nat \ {0} /\ asked \in Int
      /\ total \in Nat /\ TotalPages(total) \in Nat \ {0}
      /\ TotalPages(total) <= TotalPages(MaxRows)
  <2>1. asked \in Int
    BY PageBounds DEF IInv, TypeOK
  <2> QED BY <2>1, ListFacts, PageBounds DEF IInv
<1>1. /\ pc = "counted" /\ total <= Cardinality(list)
      /\ ~late => total = Cardinality(list)
      /\ walk # "jumped" => asked \in 1..TotalPages(total)
      /\ ~Restricted(view) /\ walk # "over"
  BY DEF Fetch, IInv, ListInv, WalkInv
<1>2. p \in 1..TotalPages(total) /\ (walk # "jumped" => p = asked)
  BY <1>0, <1>1, PageShownIsAPage DEF PageFor
<1>3. /\ shown \subseteq list
      /\ p < TotalPages(total) => Cardinality(shown) = PerPage
      /\ shown = {} => total = 0
      /\ \A r \in list : Position(r, list) > (p - 1) * PerPage =>
           r \in shown \/ Position(r, list) > p * PerPage
      /\ p = TotalPages(total) /\ total = Cardinality(list) =>
           \A r \in list : ~(Position(r, list) > p * PerPage)
  BY <1>0, <1>1, <1>2, WhatIsFetched
<1>4. /\ pc' = "shown" /\ page' = p /\ rows' = shown
      /\ met' = (IF walk = "going" THEN met \cup shown ELSE met)
      /\ walk' = (IF walk = "going" /\ p = TotalPages(total) THEN "over" ELSE walk)
      /\ Listable(view)' = list /\ Restricted(view)' = Restricted(view)
      /\ UNCHANGED <<phase, begun, visible, view, asked, total, known, late>>
  BY DEF Fetch, Listable, Restricted
<1>5. known \subseteq list
  BY DEF IInv, WalkInv
<1>6. ASSUME walk = "going", NEW r \in known \ met'
      PROVE  Position(r, list) > p * PerPage
  <2>1. r \in known \ met /\ r \notin shown
    BY <1>4, <1>6
  <2>2. Position(r, list) > (asked - 1) * PerPage
    BY <1>1, <1>6, <2>1 DEF IInv, WalkInv
  <2>3. Position(r, list) > (p - 1) * PerPage
    BY <1>2, <1>6, <2>2
  <2> QED BY <1>3, <1>5, <2>1, <2>3
<1> HIDE DEF list, p, shown
<1>7. TypeOK'
  <2>1. p \in 1..TotalPages(MaxRows)
    BY <1>0, <1>2
  <2>2. met' \subseteq visible /\ walk' \in {"none", "going", "over", "jumped"}
    BY <1>0, <1>3, <1>4 DEF IInv, TypeOK
  <2> QED BY <1>0, <1>3, <1>4, <2>1, <2>2 DEF IInv, TypeOK
<1>8. ListInv'
  BY <1>1, <1>2, <1>4 DEF ListInv
<1>9. WalkInv'
  <2>1. walk' = "over" => p = TotalPages(total)
    BY <1>1, <1>4
  <2>2. walk' = "going" => walk = "going"
    BY <1>4
  <2> QED BY <1>4, <1>5, <1>6, <2>1, <2>2 DEF WalkInv
<1>10. LinksLead'
  BY <1>2, <1>3, <1>4 DEF LinksLead
<1>11. WalkMissesNothing'
  <2>1. ASSUME walk' = "over", ~late, NEW r \in known PROVE r \in met'
    <3>1. walk = "going" /\ p = TotalPages(total)
      BY <1>1, <1>4, <2>1
    <3>2. ~(Position(r, list) > p * PerPage)
      BY <1>1, <1>3, <1>5, <2>1, <3>1
    <3> QED BY <1>6, <3>1, <3>2
  <2> QED BY <1>4, <2>1 DEF WalkMissesNothing
<1> QED BY <1>7, <1>8, <1>9, <1>10, <1>11 DEF IInv

\* Every step keeps the inductive invariant.
LEMMA NextIInv == IInv /\ [Next]_vars => IInv'
<1> SUFFICES ASSUME IInv, [Next]_vars PROVE IInv'
  OBVIOUS
<1>1. CASE BeginInsert
  BY <1>1, BeginInsertKeeps
<1>2. ASSUME NEW row \in 1..MaxRows, Commit(row) PROVE IInv'
  BY <1>2, CommitKeeps
<1>3. CASE EndContest
  BY <1>3, EndContestKeeps
<1>4. CASE Open
  BY <1>4, OpenKeeps
<1>5. ASSUME NEW n \in 1..TotalPages(MaxRows), Follow(n) PROVE IInv'
  BY <1>5, FollowKeeps
<1>6. ASSUME NEW n \in 0..(TotalPages(MaxRows) + 1), Jump(n) PROVE IInv'
  BY <1>6, JumpKeeps
<1>7. CASE Fetch
  BY <1>7, FetchKeeps
<1>8. CASE UNCHANGED vars
  <2> USE <1>8 DEF vars
  <2>1. TypeOK'
    BY DEF IInv, TypeOK
  <2>2. ListInv' /\ WalkInv'
    BY DEF IInv, ListInv, WalkInv, Listable, Restricted
  <2>3. LinksLead' /\ WalkMissesNothing'
    BY DEF IInv, LinksLead, WalkMissesNothing
  <2> QED BY <2>1, <2>2, <2>3 DEF IInv
<1> QED BY <1>1, <1>2, <1>3, <1>4, <1>5, <1>6, <1>7, <1>8 DEF Next

-----------------------------------------------------------------------------
\* Whatever arrives between two queries, what is counted is there, and what a
\* walk has not shown yet lies on the pages before it.
THEOREM InductiveInvariant == Spec => []IInv
<1> QED BY InitIInv, NextIInv, PTL DEF Spec

\* A reader who goes from the first page of a list to its last one is shown every
\* submission that was on it at the start, unless one arrives between the two
\* queries of the last page (list_for_contest after count_for_contest).
THEOREM NoneIsMissed == Spec => []WalkMissesNothing
<1>1. IInv => WalkMissesNothing
  BY DEF IInv
<1> QED BY <1>1, InductiveInvariant, PTL

\* A link of build_pagination leads to the page it names; a page before the last
\* is full, and none is empty unless the list was.
THEOREM LinksLeadSomewhere == Spec => []LinksLead
<1>1. IInv => LinksLead
  BY DEF IInv
<1> QED BY <1>1, InductiveInvariant, PTL

\* build_pagination gives well-formed links below every page of every list.
THEOREM LinksSound == Spec => []LinksAreSound
<1>1. LinksAreSound
  <2>1. \A last \in 1..MaxPages : \A shown \in 1..last :
          WellFormed(Links(shown, last), shown, last)
    BY ConstantsAssumption, LinksWellFormed
  <2> QED BY <2>1 DEF LinksAreSound
<1> QED BY <1>1, PTL
====================================================================================
