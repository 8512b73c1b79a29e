--------------------------- MODULE JudgeCasesProofs ---------------------------
(***************************************************************************)
(* What JudgeCases guarantees for every number of cases, every limit and   *)
(* every way the runs can end.  Two facts are inductions over the cases,   *)
(* written with the least number that refutes them: the loop adds up the   *)
(* scores, and the cases are the files that can be read, in their order.   *)
(***************************************************************************)
EXTENDS JudgeCases, FiniteSetTheorems, NaturalsInduction, WellFoundedInduction, TLAPS

-----------------------------------------------------------------------------
(* Sums: the sum of numbers counts a set with a unit for each of them.     *)

\* A set of numbers has a least one: what the proofs below use for induction.
LEMMA LeastNat ==
  ASSUME NEW T \in SUBSET Nat, T # {}
  PROVE  \E m \in T : \A n \in T : m <= n
<1> DEFINE R == OpToRel(<, Nat)
<1>1. PICK m \in T : \A n \in T : ~ (<<n, m>> \in R)
  <2>1. IsWellFoundedOn(R, Nat)
    BY NatLessThanWellFounded
  <2>2. T \subseteq Nat
    OBVIOUS
  <2> HIDE DEF R
  <2> QED BY <2>1, <2>2, WFMin
<1>2. R = {ss \in Nat \X Nat : ss[1] < ss[2]}
  BY DEF OpToRel
<1> HIDE DEF R
<1>3. ASSUME NEW n \in T PROVE m <= n
  <2>1. <<n, m>> \notin R
    BY <1>1
  <2>2. m \in Nat /\ n \in Nat
    OBVIOUS
  <2>3. <<n, m>> \in Nat \X Nat
    BY <2>2
  <2>4. <<n, m>>[1] = n /\ <<n, m>>[2] = m
    OBVIOUS
  <2>5. ~(<<n, m>>[1] < <<n, m>>[2])
    BY <2>1, <2>3, <1>2
  <2> QED BY <2>2, <2>4, <2>5
<1> QED BY <1>3

\* What is true of the smaller subsets of a finite set, and then of one, is true of
\* all: T holds those it is not true of.
LEMMA NoLeastSubset ==
  ASSUME NEW S, IsFiniteSet(S), NEW T \in SUBSET (SUBSET S),
         \A s \in T : \E t \in T : t \subseteq s /\ t # s
  PROVE  T = {}
<1> DEFINE N == {Cardinality(s) : s \in T}
<1>1. ASSUME NEW s \in T PROVE IsFiniteSet(s) /\ Cardinality(s) \in Nat
  BY FS_Subset, FS_CardinalityType
<1>2. SUFFICES ASSUME T # {} PROVE FALSE
  OBVIOUS
<1>3. N \in SUBSET Nat /\ N # {}
  BY <1>1, <1>2
<1>4. PICK m \in N : \A n \in N : m <= n
  <2> HIDE DEF N
  <2> QED BY <1>3, LeastNat
<1>5. PICK s \in T : m = Cardinality(s)
  BY <1>4
<1>6. PICK t \in T : t \subseteq s /\ t # s
  OBVIOUS
<1>7. Cardinality(t) <= Cardinality(s) /\ Cardinality(t) # Cardinality(s)
  BY <1>1, <1>6, FS_Subset
<1>8. m <= Cardinality(t)
  BY <1>4
<1> QED BY <1>1, <1>5, <1>7, <1>8

\* As many units for each p of s as g[p].
Units(g, s) == UNION {{p} \X (1..g[p]) : p \in s}

\* Without x there are g[x] units fewer.
LEMMA UnitsCount ==
  ASSUME NEW S, IsFiniteSet(S), NEW g \in [S -> Nat], NEW s \in SUBSET S
  PROVE  /\ IsFiniteSet(Units(g, s)) /\ Cardinality(Units(g, s)) \in Nat
         /\ \A x \in s : Cardinality(Units(g, s)) = g[x] + Cardinality(Units(g, s \ {x}))
<1> DEFINE Of(p) == {p} \X (1..g[p])
<1>1. ASSUME NEW p \in S PROVE IsFiniteSet(Of(p)) /\ Cardinality(Of(p)) = g[p]
  <2>1. g[p] \in Nat /\ g[p] \in Int /\ 1 \in Int
    OBVIOUS
  <2>2. IsFiniteSet(1..g[p]) /\ Cardinality(1..g[p]) = g[p]
    BY <2>1, FS_Interval
  <2>3. IsFiniteSet({p}) /\ Cardinality({p}) = 1
    BY FS_Singleton
  <2>4. IsFiniteSet(Of(p)) /\ Cardinality(Of(p)) = 1 * g[p]
    BY <2>2, <2>3, FS_Product
  <2> QED BY <2>1, <2>4
<1>2. ASSUME NEW t \in SUBSET S PROVE IsFiniteSet(Units(g, t)) /\ Cardinality(Units(g, t)) \in Nat
  <2> DEFINE T == {Of(p) : p \in t}
             f == [p \in t |-> Of(p)]
  <2>1. IsFiniteSet(t)
    BY FS_Subset
  <2>2. f \in Surjection(t, T)
    BY DEF Surjection
  <2>3. IsFiniteSet(T)
    BY <2>1, <2>2, FS_Surjection
  <2>4. \A X \in T : IsFiniteSet(X)
    BY <1>1
  <2>5. Units(g, t) = UNION T
    BY DEF Units
  <2> HIDE DEF T
  <2> QED BY <2>3, <2>4, <2>5, FS_UNION, FS_CardinalityType
<1>3. ASSUME NEW x \in s
      PROVE  Cardinality(Units(g, s)) = g[x] + Cardinality(Units(g, s \ {x}))
  <2>1. x \in S /\ s \ {x} \in SUBSET S
    OBVIOUS
  <2>2. Units(g, s) = Of(x) \cup Units(g, s \ {x})
    BY DEF Units
  <2>3. Of(x) \cap Units(g, s \ {x}) = {}
    BY DEF Units
  <2>4. IsFiniteSet(Of(x)) /\ Cardinality(Of(x)) = g[x] /\ g[x] \in Nat
    BY <1>1, <2>1
  <2>5. IsFiniteSet(Units(g, s \ {x})) /\ Cardinality(Units(g, s \ {x})) \in Nat
    BY <1>2, <2>1
  <2> HIDE DEF Of
  <2>6. Cardinality(Units(g, s)) =
          Cardinality(Of(x)) + Cardinality(Units(g, s \ {x})) - Cardinality({})
    BY <2>2, <2>3, <2>4, <2>5, FS_Union
  <2> QED BY <2>4, <2>5, <2>6, FS_EmptySet
<1> QED BY <1>2, <1>3

\* f sums g over the subsets of S, as SumFunction does.
FoldsUp(f, g, S) ==
  f = [s \in SUBSET S |->
         IF s = {} THEN 0 ELSE LET x == CHOOSE x \in s : TRUE IN g[x] + f[s \ {x}]]

\* The sum of numbers is the number of their units.
LEMMA SumIsCount ==
  ASSUME NEW S, IsFiniteSet(S), NEW g \in [S -> Nat]
  PROVE  SumFunction(g) = Cardinality(Units(g, S))
<1> DEFINE h == [s \in SUBSET S |-> Cardinality(Units(g, s))]
           it == CHOOSE f : FoldsUp(f, g, S)
           Pick(s) == CHOOSE x \in s : TRUE
<1>1. ASSUME NEW s \in SUBSET S, s # {} PROVE Pick(s) \in s
  BY <1>1
<1>2. FoldsUp(h, g, S)
  <2>1. ASSUME NEW s \in SUBSET S
        PROVE  h[s] = IF s = {} THEN 0 ELSE g[Pick(s)] + h[s \ {Pick(s)}]
    <3>1. CASE s = {}
      <4>1. Units(g, s) = {}
        BY <3>1 DEF Units
      <4> QED BY <3>1, <4>1, FS_EmptySet
    <3>2. CASE s # {}
      <4>1. Pick(s) \in s /\ s \ {Pick(s)} \in SUBSET S
        BY <1>1, <3>2
      <4> HIDE DEF Pick
      <4>2. Cardinality(Units(g, s)) = g[Pick(s)] + Cardinality(Units(g, s \ {Pick(s)}))
        BY <4>1, UnitsCount
      <4> QED BY <3>2, <4>1, <4>2
    <3> QED BY <3>1, <3>2
  <2> HIDE DEF h
  <2>2. h = [s \in SUBSET S |-> h[s]]
    BY DEF h
  <2> QED BY <2>1, <2>2 DEF FoldsUp
<1>3. FoldsUp(it, g, S)
  BY <1>2
<1> DEFINE T == {s \in SUBSET S : it[s] # h[s]}
<1>4. ASSUME NEW s \in T PROVE \E t \in T : t \subseteq s /\ t # s
  <2> HIDE DEF it, h
  <2>1. /\ h[s] = IF s = {} THEN 0 ELSE g[Pick(s)] + h[s \ {Pick(s)}]
        /\ it[s] = IF s = {} THEN 0 ELSE g[Pick(s)] + it[s \ {Pick(s)}]
    BY <1>2, <1>3 DEF FoldsUp
  <2>2. s # {} /\ it[s \ {Pick(s)}] # h[s \ {Pick(s)}]
    BY <2>1
  <2>3. Pick(s) \in s
    BY <1>1, <2>2
  <2> HIDE DEF Pick
  <2>4. s \ {Pick(s)} \in T /\ s \ {Pick(s)} \subseteq s /\ s \ {Pick(s)} # s
    BY <2>2, <2>3
  <2> QED BY <2>4
<1>5. T = {}
  <2>1. T \in SUBSET (SUBSET S)
    OBVIOUS
  <2> HIDE DEF T
  <2> QED BY <1>4, <2>1, NoLeastSubset
<1>6. it[S] = h[S]
  <2> HIDE DEF it, h
  <2> QED BY <1>5
<1>7. SumFunction(g) = it[S]
  <2>1. DOMAIN g = S
    OBVIOUS
  <2> QED BY <2>1 DEF SumFunction, SumFunctionOnSet, FoldFunctionOnSet, MapThenFoldSet, FoldsUp
<1> QED BY <1>6, <1>7

\* One more number adds itself to the sum.
LEMMA SumAppend ==
  ASSUME NEW n \in Nat, NEW g \in [1..n -> Nat], NEW g2 \in [1..(n + 1) -> Nat],
         \A k \in 1..n : g2[k] = g[k]
  PROVE  SumFunction(g2) = SumFunction(g) + g2[n + 1]
<1>1. 1 \in Int /\ n \in Int /\ n + 1 \in Int
  OBVIOUS
<1>2. IsFiniteSet(1..n) /\ IsFiniteSet(1..(n + 1))
  BY <1>1, FS_Interval
<1>3. (1..(n + 1)) \ {n + 1} = 1..n /\ n + 1 \in 1..(n + 1) /\ g2[n + 1] \in Nat
  OBVIOUS
<1>4. Units(g2, 1..n) = Units(g, 1..n)
  BY DEF Units
<1>5. Cardinality(Units(g2, 1..(n + 1))) = g2[n + 1] + Cardinality(Units(g2, 1..n))
  BY <1>2, <1>3, UnitsCount
<1>6. Cardinality(Units(g, 1..n)) \in Nat
  BY <1>2, UnitsCount
<1>7. /\ SumFunction(g2) = Cardinality(Units(g2, 1..(n + 1)))
      /\ SumFunction(g) = Cardinality(Units(g, 1..n))
  BY <1>2, SumIsCount
<1> QED BY <1>3, <1>4, <1>5, <1>6, <1>7

-----------------------------------------------------------------------------
(* Cases.                                                                  *)

\* A job has between one and MaxCases cases, whose expected outputs are known.
LEMMA TaskShape ==
  ASSUME task \in Tasks
  PROVE  /\ task.heuristic \in BOOLEAN
         /\ task.scorer \in BOOLEAN
         /\ NumCases \in 1..MaxCases
         /\ task.expected \in [1..NumCases -> Outputs \cup {Null}]
<1>1. PICK n \in 1..MaxCases :
        task \in [heuristic : BOOLEAN, scorer : BOOLEAN,
                  expected : [1..n -> Outputs \cup {Null}]]
  BY DEF Tasks
<1>2. Len(task.expected) = n
  BY <1>1, ConstantsAssumption
<1> QED BY <1>1, <1>2 DEF NumCases

\* Every run of a case gets a verdict and at most one score.
LEMMA CaseTypes ==
  ASSUME task \in Tasks, NEW k \in Nat,
         NEW run \in Cut \cup Whole(task.heuristic)
  PROVE  /\ CaseStatus(task, k, run) \in Verdicts
         /\ CaseScore(task, k, run) \in Scores \cup {Null}
         /\ run.time \in Times /\ run.memory \in Memories
         /\ CaseResult(task, k, run) \in CaseResults
<1>1. /\ run.time \in Times /\ run.memory \in Memories
      /\ run.status \in {"ok", "tle", "re", "killed"}
      /\ run.scored \in Scores \cup {Null}
  BY DEF Cut, Whole
<1>2. task.heuristic \in BOOLEAN
  BY TaskShape
<1>3. CaseStatus(task, k, run) \in Verdicts
  <2>1. CASE run.status = "tle"
    BY <2>1 DEF CaseStatus, Verdicts
  <2>2. CASE run.status \in {"re", "killed"}
    BY <2>2 DEF CaseStatus, Verdicts
  <2>3. CASE run.status = "ok" /\ task.heuristic
    BY <2>3 DEF CaseStatus, Verdicts
  <2>4. CASE run.status = "ok" /\ ~task.heuristic
    BY <2>4 DEF CaseStatus, Verdicts
  <2> QED BY <1>1, <2>1, <2>2, <2>3, <2>4
<1>4. CaseScore(task, k, run) \in Scores \cup {Null}
  BY <1>1 DEF CaseScore
<1> QED BY <1>1, <1>3, <1>4 DEF CaseResult, CaseResults

-----------------------------------------------------------------------------
\* A job not yet taken has judged no case.
LEMMA InitIInv == Init => IInv
<1> SUFFICES ASSUME Init PROVE IInv
  OBVIOUS
<1>1. task.heuristic \in BOOLEAN /\ NumCases \in Nat
  BY TaskShape, ConstantsAssumption DEF Init
<1>2. TypeOK
  <2>1. FilesOK
    BY DEF Init, FilesOK
  <2> QED
    BY <1>1, <2>1, ConstantsAssumption
    DEF Init, TypeOK, Best, Verdicts, Unjudged
<1>3. LoopInv
  BY <1>1 DEF Init, LoopInv
<1>4. RowInv
  BY DEF Init, RowInv
<1>5. ScoreInv
  <2> DEFINE g == [k \in 1..Len(runs) |-> Points(k)]
  <2>1. Len(runs) = 0 /\ totalScore = 0
    BY DEF Init
  <2>2. g \in [{} -> Nat] /\ IsFiniteSet({})
    BY <2>1, FS_EmptySet
  <2>3. SumFunction(g) = Cardinality(Units(g, {}))
    <3> HIDE DEF g
    <3> QED BY <2>2, SumIsCount
  <2>4. Cardinality(Units(g, {})) = 0
    BY FS_EmptySet DEF Units
  <2> QED BY <2>1, <2>3, <2>4 DEF ScoreInv
<1> QED BY <1>2, <1>3, <1>4, <1>5 DEF IInv

\* One more run: the loop keeps the first failure, the maxima and the list.
LEMMA RunCaseIInv ==
  ASSUME IInv, RunCase
  PROVE  IInv'
<1>0. TypeOK /\ LoopInv /\ ScoreInv /\ RowInv
  BY DEF IInv
<1>1. PICK k \in Nat, run \in Cut \cup Whole(task.heuristic) :
        /\ k = Len(runs) + 1
        /\ runs' = Append(runs, run)
        /\ maxTime' = Larger(run.time, maxTime)
        /\ maxMemory' = Larger(run.memory, maxMemory)
        /\ totalScore' = AddScore(CaseScore(task, k, run))
        /\ verdicts' = Append(verdicts, CaseResult(task, k, run))
        /\ IF FirstToFail(CaseStatus(task, k, run))
           THEN finalStatus' = CaseStatus(task, k, run) /\ firstFail' = k
           ELSE UNCHANGED <<finalStatus, firstFail>>
  BY <1>0 DEF RunCase, TypeOK
<1>2. /\ files' = files /\ task' = task /\ pc' = pc /\ row' = row
      /\ pc = "loop" /\ Len(runs) # NumCases
  BY DEF RunCase, LoopOver
<1> DEFINE n == Len(runs)
<1>3. /\ task \in Tasks
      /\ NumCases \in Nat /\ NumCases' = NumCases
      /\ runs \in Seq(Cut \cup Whole(task.heuristic))
      /\ n \in Nat /\ n < NumCases /\ k = n + 1
  BY <1>0, <1>1, <1>2, TaskShape, ConstantsAssumption DEF TypeOK, LoopInv, NumCases
<1>4. /\ CaseStatus(task, k, run) \in Verdicts
      /\ CaseScore(task, k, run) \in Scores \cup {Null}
      /\ run.time \in Times /\ run.memory \in Memories
      /\ CaseResult(task, k, run) \in CaseResults
  BY <1>3, CaseTypes
<1>5. run.time \in Nat /\ run.memory \in Nat /\ maxTime \in Nat /\ maxMemory \in Nat
  <2>1. maxTime \in Times \cup {0} /\ maxMemory \in Memories \cup {0}
    BY <1>0 DEF TypeOK
  <2>2. 0 \in Nat /\ Times \subseteq Nat /\ Memories \subseteq Nat
    BY ConstantsAssumption
  <2> QED BY <1>4, <2>1, <2>2
<1>6. /\ Len(runs') = k
      /\ runs' \in Seq(Cut \cup Whole(task.heuristic))
      /\ \A i \in 1..n : runs'[i] = runs[i]
      /\ runs'[k] = run
  BY <1>1, <1>3
<1>7. /\ Len(verdicts') = k
      /\ verdicts' \in Seq(CaseResults)
      /\ \A i \in 1..n : verdicts'[i] = verdicts[i]
      /\ verdicts'[k] = CaseResult(task, k, run)
  BY <1>0, <1>1, <1>3, <1>4 DEF TypeOK, LoopInv
<1>8. \A i \in 1..k : i \in 1..n \/ i = k
  BY <1>3
<1>9. /\ \A i \in 1..n : runs[i].time \in Nat /\ runs[i].memory \in Nat
      /\ \A i \in 1..n : runs[i].time <= maxTime /\ runs[i].memory <= maxMemory
  <2>1. \A i \in 1..n : runs[i] \in Cut \cup Whole(task.heuristic)
    BY <1>3
  <2> QED BY <1>0, <2>1, ConstantsAssumption DEF LoopInv, Cut, Whole
<1>10. TypeOK'
  <2>1. maxTime' \in Times \cup {0} /\ maxMemory' \in Memories \cup {0}
    BY <1>0, <1>1, <1>4 DEF TypeOK, Larger
  <2>2. totalScore' \in Nat
    <3>1. totalScore \in Nat
      BY <1>0 DEF TypeOK
    <3>2. CaseScore(task, k, run) = Null \/ CaseScore(task, k, run) \in Nat
      BY <1>4, ConstantsAssumption
    <3> QED BY <1>1, <3>1, <3>2 DEF AddScore
  <2>3. finalStatus' \in Verdicts /\ firstFail' \in 0..NumCases
    BY <1>0, <1>1, <1>3, <1>4 DEF TypeOK
  <2>4. FilesOK'
    BY <1>0, <1>2 DEF TypeOK, FilesOK
  <2>5. task' \in Tasks /\ pc' \in {"start", "prepare", "loop", "done"}
    BY <1>0, <1>2 DEF TypeOK
  <2>6. runs' \in Seq(Cut \cup Whole(task'.heuristic)) /\ firstFail' \in 0..NumCases'
    BY <1>2, <1>3, <1>6, <2>3
  <2>7. row' \in
          [status  : Verdicts \cup {"pending", "running", "compile_error"},
           time    : Times \cup {Null},
           memory  : Memories \cup {Null},
           log     : (FromCompiler..NumCases') \cup {Null},
           results : Seq(CaseResults) \cup {Null},
           score   : Nat \cup {Null}]
    BY <1>0, <1>2, <1>3 DEF TypeOK
  <2> QED
    BY <1>7, <2>1, <2>2, <2>3, <2>4, <2>5, <2>6, <2>7 DEF TypeOK
<1>11. LoopInv'
  <2>1. Len(runs') <= NumCases' /\ Len(verdicts') = Len(runs')
    BY <1>3, <1>6, <1>7
  <2>2. \A i \in 1..k : verdicts'[i] = CaseResult(task, i, runs'[i])
    BY <1>0, <1>3, <1>6, <1>7, <1>8 DEF LoopInv
  <2>3. \A i \in 1..k : runs'[i].time <= maxTime' /\ runs'[i].memory <= maxMemory'
    <3>1. /\ maxTime' \in Nat /\ run.time <= maxTime' /\ maxTime <= maxTime'
          /\ maxMemory' \in Nat /\ run.memory <= maxMemory' /\ maxMemory <= maxMemory'
      BY <1>1, <1>5 DEF Larger
    <3>2. \A i \in 1..n : runs[i].time <= maxTime' /\ runs[i].memory <= maxMemory'
      BY <1>5, <1>9, <3>1
    <3> QED BY <1>6, <1>8, <3>1, <3>2
  <2>4. maxTime' # 0 => \E i \in 1..k : maxTime' = runs'[i].time
    <3>1. CASE maxTime' = run.time
      BY <1>3, <1>6, <3>1
    <3>2. CASE maxTime' = maxTime
      BY <1>0, <1>3, <1>6, <3>2 DEF LoopInv
    <3> QED BY <1>1, <3>1, <3>2 DEF Larger
  <2>5. maxMemory' # 0 => \E i \in 1..k : maxMemory' = runs'[i].memory
    <3>1. CASE maxMemory' = run.memory
      BY <1>3, <1>6, <3>1
    <3>2. CASE maxMemory' = maxMemory
      BY <1>0, <1>3, <1>6, <3>2 DEF LoopInv
    <3> QED BY <1>1, <3>1, <3>2 DEF Larger
  <2>6. /\ firstFail \in 0..n
        /\ firstFail # 0 =>
             finalStatus = CaseStatus(task, firstFail, runs[firstFail])
        /\ firstFail = 0 => finalStatus = Best
        /\ firstFail # 0 <=> finalStatus \notin Success
    BY <1>0, <1>3 DEF LoopInv, TypeOK, Best, Success
  <2>7. Best' = Best
    BY <1>2 DEF Best
  <2>8. CASE FirstToFail(CaseStatus(task, k, run))
    <3>1. finalStatus' = CaseStatus(task, k, run) /\ firstFail' = k /\ firstFail = 0
      BY <1>1, <2>6, <2>8 DEF FirstToFail
    <3>2. finalStatus' \notin Success /\ k # 0
      BY <1>3, <2>8, <3>1 DEF FirstToFail
    <3>3. \A i \in 1..k :
            k = 0 \/ i < k => CaseStatus(task, i, runs'[i]) \in Success
      BY <1>0, <1>3, <1>6, <1>8, <3>1 DEF LoopInv
    <3> QED
      BY <1>2, <1>3, <1>6, <2>1, <2>2, <2>3, <2>4, <2>5, <3>1, <3>2, <3>3
      DEF LoopInv
  <2>9. CASE ~FirstToFail(CaseStatus(task, k, run))
    <3>1. finalStatus' = finalStatus /\ firstFail' = firstFail
      BY <1>1, <2>9
    <3>2. firstFail = 0 => CaseStatus(task, k, run) \in Success
      BY <2>6, <2>9 DEF FirstToFail
    <3>3. \A i \in 1..k : firstFail = 0 \/ i < firstFail =>
                            CaseStatus(task, i, runs'[i]) \in Success
      BY <1>0, <1>3, <1>6, <1>8, <2>6, <3>2 DEF LoopInv
    <3>4. finalStatus = IF firstFail = 0 THEN Best
                        ELSE CaseStatus(task, firstFail, runs'[firstFail])
      BY <1>3, <1>6, <2>6
    <3> QED
      BY <1>2, <1>3, <1>6, <2>1, <2>2, <2>3, <2>4, <2>5, <2>6, <2>7, <3>1, <3>3,
         <3>4
      DEF LoopInv
  <2> QED BY <2>8, <2>9
<1>12. RowInv'
  BY <1>0, <1>2 DEF RowInv
<1>13. ScoreInv'
  <2> DEFINE g == [i \in 1..n |-> Points(i)]
             g2 == [i \in 1..k |-> Points(i)']
  <2>1. \A i \in 1..n : Points(i) \in Nat
    <3>1. \A i \in 1..n : runs[i] \in Cut \cup Whole(task.heuristic) /\ i \in Nat
      BY <1>3
    <3>2. \A i \in 1..n : CaseScore(task, i, runs[i]) \in Scores \cup {Null}
      BY <1>3, <3>1, CaseTypes
    <3> QED BY <3>2, ConstantsAssumption DEF Points
  <2>2. \A i \in 1..n : Points(i)' = Points(i)
    BY <1>2, <1>6 DEF Points
  <2>3. Points(k)' = IF CaseScore(task, k, run) = Null THEN 0 ELSE CaseScore(task, k, run)
    BY <1>2, <1>6 DEF Points
  <2>4. Points(k)' \in Nat
    <3>1. CaseScore(task, k, run) = Null \/ CaseScore(task, k, run) \in Nat
      BY <1>4, ConstantsAssumption
    <3> QED BY <2>3, <3>1
  <2>5. g \in [1..n -> Nat] /\ g2 \in [1..(n + 1) -> Nat] /\ \A i \in 1..n : g2[i] = g[i]
    BY <1>3, <1>8, <2>1, <2>2, <2>4
  <2>6. g2[n + 1] = Points(k)'
    BY <1>3
  <2> DEFINE before == SumFunction(g)
             after == SumFunction(g2)
  <2>7. after = before + g2[n + 1]
    <3> HIDE DEF g, g2, n
    <3> QED BY <1>3, <2>5, SumAppend
  <2>8. totalScore = before /\ (ScoreInv' <=> totalScore' = after)
    BY <1>0, <1>6 DEF ScoreInv
  <2>9. totalScore' = totalScore + Points(k)'
    <3>1. totalScore \in Nat
      BY <1>0 DEF TypeOK
    <3> QED BY <1>1, <2>3, <3>1 DEF AddScore
  <2> HIDE DEF before, after, g2
  <2> QED BY <2>6, <2>7, <2>8, <2>9
<1> QED BY <1>10, <1>11, <1>12, <1>13 DEF IInv

\* The other steps leave the loop alone: only the row and the pc change.
LEMMA LocalsKept ==
  ASSUME IInv, UNCHANGED Locals, pc' \in {"start", "prepare", "loop", "done"},
         RowInv',
         row' \in {row, Refused, Result} \/
           \E status \in {"pending", "running", "internal_error"} :
             row' = [row EXCEPT !.status = status]
  PROVE  IInv'
<1>1. /\ files' = files
      /\ task' = task /\ finalStatus' = finalStatus /\ maxTime' = maxTime
      /\ maxMemory' = maxMemory /\ firstFail' = firstFail
      /\ totalScore' = totalScore /\ verdicts' = verdicts /\ runs' = runs
  BY DEF Locals
<1>2. NumCases' = NumCases /\ Best' = Best
  BY <1>1 DEF NumCases, Best
<1>3. LoopInv'
  BY <1>1, <1>2 DEF IInv, LoopInv
<1> DEFINE Rows ==
      [status  : Verdicts \cup {"pending", "running", "compile_error"},
       time    : Times \cup {Null},
       memory  : Memories \cup {Null},
       log     : (FromCompiler..NumCases) \cup {Null},
       results : Seq(CaseResults) \cup {Null},
       score   : Nat \cup {Null}]
<1>4. row \in Rows /\ TypeOK
  BY DEF IInv, TypeOK
<1>5. NumCases \in Nat
  BY <1>4, TaskShape, ConstantsAssumption DEF TypeOK
<1>6. Refused \in Rows
  <2>1. FromCompiler \in FromCompiler..NumCases
    BY <1>5 DEF FromCompiler
  <2> QED BY <2>1 DEF Refused, Unjudged
<1>7. Result \in Rows
  <2>1. maxTime \in Times \cup {0} /\ maxMemory \in Memories \cup {0}
    BY <1>4 DEF TypeOK
  <2>2. Positive(maxTime) \in Times \cup {Null}
        /\ Positive(maxMemory) \in Memories \cup {Null}
    BY <2>1 DEF Positive
  <2>3. (IF finalStatus \in Success THEN 0 ELSE firstFail)
          \in (FromCompiler..NumCases) \cup {Null}
    BY <1>4, <1>5 DEF TypeOK, FromCompiler
  <2>4. (IF task.heuristic THEN totalScore ELSE Null) \in Nat \cup {Null}
    BY <1>4 DEF TypeOK
  <2>5. finalStatus \in Verdicts /\ verdicts \in Seq(CaseResults)
    BY <1>4 DEF TypeOK
  <2> HIDE DEF Rows
  <2> QED BY <2>2, <2>3, <2>4, <2>5 DEF Result, Rows
<1>8. \A status \in {"pending", "running", "internal_error"} :
        [row EXCEPT !.status = status] \in Rows
  BY <1>4 DEF Verdicts
<1>9. row' \in Rows
  <2> HIDE DEF Rows
  <2> QED BY <1>4, <1>6, <1>7, <1>8
<1>10. TypeOK'
  <2>1. FilesOK'
    BY <1>1, <1>4 DEF TypeOK, FilesOK
  <2> QED BY <1>1, <1>2, <1>4, <1>9, <2>1 DEF TypeOK
<1>11. ScoreInv'
  <2>1. \A k : Points(k)' = Points(k)
    BY <1>1 DEF Points
  <2> QED BY <1>1, <2>1 DEF IInv, ScoreInv
<1> QED BY <1>3, <1>10, <1>11 DEF IInv

\* What judge() writes before the last statement: a status, or the refusal
\* of the compiler.
LEMMA EarlyIInv ==
  ASSUME IInv, MarkRunning \/ NoWorkDir \/ Compile \/ SandboxFails
  PROVE  IInv'
<1>1. RowInv /\ pc # "done"
  BY DEF IInv, MarkRunning, NoWorkDir, Compile, SandboxFails
<1>2. UNCHANGED Locals /\ pc' \in {"start", "prepare", "loop", "done"}
  BY DEF MarkRunning, NoWorkDir, Compile, SandboxFails
<1>3. row \in {Unjudged("pending", Null), Unjudged("running", Null)}
  BY <1>1 DEF RowInv
<1>4. \/ row' = row
      \/ row' = [row EXCEPT !.status = "running"]
      \/ pc' = "done" /\ row' = [row EXCEPT !.status = "internal_error"]
      \/ pc' = "done" /\ row' = Refused
  BY DEF MarkRunning, NoWorkDir, Compile, SandboxFails, SetStatus, SetResult
<1>5. \A status : [row EXCEPT !.status = status] = Unjudged(status, Null)
  BY <1>3 DEF Unjudged
<1>6. RowInv'
  BY <1>3, <1>4, <1>5 DEF RowInv, Refused, Unjudged, FromCompiler
<1> QED BY <1>2, <1>4, <1>6, LocalsKept

\* The last statement of judge().
LEMMA WriteResultIInv ==
  ASSUME IInv, WriteResult
  PROVE  IInv'
<1>1. /\ UNCHANGED Locals
      /\ pc = "loop" /\ pc' = "done" /\ LoopOver
      /\ row' \in {row, Result}
  BY DEF WriteResult, SetResult
<1>2. LoopOver' /\ Result' = Result
  BY <1>1 DEF Locals, LoopOver, NumCases, Result
<1>3. row \in {Unjudged("pending", Null), Unjudged("running", Null)}
  BY <1>1 DEF IInv, RowInv
<1>4. RowInv'
  BY <1>1, <1>2, <1>3 DEF RowInv, Unjudged
<1> QED BY <1>1, <1>4, LocalsKept

\* Every step of a judgement keeps the inductive invariant.
LEMMA NextIInv ==
  ASSUME IInv, [Next]_vars
  PROVE  IInv'
<1>1. CASE UNCHANGED vars
  <2>1. UNCHANGED Locals /\ pc' = pc /\ row' = row
    BY <1>1 DEF vars, Locals
  <2>2. RowInv'
    BY <2>1
    DEF IInv, RowInv, Locals, LoopOver, NumCases, Result, Refused, Unjudged,
        FromCompiler
  <2>3. pc' \in {"start", "prepare", "loop", "done"}
    BY <2>1 DEF IInv, TypeOK
  <2> QED BY <2>1, <2>2, <2>3, LocalsKept
<1> QED BY <1>1, EarlyIInv, RunCaseIInv, WriteResultIInv DEF Next

\* Every reachable state satisfies the inductive invariant.
THEOREM InductiveInvariant == Spec => []IInv
BY InitIInv, NextIInv, PTL DEF Spec

-----------------------------------------------------------------------------
(* What the stored row says of the runs.                                   *)

\* The verdict of a case is a success exactly when the run deserved it.
LEMMA PassedIsSuccess ==
  ASSUME TypeOK, LoopInv, NEW k \in 1..Len(runs)
  PROVE  Passed(k) <=> CaseStatus(task, k, runs[k]) \in Success
<1>1. /\ task \in Tasks
      /\ runs \in Seq(Cut \cup Whole(task.heuristic))
      /\ k \in 1..NumCases
      /\ Len(runs) \in Nat
  BY TaskShape, ConstantsAssumption DEF TypeOK, LoopInv
<1>2. PICK run \in Cut \cup Whole(task.heuristic) : run = runs[k]
  BY <1>1
<1>3. /\ task.heuristic \in BOOLEAN
      /\ task.expected[k] \in Outputs \cup {Null}
  BY <1>1, TaskShape
<1>4. CASE run \in Cut
  <2>1. run.status # "ok"
    BY <1>4 DEF Cut
  <2>2. CaseStatus(task, k, run) \notin Success
    BY <1>4, <2>1 DEF CaseStatus, Cut, Success
  <2> QED BY <1>2, <2>1, <2>2 DEF Passed
<1>5. CASE run \in Whole(task.heuristic)
  <2>1. run.status = "ok" /\ run.output \in Outputs
    BY <1>5 DEF Whole
  <2>2. CASE task.heuristic
    BY <1>2, <2>1, <2>2 DEF Passed, CaseStatus, Success
  <2>3. CASE ~task.heuristic
    <3>1. CaseStatus(task, k, run) =
            LET expected == IF task.expected[k] = Null THEN Blank
                            ELSE task.expected[k]
            IN  IF run.output = expected THEN "accepted" ELSE "wrong_answer"
      BY <2>1, <2>3 DEF CaseStatus
    <3> QED
      BY <1>2, <1>3, <2>1, <2>3, <3>1, ConstantsAssumption DEF Passed, Success
  <2> QED BY <2>2, <2>3
<1> QED BY <1>2, <1>4, <1>5

\* A row with results is the one written after the loop.
LEMMA RowWithResults ==
  ASSUME IInv, row.results # Null
  PROVE  row = Result /\ Len(runs) = NumCases
BY DEF IInv, RowInv, Unjudged, Refused, LoopOver

\* Results are stored for all the cases together or not at all.
THEOREM Complete == Spec => []NoPartialResult
<1>1. ASSUME IInv PROVE NoPartialResult
  <2>1. CASE row.results # Null
    <3>1. row = Result /\ Len(runs) = NumCases /\ Len(verdicts) = Len(runs)
      BY <1>1, <2>1, RowWithResults DEF IInv, LoopInv
    <3>2. row.status \notin {"pending", "running"}
      BY <1>1, <3>1 DEF Result, IInv, TypeOK, Verdicts
    <3> QED BY <2>1, <3>1, <3>2 DEF NoPartialResult, Result
  <2>2. CASE row.results = Null
    <3>1. row # Result
      <4>1. verdicts \in Seq(CaseResults) /\ Len(verdicts) \in 0..MaxCases
        BY <1>1, TaskShape, ConstantsAssumption DEF IInv, TypeOK, LoopInv
      <4>2. verdicts \in [1..Len(verdicts) -> CaseResults]
        BY <4>1
      <4> QED BY <2>2, <4>1, <4>2, NullAssumption DEF Result
    <3> QED
      <4>1. Null # FromCompiler
        BY NullAssumption DEF FromCompiler
      <4>2. \/ row \in {Unjudged("pending", Null), Unjudged("running", Null)}
            \/ row \in {Unjudged("internal_error", Null), Refused}
        BY <1>1, <3>1 DEF IInv, RowInv
      <4> QED
        BY <2>2, <4>1, <4>2 DEF NoPartialResult, Unjudged, Refused
  <2> QED BY <2>1, <2>2
<1> QED BY <1>1, InductiveInvariant, PTL

\* Accepted and scored mean that every case passed, and the other way round.
THEOREM AcceptedSound == Spec => []AcceptedMeansEveryCasePassed
<1>1. ASSUME IInv, row.results # Null
      PROVE  row.status \in Success <=> \A k \in 1..NumCases : Passed(k)
  <2>1. row.status = finalStatus /\ Len(runs) = NumCases
    BY <1>1, RowWithResults DEF Result
  <2>2. /\ TypeOK /\ LoopInv
        /\ firstFail \in 0..NumCases
        /\ NumCases \in Nat
    BY <1>1, TaskShape, ConstantsAssumption DEF IInv, TypeOK
  <2>3. CASE firstFail = 0
    BY <2>1, <2>2, <2>3, PassedIsSuccess DEF LoopInv, Best, Success
  <2>4. CASE firstFail # 0
    BY <2>1, <2>2, <2>4, PassedIsSuccess DEF LoopInv
  <2> QED BY <2>3, <2>4
<1> QED
  BY <1>1, InductiveInvariant, PTL DEF AcceptedMeansEveryCasePassed

\* A failed submission shows the status and the output of its first failure.
THEOREM FirstFailureShown == Spec => []VerdictIsFirstFailure
<1>1. ASSUME IInv, row.results # Null, row.status \notin Success
      PROVE  /\ row.log \in 1..NumCases
             /\ row.results[row.log].verdict = row.status
             /\ ~Passed(row.log)
             /\ \A k \in 1..(row.log - 1) : Passed(k)
  <2>1. /\ row.status = finalStatus /\ row.log = firstFail
        /\ row.results = verdicts /\ Len(runs) = NumCases
    BY <1>1, RowWithResults DEF Result
  <2>2. /\ TypeOK /\ LoopInv
        /\ firstFail \in 0..NumCases
        /\ NumCases \in Nat
    BY <1>1, TaskShape, ConstantsAssumption DEF IInv, TypeOK
  <2>3. firstFail # 0 /\ firstFail \in 1..NumCases
    BY <1>1, <2>1, <2>2 DEF LoopInv, Best, Success
  <2>4. finalStatus = CaseStatus(task, firstFail, runs[firstFail])
        /\ verdicts[firstFail] = CaseResult(task, firstFail, runs[firstFail])
    BY <2>1, <2>2, <2>3 DEF LoopInv
  <2>5. ~Passed(firstFail)
    BY <1>1, <2>1, <2>2, <2>3, <2>4, PassedIsSuccess
  <2>6. \A k \in 1..(firstFail - 1) : Passed(k)
    BY <2>1, <2>2, <2>3, PassedIsSuccess DEF LoopInv
  <2> QED BY <2>1, <2>3, <2>4, <2>5, <2>6 DEF CaseResult
<1> QED BY <1>1, InductiveInvariant, PTL DEF VerdictIsFirstFailure

\* Time and memory are those of the most expensive case.
THEOREM CostsWorst == Spec => []CostsAreTheWorst
<1>1. ASSUME IInv, row.results # Null, NEW cost \in {"time", "memory"}
      PROVE  LET spent == {runs[k][cost] : k \in 1..NumCases}
             IN  IF row[cost] = Null THEN spent \subseteq {0}
                 ELSE row[cost] \in spent /\ \A n \in spent : n <= row[cost]
  <2>1. row = Result /\ Len(runs) = NumCases /\ LoopInv /\ TypeOK
    BY <1>1, RowWithResults DEF IInv
  <2>2. \A k \in 1..NumCases : runs[k].time \in Nat /\ runs[k].memory \in Nat
    <3>1. runs \in Seq(Cut \cup Whole(task.heuristic))
      BY <2>1 DEF TypeOK
    <3>2. \A k \in 1..NumCases : runs[k] \in Cut \cup Whole(task.heuristic)
      BY <2>1, <3>1
    <3> QED BY <3>2, ConstantsAssumption DEF Cut, Whole
  <2>3. maxTime \in Nat /\ maxMemory \in Nat
    <3>1. maxTime \in Times \cup {0} /\ maxMemory \in Memories \cup {0}
      BY <2>1 DEF TypeOK
    <3> QED BY <3>1, ConstantsAssumption
  <2>4. CASE cost = "time"
    <3>1. row[cost] = Positive(maxTime)
      BY <2>1, <2>4 DEF Result
    <3>2. \A k \in 1..NumCases : runs[k][cost] <= maxTime /\ runs[k][cost] \in Nat
      BY <2>1, <2>2, <2>4 DEF LoopInv
    <3>3. maxTime # 0 => \E k \in 1..NumCases : maxTime = runs[k][cost]
      BY <2>1, <2>4 DEF LoopInv
    <3> QED BY <2>3, <3>1, <3>2, <3>3, ConstantsAssumption DEF Positive
  <2>5. CASE cost = "memory"
    <3>1. row[cost] = Positive(maxMemory)
      BY <2>1, <2>5 DEF Result
    <3>2. \A k \in 1..NumCases :
            runs[k][cost] <= maxMemory /\ runs[k][cost] \in Nat
      BY <2>1, <2>2, <2>5 DEF LoopInv
    <3>3. maxMemory # 0 => \E k \in 1..NumCases : maxMemory = runs[k][cost]
      BY <2>1, <2>5 DEF LoopInv
    <3> QED BY <2>3, <3>1, <3>2, <3>3, ConstantsAssumption DEF Positive
  <2> QED BY <2>4, <2>5
<1>2. ASSUME IInv PROVE CostsAreTheWorst
  BY <1>1, <1>2 DEF CostsAreTheWorst
<1> QED BY <1>2, InductiveInvariant, PTL

\* The score adds up the cases that passed.
THEOREM ScoresAddUp == Spec => []ScoreAddsUp
<1>1. ASSUME IInv, row.results # Null PROVE ScoreAddsUp
  <2>1. /\ row.score = (IF task.heuristic THEN totalScore ELSE Null)
        /\ Len(runs) = NumCases /\ TypeOK
    BY <1>1, RowWithResults DEF Result, IInv
  <2>2. CASE ~task.heuristic
    BY <2>1, <2>2 DEF ScoreAddsUp
  <2>3. CASE task.heuristic
    <3>1. ASSUME NEW k \in 1..NumCases
          PROVE  Points(k) = IF Passed(k) THEN runs[k].scored ELSE 0
      <4>1. runs[k] \in Cut \cup Whole(task.heuristic)
        BY <2>1, <3>1 DEF TypeOK
      <4>2. runs[k].status \in {"tle", "re", "killed", "ok"}
        BY <4>1 DEF Cut, Whole
      <4>3. CASE runs[k].status = "ok"
        <5>1. CaseStatus(task, k, runs[k]) =
                IF task.scorer /\ runs[k].scored # Null THEN "scored" ELSE "internal_error"
          BY <2>3, <4>3 DEF CaseStatus
        <5> QED BY <2>3, <4>3, <5>1 DEF Points, CaseScore, Passed
      <4>4. CASE runs[k].status # "ok"
        <5>1. CaseStatus(task, k, runs[k]) # "scored"
          BY <4>2, <4>4 DEF CaseStatus
        <5> QED BY <4>4, <5>1 DEF Points, CaseScore, Passed
      <4> QED BY <4>3, <4>4
    <3>2. [k \in 1..NumCases |-> Points(k)] =
            [k \in 1..NumCases |-> IF Passed(k) THEN runs[k].scored ELSE 0]
      BY <3>1
    <3>3. totalScore = SumFunction([k \in 1..NumCases |-> Points(k)])
      BY <1>1, <2>1 DEF IInv, ScoreInv
    <3> QED BY <2>1, <2>3, <3>2, <3>3 DEF ScoreAddsUp
  <2> QED BY <2>2, <2>3
<1>2. ASSUME IInv PROVE ScoreAddsUp
  BY <1>1, <1>2 DEF ScoreAddsUp
<1> QED BY <1>2, InductiveInvariant, PTL

-----------------------------------------------------------------------------
(* The files.                                                              *)

\* What has been loaded after i files.
IsLoader(f, found) ==
  f = [i \in 0..Len(found) |->
         IF i = 0 THEN <<>>
         ELSE IF found[i] = Unreadable THEN f[i - 1]
         ELSE Append(f[i - 1], found[i])]

\* The first n files can be loaded one after the other.
LEMMA LoaderExists ==
  ASSUME NEW found \in Seq(CaseFiles)
  PROVE  \E f : IsLoader(f, found)
<1> DEFINE Up(n, f) ==
             f = [i \in 0..n |->
                    IF i = 0 THEN <<>>
                    ELSE IF found[i] = Unreadable THEN f[i - 1]
                    ELSE Append(f[i - 1], found[i])]
           T == {n \in Nat : ~ \E f : Up(n, f)}
<1>1. \E f : Up(0, f)
  <2> DEFINE z == [i \in 0..0 |-> <<>>]
  <2>1. z = [i \in 0..0 |->
               IF i = 0 THEN <<>>
               ELSE IF found[i] = Unreadable THEN z[i - 1]
               ELSE Append(z[i - 1], found[i])]
    OBVIOUS
  <2> HIDE DEF z
  <2> QED BY <2>1
<1>2. ASSUME NEW n \in Nat, NEW f, Up(n, f) PROVE \E g : Up(n + 1, g)
  <2> DEFINE g == [i \in 0..(n + 1) |->
                     IF i = 0 THEN <<>>
                     ELSE IF found[i] = Unreadable THEN f[i - 1]
                     ELSE Append(f[i - 1], found[i])]
  <2>1. ASSUME NEW i \in 0..n PROVE g[i] = f[i]
    <3>1. f[i] = IF i = 0 THEN <<>>
                 ELSE IF found[i] = Unreadable THEN f[i - 1]
                 ELSE Append(f[i - 1], found[i])
      BY <1>2
    <3>2. i \in 0..(n + 1)
      OBVIOUS
    <3> QED BY <3>1, <3>2
  <2>2. \A i \in 0..(n + 1) : i # 0 => i - 1 \in 0..n
    OBVIOUS
  <2>3. Up(n + 1, g)
    BY <2>1, <2>2
  <2> QED BY <2>3
<1>3. T = {}
  <2>1. SUFFICES ASSUME T # {} PROVE FALSE
    OBVIOUS
  <2>2. PICK m \in T : \A n \in T : m <= n
    <3>1. T \in SUBSET Nat
      OBVIOUS
    <3> HIDE DEF T
    <3> QED BY <2>1, <3>1, LeastNat
  <2> HIDE DEF Up
  <2>3. m \in Nat /\ m # 0
    BY <1>1
  <2>4. m - 1 \in Nat /\ ~(m <= m - 1) /\ (m - 1) + 1 = m
    BY <2>3
  <2>5. m - 1 \notin T
    <3> HIDE DEF T
    <3> QED BY <2>2, <2>4
  <2>6. PICK f : Up(m - 1, f)
    BY <2>4, <2>5
  <2>7. \E g : Up(m, g)
    BY <1>2, <2>4, <2>6
  <2> QED BY <2>2, <2>7
<1>4. Len(found) \in Nat
  OBVIOUS
<1>5. PICK f : Up(Len(found), f)
  <2> HIDE DEF Up
  <2> QED BY <1>3, <1>4
<1> QED BY <1>5 DEF IsLoader

\* The first i files that can be read.
Count(found, i) == Cardinality({j \in 1..i : found[j] # Unreadable})

\* One more file counts if it can be read.
LEMMA CountStep ==
  ASSUME NEW found, NEW i \in Nat \ {0}
  PROVE  /\ Count(found, 0) = 0
         /\ Count(found, i) \in Nat
         /\ Count(found, i) =
              IF found[i] = Unreadable THEN Count(found, i - 1) ELSE Count(found, i - 1) + 1
<1> DEFINE Of(k) == {j \in 1..k : found[j] # Unreadable}
<1>1. ASSUME NEW k \in Nat PROVE IsFiniteSet(Of(k)) /\ Cardinality(Of(k)) \in Nat
  <2>1. 1 \in Int /\ k \in Int
    OBVIOUS
  <2>2. IsFiniteSet(1..k)
    BY <2>1, FS_Interval
  <2> QED BY <2>2, FS_Subset, FS_CardinalityType
<1>2. Of(0) = {}
  OBVIOUS
<1>3. i - 1 \in Nat /\ i \notin Of(i - 1)
  OBVIOUS
<1>4. Of(i) = IF found[i] = Unreadable THEN Of(i - 1) ELSE Of(i - 1) \cup {i}
  OBVIOUS
<1>5. Cardinality(Of(i)) =
        IF found[i] = Unreadable THEN Cardinality(Of(i - 1)) ELSE Cardinality(Of(i - 1)) + 1
  <2>1. IsFiniteSet(Of(i - 1))
    BY <1>1, <1>3
  <2> HIDE DEF Of
  <2> QED BY <1>3, <1>4, <2>1, FS_AddElement
<1> QED BY <1>1, <1>2, <1>5, FS_EmptySet DEF Count

\* After i files the loader holds, in order, those of them that can be read.
Holds(f, found, i) ==
  /\ f[i] \in Seq(Outputs \cup {Null})
  /\ Len(f[i]) = Count(found, i)
  /\ \A j \in 1..i : found[j] # Unreadable =>
       Count(found, j) \in 1..Len(f[i]) /\ f[i][Count(found, j)] = found[j]

\* One more file keeps that.
LEMMA HoldsStep ==
  ASSUME NEW found \in Seq(CaseFiles), NEW f, IsLoader(f, found),
         NEW i \in 1..Len(found), Holds(f, found, i - 1)
  PROVE  Holds(f, found, i)
<1>1. /\ Len(found) \in Nat /\ i \in Nat \ {0} /\ i - 1 \in Nat /\ i \in 0..Len(found)
      /\ found[i] \in Outputs \cup {Null, Unreadable}
  BY DEF CaseFiles
<1>2. f[i] = IF found[i] = Unreadable THEN f[i - 1] ELSE Append(f[i - 1], found[i])
  BY <1>1 DEF IsLoader
<1>3. Count(found, i) =
        IF found[i] = Unreadable THEN Count(found, i - 1) ELSE Count(found, i - 1) + 1
  BY <1>1, CountStep
<1>4. \A j \in 1..i : j \in 1..(i - 1) \/ j = i
  BY <1>1
<1>5. /\ f[i - 1] \in Seq(Outputs \cup {Null})
      /\ Len(f[i - 1]) = Count(found, i - 1)
      /\ Len(f[i - 1]) \in Nat
      /\ \A j \in 1..(i - 1) : found[j] # Unreadable =>
           /\ Count(found, j) \in 1..Len(f[i - 1])
           /\ f[i - 1][Count(found, j)] = found[j]
  BY DEF Holds
<1>6. CASE found[i] = Unreadable
  BY <1>2, <1>3, <1>4, <1>5, <1>6 DEF Holds
<1>7. CASE found[i] # Unreadable
  <2>1. /\ f[i] \in Seq(Outputs \cup {Null})
        /\ Len(f[i]) = Len(f[i - 1]) + 1
        /\ \A k \in 1..Len(f[i - 1]) : f[i][k] = f[i - 1][k]
        /\ f[i][Len(f[i])] = found[i]
    BY <1>1, <1>2, <1>5, <1>7
  <2>2. Count(found, i) = Len(f[i])
    BY <1>3, <1>5, <1>7, <2>1
  <2>3. ASSUME NEW j \in 1..i, found[j] # Unreadable
        PROVE  Count(found, j) \in 1..Len(f[i]) /\ f[i][Count(found, j)] = found[j]
    <3>1. CASE j = i
      BY <1>5, <2>1, <2>2, <3>1
    <3>2. CASE j \in 1..(i - 1)
      <4>1. PICK c : c = Count(found, j) /\ c \in 1..Len(f[i - 1]) /\ f[i - 1][c] = found[j]
        BY <1>5, <2>3, <3>2
      <4>2. c \in 1..Len(f[i]) /\ f[i][c] = found[j]
        BY <1>5, <2>1, <4>1
      <4> QED BY <4>1, <4>2
    <3> QED BY <1>4, <3>1, <3>2
  <2> QED BY <2>1, <2>2, <2>3 DEF Holds
<1> QED BY <1>6, <1>7

\* The job has one case for each file that can be read, in their order.
LEMMA LoadFacts ==
  ASSUME NEW found \in Seq(CaseFiles)
  PROVE  /\ Len(LoadTestcases(found)) = Count(found, Len(found))
         /\ \A j \in 1..Len(found) : found[j] # Unreadable =>
              /\ Count(found, j) \in 1..Len(LoadTestcases(found))
              /\ LoadTestcases(found)[Count(found, j)] = found[j]
<1> DEFINE f == CHOOSE f : IsLoader(f, found)
           T == {i \in 0..Len(found) : ~Holds(f, found, i)}
<1>1. IsLoader(f, found)
  BY LoaderExists
<1>2. LoadTestcases(found) = f[Len(found)]
  BY DEF LoadTestcases, IsLoader
<1> HIDE DEF f
<1>3. Holds(f, found, 0)
  <2>1. f[0] = <<>>
    BY <1>1 DEF IsLoader
  <2>2. Count(found, 0) = 0
    BY CountStep, 1 \in Nat \ {0}
  <2> QED BY <2>1, <2>2 DEF Holds
<1>4. T = {}
  <2>1. SUFFICES ASSUME T # {} PROVE FALSE
    OBVIOUS
  <2>2. PICK m \in T : \A n \in T : m <= n
    <3>1. T \in SUBSET Nat
      OBVIOUS
    <3> HIDE DEF T
    <3> QED BY <2>1, <3>1, LeastNat
  <2>3. m \in 1..Len(found) /\ m - 1 \in 0..Len(found) /\ ~(m <= m - 1)
    BY <1>3
  <2>4. m - 1 \notin T
    <3> HIDE DEF T
    <3> QED BY <2>2, <2>3
  <2>5. Holds(f, found, m - 1)
    BY <2>3, <2>4
  <2> QED BY <1>1, <2>2, <2>3, <2>5, HoldsStep
<1>5. Holds(f, found, Len(found))
  <2>1. Len(found) \in 0..Len(found)
    OBVIOUS
  <2> QED BY <1>4, <2>1
<1> QED BY <1>2, <1>5 DEF Holds

\* The results speak for the files that can be read, each against its own .out.
THEOREM FilesJudged == Spec => []FilesAreJudged
<1>1. ASSUME IInv, row.results # Null PROVE FilesAreJudged
  <2>1. /\ row.results = verdicts /\ Len(runs) = NumCases /\ Len(verdicts) = Len(runs)
        /\ \A k \in 1..NumCases : verdicts[k] = CaseResult(task, k, runs[k])
        /\ TypeOK
    BY <1>1, RowWithResults DEF Result, IInv, LoopInv
  <2>2. /\ files \in Seq(CaseFiles) /\ task.expected = LoadTestcases(files)
        /\ runs \in Seq(Cut \cup Whole(task.heuristic))
    BY <2>1 DEF TypeOK, FilesOK
  <2>3. \A i : CaseOf(i) = Count(files, i)
    BY DEF CaseOf, Count
  <2>4. Len(row.results) = CaseOf(Len(files))
    BY <2>1, <2>2, <2>3, LoadFacts DEF NumCases
  <2>5. ASSUME ~task.heuristic, NEW i \in DOMAIN files, files[i] # Unreadable
        PROVE  row.results[CaseOf(i)].verdict = "accepted" <=>
                 /\ runs[CaseOf(i)].status = "ok"
                 /\ runs[CaseOf(i)].output = IF files[i] = Null THEN Blank ELSE files[i]
    <3>1. PICK k : k = CaseOf(i) /\ k \in 1..NumCases /\ task.expected[k] = files[i]
      BY <2>2, <2>3, <2>5, LoadFacts DEF NumCases
    <3>2. row.results[k].verdict = CaseStatus(task, k, runs[k])
      BY <2>1, <3>1 DEF CaseResult
    <3>3. runs[k] \in Cut \cup Whole(task.heuristic)
      BY <2>1, <2>2, <3>1
    <3>4. runs[k].status \in {"tle", "re", "killed", "ok"}
      BY <3>3 DEF Cut, Whole
    <3>5. CASE runs[k].status = "ok"
      <4>1. CaseStatus(task, k, runs[k]) =
              LET expected == IF task.expected[k] = Null THEN Blank ELSE task.expected[k]
              IN  IF runs[k].output = expected THEN "accepted" ELSE "wrong_answer"
        BY <2>5, <3>5 DEF CaseStatus
      <4> QED BY <3>1, <3>2, <3>5, <4>1
    <3>6. CASE runs[k].status # "ok"
      <4>1. CaseStatus(task, k, runs[k]) # "accepted"
        BY <3>4, <3>6 DEF CaseStatus
      <4> QED BY <3>1, <3>2, <3>6, <4>1
    <3> QED BY <3>5, <3>6
  <2> QED BY <2>4, <2>5 DEF FilesAreJudged
<1>2. ASSUME IInv PROVE FilesAreJudged
  BY <1>1, <1>2 DEF FilesAreJudged
<1> QED BY <1>2, InductiveInvariant, PTL
===============================================================================
