------------------------------- MODULE Standings -------------------------------
(***************************************************************************)
(* The standings of a contest, computed from its judged submissions each   *)
(* time the page is asked for: one row per user with a result, sorted,     *)
(* ranked, and cut into pages (Pagination).                                *)
(*                                                                         *)
(* src/src/api/handlers.rs (contest_standings), src/src/db/submission.rs   *)
(* (first_acs_for_contest, best_scores_for_contest).                       *)
(*                                                                         *)
(* A result counts from the moment it is judged, but with the time its     *)
(* submission was created: results arrive in any order of their times.     *)
(* Scores are whole numbers here.  Users are numbers, compared as the code *)
(* compares their names.                                                   *)
(***************************************************************************)
EXTENDS Pagination, FiniteSetsExt

CONSTANTS
  Users,
  Listed,        \* the problems of the contest
  Others,        \* problems that are not, but may be submitted to it
  Unreadable,    \* listed problems whose files cannot be loaded
  Points,        \* score of a problem
  Times,         \* creation times
  StartTime,     \* start_time of the contest
  TicksPerSecond,
  Marks,         \* scores of a heuristic submission
  MaxResults,    \* results at a time (bound)
  NoTime

ASSUME ConstantsAssumption ==
  /\ Users \subseteq Nat /\ Times \subseteq Nat
  /\ Listed \cap Others = {}
  /\ Unreadable \subseteq Listed
  /\ Points \in [Listed -> Nat]
  /\ StartTime \in Nat
  /\ TicksPerSecond \in Nat \ {0}
  /\ Marks \subseteq Int
  /\ MaxResults \in Nat
  /\ NoTime \notin Nat

VARIABLES
  heuristic,  \* the judge_type of the contest
  results,    \* the judged rows that count: accepted ones, or scored ones
  table       \* the rows of the page as it would be shown now

vars == <<heuristic, results, table>>

Problems == Listed \cup Others

-----------------------------------------------------------------------------
(* The queries: one value per user and problem.                            *)

ValuesOf(res, u, p) == {e.value : e \in {x \in res : x.user = u /\ x.problem = p}}

Has(res, u, p) == ValuesOf(res, u, p) # {}

\* Mutant of Best: the last accepted submission counts.
BestOrLast(heur, res, u, p) == Max(ValuesOf(res, u, p))

\* MIN(created_at) of the accepted ones, MAX(score) of the scored ones.
Best(heur, res, u, p) ==
  IF heur THEN Max(ValuesOf(res, u, p)) ELSE Min(ValuesOf(res, u, p))

-----------------------------------------------------------------------------
(* A row.                                                                  *)

\* score_map: a problem that cannot be loaded is worth nothing.
Worth(p) == IF p \in Unreadable THEN 0 ELSE Points[p]

Solved(res, u) == {p \in Listed : Has(res, u, p)}

Total(heur, res, u) ==
  FoldSet(LAMBDA p, sum : sum + IF heur THEN Best(heur, res, u, p) ELSE Worth(p),
          0, Solved(res, u))

LastAc(heur, res, u) ==
  IF heur \/ Solved(res, u) = {} THEN NoTime
  ELSE Max({Best(heur, res, u, p) : p \in Solved(res, u)})

\* What is shown of a time, and compared for the rank: whole seconds since the
\* start.
Elapsed(t) == IF t = NoTime THEN NoTime
              ELSE Larger(t - StartTime, 0) \div TicksPerSecond

Row(heur, res, u) ==
  [user |-> u, total |-> Total(heur, res, u), last |-> LastAc(heur, res, u)]

-----------------------------------------------------------------------------
(* Sort and rank.                                                          *)

\* The comparison of sort_by; neither Before the other: a tie.
Before(r, s) ==
  \/ r.total > s.total
  \/ /\ r.total = s.total
     /\ IF r.last = NoTime /\ s.last = NoTime THEN r.user < s.user
        ELSE s.last = NoTime \/ (r.last # NoTime /\ r.last < s.last)

\* The rows come out of a hash map: sort_by may leave a tie in either order.
Sorted(rows) ==
  LET n == Cardinality(rows)
  IN  {q \in [1..n -> rows] : \A i, j \in 1..n : i < j => /\ q[i] # q[j]
                                                          /\ ~Before(q[j], q[i])}

SameRank(heur, r, s) ==
  r.total = s.total /\ (heur \/ Elapsed(r.last) = Elapsed(s.last))

\* Mutant of Ranks: a rank is given once more for every tie before it.
DenseRanks(heur, q) ==
  LET rank[i \in 1..Len(q)] ==
        IF i = 1 THEN 1
        ELSE IF SameRank(heur, q[i], q[i - 1]) THEN rank[i - 1] ELSE rank[i - 1] + 1
  IN  rank

\* Mutant of Ranks: the index is not turned into a rank.
ZeroBasedRanks(heur, q) ==
  LET first[i \in 1..Len(q)] ==
        IF i > 1 /\ SameRank(heur, q[i], q[first[i - 1] + 1]) THEN first[i - 1]
        ELSE i - 1
  IN  first

\* A row that differs from the first of the rows it may be level with opens a
\* rank of its own.
Ranks(heur, q) ==
  LET first[i \in 1..Len(q)] ==
        IF i > 1 /\ SameRank(heur, q[i], q[first[i - 1]]) THEN first[i - 1] ELSE i
  IN  first

Tables(heur, res) ==
  LET rows == {Row(heur, res, u) : u \in {e.user : e \in res}}
  IN  {[i \in 1..Len(q) |->
          [user |-> q[i].user, total |-> q[i].total, last |-> q[i].last,
           rank |-> Ranks(heur, q)[i]]] : q \in Sorted(rows)}

-----------------------------------------------------------------------------
Init ==
  /\ heuristic \in BOOLEAN
  /\ results = {}
  /\ table = <<>>

Recompute == table' \in Tables(heuristic, results')

\* The judge writes a result that counts, of a submission made at any time.
Judged(u, p) ==
  /\ Cardinality(results) < MaxResults
  /\ \E value \in IF heuristic THEN Marks ELSE Times :
       results' = results \cup {[user |-> u, problem |-> p, value |-> value]}
  /\ Recompute
  /\ UNCHANGED heuristic

\* The account goes, and its submissions lose their user.
Deleted(u) ==
  /\ results' = {e \in results : e.user # u}
  /\ Recompute
  /\ UNCHANGED heuristic

Next ==
  \/ \E u \in Users, p \in Problems : Judged(u, p)
  \/ \E u \in Users : Deleted(u)

Spec == Init /\ [][Next]_vars

-----------------------------------------------------------------------------
Raced(res) == {e.user : e \in res}

TypeOK ==
  /\ heuristic \in BOOLEAN
  /\ results \subseteq [user : Users, problem : Problems,
                        value : IF heuristic THEN Marks ELSE Times]
  /\ IsFiniteSet(results)
  /\ Len(table) = Cardinality(Raced(results))
  /\ \A i \in 1..Len(table) :
       table[i].user \in Raced(results) /\ table[i].rank \in 1..Len(table)

\* The page shows the standings of the results there are.
IInv == TypeOK /\ table \in Tables(heuristic, results)

Shown == 1..Len(table)

RowOf(tab, u) == CHOOSE i \in 1..Len(tab) : tab[i].user = u
RankOf(tab, u) ==
  IF \E i \in 1..Len(tab) : tab[i].user = u THEN tab[RowOf(tab, u)].rank
  ELSE Len(tab) + 1

\* By what the page shows: score first, then the elapsed time in seconds.
Better(heur, r, s) ==
  \/ r.total > s.total
  \/ /\ r.total = s.total
     /\ ~heur
     /\ Elapsed(r.last) # Elapsed(s.last)
     /\ \/ Elapsed(s.last) = NoTime
        \/ /\ Elapsed(r.last) # NoTime
           /\ Elapsed(r.last) < Elapsed(s.last)

\* The rank is the one of a competition, by what the page shows: score first,
\* then the elapsed time in seconds (README.md:16).  Users level in both share
\* the rank, in whatever order the hash map gave them, and the next one counts
\* them all.
RanksCountTheBetter ==
  \A i \in Shown :
    table[i].rank =
      1 + Cardinality({j \in Shown : Better(heuristic, table[j], table[i])})

\* Every row is on exactly one page, whatever page is asked for there is one to
\* show, and none of them is empty but the only one.
PagesPartition ==
  LET n == Len(table)
      pages == 1..TotalPages(n)
  IN  /\ \A i \in Shown : Cardinality({p \in pages : i \in PageRows(p, n)}) = 1
      /\ \A p \in pages :
           /\ PageRows(p, n) \subseteq Shown
           /\ Cardinality(PageRows(p, n)) <= PerPage
           /\ PageRows(p, n) = {} => n = 0
      /\ \A asked \in -1..(n + 2) :
           /\ PageShown(asked, n) \in pages
           /\ asked \in pages => PageShown(asked, n) = asked

\* A result never counts against its user: in a problem that is worth something,
\* or in a heuristic one where the user has a result, whatever is judged later, in
\* whatever order, leaves him at least as high, and, if the users shown are the
\* same, raises nobody else.
ResultsNeverHurt ==
  [][\A e \in results' \ results :
       /\ e.problem \in Listed
       /\ IF heuristic THEN Has(results, e.user, e.problem) ELSE Worth(e.problem) > 0
       => /\ RankOf(table', e.user) <= RankOf(table, e.user)
          /\ \A v \in Users \ {e.user} :
               Len(table') = Len(table) => RankOf(table', v) >= RankOf(table, v)]_vars
===============================================================================
