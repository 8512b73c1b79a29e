------------------------------- MODULE Pagination -------------------------------
(***************************************************************************)
(* The arithmetic of numbered pages: how many there are, which one is      *)
(* shown, what is on it, and the links below it.                           *)
(*                                                                         *)
(* src/src/api/handlers.rs (build_pagination, and the lines the two lists  *)
(* of submissions and the standings have in common).                       *)
(***************************************************************************)
EXTENDS Integers, Sequences

CONSTANT PerPage  \* PER_PAGE, 20 in the code

ASSUME PerPageAssumption == PerPage \in Nat \ {0}

Larger(m, n)  == IF m >= n THEN m ELSE n
Smaller(m, n) == IF m <= n THEN m ELSE n

\* Mutant of TotalPages: a last page that is not full is forgotten.
TotalPagesFloor(total) == Larger(total \div PerPage, 1)

TotalPages(total) == Larger((total + PerPage - 1) \div PerPage, 1)

\* The page shown when page `asked` of a list of `total` rows is asked for.
PageShown(asked, total) == Smaller(Larger(asked, 1), TotalPages(total))

\* Mutant of PageEnd: the last row of a page is the first of the next one.
PageEndInclusive(page, total) == Smaller(page * PerPage + 1, total)

PageEnd(page, total) == Smaller(page * PerPage, total)

\* The positions of a list of `total` rows that are on a page.
PageRows(page, total) == ((page - 1) * PerPage + 1)..PageEnd(page, total)

-----------------------------------------------------------------------------
(* The links below a page; an Ellipsis stands for pages left out.          *)

Ellipsis == 0

FromTo(m, n) == [i \in 1..(n - m + 1) |-> m + i - 1]

If(condition, item) == IF condition THEN <<item>> ELSE <<>>

\* Mutant of Links: the gap after the window is taken for one a page later.
LinksLateGap(current, total) ==
  LET left  == Larger(current - 2, 2)
      right == Smaller(current + 2, total - 1)
  IN  IF total <= 7 THEN FromTo(1, total)
      ELSE <<1>> \o If(left > 2, Ellipsis) \o FromTo(left, right)
             \o If(right < total - 2, Ellipsis) \o <<total>>

\* build_pagination: the first page, the last one and a window of two pages
\* before and after the current one.
Links(current, total) ==
  LET left  == Larger(current - 2, 2)
      right == Smaller(current + 2, total - 1)
  IN  IF total <= 7 THEN FromTo(1, total)
      ELSE <<1>> \o If(left > 2, Ellipsis) \o FromTo(left, right)
             \o If(right < total - 1, Ellipsis) \o <<total>>
===============================================================================
