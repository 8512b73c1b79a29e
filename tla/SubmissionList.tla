----------------------------- MODULE SubmissionList -----------------------------
(***************************************************************************)
(* The lists of submissions of a contest, read page by page while new      *)
(* submissions arrive: one query counts the rows, a second one reads the   *)
(* page that the count allows for, newest row first.                       *)
(*                                                                         *)
(* src/src/api/handlers.rs (contest_submissions_index, _my),               *)
(* src/src/db/submission.rs (insert, count_for_contest, list_for_contest   *)
(* and the same by user).                                                  *)
(*                                                                         *)
(* Row n is the n-th created: created_at is the time its INSERT begins,    *)
(* and it is visible once the INSERT commits, which may be after a later   *)
(* one has.  No two rows have the same created_at.  Rows of a list never   *)
(* go away: deleting an account only empties their user_id, and whoever    *)
(* reads the own list still has the account.                               *)
(***************************************************************************)
EXTENDS Pagination, FiniteSets

CONSTANTS
  MaxRows,     \* submissions to the contest (bound)
  MaxPending,  \* INSERTs under way at a time
  Mine,        \* the rows of the reader
  MaxPages     \* pages of the lists whose links are looked at (bound)

ASSUME ConstantsAssumption ==
  /\ MaxRows \in Nat
  /\ MaxPending \in Nat \ {0}
  /\ Mine \subseteq 1..MaxRows
  /\ MaxPages \in Nat

VARIABLES
  phase,    \* of the contest: "ongoing" or "ended"
  begun,    \* rows 1..begun have been created
  visible,  \* the committed ones
  view,     \* the list the reader is at: "all" or "my"
  pc,       \* "closed", "counted" (between the queries) or "shown"
  asked,    \* the page asked for
  total,    \* what the first query counted
  page,     \* current_page
  rows,     \* the rows on the page
  walk,     \* history: where a walk from the first page to the last one is,
            \* or that the page was typed
  known,    \* history: the rows that were there when the walk began
  met,      \* history: the rows the walk has shown
  late      \* history: a row became visible between the last two queries

vars == <<phase, begun, visible, view, pc, asked, total, page, rows, walk, known,
          met, late>>

listVars == <<view, pc, asked, total, page, rows>>
walkVars == <<walk, known, met, late>>

-----------------------------------------------------------------------------
Listable(v) == IF v = "all" THEN visible ELSE visible \cap Mine

\* ORDER BY created_at DESC: the position of a row in its list.
Position(row, list) == Cardinality({r \in list : r >= row})

\* LIMIT per_page OFFSET (page - 1) * per_page
Fetched(p, list) ==
  {r \in list : Position(r, list) \in PageRows(p, Cardinality(list))}

\* The list of everybody's submissions is closed while the contest runs.
Restricted(v) == v = "all" /\ phase = "ongoing"

Init ==
  /\ phase \in {"ongoing", "ended"}
  /\ begun = 0
  /\ visible = {}
  /\ view \in {"all", "my"}
  /\ pc = "closed"
  /\ asked = 1
  /\ total = 0
  /\ page = 1
  /\ rows = {}
  /\ walk = "none"
  /\ known = {}
  /\ met = {}
  /\ late = FALSE

-----------------------------------------------------------------------------
(* The submissions.                                                        *)

BeginInsert ==
  /\ begun < MaxRows
  /\ begun - Cardinality(visible) < MaxPending
  /\ begun' = begun + 1
  /\ UNCHANGED <<phase, visible, listVars, walkVars>>

Commit(row) ==
  /\ row \in 1..begun
  /\ row \notin visible
  /\ visible' = visible \cup {row}
  /\ late' = (late \/ pc = "counted")
  /\ UNCHANGED <<phase, begun, listVars, walk, known, met>>

EndContest ==
  /\ phase = "ongoing"
  /\ phase' = "ended"
  /\ UNCHANGED <<begun, visible, listVars, walkVars>>

-----------------------------------------------------------------------------
(* The reader.                                                             *)

\* The page of a contest that is not over, which has no links.
ShowRestricted ==
  /\ pc' = "shown"
  /\ total' = 0
  /\ page' = 1
  /\ rows' = {}
  /\ UNCHANGED <<phase, begun, visible, view, walk, known, met, late>>

\* The first query.
CountRows ==
  /\ pc' = "counted"
  /\ total' = Cardinality(Listable(view))
  /\ late' = FALSE
  /\ UNCHANGED <<phase, begun, visible, view, page, rows>>

\* The list is opened at its first page, whatever was shown before.
Open ==
  /\ pc # "counted"
  /\ asked' = 1
  /\ \/ Restricted(view) /\ ShowRestricted
     \/ /\ ~Restricted(view)
        /\ CountRows
        /\ walk' = "going"
        /\ known' = Listable(view)
        /\ met' = {}

\* The links and the arrows of the page shown.
Linked ==
  LET links == Links(page, TotalPages(total))
  IN  {links[i] : i \in DOMAIN links} \ {Ellipsis}

Follow(n) ==
  /\ pc = "shown"
  /\ n \in Linked \ {page}
  /\ asked' = n
  /\ CountRows
  /\ walk' = IF n = page + 1 THEN walk ELSE "none"
  /\ UNCHANGED <<known, met>>

\* A page typed into the address, there or not.
Jump(n) ==
  /\ pc = "shown"
  /\ ~Restricted(view)
  /\ asked' = n
  /\ CountRows
  /\ walk' = "jumped"
  /\ UNCHANGED <<known, met>>

\* Mutant of PageFor: the page asked for, whatever there is.
PageAsked == asked

PageFor == PageShown(asked, total)

\* The second query, and the answer.
Fetch ==
  /\ pc = "counted"
  /\ pc' = "shown"
  /\ page' = PageFor
  /\ rows' = Fetched(PageFor, Listable(view))
  /\ met' = IF walk = "going" THEN met \cup rows' ELSE met
  /\ walk' = IF walk = "going" /\ PageFor = TotalPages(total) THEN "over" ELSE walk
  /\ UNCHANGED <<phase, begun, visible, view, asked, total, known, late>>

Next ==
  \/ BeginInsert
  \/ \E row \in 1..MaxRows : Commit(row)
  \/ EndContest
  \/ Open
  \/ \E n \in 1..TotalPages(MaxRows) : Follow(n)
  \/ \E n \in 0..(TotalPages(MaxRows) + 1) : Jump(n)
  \/ Fetch

Spec == Init /\ [][Next]_vars

-----------------------------------------------------------------------------
TypeOK ==
  /\ phase \in {"ongoing", "ended"}
  /\ begun \in 0..MaxRows
  /\ visible \subseteq 1..begun
  /\ view \in {"all", "my"}
  /\ pc \in {"closed", "counted", "shown"}
  /\ asked \in 0..(TotalPages(MaxRows) + 1)
  /\ total \in 0..Cardinality(visible)
  /\ page \in 1..TotalPages(MaxRows)
  /\ rows \subseteq visible
  /\ walk \in {"none", "going", "over", "jumped"}
  /\ known \subseteq visible
  /\ met \subseteq visible
  /\ late \in BOOLEAN

\* Whoever walks from the first page to the last one meets every submission
\* that was there at the start, however many arrive meanwhile: they push rows
\* on to pages not yet read.  (One that arrives between the two queries of the
\* last page may push a row off it.)
WalkMissesNothing == walk = "over" /\ ~late => known \subseteq met

\* A link leads to the page it names: the count never shrinks, so no link is
\* ever past the end.  Whatever page is asked for, the one shown is full unless
\* it is the last one, and empty only if the list was.
LinksLead ==
  pc = "shown" =>
    /\ walk # "jumped" => page = asked
    /\ page < TotalPages(total) => Cardinality(rows) = PerPage
    /\ rows = {} => total = 0

-----------------------------------------------------------------------------
(* The inductive invariant.                                                *)

\* The second query of a page runs on a list at least as long as the one that
\* was counted, and of the same length if nothing arrived in between; a page
\* that was not typed is one of those counted; a closed list is never opened.
ListInv ==
  /\ pc # "closed" => total <= Cardinality(Listable(view))
  /\ pc = "counted" /\ ~late => total = Cardinality(Listable(view))
  /\ pc = "counted" /\ walk # "jumped" => asked \in 1..TotalPages(total)
  /\ pc = "shown" => page \in 1..TotalPages(total)
  /\ Restricted(view) => pc # "counted" /\ walk = "none" /\ total = 0 /\ page = 1

\* What a walk has yet to show lies beyond the pages it has been to, and the
\* last page ends it.
WalkInv ==
  /\ known \subseteq Listable(view)
  /\ walk \in {"going", "over"} => pc # "closed"
  /\ walk = "over" => pc = "shown" /\ page = TotalPages(total)
  /\ walk = "going" /\ pc = "counted" =>
       \A r \in known \ met : Position(r, Listable(view)) > (asked - 1) * PerPage
  /\ walk = "going" /\ pc = "shown" =>
       \A r \in known \ met : Position(r, Listable(view)) > page * PerPage

IInv == TypeOK /\ ListInv /\ WalkInv /\ LinksLead /\ WalkMissesNothing

-----------------------------------------------------------------------------
\* In order, reaching the first page, the last one and two pages to either
\* side; an ellipsis stands for one page or more.
WellFormed(links, shown, last) ==
  /\ {n \in 1..last : n \in {1, last} \cup ((shown - 2)..(shown + 2))}
       \subseteq {links[i] : i \in DOMAIN links}
  /\ links[1] = 1 /\ links[Len(links)] = last
  /\ \A i \in 1..(Len(links) - 1) :
       IF links[i] = Ellipsis
       THEN links[i - 1] + 1 < links[i + 1]
       ELSE links[i + 1] \in {Ellipsis, links[i] + 1}

\* The links below any page of a list of any length are well formed, at the
\* edges of the windows of handlers.rs:145-153 too.  This is no matter of the
\* state: it is looked at once for every list that has not been opened.
LinksAreSound ==
  pc = "closed" =>
    \A last \in 1..MaxPages :
      \A shown \in 1..last : WellFormed(Links(shown, last), shown, last)
===============================================================================
