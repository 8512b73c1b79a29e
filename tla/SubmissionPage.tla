----------------------------- MODULE SubmissionPage -----------------------------
(***************************************************************************)
(* A browser at the pages of a contest and of one submission.  Before a    *)
(* contest starts every page of it is a locked one that goes on by itself  *)
(* when the time has come; while it runs its page of a submission is for   *)
(* the author only.  The page of a submission polls while there is no      *)
(* verdict, and the poll that finds one sends the browser to a fresh page. *)
(*                                                                         *)
(* src/src/api/handlers.rs (contest_detail, contest_problems_index,        *)
(* contest_problem_detail, contest_submission_detail, submissions_detail,  *)
(* contest_submission_poll, submissions_poll, api_get_result,              *)
(* render_contest_locked, verdict_info), src/src/types.rs                  *)
(* (Contest::status), src/templates (contest_locked.html, poll.html and    *)
(* the two detail.html).                                                   *)
(*                                                                         *)
(* The submission is of the contest "own".  Whoever knows its id finds the *)
(* same row under its contest, under any other contest (no handler asks    *)
(* which contest a row is of), at the plain page and as JSON; a submission *)
(* of no contest is just as good.  A handler reads the server's clock      *)
(* whenever it asks for the status of a contest; the locked page goes by   *)
(* the browser's clock, which may be fast or slow.  htmx, which is not     *)
(* part of the repository, sends a poll every second, one at a time, and   *)
(* ignores an answer that is an error.                                     *)
(***************************************************************************)
EXTENDS Naturals

CONSTANT MaxFailures  \* lost or failed requests, pages left or reloaded (bound)

ASSUME MaxFailuresAssumption == MaxFailures \in Nat

VARIABLES
  phase,     \* of each contest, by the server's clock
  due,       \* the contests that have started by the browser's clock
  viewer,    \* who the browser is logged in as: the author, another, nobody
  owned,     \* the author's account exists
  row,       \* the row of the submission: its status, its results or NULL
  place,     \* where the browser is
  reading,   \* the row read by the handler under way, or Nothing
  shown,     \* what the page shows, or Nothing before it is there
  pollAt,    \* the page whose poll the verdict area asks, or "none"
  poll,      \* the answer under way: "idle", "asked", or the status read
  failures

vars == <<phase, due, viewer, owned, row, place, reading, shown, pollAt, poll,
          failures>>

contest == <<phase, due, viewer, owned>>

Judged   == {"accepted", "wrong_answer", "scored", "internal_error"}
Terminal == Judged \cup {"compile_error"}

\* The contest of the submission, and another one.
Contests == {"own", "other"}

\* The pages of the submission that poll: under a contest, and the plain one.
Pages  == Contests \cup {"plain"}
Places == Pages \cup {"problem", "result"}

\* The contest in the URL; the problem is one of the submission's contest.
Here == IF place = "other" THEN "other" ELSE "own"

Unjudged(status) == [status |-> status, results |-> "null"]

\* What a page shows that is not the row.
Nothing   == Unjudged("none")
Problem   == Unjudged("problem")
Locked    == Unjudged("locked")
Forbidden == Unjudged("forbidden")

Rows ==
  {Unjudged(s) : s \in {"pending", "running", "compile_error", "internal_error"}}
    \cup {[status |-> s, results |-> "whole"] : s \in Judged}

\* Mutant of IsPending: only a submission that waits is polled for.
IsPendingOnly(status) == status = "pending"

\* The flag of verdict_info.
IsPending(status) == status \in {"pending", "running"}

Init ==
  /\ phase = [c \in Contests |-> "upcoming"]
  /\ due = {}
  /\ viewer \in {"author", "other", "nobody"}
  /\ owned = TRUE
  /\ row = Nothing
  /\ place = "problem"
  /\ reading = Nothing
  /\ shown = Nothing
  /\ pollAt = "none"
  /\ poll = "idle"
  /\ failures = 0

-----------------------------------------------------------------------------
\* Contest::status, as time goes by.
ContestTime ==
  /\ \E c \in Contests :
       \/ phase[c] = "upcoming" /\ phase' = [phase EXCEPT ![c] = "ongoing"]
       \/ phase[c] = "ongoing" /\ phase' = [phase EXCEPT ![c] = "past"]
  /\ UNCHANGED <<due, viewer, owned, row, place, reading, shown, pollAt, poll, failures>>

BrowserClock ==
  /\ \E c \in Contests : due' = due \cup {c}
  /\ UNCHANGED <<phase, viewer, owned, row, place, reading, shown, pollAt, poll, failures>>

\* The author deletes the account, maybe in this browser.
AuthorLeaves ==
  /\ owned /\ row # Nothing
  /\ owned' = FALSE
  /\ viewer' = IF viewer = "author" THEN "nobody" ELSE viewer
  /\ UNCHANGED <<phase, due, row, place, reading, shown, pollAt, poll, failures>>

\* The writes of the worker (JudgeQueue, JudgeCases): one that fails leaves the
\* row as it was.
Judge ==
  /\ row # Nothing
  /\ \/ row = Unjudged("pending") /\ row' = Unjudged("running")
     \/ row.status \notin Terminal /\ row' \in {r \in Rows : r.status \in Terminal}
  /\ UNCHANGED <<contest, place, reading, shown, pollAt, poll, failures>>

\* The browser asks for a page anew: an answer under way is of no use any more.
Load(where) ==
  /\ place' = where
  /\ reading' = Nothing
  /\ shown' = Nothing
  /\ pollAt' = "none"
  /\ poll' = "idle"

\* The author submits at the page of a problem and is sent to the submission;
\* anybody else learns of it, and looks.
Submit ==
  /\ row = Nothing
  /\ phase["own"] # "upcoming"
  /\ row' = Unjudged("pending")
  /\ \/ viewer = "author" /\ shown = Problem /\ Load("own")
     \/ viewer # "author" /\ UNCHANGED <<place, reading, shown, pollAt, poll>>
  /\ UNCHANGED <<contest, failures>>

\* Any route that shows a submission can be asked for any id, by anybody.
Visit ==
  /\ shown = Problem /\ row # Nothing
  /\ \E where \in Places \ {"problem"} : Load(where)
  /\ UNCHANGED <<contest, row, failures>>

\* Mutant of IsLocked: only a contest that runs is open.
IsLockedUnlessOngoing(c) == phase[c] # "ongoing"

IsLocked(c) == phase[c] = "upcoming"

\* Mutant of IsOwner: two absent users are the same.
IsOwnerOrBothNone == IF owned THEN viewer = "author" ELSE viewer = "nobody"

IsOwner == owned /\ viewer = "author"

\* A page of a contest: the locked one in its place before the start.
Open ==
  /\ place \in Contests \cup {"problem"} /\ shown = Nothing /\ reading = Nothing
  /\ \/ IsLocked(Here) /\ shown' = Locked /\ UNCHANGED reading
     \/ ~IsLocked(Here) /\ place = "problem" /\ shown' = Problem /\ UNCHANGED reading
     \/ ~IsLocked(Here) /\ place # "problem" /\ reading' = row /\ UNCHANGED shown
  /\ UNCHANGED <<contest, row, place, pollAt, poll, failures>>

\* The row, and a verdict area that polls if need be.
Show(read) ==
  /\ shown' = read
  /\ pollAt' = IF IsPending(read.status) THEN place ELSE "none"

\* The second half of contest_submission_detail: who may see it is decided by
\* the contest in the URL and by the clock as it is then.
Detail ==
  /\ reading # Nothing
  /\ reading' = Nothing
  /\ IF phase[Here] = "ongoing" /\ ~IsOwner THEN shown' = Forbidden /\ UNCHANGED pollAt
     ELSE Show(reading)
  /\ UNCHANGED <<contest, row, place, poll, failures>>

\* submissions_detail, which asks for no contest.
PlainDetail ==
  /\ place = "plain" /\ shown = Nothing
  /\ Show(row)
  /\ UNCHANGED <<contest, row, place, reading, poll, failures>>

\* api_get_result: the row as JSON.
Result ==
  /\ place = "result" /\ shown = Nothing
  /\ shown' = row
  /\ UNCHANGED <<contest, row, place, reading, pollAt, poll, failures>>

\* The script of the locked page.
GoOn ==
  /\ shown = Locked /\ Here \in due
  /\ Load(place)
  /\ UNCHANGED <<contest, row, failures>>

\* The page is reloaded, or left for another one.
Browse ==
  /\ shown # Nothing
  /\ failures < MaxFailures
  /\ failures' = failures + 1
  /\ \E where \in Places : (row # Nothing \/ where = "problem") /\ Load(where)
  /\ UNCHANGED <<contest, row>>

AskPoll ==
  /\ pollAt # "none"
  /\ poll = "idle"
  /\ poll' = "asked"
  /\ UNCHANGED <<contest, row, place, reading, shown, pollAt, failures>>

\* The poll handler reads the row; the judge may be done before the answer
\* arrives.
ReadPoll ==
  /\ poll = "asked"
  /\ poll' = row.status
  /\ UNCHANGED <<contest, row, place, reading, shown, pollAt, failures>>

\* A database error is a 500, a lost answer is none.
LosePoll ==
  /\ poll # "idle"
  /\ failures < MaxFailures
  /\ failures' = failures + 1
  /\ poll' = "idle"
  /\ UNCHANGED <<contest, row, place, reading, shown, pollAt>>

\* poll.html takes the place of the verdict area.
SwapVerdict ==
  /\ shown' = [shown EXCEPT !.status = poll]
  /\ pollAt' = IF IsPending(poll) THEN "plain" ELSE "none"
  /\ poll' = "idle"
  /\ UNCHANGED <<contest, row, place, reading, failures>>

\* Mutant of PollAnswer: the fragment of the template, verdict or not.
PollSwaps == poll \notin {"idle", "asked"} /\ SwapVerdict

\* The fragment while there is no verdict; then 204 and hx-redirect, to the
\* page whose poll was asked.
PollAnswer ==
  /\ poll \notin {"idle", "asked"}
  /\ \/ IsPending(poll) /\ SwapVerdict
     \/ ~IsPending(poll) /\ Load(pollAt) /\ UNCHANGED <<contest, row, failures>>

Browser ==
  Open \/ Detail \/ PlainDetail \/ Result \/ GoOn \/ AskPoll \/ ReadPoll \/ PollAnswer

Next ==
  \/ ContestTime \/ BrowserClock \/ AuthorLeaves \/ Judge
  \/ Submit \/ Visit \/ Browser \/ Browse \/ LosePoll

Spec == Init /\ [][Next]_vars

\* The page stays open: it is loaded, its script runs, polls are sent, answered
\* and handled; its clock reaches the start.  Nothing makes the judge go on.
FairSpec == Spec /\ WF_vars(Browser) /\ WF_vars(BrowserClock)

-----------------------------------------------------------------------------
TypeOK ==
  /\ phase \in [Contests -> {"upcoming", "ongoing", "past"}]
  /\ due \subseteq Contests
  /\ viewer \in {"author", "other", "nobody"}
  /\ owned \in BOOLEAN
  /\ row \in Rows \cup {Nothing}
  /\ place \in Places
  /\ reading \in Rows \cup {Nothing}
  /\ shown \in Rows \cup {Nothing, Problem, Locked, Forbidden}
  /\ pollAt \in Pages \cup {"none"}
  /\ poll \in {"idle", "asked", "pending", "running"} \cup Terminal
  /\ failures \in 0..MaxFailures

\* A page that shows a verdict shows the final row, results and all: no poll
\* puts a verdict on a page that was read before it.
VerdictIsWhole == shown.status \in Terminal => shown = row

\* What a handler has read and what a poll is about: a verdict read is final, a
\* contest has started before a page of it reads the submission, a submission
\* that is shown or read is there, and only a page without a verdict polls.
PageInv ==
  /\ reading.status \in Terminal => reading = row
  /\ reading # Nothing =>
       place \in Contests /\ phase[Here] # "upcoming" /\ shown = Nothing
  /\ place # "problem" => row # Nothing
  /\ pollAt # "none" => IsPending(shown.status) /\ place \in Pages
  /\ poll # "idle" => pollAt # "none"

\* The inductive invariant.
IInv == TypeOK /\ PageInv /\ VerdictIsWhole

\* Whoever waits at a page of the submission gets the verdict: the polling goes
\* on as long as there is none, through the running state and failed polls, and
\* ends with a page that has it, or that does not show it to this viewer yet.
WatcherGetsVerdict ==
  row.status \in Terminal /\ place \in Pages ~>
    \/ shown.status \in Terminal
    \/ shown = Forbidden \/ (shown = Locked /\ place = "other")
    \/ place = "problem"

\* A page under a contest keeps the hours of the contest in its URL, however the
\* clock moves between the two times the handler reads it and whoever's account
\* is gone: nothing before the start, and no submission to anybody but its author
\* before the end.  This is what handlers.rs:1142 and :1179 ensure, and all that
\* they do: see AuthorOnly.
HoursOfTheUrl ==
  [][shown = Nothing /\ shown' # Nothing =>
       /\ shown' = Problem => phase["own"] # "upcoming"
       /\ place \in Contests /\ shown' \in Rows =>
            \/ phase[place] = "past"
            \/ phase[place] = "ongoing" /\ owned /\ viewer = "author"]_vars

\* What the code says of it: "while a contest runs only the author can see the
\* details" (handlers.rs:1173, and forbidden.html:9 to those turned away).
AuthorOnly ==
  [][shown = Nothing /\ shown' \in Rows /\ phase["own"] = "ongoing" =>
       owned /\ viewer = "author"]_vars

\* Whoever waits at a locked page gets in by itself unless they leave, also with
\* a clock that is fast or slow, and also when the contest is over by then.
WaiterEnters ==
  \A where \in Contests \cup {"problem"} :
    place = where /\ shown = Locked /\ phase[Here] # "upcoming" ~>
      place # where \/ shown \notin {Nothing, Locked}

\* The contest has a poll of its own ("in the contest: submission detail (htmx
\* poll)", handlers.rs:1228), which leads back to the page in the contest.
StaysInContest == [][PollAnswer /\ place \in Contests => place' = place]_vars
===============================================================================
