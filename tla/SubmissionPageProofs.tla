-------------------------- MODULE SubmissionPageProofs --------------------------
(***************************************************************************)
(* Proofs about SubmissionPage: a verdict is shown whole, and a page of a  *)
(* contest keeps the hours of the contest in its URL, however often        *)
(* requests fail.                                                          *)
(***************************************************************************)
EXTENDS SubmissionPage, TLAPS

\* A page with a status the poll has read is a row that has no results yet.
LEMMA PolledRow ==
  ASSUME NEW page \in Rows \cup {Nothing, Problem, Locked, Forbidden},
         IsPending(page.status), NEW status, IsPending(status)
  PROVE  [page EXCEPT !.status = status] = Unjudged(status) /\ Unjudged(status) \in Rows
BY DEF Rows, Unjudged, Nothing, Problem, Locked, Forbidden, IsPending, Judged

\* What the statuses and the pages tell apart.
LEMMA PagesDiffer ==
  /\ \A r \in {Nothing, Problem, Locked, Forbidden} :
       r \notin Rows /\ r.status \notin Terminal /\ ~IsPending(r.status)
  /\ Problem # Nothing /\ Locked # Nothing /\ Forbidden # Nothing
  /\ Locked # Problem /\ Forbidden # Problem
  /\ \A s : IsPending(s) => s \notin Terminal
  /\ \A r \in Rows : r.status \in {"pending", "running"} \cup Terminal
<1>1. \A r \in Rows : r.status \in {"pending", "running"} \cup Terminal
  BY DEF Rows, Unjudged, Judged, Terminal
<1>2. \A s : IsPending(s) => s \notin Terminal
  BY DEF IsPending, Judged, Terminal
<1>3. \A r \in {Nothing, Problem, Locked, Forbidden} :
        r.status \in {"none", "problem", "locked", "forbidden"}
  BY DEF Unjudged, Nothing, Problem, Locked, Forbidden
<1>4. /\ Nothing.status = "none" /\ Problem.status = "problem"
      /\ Locked.status = "locked" /\ Forbidden.status = "forbidden"
  BY DEF Unjudged, Nothing, Problem, Locked, Forbidden
<1>5. \A r \in {Nothing, Problem, Locked, Forbidden} :
        r.status \notin {"pending", "running"} \cup Terminal
  BY <1>3 DEF Terminal, Judged
<1>6. \A r \in {Nothing, Problem, Locked, Forbidden} :
        r \notin Rows /\ r.status \notin Terminal /\ ~IsPending(r.status)
  BY <1>1, <1>5 DEF IsPending
<1>7. /\ Problem # Nothing /\ Locked # Nothing /\ Forbidden # Nothing
      /\ Locked # Problem /\ Forbidden # Problem
  BY <1>4
<1> QED BY <1>1, <1>2, <1>6, <1>7

\* The invariant holds before the first request.
LEMMA InitIInv == Init => IInv
<1> SUFFICES ASSUME Init PROVE IInv
  OBVIOUS
<1>1. row \in Rows \cup {Nothing} /\ (place # "problem" => row # Nothing)
  BY DEF Init, Rows, Unjudged, Nothing
<1>2. reading.status \notin Terminal /\ shown.status \notin Terminal
  BY PagesDiffer DEF Init
<1>3. TypeOK
  <2>1. failures \in 0..MaxFailures
    BY MaxFailuresAssumption DEF Init
  <2>2. /\ phase \in [Contests -> {"upcoming", "ongoing", "past"}] /\ due \subseteq Contests
        /\ owned \in BOOLEAN
        /\ viewer \in {"author", "other", "nobody"} /\ place \in Places
    BY DEF Init, Places
  <2>3. /\ pollAt = "none" /\ poll = "idle"
        /\ reading = Nothing /\ shown = Nothing
    BY DEF Init
  <2> QED BY <1>1, <2>1, <2>2, <2>3 DEF TypeOK
<1> QED BY <1>1, <1>2, <1>3 DEF Init, IInv, PageInv, VerdictIsWhole

\* A page that is asked for anew shows nothing and polls for nothing.
LEMMA LoadIInv ==
  ASSUME IInv, NEW where \in Places, Load(where),
         UNCHANGED contest,
         row' \in Rows \cup {Nothing}, failures' \in 0..MaxFailures,
         where # "problem" => row' # Nothing
  PROVE  IInv'
BY PagesDiffer DEF IInv, TypeOK, PageInv, VerdictIsWhole, Load, Places, contest

\* A row that is shown polls if it has no verdict.
LEMMA ShowIInv ==
  ASSUME IInv, NEW read \in Rows, Show(read), place \in Pages, row # Nothing,
         read.status \in Terminal => read = row,
         UNCHANGED <<contest, row, place, poll, failures>>,
         poll = "idle", reading' = Nothing
  PROVE  IInv'
BY PagesDiffer DEF IInv, TypeOK, PageInv, VerdictIsWhole, Show, Places, contest

\* Every step keeps the inductive invariant.
LEMMA NextIInv ==
  ASSUME IInv, Next
  PROVE  IInv'
<1>0. TypeOK /\ PageInv /\ VerdictIsWhole
  BY DEF IInv
<1>1. CASE ContestTime \/ BrowserClock \/ AuthorLeaves
  <2>1. UNCHANGED <<row, place, reading, shown, pollAt, poll, failures>> /\ Here' = Here
    BY <1>1 DEF ContestTime, BrowserClock, AuthorLeaves, Here
  <2>2. /\ phase' \in [Contests -> {"upcoming", "ongoing", "past"}]
        /\ \A c \in Contests : phase[c] # "upcoming" => phase'[c] # "upcoming"
    BY <1>0, <1>1 DEF ContestTime, BrowserClock, AuthorLeaves, TypeOK
  <2>3. /\ due' \subseteq Contests /\ owned' \in BOOLEAN
        /\ viewer' \in {"author", "other", "nobody"}
    BY <1>0, <1>1 DEF ContestTime, BrowserClock, AuthorLeaves, TypeOK
  <2>4. Here \in Contests
    BY DEF Here, Contests
  <2> QED BY <1>0, <2>1, <2>2, <2>3, <2>4 DEF IInv, TypeOK, PageInv, VerdictIsWhole
<1>2. CASE Judge
  <2>1. /\ row \in Rows /\ row' \in Rows /\ row.status \notin Terminal
        /\ UNCHANGED <<contest, place, reading, shown, pollAt, poll, failures>>
    BY <1>0, <1>2, PagesDiffer DEF Judge, TypeOK, Rows, Unjudged, Terminal, Judged
  <2> QED BY <2>1, PagesDiffer DEF IInv, TypeOK, PageInv, VerdictIsWhole, contest, Here
<1>3. CASE Submit
  <2>1. row = Nothing /\ row' = Unjudged("pending") /\ row' \in Rows
    BY <1>3 DEF Submit, Rows, Unjudged
  <2>2. CASE Load("own")
    BY <1>0, <1>3, <2>1, <2>2, PagesDiffer, LoadIInv DEF Submit, TypeOK, Places, Pages, Contests
  <2>3. CASE UNCHANGED <<place, reading, shown, pollAt, poll>>
    BY <1>0, <1>3, <2>1, <2>3, PagesDiffer
    DEF Submit, IInv, TypeOK, PageInv, VerdictIsWhole, contest, Here
  <2> QED BY <1>3, <2>2, <2>3 DEF Submit
<1>4. CASE Visit \/ GoOn \/ Browse
  BY <1>0, <1>4, LoadIInv, MaxFailuresAssumption
  DEF Visit, GoOn, Browse, TypeOK, PageInv
<1>5. CASE Open
  <2>1. /\ place \in Contests \cup {"problem"} /\ shown = Nothing /\ reading = Nothing /\ pollAt = "none"
        /\ poll = "idle"
    BY <1>0, <1>5, PagesDiffer DEF Open, PageInv
  <2>2. UNCHANGED <<contest, row, place, pollAt, poll, failures>>
    BY <1>5 DEF Open
  <2>3. CASE shown' \in {Locked, Problem} /\ UNCHANGED reading
    BY <1>0, <2>1, <2>2, <2>3, PagesDiffer DEF IInv, TypeOK, PageInv, VerdictIsWhole, contest
  <2>4. CASE ~IsLocked(Here) /\ place # "problem" /\ reading' = row /\ UNCHANGED shown
    BY <1>0, <2>1, <2>2, <2>4, PagesDiffer
    DEF IInv, TypeOK, PageInv, VerdictIsWhole, contest, IsLocked, Here
  <2> QED BY <1>5, <2>3, <2>4 DEF Open
<1>6. CASE Detail
  <2>1. /\ reading \in Rows /\ place \in Pages /\ row # Nothing
        /\ reading.status \in Terminal => reading = row
    BY <1>0, <1>6 DEF Detail, TypeOK, PageInv, Pages, Contests
  <2>2. poll = "idle" /\ pollAt = "none"
    BY <1>0, <1>6, PagesDiffer DEF Detail, PageInv
  <2>3. reading' = Nothing /\ UNCHANGED <<contest, row, place, poll, failures>>
    BY <1>6 DEF Detail
  <2>4. CASE shown' = Forbidden /\ UNCHANGED pollAt
    BY <1>0, <2>1, <2>2, <2>3, <2>4, PagesDiffer
    DEF IInv, TypeOK, PageInv, VerdictIsWhole, contest, Here
  <2>5. CASE Show(reading)
    BY <2>1, <2>2, <2>3, <2>5, ShowIInv
  <2> QED BY <1>6, <2>4, <2>5 DEF Detail
<1>7. CASE PlainDetail
  <2>1. /\ place \in Pages /\ row \in Rows /\ row # Nothing /\ pollAt = "none"
        /\ poll = "idle" /\ reading = Nothing /\ Show(row)
    BY <1>0, <1>7, PagesDiffer DEF PlainDetail, TypeOK, PageInv, Pages, Contests
  <2> QED BY <1>7, <2>1, ShowIInv DEF PlainDetail
<1>8. CASE AskPoll \/ LosePoll
  BY <1>0, <1>8, MaxFailuresAssumption
  DEF AskPoll, LosePoll, IInv, TypeOK, PageInv, VerdictIsWhole, contest, Here
<1>9. CASE ReadPoll
  <2>1. row \in Rows
    BY <1>0, <1>9 DEF ReadPoll, TypeOK, PageInv, Pages, Contests
  <2>2. row.status \in {"idle", "asked", "pending", "running"} \cup Terminal
    BY <2>1, PagesDiffer
  <2> QED
    BY <1>0, <1>9, <2>2 DEF ReadPoll, IInv, TypeOK, PageInv, VerdictIsWhole, contest, Here
<1>10. CASE PollAnswer
  <2>1. /\ poll \notin {"idle", "asked"} /\ pollAt \in Pages /\ place \in Pages
        /\ IsPending(shown.status) /\ row # Nothing /\ reading = Nothing
    BY <1>0, <1>10, PagesDiffer DEF PollAnswer, TypeOK, PageInv, Pages, Contests
  <2>2. CASE IsPending(poll) /\ SwapVerdict
    <3>1. shown' = Unjudged(poll) /\ Unjudged(poll) \in Rows
      BY <1>0, <2>1, <2>2, PolledRow DEF SwapVerdict, TypeOK
    <3>2. shown'.status = poll /\ poll \notin Terminal
      BY <2>2, <3>1, PagesDiffer DEF Unjudged
    <3> QED
      BY <1>0, <2>1, <2>2, <3>1, <3>2
      DEF SwapVerdict, IInv, TypeOK, PageInv, VerdictIsWhole, contest, Pages, Here
  <2>3. CASE Load(pollAt) /\ UNCHANGED <<contest, row, failures>>
    BY <1>0, <2>1, <2>3, LoadIInv DEF TypeOK, Places
  <2> QED BY <1>10, <2>2, <2>3 DEF PollAnswer
<1>11. CASE Result
  <2>1. /\ row \in Rows /\ pollAt = "none" /\ poll = "idle" /\ reading = Nothing
        /\ place \in Places
    BY <1>0, <1>11, PagesDiffer DEF Result, TypeOK, PageInv, Pages, Contests
  <2> QED
    BY <1>0, <1>11, <2>1, PagesDiffer
    DEF Result, IInv, TypeOK, PageInv, VerdictIsWhole, contest
<1> QED
  BY <1>1, <1>2, <1>3, <1>4, <1>5, <1>6, <1>7, <1>8, <1>9, <1>10, <1>11 DEF Next, Browser

\* The inductive invariant: for any number of failed requests and reloads.
THEOREM InductiveInvariant == Spec => []IInv
<1>1. IInv /\ UNCHANGED vars => IInv'
  BY DEF vars, contest, IInv, TypeOK, PageInv, VerdictIsWhole, Here
<1> QED BY <1>1, InitIInv, NextIInv, PTL DEF Spec

\* A page that shows a verdict shows the final row with all its results.
THEOREM VerdictsAreWhole == Spec => []VerdictIsWhole
BY InductiveInvariant, PTL DEF IInv

-----------------------------------------------------------------------------
\* What a step may put on an empty page.
LEMMA NextHours ==
  ASSUME IInv, Next, shown = Nothing, shown' # Nothing
  PROVE  /\ shown' = Problem => phase["own"] # "upcoming"
         /\ place \in Contests /\ shown' \in Rows =>
              \/ phase[place] = "past"
              \/ phase[place] = "ongoing" /\ owned /\ viewer = "author"
<1>0. TypeOK /\ PageInv
  BY DEF IInv
<1>1. CASE Open
  BY <1>1, PagesDiffer DEF Open, IsLocked, Here
<1>2. CASE Detail
  <2>1. /\ reading \in Rows /\ place \in Contests /\ Here = place
        /\ phase[place] \in {"ongoing", "past"}
    BY <1>0, <1>2 DEF Detail, TypeOK, PageInv, Here, Contests
  <2> QED BY <1>2, <2>1, PagesDiffer DEF Detail, Show, IsOwner
<1>3. CASE PlainDetail \/ Result
  <2>1. shown' \in Rows \cup {Nothing} /\ place \notin Contests
    BY <1>0, <1>3 DEF PlainDetail, Result, Show, TypeOK, Contests
  <2> QED BY <2>1, PagesDiffer
<1>4. ~PollAnswer
  <2>1. pollAt = "none"
    BY <1>0, PagesDiffer DEF PageInv
  <2> QED BY <1>0, <2>1 DEF PollAnswer, PageInv
<1> QED
  BY <1>1, <1>2, <1>3, <1>4 DEF Next, Browser, ContestTime, BrowserClock, AuthorLeaves, Judge,
     Submit, Visit, GoOn, Browse, LosePoll, AskPoll, ReadPoll, Load

\* A page under a contest shows nothing before the contest in its URL starts and
\* a submission to its author only until it ends, however the clock moves between
\* the two times contest_submission_detail reads it.
THEOREM UrlHoursHold == Spec => HoursOfTheUrl
<1>1. IInv /\ [Next]_vars =>
        [shown = Nothing /\ shown' # Nothing =>
           /\ shown' = Problem => phase["own"] # "upcoming"
           /\ place \in Contests /\ shown' \in Rows =>
                \/ phase[place] = "past"
                \/ phase[place] = "ongoing" /\ owned /\ viewer = "author"]_vars
  BY NextHours
<1> QED BY <1>1, InductiveInvariant, PTL DEF Spec, HoursOfTheUrl

===============================================================================
