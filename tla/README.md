# A TLA+ model of Mikan Judge

Mikan Judge is an online judge written in Rust: contests with problems, submissions that are
compiled and run in a sandbox, verdicts that the browser polls for, standings. These modules model
its core, TLC checks them on small instances, and TLAPS proves the most important properties for
every value of their parameters. Paths are relative to the directory above this one
(`src/` is the repository, `src/src/` its Rust code); `handlers.rs` is `src/src/api/handlers.rs`.

Contents: [the system](#1-the-system), [the hard behaviours](#2-what-is-hard-to-test),
[the modules](#3-the-modules), [the runs](#4-the-runs), [fairness](#5-fairness),
[the proofs](#6-the-proofs), [where code and text disagree](#7-where-the-code-and-what-is-said-of-it-disagree),
[what is left out](#8-what-is-not-modelled), [the plan](#9-the-plan).

## 1. The system

One process. The axum handlers and the workers are tasks of one tokio runtime; each run of a
program is a blocking thread with three helper threads and a forked child; PostgreSQL holds all
that survives a restart.

| component | code | state | operations | makes it correct |
|---|---|---|---|---|
| judge queue and worker pool | `worker/mod.rs`, `main.rs`, submit handlers | channel of 256 jobs, lock of its receiver, the job of each worker, the `status` of each row | insert and send, receive, mark running, judge, write the verdict; a send on a closed channel, disconnects, panics, restart | one job per submission, nobody loses one but by a fault, a status never goes back, every submission settles |
| judgement of one job | `worker/mod.rs` `judge`, `run_scorer` | locals of the loop over the cases, the row | compile, run each case, score, write | the verdict agrees with the cases; results complete or absent |
| sandbox runner | `sandbox/runner.rs` | processes, threads, pipes, the descriptor tables | pipe, fork, exec, feed, drain, wait, kill, join | output is complete, runs end, nothing is left behind, pipes do not deadlock |
| submit routes and cooldown | `handlers.rs` (three routes), `session_store.rs` | two times in the session record, a copy per request | load, size check, cooldown check, insert, record the time, send, save | the cooldown holds, refusals are justified |
| submission storage | `db/submission.rs` | the table `submissions` | insert, update_status, update_result, queries | part of each module that reads or writes it |
| standings | `handlers.rs` `contest_standings`, two queries | none, computed for each request | aggregate, sum, sort, rank, cut | ranks follow from what is shown; results do not hurt their user |
| submission lists | `handlers.rs` (two lists), count and page queries | none | count, page, links | no row missed, links lead where they say |
| submission page and polling | `handlers.rs`, `templates/**/detail.html`, `poll.html` | the fragment in the browser names the next poll | page, poll, redirect | verdicts are shown with their results, watchers are not left waiting |
| session store | `session_store.rs`, tower-sessions | table of session records, the cookie of a browser | load (an expired record is deleted), save, delete | a logout lasts; a browser is logged in to what it was told |
| accounts and settings | `handlers.rs`, `db/user.rs` | table `users`, `user_id` of the session and of the rows | register, login, logout, password, delete, language | one account per name, nobody acts for an account without its password |
| contests and timing | `db/contest.rs`, `types.rs`, `handlers.rs`, `contest_locked.html` | table `contests` | `status()` by the clock, access rules, the locked page | the pages under a contest keep its hours, waiting browsers get in |
| compilation | `sandbox/mod.rs` | files of a work directory, a compiler process | write the source, run the compiler or a syntax check within a time limit | whose fault it is; a compiler given up runs on and holds pipes |
| problem loading | `problem.rs` | none, files | read statement, cases, scorer | every case that can be read is judged |
| seccomp filter, languages, migrations, templates, static files, sample problems | `sandbox/seccomp.rs`, `types.rs`, `migrations/`, `templates/`, `static/`, `problems/` | data | | |

How they interact:

- A submit handler inserts a row (`pending`), then sends a `JudgeJob` on an mpsc channel, waiting for
  a slot if all 256 are taken. In between lies an await: the handler may be dropped there.
- Workers take turns at the receiver behind an async mutex. The guard lives only in the `let` that
  receives, so judging happens with the lock free. The worker writes `running`, compiles, runs the
  cases, then writes verdict, costs, score and results of the cases in one UPDATE.
- The sandbox runs in `spawn_blocking`; runs of different workers fork from the same process at
  the same time and share its descriptor table.
- Handlers and workers share nothing but the channel and the rows. Pages, polls, lists and
  standings only read rows, at any moment between the writes.
- A request works on a copy of its session record: loaded at its first use, stored as a whole with
  the response if it was changed. The routes that change it are login, logout, register, the
  deletion of an account and the contest submit.
- A handler asks for the status of a contest as often as it needs it, and each time the clock is
  read; the page shown before the start goes by the browser's clock.
- Compilers and scorers are further children of the same process: `tokio::process` forks them while
  runs are under way, and they too start with a copy of the descriptor table. Java and Go programs run
  without the system call filter and the process limit (`types.rs:65`) and may start processes of their own.
- One submission is reached by four routes: under its contest, under any other contest, at the plain
  page and as JSON. Only the first two ask for the hours of a contest, the one in the URL.

## 2. What is hard to test

`PROJECT.json` lists every hazard at its line, with the properties that watch it. In groups:

- *Interleaving*: handlers and workers around the channel and its lock; overlapping requests of one
  session; overlapping runs of the sandbox that inherit each other's descriptors; the judge writing
  between a poll's read and its answer; rows arriving between a count and the page it is for; two
  registrations of one name; a logout during another request; a contest that ends, or an account that
  goes, between two checks of one request.
- *Failure*: a statement that fails after the work was done, applied or not; a client that goes away
  between the insert and the send; a worker task that panics; a restart, which empties the channel
  while rows say `pending` or `running`; a scorer that never answers; a compiler that is given up and
  runs on; a process that outlives the program that started it; a test case whose files cannot be read; an answer to a login that is lost.
- *Limits*: the full channel, full pipes, output over the cap, the deadline racing the exit of the
  child, the scorer without a time limit, two clocks that do not agree.
- *Order*: results that are judged in another order than they were submitted, rows that become
  visible out of the order of their `created_at`, failures of cases of which the first one counts.
- *Boundaries*: pages, the row of page links, ties within a second.

## 3. The modules

Module names follow the components, definitions the names of the code where they can. Every
definition that stands for code is listed in `PROJECT.json` under "map" with its lines.
Definitions commented "Mutant of X" are plausible wrong versions of X, used to see that the
properties notice them; no specification uses them.

### JudgeQueue, SubmissionLifecycle (proofs: JudgeQueueProofs; instance: MCJudgeQueue)

A step is what happens between two awaits. `Insert`, `Send`, `SendClosed`, `Disconnect` are the
handler's steps; `LockRx`, `Recv`, `MarkRunning`, `Prepare`, `RunCases`, `Finish`, `Panic` the
worker's, `Hang` a scorer that never answers; `Restart` is the process. `row` is the status column, `channel` the queue. Faults are
drawn from the budget `MaxFaults`; the history variable `casualties` holds the submissions a fault
has cut off. Writes may fail with or without effect, as an error of the connection after the commit
does. The whole loop over the cases is the step `RunCases` with any result: its detail is
JudgeCases. `SubmissionLifecycle` is what a client is promised (unsent, waiting, judging, settled or
stranded, and the status it is shown); `Lifecycle` in JudgeQueue is the refinement mapping.

### JudgeCases (proofs: JudgeCasesProofs)

`judge()` from the compiler to the last UPDATE, for exact and heuristic problems, with or without
scorer and expected outputs: `MarkRunning`, `NoWorkDir`, `Compile`, `SandboxFails`, `RunCase`,
`WriteResult`. `files` says which files of each case can be read and `LoadTestcases` what becomes of
them (a recursive function and not `SelectSeq`, which the prover cannot expand); `Blamed` says whom a compiler is blamed on (a compiler over its time is the judge's fault, a
syntax check over its time the author's). The variables are the locals of the loop. `runs`, a history
variable, is how each run ended, so the properties compare the row with what happened and not with
the code's own locals.

### SandboxRunner (proofs: SandboxRunnerProofs; instance: MCSandboxRunner)

Several runs of `run_sandboxed_blocking` in one process. `fds` maps the server and each child to the
pipe ends it has open; `Fork` copies the table of the server, since the pipes are made without
`FD_CLOEXEC`; `ChildExec` closes only the six descriptors `child_exec` was given. `MakeStdin`,
`MakeStdout`, `Fail`, `Fork`, `Collect`, `Reap`, `Expire`, `Kill`, `Join` are the run's thread;
`WriterWrites`, `WriterEnds`, `DrainReads`, `DrainEnds` the threads it starts; `Reads`, `Prints`, `Exits` the
program: one that reads everything and then prints (`echo`), one that prints without reading, one
that fails, one that spins, and one that may start processes (`parent`, a Java or Go program). `Others`
are the processes beside the children: a helper (`HelperStarts`) is a compiler or scorer the server starts
meanwhile, a stray (`StrayStarts`) a process that a program starts, with all that it starts in turn. What
matters of them is the copy of the descriptors they begin with, which a stray may close in part
(`StrayCloses`), and that nothing makes them end (`OtherEnds`): the SIGKILL of a run goes to the pid of its
child only. stderr is a second stdout and is left out. Time is the action `Expire`. Guards that
`PipesKeepMoving` speaks of have names of their own (`CanReap`, `CanWrite`, `CanDrain`, ...): what
follows a guard only assigns, so a step can be taken when its guard holds.

### SubmitGate (proofs: SubmitGateProofs; instance: MCSubmitGate)

One session with several requests to submit in flight, over the four kinds of route (exact contest,
heuristic contest, practice, JSON API). The cooldown is per session, as it is in the code: a user
with two browsers has two. `Load` copies the record, the checks read the copy, `Stamp` writes the
copy, saving replaces the record. `seen` and `saved` are history variables that say which requests
overlapped.

### Standings, Pagination (proofs: StandingsProofs; instance: MCStandings)

`results` is the set of judged rows that count; a result is added by being judged, with a creation
time that may be earlier than those already there, and deleting an account takes its rows out of the
table. `table` is the page computed by the code's steps: one value per user and problem, totals,
the sort with its tie-breaks, ranks that compare whole seconds. `Pagination` holds the operators that standings and
lists share: number of pages, clamping, the slice, and `Links` (`build_pagination`).

### SubmissionList (proofs: SubmissionListProofs)

The two lists of a contest read through two queries, `CountRows` and `Fetch`, while rows are begun
and committed in any order (`BeginInsert`, `Commit`) and the contest ends. The reader opens a list,
follows a link, or types a page that may not exist. `walk`, `known`, `met` and `late` are history
variables of one walk from the first page to the last.

### SubmissionPage (proofs: SubmissionPageProofs)

One browser, one submission of the contest `own`, and another contest, `other`. `phase` is
`Contest::status` of each by the server's clock, `due` the contests that have started by the browser's
clock, `viewer` who is logged in. A page under a contest is locked before the start (`Locked`), and its
script goes on by itself (`GoOn`). `Submit` leads the author to the submission, `Visit` and `Browse` anybody
to any route that shows it: under its contest or, since no handler compares them, under the other one
(`Here` is the contest in the URL), the plain page (`PlainDetail`), the JSON (`Result`). A submission of no
contest has the same routes. `Open` and `Detail` are the two halves of `contest_submission_detail` with the read of the row in
between, so that the contest may end, or the author's account go (`AuthorLeaves`), in the middle.
`AskPoll`, `ReadPoll`, `PollAnswer` are the polls of the verdict area, with lost answers, errors
and reloads, and the writes of the worker (`Judge`) come between any two steps. htmx is outside the
repository and is modelled from how the templates use it: a poll every second, one at a time,
errors ignored.

### Accounts (proofs: AccountsProofs; instance: MCAccounts)

The tables `users` and `tower_sessions` (`users`, `rows`, `store`), the browsers with their `cookie`,
and the requests (`req`) that register, log in, log out, delete the account, change the password,
submit or look at a page. `Begin` takes the cookie; each further action is one statement: `Check` and
`Register`, `FindLogin`, `FindOwn`, `Drop`, `Change`, `InsertSubmission` on accounts, `Load`, `Sweep`,
`Save`, `Flush` on sessions. The record is loaded when a handler first asks for it: for a login that is after
the password was checked. The session layer (tower-sessions) is outside the repository: that a changed
record is saved with the response, that a session with no record gets a new id, and that the cookie
follows, is modelled from how the handlers and `PgSessionStore` use it. `CutOff` is a failed statement, a
client that goes away or a lost answer; `Expire` the two weeks. History variables: `proven` is who
gave which account's password where, `told` the account a browser was last told, `unsure` the
browsers that cannot know, `flushed` the sessions logged out of and `held` the requests that had
loaded them by then. The change of the user's language is left out: it touches a column nothing else reads
but the forms.

## 4. The runs

Bounds are in the `.cfg` files. Numbers of distinct states are rounded.

| run | question | instance and why it is enough | states |
|---|---|---|---|
| `JudgeQueue` | is every submission in one place, is nothing lost or judged twice, does everything settle, is the life cycle implemented? | 3 submissions, 2 workers, 1 slot, 2 faults of any kind: one job is judged while one waits in the full channel and one in its handler; two faults kill or hang both workers, or hit two steps of one submission | 112 000 |
| `JudgeCases` | does the row agree with the runs, and do the runs cover the cases? | up to 3 cases (a first failure with cases before and after it), files of any of them unreadable, memory below and above the limit and 0, two scores, blank and other outputs | 2 137 000 |
| `SandboxSafety` | is the output complete, is nothing left behind, do the pipes keep moving? | 2 runs of any program, 3 units in and out over pipes of 2 and a cap of 2 (both pipes fill, the cap is passed, less than the cap may still be in the pipe when the child is gone), one failing system call; no process beside the children here, as the other run's child holds copies of the ends in the same way, and the proofs are for any number of them | 510 000 |
| `SandboxLiveness` | do runs and writers end, whatever the children and the processes beside them do? | 2 runs with 2 units in over a pipe of 1 (writers block), one helper or stray that may have ends of either and keep them for ever, or close its input or its output alone; a child may stop at any point, which stands for the other kinds of program | 370 000 |
| `SandboxPatientPair` | (violation) do the threads prevent a pipe deadlock? | 2 programs that read to the end of their input, no deadline | |
| `SubmitGateSafety` | does the cooldown hold, is every refusal justified? | 3 requests of one session, all in flight together if they like, cooldowns of 2 and 3 ticks, 4 ticks: two requests can disturb each other and a third one see the result | 1 420 000 |
| `Standings` | do ranks follow from what is shown, is every row on one page, can a result hurt? | 3 users, 3 problems (one unreadable) and one outside the contest, 4 results, times that tie within a second and not | 88 000 |
| `SubmissionList` | does a walk meet every row, do links lead where they say, are they well formed? | 6 rows, 2 a page, 2 INSERTs under way; links for lists of up to 12 pages, on both sides of the change of form at 7 | 188 000 |
| `SubmissionPage` | does the watcher end with the verdict and its results, are the contest's hours kept, do those who wait get in? | one browser, one submission on all its routes, two contests, author, other or nobody, two lost polls, reloads or changes of page: the page and a poll, or two polls, each go wrong once | 122 000 |
| `Accounts` | is nobody taken for another, is a name one account, does a browser know where it stands, does a logout last? | 2 browsers, 3 requests of any kind, 2 of them in flight, 2 names, 2 passwords, an older account, one expiry: two requests can disturb each other and a third one see the result | 622 000 |
| `SubmissionPageAuthor` | (violation) does only the author see a submission while its contest runs? | the same | |
| `SubmissionPagePlace` | (violation) does a watcher in the contest stay there? | the same | |

What they show, property by property:

- `NoSilentLoss`, `EverySubmissionSettles`: a full channel, a failed write of `running`, a fault of
  somebody else's submission lose nothing; a scorer that never answers costs one worker and its own
  submission, until every worker is stuck (`Stuck`), after which nobody's is settled. Conversely the model shows what a fault costs: the row of
  a handler dropped before its send stays `pending`, the row of a judgement cut off by a panic, a
  failed final UPDATE or a restart stays `running`, and nothing ever looks at them again.
- `StatusOnlyAdvances`: `update_status` and `update_result` overwrite without looking, and still
  nothing is overwritten by something older, because a job has one holder.
- `ImplementsLifecycle`: queue, lock, workers and all faults are, for a client, the life cycle of
  each submission, and a waiting submission is started and a judged one settled.
- `NoPartialResult`, `AcceptedMeansEveryCasePassed`, `VerdictIsFirstFailure`, `CostsAreTheWorst`,
  `ScoreAddsUp`: the row says what the runs say, the case with no expected output, the failing
  scorer and the maximum of zero (stored as NULL) included.
- `FilesAreJudged`: a row with results speaks for every case whose input could be read, in order, each
  judged against its own expected output, and for no other. That a case whose input cannot be read is left out in silence is section 7.
- `OutputComplete`, `NothingLeftBehind`: a drain is joined at the end of the output only; a finished run has
  reaped its child, and the one descriptor of it the server may still have is the write end a writer is
  blocked on. Processes the program started are not the server's to reap, and may be left.
- `PipesKeepMoving`: as long as nobody else holds an end of a run's pipes, some step of its threads
  or its child is possible without the deadline, however small the pipes.
- `RunsEnd`, `WritersEnd`: what the deadline is worth. Overlapping runs that hold each other's ends still end by
  their deadlines, and so do their writers. Not every run does, and the exception is in the properties
  (`KeptOpen`): a process beside the children that keeps the output of a run open for ever keeps its drain, and
  with it the join (`runner.rs:271`) and the worker, waiting for ever; one that keeps its input open and does not read,
  its writer. Such a process is a compiler or scorer that never ends, or one that a Java or Go program started, which the
  SIGKILL (`runner.rs:244`) does not reach.
- `IntervalUnlessOverlap`: submissions of one kind in one session are a cooldown apart if their
  requests did not overlap and no third request overwrote the record in between. Without the
  condition it is false: see section 7.
- `RefusalIsJustified`: a `too soon` answer always has a recorded submission of the same kind behind it;
  the two kinds of contest do not block each other.
- `RanksCountTheBetter`: a rank is one more than the number of rows strictly better in what is
  shown. `PagesPartition`: every row is on exactly one page. `ResultsNeverHurt`: a further result
  never lowers its user. The exception is in the property: an accepted submission to a problem that is worth
  no points, or cannot be loaded, adds nothing but may make the last accepted time later; a first heuristic result may be negative.
- `WalkMissesNothing`: rows that arrive during a walk push others to pages not yet read. The exception
  is in the property: a row arriving between the two queries of the last page may push one off it.
- `LinksLead`, `LinksAreSound`: the count never shrinks, so a link still leads to its page later.
- `VerdictIsWhole`, `WatcherGetsVerdict`: a verdict reaches the browser with a fresh page only, and it
  does reach it, unless it may not be shown to this viewer yet.
- `HoursOfTheUrl`: whichever way the clock moves during a request and whoever is logged out or deleted, a page
  under a contest shows nothing before the start of the contest in its URL, and before the end of that one no
  submission to anybody but its author. This is not the submission's own contest, and no other route asks: see
  `AuthorOnly` in section 7.
- `WaiterEnters`: a browser at the locked page gets in, however wrong its clock is.
- `ActsOnlyAsProven`: no browser acts for an account whose password it has not given; an account registered under the
  name of a deleted one inherits neither its sessions nor its submissions. `OneAccountPerName`: the UNIQUE column decides
  between two registrations that both passed the check.
- `ToldIsTrue`, `LogoutLasts`: a browser none of whose requests overlap is logged in to what it was told, and a
  session logged out of comes back only with a request that had loaded it before. That such a request does
  bring it back is section 7.

## 5. Fairness

- *JudgeQueue*: weak fairness of each handler's `Send`/`SendClosed` and each worker's receiving and
  judging steps: tokio runs every task that can run, the mpsc semaphore and the mutex are FIFO, the sandbox
  ends (`RunsEnd`) and the compiler has a limit. No client has to submit, no fault has to happen.
  A worker that hangs in its scorer, which has no limit, or in a run that a compiler, a scorer or a process
  started by a program keeps open for ever (`KeptOpen`), has no step, and none is assumed.
- *SandboxRunner*: weak fairness of the run's thread, of the writer and the drain (kernel threads), and of
  `Expire` (the wall clock passes any deadline, and the poll loop looks every few milliseconds). Nothing is
  assumed of the child in `FairSpec`, not even that it gets to its `exec`, nor of a helper or a stray that it ends or closes anything. `PatientSpec` adds that
  children run on, for the question whether they need the deadline.
- *SubmissionPage*: weak fairness of the browser's own steps while the page is open, and of its clock,
  which reaches the start at some time, before or after the server's. Neither the judge nor the contest is
  assumed to go on.
- Safety runs assume nothing.

The other runs allow stopping anywhere (`CHECK_DEADLOCK FALSE`): all submissions may be settled, all
bounds used up.

## 6. The proofs

| module | theorem | property |
|---|---|---|
| JudgeQueueProofs | `InductiveInvariant`, `LossNeedsFault`, `StatusAdvances`, `RefinesLifecycle` | `IInv`, `NoSilentLoss`, `StatusOnlyAdvances`, and that the queue implements the safety part of SubmissionLifecycle |
| JudgeCasesProofs | `InductiveInvariant`, `Complete`, `AcceptedSound`, `FirstFailureShown`, `CostsWorst`, `ScoresAddUp`, `FilesJudged` | `IInv`, `NoPartialResult`, `AcceptedMeansEveryCasePassed`, `VerdictIsFirstFailure`, `CostsAreTheWorst`, `ScoreAddsUp`, `FilesAreJudged` |
| SandboxRunnerProofs | `InductiveInvariant`, `OutputIsComplete`, `CleansUp`, `NeverStuck` | `IInv`, `OutputComplete`, `NothingLeftBehind`, `PipesKeepMoving` |
| SubmitGateProofs | `InductiveInvariant`, `CooldownHolds`, `RefusalsJustified` | `IInv`, `IntervalUnlessOverlap`, `RefusalIsJustified` |
| AccountsProofs | `InductiveInvariant`, `NoImpersonation`, `NamesAreUnique`, `AnswersAreTrue`, `LogoutIsFinal` | `IInv`, `ActsOnlyAsProven`, `OneAccountPerName`, `ToldIsTrue`, `LogoutLasts` |
| SubmissionPageProofs | `InductiveInvariant`, `VerdictsAreWhole`, `UrlHoursHold` | `IInv`, `VerdictIsWhole`, `HoursOfTheUrl` |
| SubmissionListProofs | `InductiveInvariant`, `NoneIsMissed`, `LinksLeadSomewhere`, `LinksSound` | `IInv`, `WalkMissesNothing`, `LinksLead`, `LinksAreSound` |
| StandingsProofs | `InductiveInvariant`, `RanksAreFair`, `PagesShowAll`, `NoResultHurts` | `IInv`, `RanksCountTheBetter`, `PagesPartition`, `ResultsNeverHurt` |

Every invariant a passing run checks is proved, and so are the three action properties. The theorems hold for
any number of submissions, workers, slots, faults, cases, runs, units, requests, browsers, rows, results, pages and page sizes,
from the named assumptions on the constants (`ConstantsAssumption`, `NullAssumption`, `PerPageAssumption`, `MaxFailuresAssumption`) only. Each follows the same way:
`Init => IInv`, one lemma (or step) per action for `IInv /\ [Next]_vars => IInv'`, and the property from
`IInv`, which is an invariant of the runs too.

- *Queue.* That nothing is lost or goes back needs that a job has one holder
  (`OneJobPerSubmission`), which worker states go with a job (`HoldsJobWhileJudging`), who may hold the lock
  (`LockOnlyToReceive`), and that a held job has an unfinished row (`CustodyMeansUnfinished`).
  Only with the last can the blind UPDATEs be shown to move forward. The refinement maps
  each action to one of the life cycle or a stutter.
- *Cases.* `LoopInv` states each local as a function of the runs so far, by the first failing
  one; `ScoreInv` the total as the sum over them; `RowInv` the columns from the locals. The sum is the library's
  `SumFunction`, a recursive function over sets: it is shown to count a set with as many units for each case as the case has points
  (`SumIsCount`), and such a set grows as the loop adds (`SumAppend`). `LoadFacts` says what the loop over the
  files holds after each of them.
- *Sandbox.* Completeness of the output rests on "the end of the output is seen only when nobody can
  write any more" (`OutputInv`), which needs that a live child holds its write end (`ChildFdsInv`)
  and that the server's ends follow the stages (`ServerFdsInv`, `StageInv`). That a run is never stuck also needs that
  a program does not hold the write end of its own stdin: who waits for input then waits for the writer, who
  waits for output is read by the drain, and neither waits for the other.
- *Gate.* `NoLostStamp` (a time recorded undisturbed is not overwritten by an older one) and
  `CheckedInv` (who passed the check is a cooldown away) give the interval; `StampsHaveOwners`
  gives the refusals.
- *Accounts.* `StageInv` says what a request knows at each place of its handler; `SessionInv` that a session is
  of one browser, a new one of none; `ProvenInv` that whatever a session or a request names was proved by that browser;
  `ToldInv` that a browser is wrong about itself only while an answer is due; `LogoutInv` that only those who loaded a session
  before its logout still hold it. `ActsOnlyAsProven` is not inductive without `SessionInv`: a cookie
  could name another browser's session.
- *Submission page.* `PageInv` ties what is read and shown to the row: a handler that read a terminal row read the row
  as it stays, a page under a contest is read only once the contest in its URL has started and with nothing shown, and a page that
  polls shows a row with no verdict yet. `UrlHoursHold` follows step by step: the hours are asked for before the row is
  read and again before it is shown, each time of the contest in the URL.
- *Submission list.* `ListInv` (the second query of a page sees a list at least as long as the count) and `WalkInv`
  (each row known at the start was met or is at a position behind the pages read). A row's position is the number of
  rows not older: it only grows (`PositionGrows`), and positions are a bijection with the list, which is what makes a page
  a stretch of positions.
- *Standings.* `IInv` says that the table is one the code may compute from the results. Ranks, a recursive
  function over the sorted rows, are shown to count the rows strictly better (`RanksOfSorted`); totals, a fold over the solved
  problems, change by one value when a result is added (`SumRemove`, `SumAgree`); so the row of the user is at least as good
  and the others are the same (`OwnRow`, `OthersRow`), and the rank follows (`OneMoreResult`).

The induction theorems of the library take an operator as a parameter, which the provers here cannot instantiate.
Where a proof needs induction it takes the least counterexample: `LeastNat` for numbers, `NoLeastSubset` for finite sets. The few lemmas about
numbers and pages that several proof modules need are repeated in each, which keeps them independent of one another.

Only model-checked: liveness, that is `EverySubmissionSettles`, the fairness part of `ImplementsLifecycle`, `RunsEnd`,
`WritersEnd`, `WatcherGetsVerdict`, `WaiterEnters`. TLAPS has no rule that takes a fairness condition apart without
ENABLED, which it does not reason about. The three properties of section 7 are refuted by TLC, not disproved.

## 7. Where the code and what is said of it disagree

Shown by a run (`PROJECT.json`, "findings"):

1. `SandboxPatientPair`: "to prevent a pipe deadlock" (`sandbox/runner.rs:220`). Two children forked at
   the same time hold each other's write end of stdin, wait for the end of their input for ever, and
   are judged TLE.
2. `SubmissionPageAuthor`: "while a contest runs only the author can see the details; no information at all is given"
   (`handlers.rs:1173`, and `forbidden.html:9` to those turned away). The plain page (`handlers.rs:1681`) shows the same
   submission to anybody who has its id, source included. So does the JSON (`handlers.rs:1832`), and so does the page under another
   contest that is over, because `contest_submission_detail` (`handlers.rs:1133`) never compares the contest in the URL with the
   submission's. What does hold is `HoursOfTheUrl`.
3. `SubmissionPagePlace`: the poll in the contest answers with a fragment that polls outside of it
   (`src/templates/submissions/poll.html:3`), and the browser ends on the page outside the contest.

Seen while modelling, without a run of their own:

- "A submission over the limit is refused and does not enter the judge queue" (`src/README.md:126`): the practice
  route has no size check before its INSERT (`handlers.rs:1605`); in SubmitGate `TooLarge` is for the other kinds.
- "During the contest the list of all submissions is not public" (`handlers.rs:942`): the plain list of recent
  submissions (`handlers.rs:1631`) has those of a running contest in it, and leads to them.
- A deadline does not end every run: the SIGKILL is for one pid (`runner.rs:244`), and a process that a Java or Go
  program started keeps the run open with its copy of stdout (`runner.rs:271`), as a compiler that was given up does. It
  is the exception in `RunsEnd` and `WritersEnd`.
- The cooldown (`src/README.md:18`) does not hold between overlapping requests, each of which checks its
  own copy of the session (`handlers.rs:835`, `:870`), and the practice route has none
  (`handlers.rs:1572`).
- The labels "waiting" and "being judged" (`handlers.rs:94`, `:95`) stay on rows stranded by a
  disconnect, a failed write or a restart, which is also how a new version is deployed; start-up
  (`main.rs:34`) looks at no row.
- "All cases are judged" (`src/README.md:180`): a case whose `.in` cannot be read is skipped
  (`problem.rs:123`), and one whose `.out` cannot be read has an empty expected output.
- A submit that loaded the session before a logout and answers after it stores the record again and sets the
  cookie: the browser is logged in again (`handlers.rs:870`, `session_store.rs:39`).
- A syntax check of an interpreted language that takes too long is shown as a compile error, a compiler that does
  as an internal error (`sandbox/mod.rs:80`); neither process is killed.

## 8. What is not modelled

- In JudgeQueue: a statement that reports an error and is applied later than the next one; the
  wrapped memory limit of a release build (`worker/mod.rs:122`), whose debug build panics. The
  `None` branch of `recv` is not reachable while the process holds the sender.
- In JudgeCases: f64 rounding and NaN of scores, limits of cases beyond the memory comparison.
- In SandboxRunner: cgroup, rlimits and namespaces, the measured memory, what a process started by a program
  reads or prints (only what it holds), the pipes of the helpers themselves, a child that hangs in the allocator after the fork (covered by
  assuming nothing of children).
- In SubmitGate: a clock set back, expiry of sessions, more than one session (Accounts has the last two).
- In Standings: headers and cells, f64.
- In SubmissionList: rows with the same `created_at`.
- In SubmissionPage: more than one submission, the standings and lists of the contest (the same check of the hours
  as `Open`), the plain list of submissions (from there one gets to a submission as by `Visit`), `hx-trigger` details.
- In Accounts: the default language; the owner of a practice submission (as in the contest, but the session is not saved); the time between
  reading a row and comparing its password.
- Components with no module: the seccomp filter (a table of system calls, applied by the kernel in the child), the tables of
  languages, migrations beyond the constraints the modules use, layout, static files, sample problems. They keep no state that
  other parts change. Of problem loading, statement and settings are data of a page.

## 9. The plan

Modelled, in this order: JudgeQueue with SubmissionLifecycle and its proofs, JudgeCases, SandboxRunner and
SubmitGate with theirs, then Standings, Pagination, SubmissionList and SubmissionPage; then hanging
scorers in JudgeQueue, compilers and scorers in SandboxRunner, files and the compiler in JudgeCases, the contest's hours
in SubmissionPage, and Accounts; last the processes that programs start in SandboxRunner and all routes to a
submission in SubmissionPage.

Proved since: Accounts, SubmissionPage, SubmissionList with Pagination, Standings, and what was left of JudgeCases
and SandboxRunner.

Left: a clock that is set back in SubmitGate, headers and cells in Standings, and in the proofs the safety steps of the
liveness arguments: which guard holds in which state (as `CanReap` and its like do for a run of the sandbox), and
what each fair step brings nearer, both stated without ENABLED.
