------------------------------ MODULE JudgeCases ------------------------------
(***************************************************************************)
(* One judgement: what judge() makes of a job, from the files of the       *)
(* problem and the compiler through the loop over the test cases to the    *)
(* row it writes.                                                          *)
(*                                                                         *)
(* src/src/worker/mod.rs (judge, run_scorer), with src/src/problem.rs      *)
(* (load_testcases), src/src/sandbox/mod.rs (compile) and the row of       *)
(* src/src/db/submission.rs (update_status, update_result).                *)
(*                                                                         *)
(* Every run of the sandbox and of the scorer may end in any of its ways.  *)
(* An output is a member of Outputs, already trimmed; stdout and stderr of *)
(* a case are kept or dropped together and are named by the case's number. *)
(* Times are milliseconds, memory kilobytes, scores natural numbers (f64   *)
(* in the code: sums are exact here, and NaN is left out).                 *)
(***************************************************************************)
EXTENDS Integers, Sequences, FiniteSets, Functions

CONSTANTS
  MaxCases,     \* the largest number of .in files (bound)
  MemoryLimit,  \* memory_limit_kb of the problem
  Times,        \* the times a run can take
  Memories,     \* the peaks a run can reach
  Outputs,      \* what a program can print
  Blank,        \* the output that is empty once trimmed
  Scores,       \* what the scorer can answer
  Unreadable,   \* an .in file that cannot be read
  Null          \* an absent value: Option::None, SQL NULL

ASSUME ConstantsAssumption ==
  /\ MaxCases \in Nat \ {0}
  /\ MemoryLimit \in Nat
  /\ Times \subseteq Nat
  /\ Memories \subseteq Nat
  /\ Scores \subseteq Nat
  /\ Blank \in Outputs
  /\ Null \notin Outputs
  /\ Unreadable \notin Outputs \cup {Null}
  /\ Null \notin Nat

VARIABLES
  files,        \* the test cases in the directory of the problem, sorted
  task,         \* the JudgeJob: is it heuristic, has it a scorer, which cases
  pc,           \* "start", "prepare", "loop" or "done"
  finalStatus,  \* final_status
  maxTime,      \* max_time_ms
  maxMemory,    \* max_memory_kb
  firstFail,    \* the case in first_fail_stdout / stderr, 0: still empty
  totalScore,   \* total_score
  verdicts,     \* tc_verdicts
  runs,         \* history: how the runs of the cases ended
  row           \* the columns of the submission that judge() writes

vars == <<files, task, pc, finalStatus, maxTime, maxMemory, firstFail,
          totalScore, verdicts, runs, row>>

-----------------------------------------------------------------------------
(* Jobs and runs.                                                          *)

\* A test case on disk is what its .out file holds, Null if there is none or it
\* cannot be read, and Unreadable, whatever that holds, if the .in file is.
CaseFiles == Outputs \cup {Null, Unreadable}

\* Mutant of LoadTestcases: a case without a readable .out is left out.
LoadComplete(found) == SelectSeq(found, LAMBDA f : f \in Outputs)

\* load_testcases: the expected outputs of the cases that could be read, as a
\* recursive function, which a proof can expand, unlike SelectSeq.
LoadTestcases(found) ==
  LET loaded[i \in 0..Len(found)] ==
        IF i = 0 THEN <<>>
        ELSE IF found[i] = Unreadable THEN loaded[i - 1]
        ELSE Append(loaded[i - 1], found[i])
  IN  loaded[Len(found)]

\* An expected output is Null when the case has no .out file.
Tasks ==
  UNION {[heuristic : BOOLEAN, scorer : BOOLEAN,
          expected : [1..n -> Outputs \cup {Null}]] : n \in 1..MaxCases}

NumCases == Len(task.expected)

\* The tool is not found (or the source cannot be written), does not start,
\* takes too long, refuses the source or accepts it.  Text is run by cat, which
\* only has to be found; Java needs java as well, to run what javac accepts.
Builds ==
  [language : {"interpreted", "compiled"},
   tool : {"missing", "no_start", "timeout", "refuses", "accepts"}]
    \cup [language : {"text"}, tool : {"missing", "accepts"}]

Cut == [status : {"tle", "re", "killed"}, time : Times, memory : Memories,
        output : {Blank}, scored : {Null}]

\* scored is the answer of the scorer, Null if it fails or is not asked.
Whole(heuristic) ==
  [status : {"ok"}, time : Times, memory : Memories, output : Outputs,
   scored : IF heuristic THEN Scores \cup {Null} ELSE {Null}]

Success == {"accepted", "scored"}

Best == IF task.heuristic THEN "scored" ELSE "accepted"

\* What one run of case k of the job j means: the match on run.status.
CaseStatus(j, k, run) ==
  CASE run.status = "tle" -> "time_limit_exceeded"
    [] run.status \in {"re", "killed"} ->
         IF run.memory > MemoryLimit THEN "memory_limit_exceeded"
         ELSE "runtime_error"
    [] run.status = "ok" /\ j.heuristic ->
         IF j.scorer /\ run.scored # Null THEN "scored" ELSE "internal_error"
    [] run.status = "ok" /\ ~j.heuristic ->
         LET expected == IF j.expected[k] = Null THEN Blank
                         ELSE j.expected[k]
         IN  IF run.output = expected THEN "accepted" ELSE "wrong_answer"

CaseScore(j, k, run) ==
  IF CaseStatus(j, k, run) = "scored" THEN run.scored ELSE Null

Verdicts ==
  {"accepted", "wrong_answer", "time_limit_exceeded", "memory_limit_exceeded",
   "runtime_error", "internal_error", "scored"}

CaseResults ==
  [verdict : Verdicts, time : Times, memory : Memories,
   score : Scores \cup {Null}]

\* The TestcaseVerdict pushed on tc_verdicts.
CaseResult(j, k, run) ==
  [verdict |-> CaseStatus(j, k, run), time |-> run.time, memory |-> run.memory,
   score |-> CaseScore(j, k, run)]

-----------------------------------------------------------------------------
\* row.log: the case whose stdout and stderr the row holds, 0 for two empty
\* strings, FromCompiler for the message of the compiler.
FromCompiler == -1

\* An absent value is none of the values a column can have.
ASSUME NullAssumption ==
  /\ Null # FromCompiler
  /\ \A n \in 0..MaxCases : Null \notin [1..n -> CaseResults]

\* A row without results.
Unjudged(status, log) ==
  [status |-> status, time |-> Null, memory |-> Null, log |-> log,
   results |-> Null, score |-> Null]

\* A problem without a case is refused when it is loaded.
Init ==
  /\ \E n \in 1..MaxCases : files \in [1..n -> CaseFiles]
  /\ task \in {j \in Tasks : j.expected = LoadTestcases(files)}
  /\ pc = "start"
  /\ finalStatus = Best
  /\ maxTime = 0
  /\ maxMemory = 0
  /\ firstFail = 0
  /\ totalScore = 0
  /\ verdicts = <<>>
  /\ runs = <<>>
  /\ row = Unjudged("pending", Null)

Locals == <<files, task, finalStatus, maxTime, maxMemory, firstFail,
            totalScore, verdicts, runs>>

\* update_status; an error is logged and the row stays as it is.
SetStatus(status) == row' \in {row, [row EXCEPT !.status = status]}

\* update_result; an error is logged and the row stays as it is.
SetResult(result) == row' \in {row, result}

MarkRunning ==
  /\ pc = "start"
  /\ pc' = "prepare"
  /\ SetStatus("running")
  /\ UNCHANGED Locals

Refused == Unjudged("compile_error", FromCompiler)

\* tempfile::tempdir fails.
NoWorkDir ==
  /\ pc = "prepare"
  /\ pc' = "done"
  /\ SetStatus("internal_error")
  /\ UNCHANGED Locals

\* The source is told to be wrong: it was refused, or a syntax check did not
\* start or took 10 s.
Blamed(b) ==
  \/ b.tool = "refuses"
  \/ b.language = "interpreted" /\ b.tool \in {"no_start", "timeout"}

\* compile() of the source, or of nothing for plain text.
Compile ==
  /\ pc = "prepare"
  /\ \E b \in Builds :
       \/ b.tool = "accepts" /\ pc' = "loop" /\ UNCHANGED row
       \/ b.tool # "accepts" /\ Blamed(b) /\ pc' = "done" /\ SetResult(Refused)
       \/ b.tool # "accepts" /\ ~Blamed(b) /\ pc' = "done" /\ SetStatus("internal_error")
  /\ UNCHANGED Locals

\* Mutant of LoopOver: the first failure ends the loop.
LoopOverAtFailure == Len(runs) = NumCases \/ finalStatus \notin Success

LoopOver == Len(runs) = NumCases

\* The sandbox itself fails: the judgement is over and its results are lost.
SandboxFails ==
  /\ pc = "loop"
  /\ ~LoopOver
  /\ pc' = "done"
  /\ SetStatus("internal_error")
  /\ UNCHANGED Locals

\* Mutant of Larger: the figures of the latest run replace the earlier ones.
Latest(a, b) == a

Larger(a, b) == IF a > b THEN a ELSE b

\* Mutants of FirstToFail: the last failure wins; a scorer that fails is not
\* a failure.
LastToFail(status) == status \notin Success

FirstToFailButScorer(status) ==
  finalStatus \in Success /\ status \notin Success \cup {"internal_error"}

FirstToFail(status) == finalStatus \in Success /\ status \notin Success

\* Mutant of AddScore: nothing counts after the first failure.
AddScoreUntilFailure(score) ==
  IF score = Null \/ finalStatus \notin Success THEN totalScore
  ELSE totalScore + score

AddScore(score) == IF score = Null THEN totalScore ELSE totalScore + score

\* One turn of the loop.
RunCase ==
  /\ pc = "loop"
  /\ ~LoopOver
  /\ \E run \in Cut \cup Whole(task.heuristic) :
       LET k == Len(runs) + 1
           status == CaseStatus(task, k, run)
           score == CaseScore(task, k, run)
       IN  /\ runs' = Append(runs, run)
           /\ maxTime' = Larger(run.time, maxTime)
           /\ maxMemory' = Larger(run.memory, maxMemory)
           /\ totalScore' = AddScore(score)
           /\ verdicts' = Append(verdicts, CaseResult(task, k, run))
           /\ IF FirstToFail(status)
              THEN finalStatus' = status /\ firstFail' = k
              ELSE UNCHANGED <<finalStatus, firstFail>>
  /\ UNCHANGED <<files, task, pc, row>>

\* A maximum of 0 is stored as NULL.
Positive(n) == IF n > 0 THEN n ELSE Null

Result ==
  [status  |-> finalStatus,
   time    |-> Positive(maxTime),
   memory  |-> Positive(maxMemory),
   log     |-> IF finalStatus \in Success THEN 0 ELSE firstFail,
   results |-> verdicts,
   score   |-> IF task.heuristic THEN totalScore ELSE Null]

WriteResult ==
  /\ pc = "loop"
  /\ LoopOver
  /\ pc' = "done"
  /\ SetResult(Result)
  /\ UNCHANGED Locals

Next ==
  MarkRunning \/ NoWorkDir \/ Compile \/ SandboxFails \/ RunCase \/ WriteResult

Spec == Init /\ [][Next]_vars

-----------------------------------------------------------------------------
\* The job is that of the files.
FilesOK == files \in Seq(CaseFiles) /\ task.expected = LoadTestcases(files)

TypeOK ==
  /\ FilesOK
  /\ task \in Tasks
  /\ pc \in {"start", "prepare", "loop", "done"}
  /\ finalStatus \in Verdicts
  /\ maxTime \in Times \cup {0}
  /\ maxMemory \in Memories \cup {0}
  /\ firstFail \in 0..NumCases
  /\ totalScore \in Nat
  /\ verdicts \in Seq(CaseResults)
  /\ runs \in Seq(Cut \cup Whole(task.heuristic))
  /\ row \in
       [status  : Verdicts \cup {"pending", "running", "compile_error"},
        time    : Times \cup {Null},
        memory  : Memories \cup {Null},
        log     : (FromCompiler..NumCases) \cup {Null},
        results : Seq(CaseResults) \cup {Null},
        score   : Nat \cup {Null}]

\* The state of the loop is a function of the runs so far.
LoopInv ==
  /\ Len(runs) <= NumCases
  /\ Len(verdicts) = Len(runs)
  /\ \A k \in 1..Len(runs) : verdicts[k] = CaseResult(task, k, runs[k])
  /\ firstFail <= Len(runs)
  /\ \A k \in 1..Len(runs) :
       firstFail = 0 \/ k < firstFail => CaseStatus(task, k, runs[k]) \in Success
  /\ finalStatus = IF firstFail = 0 THEN Best
                   ELSE CaseStatus(task, firstFail, runs[firstFail])
  /\ firstFail # 0 => finalStatus \notin Success
  /\ \A k \in 1..Len(runs) :
       runs[k].time <= maxTime /\ runs[k].memory <= maxMemory
  /\ maxTime # 0 => \E k \in 1..Len(runs) : maxTime = runs[k].time
  /\ maxMemory # 0 => \E k \in 1..Len(runs) : maxMemory = runs[k].memory

\* The points of the k-th run, and their sum.
Points(k) ==
  LET score == CaseScore(task, k, runs[k]) IN IF score = Null THEN 0 ELSE score

ScoreInv == totalScore = SumFunction([k \in 1..Len(runs) |-> Points(k)])

\* What judge() may have written so far.
RowInv ==
  \/ row \in {Unjudged("pending", Null), Unjudged("running", Null)}
  \/ pc = "done" /\ row \in {Unjudged("internal_error", Null), Refused}
  \/ pc = "done" /\ LoopOver /\ row = Result

\* The inductive invariant behind the theorems of JudgeCasesProofs.
IInv == TypeOK /\ LoopInv /\ ScoreInv /\ RowInv

-----------------------------------------------------------------------------
(* What the row says, against how the runs ended.                          *)

\* A run that deserves its point, told from the run itself.
Passed(k) ==
  /\ runs[k].status = "ok"
  /\ IF task.heuristic THEN task.scorer /\ runs[k].scored # Null
     ELSE \/ runs[k].output = task.expected[k]
          \/ runs[k].output = Blank /\ task.expected[k] = Null

\* The results of the cases are stored together and completely or not at
\* all: a judgement that breaks off leaves a status and nothing else.
NoPartialResult ==
  /\ row.results # Null =>
       Len(row.results) = NumCases /\ Len(runs) = NumCases
  /\ row.results = Null =>
       /\ row.time = Null /\ row.memory = Null /\ row.score = Null
       /\ row.log # Null <=> row.status = "compile_error"
  /\ row.status \in {"pending", "running"} => row.results = Null

\* A submission is accepted, or scored, if and only if every case was run
\* and passed: no order of failures, no failing scorer and no memory peak on
\* the way hides one.
AcceptedMeansEveryCasePassed ==
  row.results # Null =>
    (row.status \in Success <=> \A k \in 1..NumCases : Passed(k))

\* The status and the output a page shows are those of the first case that
\* failed, and that case's line in the list says the same (worker/mod.rs:255).
VerdictIsFirstFailure ==
  row.results # Null /\ row.status \notin Success =>
    /\ row.log \in 1..NumCases
    /\ row.results[row.log].verdict = row.status
    /\ ~Passed(row.log)
    /\ \A k \in 1..(row.log - 1) : Passed(k)

\* The time and the memory of a submission bound those of its cases, and one
\* of the cases took them.
CostsAreTheWorst ==
  row.results # Null =>
    \A cost \in {"time", "memory"} :
      LET spent == {runs[k][cost] : k \in 1..NumCases}
      IN  IF row[cost] = Null THEN spent \subseteq {0}
          ELSE row[cost] \in spent /\ \A n \in spent : n <= row[cost]

\* The score of a heuristic submission adds up the cases that passed, those
\* after a failure too; no other submission has a score.
ScoreAddsUp ==
  row.results # Null =>
    row.score = IF task.heuristic
                THEN SumFunction([k \in 1..NumCases |->
                       IF Passed(k) THEN runs[k].scored ELSE 0])
                ELSE Null

\* What the files say: the i-th .in file is run as this case.
CaseOf(i) == Cardinality({j \in 1..i : files[j] # Unreadable})

\* A row with results speaks for every test case of the directory that can be
\* read, in the order of the files and each judged against its own .out file
\* (none: nothing must be printed), however many of the others cannot be read.
FilesAreJudged ==
  row.results # Null =>
    /\ Len(row.results) = CaseOf(Len(files))
    /\ ~task.heuristic =>
         \A i \in DOMAIN files : files[i] # Unreadable =>
           LET run == runs[CaseOf(i)]
           IN  row.results[CaseOf(i)].verdict = "accepted" <=>
                 /\ run.status = "ok"
                 /\ run.output = IF files[i] = Null THEN Blank ELSE files[i]
===============================================================================
