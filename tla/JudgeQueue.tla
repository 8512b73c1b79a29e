------------------------------ MODULE JudgeQueue ------------------------------
(***************************************************************************)
(* How a submission travels through the judge: a request handler inserts   *)
(* its row and sends its job on the bounded channel; a pool of workers     *)
(* shares the receiving end behind a lock; the worker that receives a job  *)
(* moves the row from pending to running to its verdict.                   *)
(*                                                                         *)
(* src/src/api/handlers.rs (the submit handlers), src/src/worker/mod.rs    *)
(* (spawn_workers, judge), src/src/db/submission.rs (insert,               *)
(* update_status, update_result), src/src/main.rs (start-up).              *)
(*                                                                         *)
(* A step is what runs between two awaits.  What a handler checks before   *)
(* it inserts the row changes nothing here: a refused request is a request *)
(* that never takes its Insert step.  The loop over the test cases is one  *)
(* step, whose result is any of CaseVerdicts: JudgeCases is its detail.    *)
(*                                                                         *)
(* Faults are actions too, each drawn from the budget MaxFaults:           *)
(*   db          a statement returns an error, applied or not;             *)
(*   disconnect  the client goes away, its handler is dropped at an await; *)
(*   panic       a worker task panics (arithmetic overflow, debug builds); *)
(*   hang        a judgement never returns (a scorer has no time limit);   *)
(*   restart     the process dies and is started again.                    *)
(***************************************************************************)
EXTENDS Naturals, Sequences

CONSTANTS
  Submissions,   \* the requests to submit, named by the id they draw
  Workers,       \* the worker tasks, available_parallelism() of them
  Capacity,      \* the slots of the channel (256 in the code)
  CaseVerdicts,  \* the statuses the run of the test cases can end in
  FaultKinds,    \* the faults that may happen in this instance
  MaxFaults,     \* how many of them (bound)
  NoJob,         \* a worker that holds no job
  NoWorker       \* nobody holds the receiver lock

AllCaseVerdicts ==
  {"accepted", "wrong_answer", "time_limit_exceeded",
   "memory_limit_exceeded", "runtime_error", "internal_error", "scored"}

ASSUME ConstantsAssumption ==
  /\ Capacity \in Nat \ {0}
  /\ MaxFaults \in Nat
  /\ CaseVerdicts \subseteq AllCaseVerdicts
  /\ FaultKinds \subseteq {"db", "disconnect", "panic", "hang", "restart"}
  /\ NoJob \notin Submissions
  /\ NoWorker \notin Workers

VARIABLES
  handler,     \* where the request handler of a submission is
  row,         \* the status column of its row ("none": there is no row)
  channel,     \* the jobs sent and not yet received
  rxLock,      \* the worker that holds the lock of the receiver
  wpc,         \* where a worker is
  job,         \* the job a worker will bring to a verdict
  outcome,     \* the status a worker is about to write
  faults,      \* faults so far
  casualties   \* history: the submissions a fault has cut off

vars == <<handler, row, channel, rxLock, wpc, job, outcome, faults, casualties>>

-----------------------------------------------------------------------------
(* Statuses, and who is still responsible for a submission.                *)

Terminal == AllCaseVerdicts \cup {"compile_error", "internal_error"}
Statuses == {"none", "pending", "running"} \cup Terminal

HandlerStates == {"new", "send", "sent", "failed", "gone"}
WorkerStates  == {"idle", "recv", "picked", "prepare", "cases", "write", "hung", "dead"}

Queued(s)      == \E i \in 1..Len(channel) : channel[i] = s
Held(s)        == \E w \in Workers : job[w] = s
InCustody(s)   == handler[s] = "send" \/ Queued(s) \/ Held(s)
Unfinished(s)  == row[s] \in {"pending", "running"}
Stranded(s)    == Unfinished(s) /\ ~InCustody(s)

-----------------------------------------------------------------------------
Init ==
  /\ handler = [s \in Submissions |-> "new"]
  /\ row = [s \in Submissions |-> "none"]
  /\ channel = <<>>
  /\ rxLock = NoWorker
  /\ wpc = [w \in Workers |-> "idle"]
  /\ job = [w \in Workers |-> NoJob]
  /\ outcome = [w \in Workers |-> "none"]
  /\ faults = 0
  /\ casualties = {}

Fault(kind) ==
  /\ kind \in FaultKinds
  /\ faults < MaxFaults
  /\ faults' = faults + 1

Stored(s, status) ==
  /\ row' = [row EXCEPT ![s] = status]
  /\ UNCHANGED faults

\* The caller gets an error, or is dropped; the database may have applied
\* the statement all the same.
CutOff(kind, s, status) ==
  /\ Fault(kind)
  /\ row' \in {row, [row EXCEPT ![s] = status]}

WriteFailed(s, status) == CutOff("db", s, status)

-----------------------------------------------------------------------------
(* The request handler.                                                    *)

\* create_submission: after an error the handler answers 500 and sends no
\* job, and after a disconnect it is not there to send one.
Insert(s) ==
  /\ handler[s] = "new"
  /\ \/ /\ Stored(s, "pending")
        /\ handler' = [handler EXCEPT ![s] = "send"]
        /\ UNCHANGED casualties
     \/ /\ \E kind \in {"db", "disconnect"} : CutOff(kind, s, "pending")
        /\ handler' = [handler EXCEPT ![s] = "failed"]
        /\ casualties' = casualties \cup {s}
  /\ UNCHANGED <<channel, rxLock, wpc, job, outcome>>

Closed == \A w \in Workers : wpc[w] = "dead"

\* Mutant of Send: try_send, whose error on a full channel is ignored.
SendOrDrop(s) ==
  /\ handler[s] = "send"
  /\ ~Closed
  /\ channel' = IF Len(channel) < Capacity THEN Append(channel, s) ELSE channel
  /\ handler' = [handler EXCEPT ![s] = "sent"]
  /\ UNCHANGED <<row, rxLock, wpc, job, outcome, faults, casualties>>

\* job_tx.send: waits for a free slot.
Send(s) ==
  /\ handler[s] = "send"
  /\ ~Closed
  /\ Len(channel) < Capacity
  /\ channel' = Append(channel, s)
  /\ handler' = [handler EXCEPT ![s] = "sent"]
  /\ UNCHANGED <<row, rxLock, wpc, job, outcome, faults, casualties>>

\* job_tx.send once every receiver is gone: the row is already there.
SendClosed(s) ==
  /\ handler[s] = "send"
  /\ Closed
  /\ handler' = [handler EXCEPT ![s] = "failed"]
  /\ casualties' = casualties \cup {s}
  /\ UNCHANGED <<row, channel, rxLock, wpc, job, outcome, faults>>

\* The handler's future is dropped while it waits for a slot.
Disconnect(s) ==
  /\ handler[s] = "send"
  /\ Fault("disconnect")
  /\ handler' = [handler EXCEPT ![s] = "gone"]
  /\ casualties' = casualties \cup {s}
  /\ UNCHANGED <<row, channel, rxLock, wpc, job, outcome>>

-----------------------------------------------------------------------------
(* The worker.                                                             *)

Goto(w, to) == wpc' = [wpc EXCEPT ![w] = to]

\* Mutant of LockRx: the guard is bound to a name, so the lock is held until
\* the judgement is over.
LockRxBehindJudge(w) ==
  /\ wpc[w] = "idle"
  /\ \A v \in Workers : wpc[v] \in {"idle", "dead"}
  /\ rxLock' = w
  /\ Goto(w, "recv")
  /\ UNCHANGED <<handler, row, channel, job, outcome, faults, casualties>>

\* rx.lock().await
LockRx(w) ==
  /\ wpc[w] = "idle"
  /\ rxLock = NoWorker
  /\ rxLock' = w
  /\ Goto(w, "recv")
  /\ UNCHANGED <<handler, row, channel, job, outcome, faults, casualties>>

\* Mutant of Recv: the job is read and left in its slot.
RecvKeepingJob(w) ==
  /\ wpc[w] = "recv"
  /\ channel # <<>>
  /\ job' = [job EXCEPT ![w] = Head(channel)]
  /\ rxLock' = NoWorker
  /\ Goto(w, "picked")
  /\ UNCHANGED <<handler, row, channel, outcome, faults, casualties>>

\* .recv().await: the guard is a temporary of the statement, so the lock is
\* free again before the job is judged.
Recv(w) ==
  /\ wpc[w] = "recv"
  /\ channel # <<>>
  /\ job' = [job EXCEPT ![w] = Head(channel)]
  /\ channel' = Tail(channel)
  /\ rxLock' = NoWorker
  /\ Goto(w, "picked")
  /\ UNCHANGED <<handler, row, outcome, faults, casualties>>

\* set_status(Running): an error is logged and the job goes on.
MarkRunning(w) ==
  /\ wpc[w] = "picked"
  /\ Stored(job[w], "running") \/ WriteFailed(job[w], "running")
  /\ Goto(w, "prepare")
  /\ UNCHANGED <<handler, channel, rxLock, job, outcome, casualties>>

Decide(w, status) ==
  /\ outcome' = [outcome EXCEPT ![w] = status]
  /\ Goto(w, "write")

\* The work directory and the compiler.
Prepare(w) ==
  /\ wpc[w] = "prepare"
  /\ \/ Decide(w, "internal_error")
     \/ Decide(w, "compile_error")
     \/ Goto(w, "cases") /\ UNCHANGED outcome
  /\ UNCHANGED <<handler, row, channel, rxLock, job, faults, casualties>>

\* The run of the test cases; an error of the sandbox itself ends it.
RunCases(w) ==
  /\ wpc[w] = "cases"
  /\ \E status \in CaseVerdicts \cup {"internal_error"} : Decide(w, status)
  /\ UNCHANGED <<handler, row, channel, rxLock, job, faults, casualties>>

\* The last statement of judge(), then back to the loop: an error is logged
\* and the verdict is dropped with the job.
Finish(w) ==
  /\ wpc[w] = "write"
  /\ \/ Stored(job[w], outcome[w]) /\ UNCHANGED casualties
     \/ /\ WriteFailed(job[w], outcome[w])
        /\ casualties' = casualties \cup {job[w]}
  /\ job' = [job EXCEPT ![w] = NoJob]
  /\ outcome' = [outcome EXCEPT ![w] = "none"]
  /\ Goto(w, "idle")
  /\ UNCHANGED <<handler, channel, rxLock>>

\* memory_limit_kb * 1024 overflows: the task is gone with its job, and with
\* the last task the receiver and what it still held.
Panic(w) ==
  /\ wpc[w] = "cases"
  /\ Fault("panic")
  /\ Goto(w, "dead")
  /\ LET last == \A v \in Workers \ {w} : wpc[v] = "dead"
     IN  /\ channel' = IF last THEN <<>> ELSE channel
         /\ casualties' = casualties \cup {job[w]}
              \cup (IF last THEN {s \in Submissions : Queued(s)} ELSE {})
  /\ job' = [job EXCEPT ![w] = NoJob]
  /\ UNCHANGED <<handler, row, rxLock, outcome>>

\* run_scorer waits for a process without a limit, and a run for the end of an
\* output somebody may keep open (SandboxRunner): the worker is lost with its
\* job, but the receiver stays.
Hang(w) ==
  /\ wpc[w] = "cases"
  /\ Fault("hang")
  /\ Goto(w, "hung")
  /\ casualties' = casualties \cup {job[w]}
  /\ job' = [job EXCEPT ![w] = NoJob]
  /\ UNCHANGED <<handler, row, channel, rxLock, outcome>>

-----------------------------------------------------------------------------
\* The process dies and main() runs again: workers and channel are new, the
\* rows are the database's.
Restart ==
  /\ Fault("restart")
  /\ handler' = [s \in Submissions |->
                   IF handler[s] = "send" THEN "gone" ELSE handler[s]]
  /\ channel' = <<>>
  /\ rxLock' = NoWorker
  /\ wpc' = [w \in Workers |-> "idle"]
  /\ job' = [w \in Workers |-> NoJob]
  /\ outcome' = [w \in Workers |-> "none"]
  /\ casualties' = casualties \cup {s \in Submissions : InCustody(s)}
  /\ UNCHANGED row

-----------------------------------------------------------------------------
HandlerStep(s) == Insert(s) \/ Send(s) \/ SendClosed(s) \/ Disconnect(s)

WorkerStep(w) ==
  LockRx(w) \/ Recv(w) \/ MarkRunning(w) \/ Prepare(w) \/ RunCases(w)
    \/ Finish(w) \/ Panic(w) \/ Hang(w)

Next ==
  \/ \E s \in Submissions : HandlerStep(s)
  \/ \E w \in Workers : WorkerStep(w)
  \/ Restart

Spec == Init /\ [][Next]_vars

\* Handlers and workers are tasks of the runtime: one that can run is run.
\* Nothing makes a client submit, and no fault has to happen.
Judging(w) == MarkRunning(w) \/ Prepare(w) \/ RunCases(w) \/ Finish(w)

Receiving(w) == LockRx(w) \/ Recv(w)

FairSpec ==
  /\ Spec
  /\ \A s \in Submissions : WF_vars(Send(s) \/ SendClosed(s))
  /\ \A w \in Workers : WF_vars(Receiving(w)) /\ WF_vars(Judging(w))

-----------------------------------------------------------------------------
TypeOK ==
  /\ handler \in [Submissions -> HandlerStates]
  /\ row \in [Submissions -> Statuses]
  /\ channel \in Seq(Submissions)
  /\ Len(channel) <= Capacity
  /\ rxLock \in Workers \cup {NoWorker}
  /\ wpc \in [Workers -> WorkerStates]
  /\ job \in [Workers -> Submissions \cup {NoJob}]
  /\ outcome \in [Workers -> {"none"} \cup Terminal]
  /\ faults \in 0..MaxFaults
  /\ casualties \in SUBSET Submissions
-----------------------------------------------------------------------------
(* Safety.                                                                 *)

\* A submission has at most one job: it is with its handler, or in one slot
\* of the channel, or with one worker (handlers.rs send, worker recv).
OneJobPerSubmission ==
  /\ \A i, j \in 1..Len(channel) : channel[i] = channel[j] => i = j
  /\ \A v, w \in Workers : job[v] = job[w] /\ job[v] # NoJob => v = w
  /\ \A s \in Submissions : ~(Queued(s) /\ Held(s))
  /\ \A s \in Submissions : handler[s] = "send" => ~Queued(s) /\ ~Held(s)

\* The lock of the receiver is held while a worker waits for a job and at no
\* other time (worker/mod.rs: the guard ends with the let statement).
LockOnlyToReceive == \A w \in Workers : rxLock = w <=> wpc[w] = "recv"

\* A worker holds a job exactly between its recv and its last write.
HoldsJobWhileJudging ==
  \A w \in Workers :
    /\ job[w] # NoJob <=> wpc[w] \in {"picked", "prepare", "cases", "write"}
    /\ outcome[w] # "none" <=> wpc[w] = "write"

\* Whoever has the job of a submission finds a row without a verdict, and
\* only the worker that holds it can have marked it running.
CustodyMeansUnfinished ==
  \A s \in Submissions :
    /\ InCustody(s) => Unfinished(s)
    /\ row[s] = "running" => handler[s] # "send" /\ ~Queued(s)
    /\ handler[s] = "new" => row[s] = "none" /\ ~InCustody(s)
    /\ \A w \in Workers :
         job[w] = s /\ wpc[w] = "picked" => row[s] = "pending"

\* No submission is lost without a fault: a row that waits for a verdict
\* nobody is working on belongs to a handler, a write, a worker or a process
\* that failed.  In particular a full channel loses nothing.
NoSilentLoss == \A s \in Submissions : Stranded(s) => s \in casualties

\* The inductive invariant behind the theorems of JudgeQueueProofs.
IInv ==
  /\ TypeOK
  /\ OneJobPerSubmission
  /\ LockOnlyToReceive
  /\ HoldsJobWhileJudging
  /\ CustodyMeansUnfinished
  /\ NoSilentLoss

Progress(status) ==
  CASE status = "none" -> 0
    [] status = "pending" -> 1
    [] status = "running" -> 2
    [] OTHER -> 3

\* The status a poll reads only moves forward, and a verdict is never
\* replaced by another one, whatever fails or restarts in between
\* (update_status and update_result overwrite unconditionally).
StatusOnlyAdvances ==
  [][\A s \in Submissions :
       row'[s] # row[s] => Progress(row'[s]) > Progress(row[s])]_vars

-----------------------------------------------------------------------------
(* Liveness.                                                               *)

Settled(s) == row[s] \in Terminal

\* No worker is left that could receive a job.
Stuck == \A w \in Workers : wpc[w] \in {"hung", "dead"}

\* Every row gets a verdict unless a fault hit the submission itself or the
\* last worker: a failed write of "running", a fault of another submission, a
\* judgement that never returns elsewhere does not hold it up (the lock of the
\* receiver is not held while judging, worker/mod.rs:39).
EverySubmissionSettles ==
  \A s \in Submissions :
    Unfinished(s) ~> (Settled(s) \/ s \in casualties \/ Stuck)

-----------------------------------------------------------------------------
(* The judge implements the life cycle a client is promised.               *)

\* Somebody has the job of s and may still bring it to a verdict.
Live(s) == InCustody(s) /\ ~Stuck

Stage(s) ==
  IF Live(s) THEN IF Held(s) THEN "judging" ELSE "waiting"
  ELSE IF Unfinished(s) THEN "stranded"
  ELSE IF row[s] = "none" THEN "unsent" ELSE "settled"

Lifecycle ==
  INSTANCE SubmissionLifecycle
    WITH stage <- [s \in Submissions |-> Stage(s)],
         shown <- row,
         Verdicts <- Terminal

\* Every step of handlers, workers and faults is a step of the life cycle of
\* some submissions or none, and waiting and judging both end.
ImplementsLifecycle == Lifecycle!FairSpec

===============================================================================
