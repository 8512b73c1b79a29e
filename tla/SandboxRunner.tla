---------------------------- MODULE SandboxRunner ----------------------------
(***************************************************************************)
(* Runs of the sandbox, several at a time: the server makes the pipes,     *)
(* forks, feeds stdin and drains stdout on threads of their own, polls for *)
(* the end of the child or the deadline, and joins the drains.             *)
(*                                                                         *)
(* src/src/sandbox/runner.rs (run_sandboxed_blocking, child_exec,          *)
(* parent_collect, determine_status, drain_fd), and the processes that     *)
(* src/src/sandbox/mod.rs (compile, resolve_command) and                   *)
(* src/src/worker/mod.rs (run_scorer) start beside them.                   *)
(*                                                                         *)
(* All runs share the descriptor table of the server, and a child starts   *)
(* with a copy of the whole table: the pipes have no FD_CLOEXEC.  So do    *)
(* the helpers (compilers, scorers, `which`), who keep their copy until    *)
(* they end.  A Java or Go program runs with neither the system call       *)
(* filter nor the process limit and may start processes of its own, the    *)
(* strays: they have its descriptors and nobody but themselves ends them.  *)
(* Of a stray only what it holds is modelled, not what it reads or prints. *)
(* A pipe is known by its ends and by who has them open; stderr is a       *)
(* second stdout and is left out.  Data is counted in units.  The clock is *)
(* the step Expire.                                                        *)
(***************************************************************************)
EXTENDS Naturals, FiniteSets

CONSTANTS
  Runs,        \* the runs, one per busy worker
  Others,      \* the processes beside the children: helpers and strays
  Programs,    \* the kinds of program that may be run
  InputSize,   \* units of stdin
  OutputSize,  \* units a program prints
  PipeSize,    \* units a pipe holds
  MaxOutput,   \* max_output_bytes, in units
  Patient,     \* TRUE: no deadline ever passes
  MaxFaults,   \* failures of pipe(2) and fork(2) (bound)
  Server       \* the process of the judge

AllPrograms == {"echo", "print", "parent", "crash", "spin"}

\* The programs that read all of their input before they print.
Readers == {"echo", "parent"}

ASSUME ConstantsAssumption ==
  /\ Programs \subseteq AllPrograms
  /\ InputSize \in Nat
  /\ OutputSize \in Nat
  /\ PipeSize \in Nat \ {0}
  /\ MaxOutput \in Nat
  /\ Patient \in BOOLEAN
  /\ MaxFaults \in Nat
  /\ Server \notin Runs \cup Others
  /\ Runs \cap Others = {}

VARIABLES
  program,    \* what a run executes
  ppc,        \* where the thread of a run is in the server
  child,      \* the life of the child of a run
  other,      \* the life of a helper or a stray
  fds,        \* the ends each process has open
  inPipe,     \* units in the stdin pipe
  fed,        \* units its writer has written
  writer,     \* the thread that feeds stdin
  outPipe,    \* units in the stdout pipe
  printed,    \* units the child has written
  kept,       \* units its drain has kept
  drain,      \* the thread that drains stdout
  exit,       \* how the child ended
  late,       \* killed, or time_used is over the limit by more than 50 ms
  status,     \* the RunStatus of the result
  faults      \* failures so far

vars == <<program, ppc, child, other, fds, inPipe, fed, writer, outPipe,
          printed, kept, drain, exit, late, status, faults>>

pipeVars   == <<inPipe, fed, writer, outPipe, printed, kept, drain>>
resultVars == <<exit, late, status>>

Procs == Runs \cup Others \cup {Server}
Ends  == {"inR", "inW", "outR", "outW"}

Holds(p, r, end)  == <<r, end>> \in fds[p]
Open(r, end)      == \E p \in Procs : Holds(p, r, end)

Opened(r, ends) ==
  [fds EXCEPT ![Server] = @ \cup ({r} \X ends)]
Closed(r, ends) ==
  [fds EXCEPT ![Server] = @ \ ({r} \X ends)]

Goto(r, to) == ppc' = [ppc EXCEPT ![r] = to]

-----------------------------------------------------------------------------
Init ==
  /\ program \in [Runs -> Programs]
  /\ ppc = [r \in Runs |-> "start"]
  /\ child = [r \in Runs |-> "none"]
  /\ other = [p \in Others |-> "none"]
  /\ fds = [p \in Procs |-> {}]
  /\ inPipe = [r \in Runs |-> 0]
  /\ fed = [r \in Runs |-> 0]
  /\ writer = [r \in Runs |-> "none"]
  /\ outPipe = [r \in Runs |-> 0]
  /\ printed = [r \in Runs |-> 0]
  /\ kept = [r \in Runs |-> 0]
  /\ drain = [r \in Runs |-> "none"]
  /\ exit = [r \in Runs |-> "none"]
  /\ late = [r \in Runs |-> FALSE]
  /\ status = [r \in Runs |-> "none"]
  /\ faults = 0

-----------------------------------------------------------------------------
(* The thread of a run: run_sandboxed_blocking, parent_collect.            *)

MakeStdin(r) ==
  /\ ppc[r] = "start"
  /\ fds' = Opened(r, {"inR", "inW"})
  /\ Goto(r, "stdin")
  /\ UNCHANGED <<program, other, child, pipeVars, resultVars, faults>>

MakeStdout(r) ==
  /\ ppc[r] = "stdin"
  /\ fds' = Opened(r, {"outR", "outW"})
  /\ Goto(r, "stdout")
  /\ UNCHANGED <<program, other, child, pipeVars, resultVars, faults>>

\* pipe(2) or fork(2) fails: the `?` returns with the ends still open.
Fail(r) ==
  /\ ppc[r] \in {"start", "stdin", "stdout"}
  /\ faults < MaxFaults
  /\ faults' = faults + 1
  /\ Goto(r, "failed")
  /\ UNCHANGED <<program, other, child, fds, pipeVars, resultVars>>

\* The child starts with every descriptor of the server.
Fork(r) ==
  /\ ppc[r] = "stdout"
  /\ child' = [child EXCEPT ![r] = "forked"]
  /\ fds' = [fds EXCEPT ![r] = fds[Server]]
  /\ Goto(r, "forked")
  /\ UNCHANGED <<program, other, pipeVars, resultVars, faults>>

\* The server closes the child's ends and starts the threads.
Collect(r) ==
  /\ ppc[r] = "forked"
  /\ fds' = Closed(r, {"inR", "outW"})
  /\ writer' = [writer EXCEPT ![r] = "writing"]
  /\ drain' = [drain EXCEPT ![r] = "reading"]
  /\ Goto(r, "wait")
  /\ UNCHANGED <<program, other, child, inPipe, fed, outPipe, printed, kept,
                 resultVars, faults>>

CanReap(r) == ppc[r] = "wait" /\ child[r] = "zombie"

\* wait4(WNOHANG) finds the child.
Reap(r) ==
  /\ CanReap(r)
  /\ child' = [child EXCEPT ![r] = "reaped"]
  /\ \E slow \in BOOLEAN : late' = [late EXCEPT ![r] = slow]
  /\ Goto(r, "join")
  /\ UNCHANGED <<program, other, fds, pipeVars, exit, status, faults>>

\* wait4(WNOHANG) finds nothing and the deadline has passed.
Expire(r) ==
  /\ ~Patient
  /\ ppc[r] = "wait"
  /\ child[r] \in {"forked", "running"}
  /\ Goto(r, "kill")
  /\ UNCHANGED <<program, other, child, fds, pipeVars, resultVars, faults>>

CollectKilled(r) ==
  /\ child' = [child EXCEPT ![r] = "reaped"]
  /\ fds' = [fds EXCEPT ![r] = {}]
  /\ exit' = [exit EXCEPT ![r] = IF child[r] = "zombie" THEN @ ELSE "sigkill"]
  /\ late' = [late EXCEPT ![r] = TRUE]
  /\ Goto(r, "join")
  /\ UNCHANGED <<program, other, pipeVars, status, faults>>

CanKill(r) == ppc[r] = "kill"

\* Mutant of Kill: the blocking wait4 alone.
KillUnsent(r) == CanKill(r) /\ child[r] = "zombie" /\ CollectKilled(r)

\* SIGKILL and the blocking wait4; the child may have ended in between.
Kill(r) == CanKill(r) /\ CollectKilled(r)

\* determine_status
RunStatus(r) ==
  IF late[r] \/ exit[r] = "sigxcpu" THEN "tle"
  ELSE IF exit[r] = "ok" THEN "ok"
  ELSE IF exit[r] = "code" THEN "re" ELSE "killed"

\* Mutant of Drained: the output is taken as it is when the child is gone.
DrainedOrNot(r) == TRUE

Drained(r) == drain[r] = "done"

CanJoin(r) == ppc[r] = "join" /\ Drained(r)

Join(r) ==
  /\ CanJoin(r)
  /\ status' = [status EXCEPT ![r] = RunStatus(r)]
  /\ Goto(r, "done")
  /\ UNCHANGED <<program, other, child, fds, pipeVars, exit, late, faults>>

-----------------------------------------------------------------------------
(* Its writer and its drain.                                               *)

CanWrite(r) ==
  /\ writer[r] = "writing"
  /\ fed[r] < InputSize
  /\ inPipe[r] < PipeSize
  /\ Open(r, "inR")

WriterWrites(r) ==
  /\ CanWrite(r)
  /\ fed' = [fed EXCEPT ![r] = @ + 1]
  /\ inPipe' = [inPipe EXCEPT ![r] = @ + 1]
  /\ UNCHANGED <<program, other, ppc, child, fds, writer, outPipe, printed,
                 kept, drain, resultVars, faults>>

\* Mutant of WriteOver: a failed write(2) is tried again.
WriteComplete(r) == fed[r] = InputSize

\* Everything is written, or write(2) fails: nobody can read any more.
WriteOver(r) == fed[r] = InputSize \/ ~Open(r, "inR")

CanEndWriter(r) == writer[r] = "writing" /\ WriteOver(r)

WriterEnds(r) ==
  /\ CanEndWriter(r)
  /\ writer' = [writer EXCEPT ![r] = "closed"]
  /\ fds' = Closed(r, {"inW"})
  /\ UNCHANGED <<program, other, ppc, child, inPipe, fed, outPipe, printed,
                 kept, drain, resultVars, faults>>

\* Mutant of Draining: stdout is read once the child has ended.
DrainingAtJoin(r) == drain[r] = "reading" /\ ppc[r] = "join"

Draining(r) == drain[r] = "reading"

\* Mutant of Room: one unit over the cap.
RoomAtCap(r) == kept[r] <= MaxOutput

Room(r) == kept[r] < MaxOutput

CanDrain(r) == Draining(r) /\ outPipe[r] > 0

DrainReads(r) ==
  /\ CanDrain(r)
  /\ outPipe' = [outPipe EXCEPT ![r] = @ - 1]
  /\ kept' = [kept EXCEPT ![r] = IF Room(r) THEN @ + 1 ELSE @]
  /\ UNCHANGED <<program, other, ppc, child, fds, inPipe, fed, writer,
                 printed, drain, resultVars, faults>>

EndOfOutput(r) == Draining(r) /\ outPipe[r] = 0 /\ ~Open(r, "outW")

DrainEnds(r) ==
  /\ EndOfOutput(r)
  /\ drain' = [drain EXCEPT ![r] = "done"]
  /\ fds' = Closed(r, {"outR"})
  /\ UNCHANGED <<program, other, ppc, child, inPipe, fed, writer, outPipe,
                 printed, kept, resultVars, faults>>

-----------------------------------------------------------------------------
(* The child.                                                              *)

\* Mutant of Kept: the child forgets its own write end of stdin.
KeptWithStdinOpen(r) == fds[r] \ {<<r, "outR">>}

\* dup2 keeps the read end of stdin and the write end of stdout open as 0 and
\* 1; of the six descriptors child_exec was given, all are closed.
Kept(r) == fds[r] \ {<<r, "inW">>, <<r, "outR">>}

CanExec(r) == child[r] = "forked"

ChildExec(r) ==
  /\ CanExec(r)
  /\ child' = [child EXCEPT ![r] = "running"]
  /\ fds' = [fds EXCEPT ![r] = Kept(r)]
  /\ UNCHANGED <<program, other, ppc, pipeVars, resultVars, faults>>

CanRead(r) == child[r] = "running" /\ program[r] \in Readers /\ inPipe[r] > 0

Reads(r) ==
  /\ CanRead(r)
  /\ inPipe' = [inPipe EXCEPT ![r] = @ - 1]
  /\ UNCHANGED <<program, other, ppc, child, fds, fed, writer, outPipe,
                 printed, kept, drain, resultVars, faults>>

EndOfInput(r) == inPipe[r] = 0 /\ ~Open(r, "inW")

\* A reader prints at the end of its input; a "print" does not look at it.
CanPrint(r) ==
  /\ child[r] = "running"
  /\ program[r] = "print" \/ (program[r] \in Readers /\ EndOfInput(r))
  /\ printed[r] < OutputSize
  /\ outPipe[r] < PipeSize

Prints(r) ==
  /\ CanPrint(r)
  /\ printed' = [printed EXCEPT ![r] = @ + 1]
  /\ outPipe' = [outPipe EXCEPT ![r] = @ + 1]
  /\ UNCHANGED <<program, other, ppc, child, fds, inPipe, fed, writer, kept,
                 drain, resultVars, faults>>

Endings(prog) ==
  CASE prog = "crash" -> {"code", "signal"}
    [] prog = "spin"  -> {"sigxcpu"}
    [] OTHER          -> {"ok"}

\* A "spin" ends by its limit of CPU time, if it lives that long.
CanExit(r) ==
  /\ child[r] = "running"
  /\ \/ program[r] = "print" /\ printed[r] = OutputSize
     \/ program[r] \in Readers /\ EndOfInput(r) /\ printed[r] = OutputSize
     \/ program[r] \in {"crash", "spin"}

Exits(r) ==
  /\ CanExit(r)
  /\ child' = [child EXCEPT ![r] = "zombie"]
  /\ fds' = [fds EXCEPT ![r] = {}]
  /\ \E how \in Endings(program[r]) : exit' = [exit EXCEPT ![r] = how]
  /\ UNCHANGED <<program, other, ppc, pipeVars, late, status, faults>>

-----------------------------------------------------------------------------
(* The helpers: Command::output() forks like a run does, and closes nothing *)
(* of what the server had open.  The strays: a program forks.              *)

Started(p, parent, as) ==
  /\ other[p] = "none"
  /\ other' = [other EXCEPT ![p] = as]
  /\ fds' = [fds EXCEPT ![p] = fds[parent]]
  /\ UNCHANGED <<program, ppc, child, pipeVars, resultVars, faults>>

HelperStarts(p) == Started(p, Server, "helper")

\* A child with neither seccomp nor RLIMIT_NPROC.
StrayStarts(p) ==
  \E r \in Runs :
    child[r] = "running" /\ program[r] = "parent" /\ Started(p, r, "stray")

\* A helper or a stray ends by itself or not at all: the timeout of compile()
\* drops the future and leaves the process (no kill_on_drop), a scorer has no
\* timeout, and the SIGKILL of a run is for the pid of its child only.
OtherEnds(p) ==
  /\ other[p] \in {"helper", "stray"}
  /\ other' = [other EXCEPT ![p] = "ended"]
  /\ fds' = [fds EXCEPT ![p] = {}]
  /\ UNCHANGED <<program, ppc, child, pipeVars, resultVars, faults>>

\* A stray may close what a program reads or prints and live on.  The ends it has
\* no use for stay with it.
StrayCloses(p) ==
  /\ other[p] = "stray"
  /\ \E used \in fds[p] \cap (Runs \X {"inR", "outW"}) :
       fds' = [fds EXCEPT ![p] = @ \ {used}]
  /\ UNCHANGED <<program, other, ppc, child, pipeVars, resultVars, faults>>

-----------------------------------------------------------------------------
ThreadStep(r) ==
  MakeStdin(r) \/ MakeStdout(r) \/ Fork(r) \/ Collect(r) \/ Reap(r) \/ Kill(r)
    \/ Join(r)

WriterStep(r) == WriterWrites(r) \/ WriterEnds(r)
DrainStep(r)  == DrainReads(r) \/ DrainEnds(r)
ChildStep(r)  == Reads(r) \/ Prints(r) \/ Exits(r)

RunStep(r) ==
  ThreadStep(r) \/ Fail(r) \/ Expire(r) \/ WriterStep(r) \/ DrainStep(r)
    \/ ChildExec(r) \/ ChildStep(r)

Next ==
  \/ \E r \in Runs : RunStep(r)
  \/ \E p \in Others :
       HelperStarts(p) \/ StrayStarts(p) \/ StrayCloses(p) \/ OtherEnds(p)

Spec == Init /\ [][Next]_vars

\* The threads of the server run, and a deadline passes and is noticed.  Of the
\* child nothing is assumed, not even that it gets to its exec, and of helpers and
\* strays not that they end.
ServerFairness ==
  \A r \in Runs :
    /\ WF_vars(ThreadStep(r))
    /\ WF_vars(WriterStep(r))
    /\ WF_vars(DrainStep(r))
    /\ WF_vars(Expire(r))

FairSpec == Spec /\ ServerFairness

\* The children run on as well, those that spin excepted.
ProgramFairness ==
  \A r \in Runs :
    /\ WF_vars(ChildExec(r))
    /\ WF_vars(Reads(r) \/ Prints(r) \/ (program[r] # "spin" /\ Exits(r)))

PatientSpec == FairSpec /\ ProgramFairness

-----------------------------------------------------------------------------
TypeOK ==
  /\ program \in [Runs -> Programs]
  /\ ppc \in [Runs -> {"start", "stdin", "stdout", "forked", "wait", "kill",
                       "join", "done", "failed"}]
  /\ child \in [Runs -> {"none", "forked", "running", "zombie", "reaped"}]
  /\ other \in [Others -> {"none", "helper", "stray", "ended"}]
  /\ fds \in [Procs -> SUBSET (Runs \X Ends)]
  /\ inPipe \in [Runs -> 0..PipeSize]
  /\ fed \in [Runs -> 0..InputSize]
  /\ writer \in [Runs -> {"none", "writing", "closed"}]
  /\ outPipe \in [Runs -> 0..PipeSize]
  /\ printed \in [Runs -> 0..OutputSize]
  /\ kept \in [Runs -> 0..MaxOutput]
  /\ drain \in [Runs -> {"none", "reading", "done"}]
  /\ exit \in [Runs -> {"none", "ok", "code", "signal", "sigxcpu", "sigkill"}]
  /\ late \in [Runs -> BOOLEAN]
  /\ status \in [Runs -> {"none", "ok", "re", "tle", "killed"}]
  /\ faults \in 0..MaxFaults

-----------------------------------------------------------------------------
(* The inductive invariant.                                                *)

BeforeFork    == {"start", "stdin", "stdout", "failed"}
BeforeCollect == BeforeFork \cup {"forked"}

\* The child and the threads of a run live when its own thread says so.
StageInv ==
  \A r \in Runs :
    /\ child[r] = "none" <=> ppc[r] \in BeforeFork
    /\ child[r] = "reaped" <=> ppc[r] \in {"join", "done"}
    /\ drain[r] = "none" <=> ppc[r] \in BeforeCollect
    /\ writer[r] = "none" <=> ppc[r] \in BeforeCollect
    /\ ppc[r] = "done" => drain[r] = "done"
    /\ exit[r] = "ok" =>
         child[r] \in {"zombie", "reaped"} /\ printed[r] = OutputSize
    /\ status[r] = "ok" => ppc[r] = "done" /\ exit[r] = "ok"

\* A process that is not there holds nothing, one that may print holds the end
\* it prints to, and a program does not hold the end its own input comes from.
ChildFdsInv ==
  \A r \in Runs :
    /\ IF child[r] \in {"forked", "running"} THEN Holds(r, r, "outW") ELSE fds[r] = {}
    /\ child[r] = "running" => ~Holds(r, r, "inW")

\* The server has both ends up to the fork, drops those of the child when it
\* starts the threads, and each thread drops its end when it is over.
ServerFdsInv ==
  \A r \in Runs :
    /\ ppc[r] = "stdout" => Holds(Server, r, "outW")
    /\ drain[r] # "none" => ~Holds(Server, r, "inR") /\ ~Holds(Server, r, "outW")
    /\ drain[r] = "done" => ~Holds(Server, r, "outR")
    /\ writer[r] = "closed" => ~Holds(Server, r, "inW")

\* What was printed is in the pipe, or kept, or over the cap; a drain that is
\* over has seen the end of the output.
OutputInv ==
  \A r \in Runs :
    /\ outPipe[r] <= printed[r]
    /\ kept[r] = IF printed[r] - outPipe[r] < MaxOutput
                 THEN printed[r] - outPipe[r] ELSE MaxOutput
    /\ drain[r] = "done" => outPipe[r] = 0 /\ ~Open(r, "outW")

-----------------------------------------------------------------------------
\* What an accepted run printed has been collected, up to the cap: the drain
\* is joined only at the end of the output, and nobody still writes.
OutputComplete ==
  \A r \in Runs :
    status[r] = "ok" =>
      /\ printed[r] = OutputSize
      /\ kept[r] = IF OutputSize < MaxOutput THEN OutputSize ELSE MaxOutput

\* A run that is over has reaped its child, and of its descriptors the server has
\* at most the one its writer is still blocked on.
NothingLeftBehind ==
  \A r \in Runs :
    ppc[r] = "done" =>
      /\ child[r] = "reaped"
      /\ \A end \in Ends :
           Holds(Server, r, end) => end = "inW" /\ writer[r] = "writing"

IInv ==
  /\ TypeOK /\ StageInv /\ ChildFdsInv /\ ServerFdsInv /\ OutputInv
  /\ OutputComplete /\ NothingLeftBehind

\* Some helper or stray has an end of the pipes of r for ever: it never ends and
\* never closes it.
KeptOpen(r, end) == []<>(\E p \in Others : Holds(p, r, end))

\* What the deadline is worth: a run comes to an end whatever its child and the
\* other runs do, if no compiler, scorer or process started by a program keeps
\* its output open for ever.  The deadline of a run does not depend on another
\* run, and a drain held open by another child waits for that child's deadline at
\* most.  The kill is for the child only (runner.rs:244), so a Java or Go program
\* whose own process outlives it keeps the join (runner.rs:271) waiting, and a
\* compiler given up does as much to any program.
RunsEnd ==
  \A r \in Runs :
    KeptOpen(r, "outW") \/ <>(ppc[r] \in {"done", "failed"})

\* No writer thread is left blocked for ever, if no such process keeps the read
\* end of its pipe open for ever without reading.
WritersEnd ==
  \A r \in Runs :
    KeptOpen(r, "inR") \/ <>[](writer[r] # "writing")

\* Nobody but the server and the child has an end of the pipes of r.
OwnPipes(r) ==
  \A p \in Procs \ {r, Server} : \A end \in Ends : ~Holds(p, r, end)

\* A run whose pipes no other process holds is never stuck: before its end there
\* is a step of its threads or of its child that needs no deadline, however
\* its input and output fill the pipes (runner.rs:198 and :220).  A step can be
\* taken when its guard holds: what follows it only assigns.
PipesKeepMoving ==
  \A r \in Runs :
    ppc[r] \in {"wait", "kill", "join"} /\ OwnPipes(r) =>
      \/ CanReap(r) \/ CanKill(r) \/ CanJoin(r)
      \/ CanWrite(r) \/ CanEndWriter(r) \/ CanDrain(r) \/ EndOfOutput(r)
      \/ CanExec(r) \/ CanRead(r) \/ CanPrint(r) \/ CanExit(r)

\* The threads "prevent a pipe deadlock" (the comment at runner.rs:220): a
\* program that ends once it has read its input and printed its output does
\* end, without a deadline.
NoPipeDeadlock ==
  \A r \in Runs :
    ppc[r] = "forked" /\ program[r] # "spin" ~> ppc[r] = "done"
===============================================================================
