------------------------- MODULE SandboxRunnerProofs -------------------------
(***************************************************************************)
(* Proofs about SandboxRunner, for every number of runs, every program of  *)
(* its kinds, every size and any number of processes beside the children:  *)
(* the output of an accepted run is complete, the server keeps nothing of  *)
(* a run that is over but what its writer is blocked on, and a run whose   *)
(* pipes are its own is never stuck.                                       *)
(***************************************************************************)
EXTENDS SandboxRunner, TLAPS

\* The invariant holds before the first run.
LEMMA InitIInv == Init => IInv
<1> SUFFICES ASSUME Init PROVE IInv
  OBVIOUS
<1> USE ConstantsAssumption DEF Init, Holds, Open, Procs
<1>1. TypeOK
  BY DEF TypeOK
<1>2. StageInv /\ ChildFdsInv /\ ServerFdsInv
  BY DEF StageInv, ChildFdsInv, ServerFdsInv, BeforeFork, BeforeCollect
<1>3. OutputInv
  BY DEF OutputInv
<1>4. OutputComplete /\ NothingLeftBehind
  BY DEF OutputComplete, NothingLeftBehind
<1> QED BY <1>1, <1>2, <1>3, <1>4 DEF IInv

\* Every step keeps the types.
LEMMA NextTypeOK == ASSUME TypeOK, [Next]_vars PROVE TypeOK'
<1> DEFINE Goal == TypeOK'
<1> USE ConstantsAssumption DEF TypeOK, Procs, Ends
<1>2. ASSUME NEW q \in Runs, MakeStdin(q) PROVE Goal
  BY <1>2 DEF MakeStdin, Goto, Opened, pipeVars, resultVars
<1>3. ASSUME NEW q \in Runs, MakeStdout(q) PROVE Goal
  BY <1>3 DEF MakeStdout, Goto, Opened, pipeVars, resultVars
<1>4. ASSUME NEW q \in Runs, Fail(q) PROVE Goal
  BY <1>4 DEF Fail, Goto, pipeVars, resultVars
<1>5. ASSUME NEW q \in Runs, Fork(q) PROVE Goal
  BY <1>5 DEF Fork, Goto, pipeVars, resultVars
<1>6. ASSUME NEW q \in Runs, Collect(q) PROVE Goal
  BY <1>6 DEF Collect, Goto, Closed, pipeVars, resultVars
<1>7. ASSUME NEW q \in Runs, Reap(q) PROVE Goal
  BY <1>7 DEF Reap, CanReap, Goto, pipeVars, resultVars
<1>8. ASSUME NEW q \in Runs, Expire(q) PROVE Goal
  BY <1>8 DEF Expire, Goto, pipeVars, resultVars
<1>9. ASSUME NEW q \in Runs, Kill(q) PROVE Goal
  BY <1>9 DEF Kill, CanKill, CollectKilled, Goto, pipeVars, resultVars
<1>10. ASSUME NEW q \in Runs, Join(q) PROVE Goal
  BY <1>10 DEF Join, CanJoin, Drained, RunStatus, Goto, pipeVars, resultVars
<1>11. ASSUME NEW q \in Runs, WriterWrites(q) PROVE Goal
  BY <1>11 DEF WriterWrites, CanWrite, pipeVars, resultVars
<1>12. ASSUME NEW q \in Runs, WriterEnds(q) PROVE Goal
  BY <1>12 DEF WriterEnds, CanEndWriter, WriteOver, Closed, pipeVars, resultVars
<1>13. ASSUME NEW q \in Runs, DrainReads(q) PROVE Goal
  BY <1>13 DEF DrainReads, CanDrain, Draining, Room, pipeVars, resultVars
<1>14. ASSUME NEW q \in Runs, DrainEnds(q) PROVE Goal
  BY <1>14 DEF DrainEnds, EndOfOutput, Draining, Closed, pipeVars, resultVars
<1>15. ASSUME NEW q \in Runs, ChildExec(q) PROVE Goal
  BY <1>15 DEF ChildExec, CanExec, Kept, pipeVars, resultVars
<1>16. ASSUME NEW q \in Runs, Reads(q) PROVE Goal
  BY <1>16 DEF Reads, CanRead, pipeVars, resultVars
<1>17. ASSUME NEW q \in Runs, Prints(q) PROVE Goal
  BY <1>17 DEF Prints, CanPrint, pipeVars, resultVars
<1>18. ASSUME NEW q \in Runs, Exits(q) PROVE Goal
  BY <1>18 DEF Exits, CanExit, Endings, pipeVars, resultVars
<1>19. CASE UNCHANGED vars
  BY <1>19 DEF vars, pipeVars, resultVars
<1>20. ASSUME NEW p \in Others, HelperStarts(p) PROVE Goal
  BY <1>20 DEF HelperStarts, Started, pipeVars, resultVars
<1>21. ASSUME NEW p \in Others, StrayStarts(p) PROVE Goal
  BY <1>21 DEF StrayStarts, Started, pipeVars, resultVars
<1>22. ASSUME NEW p \in Others, StrayCloses(p) PROVE Goal
  BY <1>22 DEF StrayCloses, pipeVars, resultVars
<1>23. ASSUME NEW p \in Others, OtherEnds(p) PROVE Goal
  BY <1>23 DEF OtherEnds, pipeVars, resultVars
<1> QED
  BY <1>2, <1>3, <1>4, <1>5, <1>6, <1>7, <1>8, <1>9, <1>10, <1>11, <1>12, <1>13,
     <1>14, <1>15, <1>16, <1>17, <1>18, <1>19, <1>20, <1>21,
     <1>22, <1>23
     DEF Next, RunStep, ThreadStep, WriterStep, DrainStep, ChildStep

\* Closing ends of a run takes them from the server and from nobody else.
LEMMA ClosedEnds ==
  ASSUME TypeOK, NEW q \in Runs, NEW ends, fds' = Closed(q, ends)
  PROVE  \A p \in Procs, r \in Runs, end \in Ends :
           Holds(p, r, end)' <=>
             Holds(p, r, end) /\ ~(p = Server /\ r = q /\ end \in ends)
BY DEF TypeOK, Procs, Closed, Holds

\* Opening ends of a run gives them to the server and to nobody else.
LEMMA OpenedEnds ==
  ASSUME TypeOK, NEW q \in Runs, NEW ends, fds' = Opened(q, ends)
  PROVE  \A p \in Procs, r \in Runs, end \in Ends :
           Holds(p, r, end)' <=>
             Holds(p, r, end) \/ (p = Server /\ r = q /\ end \in ends)
BY DEF TypeOK, Procs, Opened, Holds

\* A run's thread, child and helpers stay in step.
LEMMA NextStage ==
  ASSUME TypeOK, StageInv, ChildFdsInv, OutputInv, [Next]_vars
  PROVE  StageInv'
<1> DEFINE Goal == StageInv'
<1> USE ConstantsAssumption DEF TypeOK, StageInv, BeforeFork, BeforeCollect
<1>2. ASSUME NEW q \in Runs, MakeStdin(q) PROVE Goal
  BY <1>2 DEF MakeStdin, Goto, Opened, pipeVars, resultVars
<1>3. ASSUME NEW q \in Runs, MakeStdout(q) PROVE Goal
  BY <1>3 DEF MakeStdout, Goto, Opened, pipeVars, resultVars
<1>4. ASSUME NEW q \in Runs, Fail(q) PROVE Goal
  BY <1>4 DEF Fail, Goto, pipeVars, resultVars
<1>5. ASSUME NEW q \in Runs, Fork(q) PROVE Goal
  BY <1>5 DEF Fork, Goto, pipeVars, resultVars
<1>6. ASSUME NEW q \in Runs, Collect(q) PROVE Goal
  BY <1>6 DEF Collect, Goto, Closed, pipeVars, resultVars
<1>7. ASSUME NEW q \in Runs, Reap(q) PROVE Goal
  BY <1>7 DEF Reap, CanReap, Goto, pipeVars, resultVars
<1>8. ASSUME NEW q \in Runs, Expire(q) PROVE Goal
  BY <1>8 DEF Expire, Goto, pipeVars, resultVars
<1>9. ASSUME NEW q \in Runs, Kill(q) PROVE Goal
  BY <1>9 DEF Kill, CanKill, CollectKilled, Goto, pipeVars, resultVars
<1>10. ASSUME NEW q \in Runs, Join(q) PROVE Goal
  BY <1>10 DEF Join, CanJoin, Drained, RunStatus, Goto, pipeVars, resultVars
<1>11. ASSUME NEW q \in Runs, WriterWrites(q) PROVE Goal
  BY <1>11 DEF WriterWrites, CanWrite, pipeVars, resultVars
<1>12. ASSUME NEW q \in Runs, WriterEnds(q) PROVE Goal
  BY <1>12 DEF WriterEnds, CanEndWriter, WriteOver, Closed, pipeVars, resultVars
<1>13. ASSUME NEW q \in Runs, DrainReads(q) PROVE Goal
  BY <1>13 DEF DrainReads, CanDrain, Draining, Room, pipeVars, resultVars
<1>14. ASSUME NEW q \in Runs, DrainEnds(q) PROVE Goal
  BY <1>14 DEF DrainEnds, EndOfOutput, Draining, Closed, pipeVars, resultVars
<1>15. ASSUME NEW q \in Runs, ChildExec(q) PROVE Goal
  BY <1>15 DEF ChildExec, CanExec, Kept, pipeVars, resultVars
<1>16. ASSUME NEW q \in Runs, Reads(q) PROVE Goal
  BY <1>16 DEF Reads, CanRead, pipeVars, resultVars
<1>17. ASSUME NEW q \in Runs, Prints(q) PROVE Goal
  BY <1>17 DEF Prints, CanPrint, pipeVars, resultVars
<1>18. ASSUME NEW q \in Runs, Exits(q) PROVE Goal
  BY <1>18 DEF Exits, CanExit, Endings, pipeVars, resultVars
<1>19. CASE UNCHANGED vars
  BY <1>19 DEF vars, pipeVars, resultVars
<1>20. ASSUME NEW p \in Others, HelperStarts(p) PROVE Goal
  BY <1>20 DEF HelperStarts, Started, pipeVars, resultVars
<1>21. ASSUME NEW p \in Others, StrayStarts(p) PROVE Goal
  BY <1>21 DEF StrayStarts, Started, pipeVars, resultVars
<1>22. ASSUME NEW p \in Others, StrayCloses(p) PROVE Goal
  BY <1>22 DEF StrayCloses, pipeVars, resultVars
<1>23. ASSUME NEW p \in Others, OtherEnds(p) PROVE Goal
  BY <1>23 DEF OtherEnds, pipeVars, resultVars
<1> QED
  BY <1>2, <1>3, <1>4, <1>5, <1>6, <1>7, <1>8, <1>9, <1>10, <1>11, <1>12, <1>13,
     <1>14, <1>15, <1>16, <1>17, <1>18, <1>19, <1>20, <1>21,
     <1>22, <1>23
     DEF Next, RunStep, ThreadStep, WriterStep, DrainStep, ChildStep

\* Descriptors change hands at a fork, and are closed by their owner or at its
\* end.
LEMMA NextChildFds ==
  ASSUME TypeOK, StageInv, ChildFdsInv, ServerFdsInv, [Next]_vars PROVE ChildFdsInv'
<1> DEFINE Goal == ChildFdsInv'
<1> USE ConstantsAssumption DEF TypeOK, Procs, Ends, Holds, ChildFdsInv
<1>2. ASSUME NEW q \in Runs, MakeStdin(q) PROVE Goal
  BY <1>2 DEF MakeStdin, Goto, Opened, pipeVars, resultVars
<1>3. ASSUME NEW q \in Runs, MakeStdout(q) PROVE Goal
  BY <1>3 DEF MakeStdout, Goto, Opened, pipeVars, resultVars
<1>4. ASSUME NEW q \in Runs, Fail(q) PROVE Goal
  BY <1>4 DEF Fail, Goto, pipeVars, resultVars
<1>5. ASSUME NEW q \in Runs, Fork(q) PROVE Goal
  BY <1>5 DEF Fork, Goto, pipeVars, resultVars, ServerFdsInv
<1>6. ASSUME NEW q \in Runs, Collect(q) PROVE Goal
  BY <1>6 DEF Collect, Goto, Closed, pipeVars, resultVars
<1>7. ASSUME NEW q \in Runs, Reap(q) PROVE Goal
  BY <1>7 DEF Reap, CanReap, Goto, pipeVars, resultVars
<1>8. ASSUME NEW q \in Runs, Expire(q) PROVE Goal
  BY <1>8 DEF Expire, Goto, pipeVars, resultVars
<1>9. ASSUME NEW q \in Runs, Kill(q) PROVE Goal
  BY <1>9 DEF Kill, CanKill, CollectKilled, Goto, pipeVars, resultVars
<1>10. ASSUME NEW q \in Runs, Join(q) PROVE Goal
  BY <1>10 DEF Join, CanJoin, Drained, RunStatus, Goto, pipeVars, resultVars
<1>11. ASSUME NEW q \in Runs, WriterWrites(q) PROVE Goal
  BY <1>11 DEF WriterWrites, CanWrite, pipeVars, resultVars
<1>12. ASSUME NEW q \in Runs, WriterEnds(q) PROVE Goal
  BY <1>12 DEF WriterEnds, CanEndWriter, WriteOver, Closed, pipeVars, resultVars
<1>13. ASSUME NEW q \in Runs, DrainReads(q) PROVE Goal
  BY <1>13 DEF DrainReads, CanDrain, Draining, Room, pipeVars, resultVars
<1>14. ASSUME NEW q \in Runs, DrainEnds(q) PROVE Goal
  BY <1>14 DEF DrainEnds, EndOfOutput, Draining, Closed, pipeVars, resultVars
<1>15. ASSUME NEW q \in Runs, ChildExec(q) PROVE Goal
  BY <1>15 DEF ChildExec, CanExec, Kept, pipeVars, resultVars
<1>16. ASSUME NEW q \in Runs, Reads(q) PROVE Goal
  BY <1>16 DEF Reads, CanRead, pipeVars, resultVars
<1>17. ASSUME NEW q \in Runs, Prints(q) PROVE Goal
  BY <1>17 DEF Prints, CanPrint, pipeVars, resultVars
<1>18. ASSUME NEW q \in Runs, Exits(q) PROVE Goal
  BY <1>18 DEF Exits, CanExit, Endings, pipeVars, resultVars
<1>19. CASE UNCHANGED vars
  BY <1>19 DEF vars, pipeVars, resultVars
<1>20. ASSUME NEW p \in Others, HelperStarts(p) PROVE Goal
  BY <1>20 DEF HelperStarts, Started, pipeVars, resultVars
<1>21. ASSUME NEW p \in Others, StrayStarts(p) PROVE Goal
  <2>1. \A r \in Runs : fds'[r] = fds[r]
    BY <1>21 DEF StrayStarts, Started
  <2> QED BY <1>21, <2>1 DEF StrayStarts, Started, pipeVars
<1>22. ASSUME NEW p \in Others, StrayCloses(p) PROVE Goal
  <2>1. \A r \in Runs : fds'[r] = fds[r]
    <3>1. p \notin Runs /\ \E held : fds' = [fds EXCEPT ![p] = held]
      BY <1>22 DEF StrayCloses
    <3> QED BY <3>1
  <2>2. child' = child
    BY <1>22 DEF StrayCloses
  <2> QED BY <2>1, <2>2
<1>23. ASSUME NEW p \in Others, OtherEnds(p) PROVE Goal
  BY <1>23 DEF OtherEnds, pipeVars, resultVars
<1> QED
  BY <1>2, <1>3, <1>4, <1>5, <1>6, <1>7, <1>8, <1>9, <1>10, <1>11, <1>12, <1>13,
     <1>14, <1>15, <1>16, <1>17, <1>18, <1>19, <1>20, <1>21,
     <1>22, <1>23
     DEF Next, RunStep, ThreadStep, WriterStep, DrainStep, ChildStep

\* The server opens ends of a run only before it forks its child.
LEMMA NextServerFds ==
  ASSUME TypeOK, StageInv, ServerFdsInv, [Next]_vars PROVE ServerFdsInv'
<1> DEFINE Goal == ServerFdsInv'
<1> USE ConstantsAssumption DEF TypeOK, Procs, Ends, Holds, ServerFdsInv, StageInv,
        BeforeFork, BeforeCollect
<1>2. ASSUME NEW q \in Runs, MakeStdin(q) PROVE Goal
  BY <1>2 DEF MakeStdin, Goto, Opened, pipeVars, resultVars
<1>3. ASSUME NEW q \in Runs, MakeStdout(q) PROVE Goal
  BY <1>3 DEF MakeStdout, Goto, Opened, pipeVars, resultVars
<1>4. ASSUME NEW q \in Runs, Fail(q) PROVE Goal
  BY <1>4 DEF Fail, Goto, pipeVars, resultVars
<1>5. ASSUME NEW q \in Runs, Fork(q) PROVE Goal
  <2>1. fds'[Server] = fds[Server]
    BY <1>5 DEF Fork
  <2>2. \A r \in Runs, end \in Ends : Holds(Server, r, end)' <=> Holds(Server, r, end)
    BY <2>1
  <2> HIDE DEF Holds
  <2> QED BY <1>5, <2>2 DEF Fork, Goto, pipeVars
<1>6. ASSUME NEW q \in Runs, Collect(q) PROVE Goal
  <2>1. fds' = Closed(q, {"inR", "outW"})
    BY <1>6 DEF Collect
  <2> HIDE DEF Holds
  <2> QED BY <1>6, <2>1, ClosedEnds DEF Collect, Goto
<1>7. ASSUME NEW q \in Runs, Reap(q) PROVE Goal
  BY <1>7 DEF Reap, CanReap, Goto, pipeVars, resultVars
<1>8. ASSUME NEW q \in Runs, Expire(q) PROVE Goal
  BY <1>8 DEF Expire, Goto, pipeVars, resultVars
<1>9. ASSUME NEW q \in Runs, Kill(q) PROVE Goal
  <2>1. fds'[Server] = fds[Server]
    BY <1>9 DEF Kill, CanKill, CollectKilled
  <2>2. \A r \in Runs, end \in Ends : Holds(Server, r, end)' <=> Holds(Server, r, end)
    BY <2>1
  <2> HIDE DEF Holds
  <2> QED BY <1>9, <2>2 DEF Kill, CanKill, CollectKilled, Goto, pipeVars
<1>10. ASSUME NEW q \in Runs, Join(q) PROVE Goal
  BY <1>10 DEF Join, CanJoin, Drained, RunStatus, Goto, pipeVars, resultVars
<1>11. ASSUME NEW q \in Runs, WriterWrites(q) PROVE Goal
  BY <1>11 DEF WriterWrites, CanWrite, pipeVars, resultVars
<1>12. ASSUME NEW q \in Runs, WriterEnds(q) PROVE Goal
  <2>1. fds' = Closed(q, {"inW"})
    BY <1>12 DEF WriterEnds, CanEndWriter
  <2> HIDE DEF Holds
  <2> QED BY <1>12, <2>1, ClosedEnds DEF WriterEnds, CanEndWriter
<1>13. ASSUME NEW q \in Runs, DrainReads(q) PROVE Goal
  BY <1>13 DEF DrainReads, CanDrain, Draining, Room, pipeVars, resultVars
<1>14. ASSUME NEW q \in Runs, DrainEnds(q) PROVE Goal
  <2>1. fds' = Closed(q, {"outR"})
    BY <1>14 DEF DrainEnds, EndOfOutput
  <2> HIDE DEF Holds
  <2> QED BY <1>14, <2>1, ClosedEnds DEF DrainEnds, EndOfOutput, Draining
<1>15. ASSUME NEW q \in Runs, ChildExec(q) PROVE Goal
  BY <1>15 DEF ChildExec, CanExec, Kept, pipeVars, resultVars
<1>16. ASSUME NEW q \in Runs, Reads(q) PROVE Goal
  BY <1>16 DEF Reads, CanRead, pipeVars, resultVars
<1>17. ASSUME NEW q \in Runs, Prints(q) PROVE Goal
  BY <1>17 DEF Prints, CanPrint, pipeVars, resultVars
<1>18. ASSUME NEW q \in Runs, Exits(q) PROVE Goal
  BY <1>18 DEF Exits, CanExit, Endings, pipeVars, resultVars
<1>19. CASE UNCHANGED vars
  BY <1>19 DEF vars, pipeVars, resultVars
<1>20. ASSUME NEW p \in Others, HelperStarts(p) PROVE Goal
  BY <1>20 DEF HelperStarts, Started, pipeVars, resultVars
<1>21. ASSUME NEW p \in Others, StrayStarts(p) PROVE Goal
  <2>1. fds'[Server] = fds[Server]
    BY <1>21 DEF StrayStarts, Started
  <2>2. \A r \in Runs, end \in Ends : Holds(Server, r, end)' <=> Holds(Server, r, end)
    BY <2>1
  <2> HIDE DEF Holds
  <2> QED BY <1>21, <2>2 DEF StrayStarts, Started, pipeVars
<1>22. ASSUME NEW p \in Others, StrayCloses(p) PROVE Goal
  <2>1. fds'[Server] = fds[Server]
    BY <1>22 DEF StrayCloses
  <2>2. \A r \in Runs, end \in Ends : Holds(Server, r, end)' <=> Holds(Server, r, end)
    BY <2>1
  <2> HIDE DEF Holds
  <2> QED BY <1>22, <2>2 DEF StrayCloses, pipeVars
<1>23. ASSUME NEW p \in Others, OtherEnds(p) PROVE Goal
  BY <1>23 DEF OtherEnds, pipeVars, resultVars
<1> QED
  BY <1>2, <1>3, <1>4, <1>5, <1>6, <1>7, <1>8, <1>9, <1>10, <1>11, <1>12, <1>13,
     <1>14, <1>15, <1>16, <1>17, <1>18, <1>19, <1>20, <1>21,
     <1>22, <1>23
     DEF Next, RunStep, ThreadStep, WriterStep, DrainStep, ChildStep

\* Units move from the pipe to what is kept, and no end comes back.
LEMMA NextOutput ==
  ASSUME TypeOK, StageInv, ChildFdsInv, ServerFdsInv, OutputInv, [Next]_vars
  PROVE  OutputInv'
<1> DEFINE Goal == OutputInv'
<1> USE ConstantsAssumption DEF TypeOK, Procs, Ends, Holds, Open, OutputInv
<1>2. ASSUME NEW q \in Runs, MakeStdin(q) PROVE Goal
  BY <1>2 DEF MakeStdin, Goto, Opened, pipeVars, resultVars
<1>3. ASSUME NEW q \in Runs, MakeStdout(q) PROVE Goal
  <2>1. fds' = Opened(q, {"outR", "outW"})
    BY <1>3 DEF MakeStdout
  <2>2. drain[q] = "none" /\ UNCHANGED <<drain, outPipe, printed, kept>>
    BY <1>3 DEF MakeStdout, StageInv, BeforeCollect, BeforeFork, pipeVars
  <2> HIDE DEF Holds
  <2> QED BY <2>1, <2>2, OpenedEnds
<1>4. ASSUME NEW q \in Runs, Fail(q) PROVE Goal
  BY <1>4 DEF Fail, Goto, pipeVars, resultVars
<1>5. ASSUME NEW q \in Runs, Fork(q) PROVE Goal
  BY <1>5 DEF Fork, Goto, pipeVars, resultVars
<1>6. ASSUME NEW q \in Runs, Collect(q) PROVE Goal
  BY <1>6 DEF Collect, Goto, Closed, pipeVars, resultVars
<1>7. ASSUME NEW q \in Runs, Reap(q) PROVE Goal
  BY <1>7 DEF Reap, CanReap, Goto, pipeVars, resultVars
<1>8. ASSUME NEW q \in Runs, Expire(q) PROVE Goal
  BY <1>8 DEF Expire, Goto, pipeVars, resultVars
<1>9. ASSUME NEW q \in Runs, Kill(q) PROVE Goal
  BY <1>9 DEF Kill, CanKill, CollectKilled, Goto, pipeVars, resultVars
<1>10. ASSUME NEW q \in Runs, Join(q) PROVE Goal
  BY <1>10 DEF Join, CanJoin, Drained, RunStatus, Goto, pipeVars, resultVars
<1>11. ASSUME NEW q \in Runs, WriterWrites(q) PROVE Goal
  BY <1>11 DEF WriterWrites, CanWrite, pipeVars, resultVars
<1>12. ASSUME NEW q \in Runs, WriterEnds(q) PROVE Goal
  BY <1>12 DEF WriterEnds, CanEndWriter, WriteOver, Closed, pipeVars, resultVars
<1>13. ASSUME NEW q \in Runs, DrainReads(q) PROVE Goal
  BY <1>13 DEF DrainReads, CanDrain, Draining, Room, pipeVars, resultVars
<1>14. ASSUME NEW q \in Runs, DrainEnds(q) PROVE Goal
  BY <1>14 DEF DrainEnds, EndOfOutput, Draining, Closed, pipeVars, resultVars
<1>15. ASSUME NEW q \in Runs, ChildExec(q) PROVE Goal
  BY <1>15 DEF ChildExec, CanExec, Kept, pipeVars, resultVars
<1>16. ASSUME NEW q \in Runs, Reads(q) PROVE Goal
  BY <1>16 DEF Reads, CanRead, pipeVars, resultVars
<1>17. ASSUME NEW q \in Runs, Prints(q) PROVE Goal
  <2>1. Holds(q, q, "outW") /\ drain[q] # "done"
    BY <1>17 DEF Prints, CanPrint, ChildFdsInv
  <2> QED BY <1>17, <2>1 DEF Prints, CanPrint
<1>18. ASSUME NEW q \in Runs, Exits(q) PROVE Goal
  BY <1>18 DEF Exits, CanExit, Endings, pipeVars, resultVars
<1>19. CASE UNCHANGED vars
  BY <1>19 DEF vars, pipeVars, resultVars
<1>20. ASSUME NEW p \in Others, HelperStarts(p) PROVE Goal
  BY <1>20 DEF HelperStarts, Started, pipeVars, resultVars
<1>21. ASSUME NEW p \in Others, StrayStarts(p) PROVE Goal
  BY <1>21 DEF StrayStarts, Started, pipeVars, resultVars
<1>22. ASSUME NEW p \in Others, StrayCloses(p) PROVE Goal
  BY <1>22 DEF StrayCloses, pipeVars, resultVars
<1>23. ASSUME NEW p \in Others, OtherEnds(p) PROVE Goal
  BY <1>23 DEF OtherEnds, pipeVars, resultVars
<1> QED
  BY <1>2, <1>3, <1>4, <1>5, <1>6, <1>7, <1>8, <1>9, <1>10, <1>11, <1>12, <1>13,
     <1>14, <1>15, <1>16, <1>17, <1>18, <1>19, <1>20, <1>21,
     <1>22, <1>23
     DEF Next, RunStep, ThreadStep, WriterStep, DrainStep, ChildStep

-----------------------------------------------------------------------------
\* What is shown of a finished run follows from the invariant.
LEMMA Consequences ==
  ASSUME TypeOK, StageInv, ServerFdsInv, OutputInv
  PROVE  OutputComplete /\ NothingLeftBehind
<1>1. OutputComplete
  BY ConstantsAssumption DEF TypeOK, StageInv, OutputInv, OutputComplete
<1>2. NothingLeftBehind
  <2> SUFFICES ASSUME NEW r \in Runs, ppc[r] = "done"
               PROVE  /\ child[r] = "reaped"
                      /\ \A end \in Ends :
                           Holds(Server, r, end) =>
                             end = "inW" /\ writer[r] = "writing"
    BY DEF NothingLeftBehind
  <2>1. child[r] = "reaped" /\ drain[r] = "done" /\ writer[r] # "none"
    BY DEF StageInv, BeforeFork, BeforeCollect
  <2>2. /\ ~Holds(Server, r, "inR") /\ ~Holds(Server, r, "outW")
        /\ ~Holds(Server, r, "outR")
        /\ writer[r] = "closed" => ~Holds(Server, r, "inW")
    BY <2>1 DEF ServerFdsInv
  <2> QED BY <2>1, <2>2 DEF TypeOK, Ends
<1> QED BY <1>1, <1>2

\* The invariant holds in every state.
THEOREM InductiveInvariant == Spec => []IInv
<1> DEFINE CoreInv == TypeOK /\ StageInv /\ ChildFdsInv /\ ServerFdsInv /\ OutputInv
<1>1. ASSUME CoreInv, [Next]_vars PROVE CoreInv'
  <2>1. TypeOK' /\ StageInv'
    BY <1>1, NextTypeOK, NextStage
  <2>2. ChildFdsInv' /\ ServerFdsInv' /\ OutputInv'
    BY <1>1, NextChildFds, NextServerFds, NextOutput
  <2> QED BY <2>1, <2>2
<1>2. Init => CoreInv
  BY InitIInv DEF IInv
<1>3. CoreInv => IInv
  BY Consequences DEF IInv
<1> HIDE DEF CoreInv
<1> QED BY <1>1, <1>2, <1>3, PTL DEF Spec

\* However the runs interleave, and whoever else holds its pipes, an accepted
\* run has all of its output up to the cap.
THEOREM OutputIsComplete == Spec => []OutputComplete
<1>1. IInv => OutputComplete
  BY DEF IInv
<1> QED BY <1>1, InductiveInvariant, PTL

\* A run that is over has reaped its child, and the server has at most the stdin
\* end its writer still uses.
THEOREM CleansUp == Spec => []NothingLeftBehind
<1>1. IInv => NothingLeftBehind
  BY DEF IInv
<1> QED BY <1>1, InductiveInvariant, PTL

-----------------------------------------------------------------------------
(* Something can always be done.                                           *)

\* Only the child and the server can hold the pipes of such a run.
LEMMA OwnHolders ==
  ASSUME NEW r \in Runs, OwnPipes(r), NEW end \in Ends, Open(r, end)
  PROVE  Holds(r, r, end) \/ Holds(Server, r, end)
BY DEF OwnPipes, Open

\* Output that waits in the pipe is read: the drain is over only at its end.
LEMMA FullPipeDrains ==
  ASSUME IInv, NEW r \in Runs, ppc[r] \notin BeforeCollect, outPipe[r] > 0
  PROVE  CanDrain(r)
<1>1. drain[r] = "reading"
  BY DEF IInv, TypeOK, StageInv, OutputInv
<1> QED BY <1>1 DEF CanDrain, Draining

\* A program that has something to print prints it, is done, or its output is read.
LEMMA PrinterMoves ==
  ASSUME IInv, NEW r \in Runs, ppc[r] = "wait", child[r] = "running",
         program[r] = "print" \/ (program[r] \in Readers /\ EndOfInput(r))
  PROVE  CanPrint(r) \/ CanExit(r) \/ CanDrain(r)
<1>1. /\ printed[r] \in 0..OutputSize /\ outPipe[r] \in 0..PipeSize
      /\ OutputSize \in Nat /\ PipeSize \in Nat \ {0}
  BY ConstantsAssumption DEF IInv, TypeOK
<1>2. CASE printed[r] = OutputSize
  BY <1>2 DEF CanExit
<1>3. CASE printed[r] < OutputSize /\ outPipe[r] < PipeSize
  BY <1>3 DEF CanPrint
<1>4. CASE outPipe[r] = PipeSize
  <2>1. outPipe[r] > 0 /\ ppc[r] \notin BeforeCollect
    BY <1>1, <1>4 DEF BeforeCollect, BeforeFork
  <2> QED BY <2>1, FullPipeDrains
<1> QED BY <1>1, <1>2, <1>3, <1>4

\* A program that waits for input has a writer that can write it or close the pipe.
LEMMA WriterMoves ==
  ASSUME IInv, NEW r \in Runs, ppc[r] = "wait", child[r] = "running", OwnPipes(r),
         inPipe[r] = 0, ~EndOfInput(r)
  PROVE  CanWrite(r) \/ CanEndWriter(r)
<1>1. Holds(r, r, "inW") \/ Holds(Server, r, "inW")
  <2>1. Open(r, "inW") /\ "inW" \in Ends
    BY DEF EndOfInput, Ends
  <2> QED BY <2>1, OwnHolders
<1>2. writer[r] = "writing"
  <2>1. ~Holds(r, r, "inW")
    BY DEF IInv, ChildFdsInv
  <2>2. writer[r] # "none" /\ writer[r] # "closed"
    BY <1>1, <2>1 DEF IInv, StageInv, ServerFdsInv, BeforeCollect, BeforeFork
  <2> QED BY <2>2 DEF IInv, TypeOK
<1>3. fed[r] \in 0..InputSize /\ InputSize \in Nat /\ PipeSize \in Nat \ {0}
  BY ConstantsAssumption DEF IInv, TypeOK
<1>4. CASE fed[r] = InputSize \/ ~Open(r, "inR")
  BY <1>2, <1>4 DEF CanEndWriter, WriteOver
<1>5. CASE fed[r] < InputSize /\ Open(r, "inR")
  BY <1>2, <1>3, <1>5 DEF CanWrite
<1> QED BY <1>3, <1>4, <1>5

\* The threads and the child of a run never wait for each other in a circle.
THEOREM NeverStuck == Spec => []PipesKeepMoving
<1>1. ASSUME IInv, NEW r \in Runs, ppc[r] \in {"wait", "kill", "join"}, OwnPipes(r)
      PROVE  \/ CanReap(r) \/ CanKill(r) \/ CanJoin(r)
             \/ CanWrite(r) \/ CanEndWriter(r) \/ CanDrain(r) \/ EndOfOutput(r)
             \/ CanExec(r) \/ CanRead(r) \/ CanPrint(r) \/ CanExit(r)
  <2>1. CASE ppc[r] = "kill"
    BY <2>1 DEF CanKill
  <2>2. CASE ppc[r] = "join"
    <3>1. drain[r] \in {"reading", "done"}
      BY <1>1, <2>2 DEF IInv, TypeOK, StageInv, BeforeCollect, BeforeFork
    <3>2. CASE drain[r] = "done"
      BY <2>2, <3>2 DEF CanJoin, Drained
    <3>3. CASE drain[r] = "reading" /\ outPipe[r] > 0
      BY <3>3 DEF CanDrain, Draining
    <3>4. CASE drain[r] = "reading" /\ outPipe[r] = 0
      <4>1. ~Holds(r, r, "outW")
        <5>1. fds[r] = {}
          BY <1>1, <2>2 DEF IInv, StageInv, ChildFdsInv
        <5> QED BY <5>1 DEF Holds
      <4>2. ~Holds(Server, r, "outW")
        BY <1>1, <3>4 DEF IInv, ServerFdsInv
      <4>3. ~Open(r, "outW")
        BY <1>1, <4>1, <4>2, OwnHolders DEF Ends
      <4> QED BY <3>4, <4>3 DEF EndOfOutput, Draining
    <3>5. outPipe[r] \in 0..PipeSize /\ PipeSize \in Nat
      BY <1>1, ConstantsAssumption DEF IInv, TypeOK
    <3> QED BY <3>1, <3>2, <3>3, <3>4, <3>5
  <2>3. CASE ppc[r] = "wait"
    <3>1. child[r] \in {"forked", "running", "zombie"}
      BY <1>1, <2>3 DEF IInv, TypeOK, StageInv, BeforeFork
    <3>2. CASE child[r] = "forked"
      BY <3>2 DEF CanExec
    <3>3. CASE child[r] = "zombie"
      BY <2>3, <3>3 DEF CanReap
    <3>4. CASE child[r] = "running"
      <4>1. program[r] \in AllPrograms
        BY <1>1, ConstantsAssumption DEF IInv, TypeOK
      <4>2. inPipe[r] \in 0..PipeSize /\ PipeSize \in Nat
        BY <1>1, ConstantsAssumption DEF IInv, TypeOK
      <4>3. CASE program[r] \in {"crash", "spin"}
        BY <3>4, <4>3 DEF CanExit
      <4>4. CASE program[r] = "print"
        BY <1>1, <2>3, <3>4, <4>4, PrinterMoves
      <4>5. CASE program[r] \in Readers /\ inPipe[r] > 0
        BY <3>4, <4>5 DEF CanRead
      <4>6. CASE program[r] \in Readers /\ EndOfInput(r)
        BY <1>1, <2>3, <3>4, <4>6, PrinterMoves
      <4>7. CASE program[r] \in Readers /\ inPipe[r] = 0 /\ ~EndOfInput(r)
        BY <1>1, <2>3, <3>4, <4>7, WriterMoves
      <4> QED
        BY <4>1, <4>2, <4>3, <4>4, <4>5, <4>6, <4>7 DEF AllPrograms, Readers
    <3> QED BY <3>1, <3>2, <3>3, <3>4
  <2> QED BY <1>1, <2>1, <2>2, <2>3
<1>2. IInv => PipesKeepMoving
  BY <1>1 DEF PipesKeepMoving
<1> QED BY <1>2, InductiveInvariant, PTL
=============================================================================
