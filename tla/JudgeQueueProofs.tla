--------------------------- MODULE JudgeQueueProofs ---------------------------
(***************************************************************************)
(* What JudgeQueue guarantees for every number of submissions, workers,    *)
(* slots and faults.  IInv is inductive; its conjuncts are proved action   *)
(* by action, the channel being known only through Queued (who is in it)   *)
(* and through the lemmas below.                                           *)
(***************************************************************************)
EXTENDS JudgeQueue, TLAPS

-----------------------------------------------------------------------------
(* The channel.                                                            *)

\* A channel that does not change holds the same jobs.
LEMMA QueueSame ==
  ASSUME channel' = channel
  PROVE  \A s \in Submissions : Queued(s)' <=> Queued(s)
BY DEF Queued

\* An empty channel holds nothing.
LEMMA QueueEmpty ==
  ASSUME channel' = <<>>
  PROVE  \A s \in Submissions : ~Queued(s)'
BY DEF Queued

\* Sending adds one job, at the end.
LEMMA QueueAppend ==
  ASSUME channel \in Seq(Submissions), NEW t \in Submissions,
         channel' = Append(channel, t)
  PROVE  /\ channel' \in Seq(Submissions)
         /\ Len(channel') = Len(channel) + 1
         /\ \A s \in Submissions : Queued(s)' <=> Queued(s) \/ s = t
BY DEF Queued

\* Receiving takes the first job out and leaves the others.
LEMMA QueueTail ==
  ASSUME channel \in Seq(Submissions), channel # <<>>,
         channel' = Tail(channel),
         \A i, j \in 1..Len(channel) : channel[i] = channel[j] => i = j
  PROVE  /\ Head(channel) \in Submissions
         /\ Queued(Head(channel))
         /\ channel' \in Seq(Submissions)
         /\ Len(channel') = Len(channel) - 1
         /\ \A i, j \in 1..Len(channel') : channel'[i] = channel'[j] => i = j
         /\ \A s \in Submissions :
              Queued(s)' <=> Queued(s) /\ s # Head(channel)
<1>1. /\ Head(channel) = channel[1]
      /\ Len(channel) \in Nat \ {0}
      /\ Len(channel') = Len(channel) - 1
      /\ \A i \in 1..Len(channel') : channel'[i] = channel[i + 1]
  OBVIOUS
<1>2. Head(channel) \in Submissions /\ Queued(Head(channel))
  BY <1>1 DEF Queued
<1>3. channel' \in Seq(Submissions)
  OBVIOUS
<1>4. \A i, j \in 1..Len(channel') : channel'[i] = channel'[j] => i = j
  BY <1>1
<1>5. ASSUME NEW s \in Submissions
      PROVE  Queued(s)' <=> Queued(s) /\ s # Head(channel)
  <2>1. ASSUME Queued(s)' PROVE Queued(s) /\ s # Head(channel)
    <3>1. PICK i \in 1..Len(channel') : channel'[i] = s
      BY <2>1 DEF Queued
    <3>2. i + 1 \in 1..Len(channel) /\ channel[i + 1] = s /\ i + 1 # 1
      BY <1>1, <3>1
    <3>3. 1 \in 1..Len(channel)
      BY <1>1
    <3> QED BY <1>1, <3>2, <3>3 DEF Queued
  <2>2. ASSUME Queued(s), s # Head(channel) PROVE Queued(s)'
    <3>1. PICK i \in 1..Len(channel) : channel[i] = s
      BY <2>2 DEF Queued
    <3>2. i - 1 \in 1..Len(channel') /\ channel'[i - 1] = channel[i]
      BY <1>1, <2>2, <3>1
    <3> QED BY <3>1, <3>2 DEF Queued
  <2> QED BY <2>1, <2>2
<1> QED BY <1>1, <1>2, <1>3, <1>4, <1>5

-----------------------------------------------------------------------------
(* The inductive invariant.                                                *)

\* The server starts with no row, no job and idle workers.
LEMMA InitIInv == Init => IInv
<1> SUFFICES ASSUME Init PROVE IInv
  OBVIOUS
<1>1. \A s \in Submissions : ~Queued(s)
  <2>1. channel = <<>> /\ Len(channel) = 0
    BY DEF Init
  <2> QED BY <2>1 DEF Queued
<1>2. TypeOK
  BY ConstantsAssumption
  DEF Init, TypeOK, HandlerStates, Statuses, WorkerStates
<1>3. OneJobPerSubmission
  BY <1>1 DEF Init, OneJobPerSubmission
<1>4. LockOnlyToReceive /\ HoldsJobWhileJudging
  BY ConstantsAssumption DEF Init, LockOnlyToReceive, HoldsJobWhileJudging
<1>5. ASSUME NEW s \in Submissions PROVE ~InCustody(s) /\ row[s] = "none"
  BY <1>1, ConstantsAssumption DEF Init, InCustody, Held
<1>6. CustodyMeansUnfinished /\ NoSilentLoss
  BY <1>5, ConstantsAssumption
  DEF Init, CustodyMeansUnfinished, NoSilentLoss, Stranded, Unfinished
<1> QED BY <1>2, <1>3, <1>4, <1>6 DEF IInv

\* A new row has its job with the handler that inserted it.
LEMMA InsertIInv ==
  ASSUME IInv, NEW s \in Submissions, Insert(s)
  PROVE  IInv'
<1> USE ConstantsAssumption DEF IInv
<1>1. \A t \in Submissions : Queued(t)' <=> Queued(t)
  BY QueueSame DEF Insert
<1>2. TypeOK'
  BY DEF TypeOK, Insert, Stored, WriteFailed, CutOff, Fault, Statuses, HandlerStates
<1>3. ~InCustody(s) /\ row[s] = "none"
  BY DEF Insert, CustodyMeansUnfinished
<1>4. OneJobPerSubmission'
  BY <1>1, <1>3 DEF Insert, OneJobPerSubmission, InCustody, Held, TypeOK
<1>5. LockOnlyToReceive' /\ HoldsJobWhileJudging'
  BY DEF Insert, LockOnlyToReceive, HoldsJobWhileJudging
<1>6. CustodyMeansUnfinished'
  BY <1>1, <1>3
  DEF Insert, Stored, WriteFailed, CutOff, CustodyMeansUnfinished, InCustody, Held,
      Unfinished, TypeOK
<1>7. NoSilentLoss'
  BY <1>1, <1>3
  DEF Insert, Stored, WriteFailed, CutOff, NoSilentLoss, Stranded, InCustody, Held,
      Unfinished, TypeOK
<1> QED BY <1>2, <1>4, <1>5, <1>6, <1>7

\* A job that enters the channel was nowhere else and is there once.
LEMMA SendIInv ==
  ASSUME IInv, NEW s \in Submissions, Send(s)
  PROVE  IInv'
<1> USE ConstantsAssumption DEF IInv
<1>1. /\ channel' \in Seq(Submissions)
      /\ Len(channel') = Len(channel) + 1
      /\ \A t \in Submissions : Queued(t)' <=> Queued(t) \/ t = s
  BY QueueAppend DEF Send, TypeOK
<1>2. TypeOK'
  BY <1>1 DEF TypeOK, Send, HandlerStates
<1>3. ~Queued(s) /\ ~Held(s)
  BY DEF Send, OneJobPerSubmission
<1>4. OneJobPerSubmission'
  <2>1. \A i, j \in 1..Len(channel') : channel'[i] = channel'[j] => i = j
    BY <1>3 DEF Send, OneJobPerSubmission, Queued, TypeOK
  <2> QED BY <1>1, <1>3, <2>1 DEF Send, OneJobPerSubmission, Held, TypeOK
<1>5. LockOnlyToReceive' /\ HoldsJobWhileJudging'
  BY DEF Send, LockOnlyToReceive, HoldsJobWhileJudging
<1>6. CustodyMeansUnfinished'
  BY <1>1
  DEF Send, CustodyMeansUnfinished, InCustody, Held, Unfinished, TypeOK
<1>7. NoSilentLoss'
  BY <1>1
  DEF Send, NoSilentLoss, Stranded, InCustody, Held, Unfinished, TypeOK
<1> QED BY <1>2, <1>4, <1>5, <1>6, <1>7

\* A send on a closed channel fails: its row is stranded by the fault that closed it.
LEMMA SendClosedIInv ==
  ASSUME IInv, NEW s \in Submissions, SendClosed(s)
  PROVE  IInv'
<1> USE ConstantsAssumption DEF IInv
<1>1. \A t \in Submissions : Queued(t)' <=> Queued(t)
  BY QueueSame DEF SendClosed
<1>2. TypeOK'
  BY DEF TypeOK, SendClosed, HandlerStates
<1>3. OneJobPerSubmission'
  BY <1>1 DEF SendClosed, OneJobPerSubmission, Held, TypeOK
<1>4. LockOnlyToReceive' /\ HoldsJobWhileJudging'
  BY DEF SendClosed, LockOnlyToReceive, HoldsJobWhileJudging
<1>5. CustodyMeansUnfinished'
  BY <1>1
  DEF SendClosed, CustodyMeansUnfinished, InCustody, Held, Unfinished, TypeOK
<1>6. NoSilentLoss'
  BY <1>1
  DEF SendClosed, NoSilentLoss, Stranded, InCustody, Held, Unfinished, TypeOK
<1> QED BY <1>2, <1>3, <1>4, <1>5, <1>6

\* A handler that is dropped strands its own row only.
LEMMA DisconnectIInv ==
  ASSUME IInv, NEW s \in Submissions, Disconnect(s)
  PROVE  IInv'
<1> USE ConstantsAssumption DEF IInv
<1>1. \A t \in Submissions : Queued(t)' <=> Queued(t)
  BY QueueSame DEF Disconnect
<1>2. TypeOK'
  BY DEF TypeOK, Disconnect, Fault, HandlerStates
<1>3. OneJobPerSubmission'
  BY <1>1 DEF Disconnect, OneJobPerSubmission, Held, TypeOK
<1>4. LockOnlyToReceive' /\ HoldsJobWhileJudging'
  BY DEF Disconnect, LockOnlyToReceive, HoldsJobWhileJudging
<1>5. CustodyMeansUnfinished'
  BY <1>1
  DEF Disconnect, CustodyMeansUnfinished, InCustody, Held, Unfinished, TypeOK
<1>6. NoSilentLoss'
  BY <1>1
  DEF Disconnect, NoSilentLoss, Stranded, InCustody, Held, Unfinished, TypeOK
<1> QED BY <1>2, <1>3, <1>4, <1>5, <1>6

\* The lock of the receiver goes to one worker at a time.
LEMMA LockRxIInv ==
  ASSUME IInv, NEW w \in Workers, LockRx(w)
  PROVE  IInv'
<1> USE ConstantsAssumption DEF IInv
<1>1. \A t \in Submissions : Queued(t)' <=> Queued(t)
  BY QueueSame DEF LockRx
<1>2. TypeOK'
  BY DEF TypeOK, LockRx, Goto, WorkerStates
<1>3. OneJobPerSubmission'
  BY <1>1 DEF LockRx, OneJobPerSubmission, Held, TypeOK
<1>4. LockOnlyToReceive' /\ HoldsJobWhileJudging'
  BY DEF LockRx, Goto, LockOnlyToReceive, HoldsJobWhileJudging, TypeOK,
         Terminal, AllCaseVerdicts
<1>5. CustodyMeansUnfinished'
  BY <1>1
  DEF LockRx, Goto, CustodyMeansUnfinished, InCustody, Held, Unfinished, TypeOK
<1>6. NoSilentLoss'
  BY <1>1
  DEF LockRx, NoSilentLoss, Stranded, InCustody, Held, Unfinished, TypeOK
<1> QED BY <1>2, <1>3, <1>4, <1>5, <1>6

\* Preparing (reading the problem, compiling) writes no row and keeps the job.
LEMMA PrepareIInv ==
  ASSUME IInv, NEW w \in Workers, Prepare(w)
  PROVE  IInv'
<1> USE ConstantsAssumption DEF IInv
<1>1. \A t \in Submissions : Queued(t)' <=> Queued(t)
  BY QueueSame DEF Prepare
<1>2. TypeOK'
  BY DEF TypeOK, Prepare, Goto, Decide, WorkerStates, Terminal, AllCaseVerdicts
<1>3. OneJobPerSubmission'
  BY <1>1 DEF Prepare, OneJobPerSubmission, Held, TypeOK
<1>4. LockOnlyToReceive' /\ HoldsJobWhileJudging'
  BY DEF Prepare, Goto, Decide, LockOnlyToReceive, HoldsJobWhileJudging, TypeOK,
         Terminal, AllCaseVerdicts
<1>5. CustodyMeansUnfinished'
  BY <1>1
  DEF Prepare, Goto, Decide, CustodyMeansUnfinished, InCustody, Held, Unfinished, TypeOK
<1>6. NoSilentLoss'
  BY <1>1
  DEF Prepare, NoSilentLoss, Stranded, InCustody, Held, Unfinished, TypeOK
<1> QED BY <1>2, <1>3, <1>4, <1>5, <1>6

\* Running the cases writes no row and keeps the job.
LEMMA RunCasesIInv ==
  ASSUME IInv, NEW w \in Workers, RunCases(w)
  PROVE  IInv'
<1> USE ConstantsAssumption DEF IInv
<1>1. \A t \in Submissions : Queued(t)' <=> Queued(t)
  BY QueueSame DEF RunCases
<1>2. TypeOK'
  BY DEF TypeOK, RunCases, Goto, Decide, WorkerStates, Terminal, AllCaseVerdicts
<1>3. OneJobPerSubmission'
  BY <1>1 DEF RunCases, OneJobPerSubmission, Held, TypeOK
<1>4. LockOnlyToReceive' /\ HoldsJobWhileJudging'
  BY DEF RunCases, Goto, Decide, LockOnlyToReceive, HoldsJobWhileJudging, TypeOK,
         Terminal, AllCaseVerdicts
<1>5. CustodyMeansUnfinished'
  BY <1>1
  DEF RunCases, Goto, Decide, CustodyMeansUnfinished, InCustody, Held, Unfinished, TypeOK
<1>6. NoSilentLoss'
  BY <1>1
  DEF RunCases, NoSilentLoss, Stranded, InCustody, Held, Unfinished, TypeOK
<1> QED BY <1>2, <1>3, <1>4, <1>5, <1>6

\* The job received leaves the channel, and its row is still pending.
LEMMA RecvIInv ==
  ASSUME IInv, NEW w \in Workers, Recv(w)
  PROVE  IInv'
<1> USE ConstantsAssumption DEF IInv
<1> DEFINE s == Head(channel)
<1>1. /\ s \in Submissions
      /\ Queued(s)
      /\ channel' \in Seq(Submissions)
      /\ Len(channel') = Len(channel) - 1
      /\ \A i, j \in 1..Len(channel') : channel'[i] = channel'[j] => i = j
      /\ \A t \in Submissions : Queued(t)' <=> Queued(t) /\ t # s
  BY QueueTail DEF Recv, TypeOK, OneJobPerSubmission
<1>2. job' = [job EXCEPT ![w] = s] /\ job[w] = NoJob
  BY DEF Recv, HoldsJobWhileJudging
<1> HIDE DEF s
<1>3. TypeOK'
  BY <1>1, <1>2 DEF TypeOK, Recv, Goto, WorkerStates
<1>4. \A t \in Submissions : Held(t)' <=> Held(t) \/ t = s
  BY <1>1, <1>2 DEF Held, TypeOK
<1>5. OneJobPerSubmission'
  BY <1>1, <1>2, <1>4 DEF Recv, OneJobPerSubmission, Held, TypeOK
<1>6. LockOnlyToReceive' /\ HoldsJobWhileJudging'
  BY <1>1, <1>2
  DEF Recv, Goto, LockOnlyToReceive, HoldsJobWhileJudging, TypeOK
<1>7. row[s] = "pending"
  BY <1>1
  DEF CustodyMeansUnfinished, InCustody, Unfinished, TypeOK
<1>8. CustodyMeansUnfinished'
  BY <1>1, <1>2, <1>4, <1>7
  DEF Recv, Goto, CustodyMeansUnfinished, InCustody, Unfinished, TypeOK
<1>9. NoSilentLoss'
  BY <1>1, <1>4
  DEF Recv, NoSilentLoss, Stranded, InCustody, Unfinished, TypeOK
<1> QED BY <1>3, <1>5, <1>6, <1>8, <1>9

\* The write of "running", failed or not, meets a pending row.
LEMMA MarkRunningIInv ==
  ASSUME IInv, NEW w \in Workers, MarkRunning(w)
  PROVE  IInv'
<1> USE ConstantsAssumption DEF IInv
<1>1. \A t \in Submissions : Queued(t)' <=> Queued(t)
  BY QueueSame DEF MarkRunning
<1>2. job[w] \in Submissions /\ Held(job[w]) /\ row[job[w]] = "pending"
  BY DEF MarkRunning, HoldsJobWhileJudging, CustodyMeansUnfinished, Held, TypeOK
<1>3. \/ row' = row
      \/ row' = [row EXCEPT ![job[w]] = "running"]
  BY DEF MarkRunning, Stored, WriteFailed, CutOff
<1>4. TypeOK'
  BY <1>2, <1>3
  DEF TypeOK, MarkRunning, Stored, WriteFailed, CutOff, Fault, Goto, Statuses,
      WorkerStates
<1>5. OneJobPerSubmission'
  BY <1>1 DEF MarkRunning, OneJobPerSubmission, Held, TypeOK
<1>6. LockOnlyToReceive' /\ HoldsJobWhileJudging'
  BY DEF MarkRunning, Goto, LockOnlyToReceive, HoldsJobWhileJudging, TypeOK
<1>7. ~Queued(job[w]) /\ handler[job[w]] # "send"
  BY <1>2 DEF OneJobPerSubmission
<1>8. CustodyMeansUnfinished'
  BY <1>1, <1>2, <1>3, <1>7
  DEF MarkRunning, Goto, CustodyMeansUnfinished, OneJobPerSubmission,
      InCustody, Held, Unfinished, TypeOK
<1>9. NoSilentLoss'
  BY <1>1, <1>2, <1>3
  DEF MarkRunning, NoSilentLoss, Stranded, InCustody, Held, Unfinished, TypeOK
<1> QED BY <1>4, <1>5, <1>6, <1>8, <1>9

\* The final write puts the verdict on a row nobody else works on.
LEMMA FinishIInv ==
  ASSUME IInv, NEW w \in Workers, Finish(w)
  PROVE  IInv'
<1> USE ConstantsAssumption DEF IInv
<1> DEFINE s == job[w]
<1>1. \A t \in Submissions : Queued(t)' <=> Queued(t)
  BY QueueSame DEF Finish
<1>2. s \in Submissions /\ Held(s)
  BY DEF Finish, HoldsJobWhileJudging, Held, TypeOK
<1>3. outcome[w] \in Terminal
  BY DEF Finish, HoldsJobWhileJudging, TypeOK
<1>4. /\ ~Queued(s)
      /\ handler[s] # "send"
      /\ handler[s] # "new"
  BY <1>2 DEF OneJobPerSubmission, CustodyMeansUnfinished, InCustody
<1>5. \/ row' = [row EXCEPT ![s] = outcome[w]] /\ casualties' = casualties
      \/ /\ row' = row \/ row' = [row EXCEPT ![s] = outcome[w]]
         /\ casualties' = casualties \cup {s}
  BY DEF Finish, Stored, WriteFailed, CutOff
<1>6. job' = [job EXCEPT ![w] = NoJob]
  BY DEF Finish
<1>7. TypeOK'
  BY <1>2, <1>3, <1>5, <1>6
  DEF TypeOK, Finish, Stored, WriteFailed, CutOff, Fault, Goto, Statuses, WorkerStates
<1> HIDE DEF s
<1>8. \A t \in Submissions : Held(t)' <=> Held(t) /\ t # s
  BY <1>2, <1>6 DEF Held, OneJobPerSubmission, TypeOK, s
<1>9. OneJobPerSubmission'
  BY <1>1, <1>6, <1>8 DEF Finish, OneJobPerSubmission, TypeOK
<1>10. LockOnlyToReceive' /\ HoldsJobWhileJudging'
  BY DEF Finish, Goto, LockOnlyToReceive, HoldsJobWhileJudging, TypeOK
<1>11. row'[s] \notin {"pending", "running"} \/ s \in casualties'
  BY <1>2, <1>3, <1>5 DEF TypeOK, Terminal, AllCaseVerdicts
<1>12. \A t \in Submissions : t # s => row'[t] = row[t]
  BY <1>2, <1>5 DEF TypeOK
<1>13. CustodyMeansUnfinished'
  <2>1. \A t \in Submissions : InCustody(t)' <=> InCustody(t) /\ t # s
    BY <1>1, <1>4, <1>8 DEF Finish, InCustody
  <2>2. \A t \in Submissions : (InCustody(t) => Unfinished(t))'
    BY <2>1, <1>12 DEF CustodyMeansUnfinished, Unfinished
  <2>3. \A t \in Submissions :
          (row[t] = "running" => handler[t] # "send" /\ ~Queued(t))'
    BY <1>1, <1>4, <1>12 DEF Finish, CustodyMeansUnfinished
  <2>4. \A t \in Submissions :
          (handler[t] = "new" => row[t] = "none" /\ ~InCustody(t))'
    BY <2>1, <1>4, <1>12 DEF Finish, CustodyMeansUnfinished
  <2>5. \A t \in Submissions, v \in Workers :
          (job[v] = t /\ wpc[v] = "picked" => row[t] = "pending")'
    BY <1>2, <1>6, <1>8, <1>12
    DEF Finish, Goto, CustodyMeansUnfinished, OneJobPerSubmission, TypeOK, Held
  <2> QED BY <2>2, <2>3, <2>4, <2>5 DEF CustodyMeansUnfinished
<1>14. NoSilentLoss'
  BY <1>1, <1>5, <1>8, <1>11, <1>12
  DEF Finish, NoSilentLoss, Stranded, InCustody, Unfinished
<1> QED BY <1>7, <1>9, <1>10, <1>13, <1>14

\* A worker that panics strands its job, and the last one the whole channel.
LEMMA PanicIInv ==
  ASSUME IInv, NEW w \in Workers, Panic(w)
  PROVE  IInv'
<1> USE ConstantsAssumption DEF IInv
<1> DEFINE s == job[w]
           last == \A v \in Workers \ {w} : wpc[v] = "dead"
<1>1. s \in Submissions /\ Held(s)
  BY DEF Panic, HoldsJobWhileJudging, Held, TypeOK
<1>2. /\ ~Queued(s)
      /\ handler[s] # "send"
      /\ handler[s] # "new"
  BY <1>1 DEF OneJobPerSubmission, CustodyMeansUnfinished, InCustody
<1>3. job' = [job EXCEPT ![w] = NoJob]
  BY DEF Panic
<1>4. /\ s \in casualties'
      /\ casualties \subseteq casualties'
      /\ casualties' \subseteq Submissions
  BY <1>1 DEF Panic, TypeOK
<1>5. CASE last
  <2>1. channel' = <<>> /\ Len(channel') = 0
    BY <1>5 DEF Panic
  <2> QED
    <3>1. \A t \in Submissions : ~Queued(t)'
      BY <2>1 DEF Queued
    <3>2. \A t \in Submissions : Queued(t) => t \in casualties'
      BY <1>5 DEF Panic
    <3>3. TypeOK'
      BY <1>1, <1>4, <2>1 DEF TypeOK, Panic, Fault, Goto, WorkerStates
    <3> HIDE DEF s
    <3>4. \A t \in Submissions : Held(t)' <=> Held(t) /\ t # s
      BY <1>1, <1>3 DEF Held, OneJobPerSubmission, TypeOK, s
    <3>5. OneJobPerSubmission'
      BY <1>3, <2>1, <3>1, <3>4 DEF Panic, OneJobPerSubmission, TypeOK
    <3>6. LockOnlyToReceive' /\ HoldsJobWhileJudging'
      BY DEF Panic, Goto, LockOnlyToReceive, HoldsJobWhileJudging, TypeOK
    <3>7. CustodyMeansUnfinished'
      BY <1>1, <1>2, <1>3, <3>1, <3>4
      DEF Panic, Goto, CustodyMeansUnfinished, InCustody, Unfinished, TypeOK
    <3>8. NoSilentLoss'
      BY <1>4, <3>1, <3>2, <3>4
      DEF Panic, NoSilentLoss, Stranded, InCustody, Unfinished
    <3> QED BY <3>3, <3>5, <3>6, <3>7, <3>8
<1>6. CASE ~last
  <2>1. channel' = channel
    BY <1>6 DEF Panic
  <2>2. \A t \in Submissions : Queued(t)' <=> Queued(t)
    BY <2>1, QueueSame
  <2>3. TypeOK'
    BY <1>1, <1>4, <2>1 DEF TypeOK, Panic, Fault, Goto, WorkerStates
  <2> HIDE DEF s
  <2>4. \A t \in Submissions : Held(t)' <=> Held(t) /\ t # s
    BY <1>1, <1>3 DEF Held, OneJobPerSubmission, TypeOK, s
  <2>5. OneJobPerSubmission'
    BY <1>3, <2>1, <2>2, <2>4 DEF Panic, OneJobPerSubmission, TypeOK
  <2>6. LockOnlyToReceive' /\ HoldsJobWhileJudging'
    BY DEF Panic, Goto, LockOnlyToReceive, HoldsJobWhileJudging, TypeOK
  <2>7. CustodyMeansUnfinished'
    BY <1>1, <1>2, <1>3, <2>2, <2>4
    DEF Panic, Goto, CustodyMeansUnfinished, InCustody, Unfinished, TypeOK
  <2>8. NoSilentLoss'
    BY <1>4, <2>2, <2>4
    DEF Panic, NoSilentLoss, Stranded, InCustody, Unfinished
  <2> QED BY <2>3, <2>5, <2>6, <2>7, <2>8
<1> QED BY <1>5, <1>6

\* A judgement that never returns strands its job and nothing else.
LEMMA HangIInv ==
  ASSUME IInv, NEW w \in Workers, Hang(w)
  PROVE  IInv'
<1> USE ConstantsAssumption DEF IInv
<1> DEFINE s == job[w]
<1>1. s \in Submissions /\ Held(s)
  BY DEF Hang, HoldsJobWhileJudging, Held, TypeOK
<1>2. /\ ~Queued(s)
      /\ handler[s] # "send"
      /\ handler[s] # "new"
  BY <1>1 DEF OneJobPerSubmission, CustodyMeansUnfinished, InCustody
<1>3. job' = [job EXCEPT ![w] = NoJob]
  BY DEF Hang
<1>4. casualties' = casualties \cup {s}
  BY DEF Hang
<1>5. \A t \in Submissions : Queued(t)' <=> Queued(t)
  BY QueueSame DEF Hang
<1>6. TypeOK'
  BY <1>1, <1>4 DEF TypeOK, Hang, Fault, Goto, WorkerStates
<1> HIDE DEF s
<1>7. \A t \in Submissions : Held(t)' <=> Held(t) /\ t # s
  BY <1>1, <1>3 DEF Held, OneJobPerSubmission, TypeOK, s
<1>8. OneJobPerSubmission'
  BY <1>3, <1>5, <1>7 DEF Hang, OneJobPerSubmission, TypeOK
<1>9. LockOnlyToReceive' /\ HoldsJobWhileJudging'
  BY DEF Hang, Goto, LockOnlyToReceive, HoldsJobWhileJudging, TypeOK
<1>10. CustodyMeansUnfinished'
  BY <1>1, <1>2, <1>3, <1>5, <1>7
  DEF Hang, Goto, CustodyMeansUnfinished, InCustody, Unfinished, TypeOK
<1>11. NoSilentLoss'
  BY <1>4, <1>5, <1>7
  DEF Hang, NoSilentLoss, Stranded, InCustody, Unfinished
<1> QED BY <1>6, <1>8, <1>9, <1>10, <1>11

\* A restart strands every row without a verdict and leaves no job.
LEMMA RestartIInv ==
  ASSUME IInv, Restart
  PROVE  IInv'
<1> USE ConstantsAssumption DEF IInv
<1>1. channel' = <<>> /\ Len(channel') = 0
  BY DEF Restart
<1>2. \A s \in Submissions : ~Queued(s)'
  BY <1>1 DEF Queued
<1>3. \A s \in Submissions : ~InCustody(s)'
  BY <1>2 DEF Restart, InCustody, Held, TypeOK
<1>4. TypeOK'
  BY <1>1 DEF TypeOK, Restart, Fault, HandlerStates, WorkerStates
<1>5. OneJobPerSubmission'
  BY <1>1, <1>2 DEF Restart, OneJobPerSubmission, TypeOK
<1>6. LockOnlyToReceive' /\ HoldsJobWhileJudging'
  BY DEF Restart, LockOnlyToReceive, HoldsJobWhileJudging
<1>7. CustodyMeansUnfinished'
  BY <1>2, <1>3 DEF Restart, CustodyMeansUnfinished, Unfinished, TypeOK
<1>8. NoSilentLoss'
  BY <1>3 DEF Restart, NoSilentLoss, Stranded, Unfinished
<1> QED BY <1>4, <1>5, <1>6, <1>7, <1>8

\* The invariant speaks of nothing but the variables.
LEMMA StutterIInv ==
  ASSUME IInv, UNCHANGED vars
  PROVE  IInv'
<1>1. \A s \in Submissions : Queued(s)' <=> Queued(s)
  BY QueueSame DEF vars
<1> QED
  BY <1>1
  DEF vars, IInv, TypeOK, OneJobPerSubmission, LockOnlyToReceive,
      HoldsJobWhileJudging, CustodyMeansUnfinished, NoSilentLoss, Stranded,
      Unfinished, InCustody, Held

\* Every step of the judge queue keeps the inductive invariant.
LEMMA NextIInv ==
  ASSUME IInv, [Next]_vars
  PROVE  IInv'
<1>1. CASE \E s \in Submissions : HandlerStep(s)
  BY <1>1, InsertIInv, SendIInv, SendClosedIInv, DisconnectIInv DEF HandlerStep
<1>2. CASE \E w \in Workers : WorkerStep(w)
  BY <1>2, LockRxIInv, RecvIInv, MarkRunningIInv, PrepareIInv, RunCasesIInv,
     FinishIInv, PanicIInv, HangIInv
  DEF WorkerStep
<1>3. CASE Restart
  BY <1>3, RestartIInv
<1>4. CASE UNCHANGED vars
  BY <1>4, StutterIInv
<1> QED BY <1>1, <1>2, <1>3, <1>4 DEF Next

\* Every reachable state satisfies the inductive invariant.
THEOREM InductiveInvariant == Spec => []IInv
BY InitIInv, NextIInv, PTL DEF Spec

\* No submission is lost without a fault, whatever the load on the channel.
THEOREM LossNeedsFault == Spec => []NoSilentLoss
BY InductiveInvariant, PTL DEF IInv

-----------------------------------------------------------------------------
(* What a step may do to a row.                                            *)

\* No step takes the status of a row back.
LEMMA StepAdvances ==
  ASSUME IInv, [Next]_vars, NEW s \in Submissions, row'[s] # row[s]
  PROVE  Progress(row'[s]) > Progress(row[s])
<1> USE DEF IInv
<1>1. ASSUME NEW t \in Submissions, Insert(t)
      PROVE  Progress(row'[s]) > Progress(row[s])
  <2>1. row[t] = "none"
    BY <1>1 DEF Insert, CustodyMeansUnfinished
  <2> QED
    BY <1>1, <2>1 DEF Insert, Stored, WriteFailed, CutOff, Progress, TypeOK
<1>2. ASSUME NEW w \in Workers, MarkRunning(w)
      PROVE  Progress(row'[s]) > Progress(row[s])
  <2>1. job[w] \in Submissions /\ row[job[w]] = "pending"
    BY <1>2, ConstantsAssumption
    DEF MarkRunning, HoldsJobWhileJudging, CustodyMeansUnfinished, TypeOK
  <2> QED
    BY <1>2, <2>1 DEF MarkRunning, Stored, WriteFailed, CutOff, Progress, TypeOK
<1>3. ASSUME NEW w \in Workers, Finish(w)
      PROVE  Progress(row'[s]) > Progress(row[s])
  <2>1. job[w] \in Submissions /\ row[job[w]] \in {"pending", "running"}
    BY <1>3, ConstantsAssumption
    DEF Finish, HoldsJobWhileJudging, CustodyMeansUnfinished, InCustody, Held,
        Unfinished, TypeOK
  <2>2. outcome[w] \in Terminal
    BY <1>3 DEF Finish, HoldsJobWhileJudging, TypeOK
  <2>3. Progress(outcome[w]) = 3
    BY <2>2 DEF Progress, Terminal, AllCaseVerdicts
  <2>4. Progress(row[job[w]]) < 3
    BY <2>1 DEF Progress
  <2>5. s = job[w] /\ row'[s] = outcome[w]
    BY <1>3, <2>1 DEF Finish, Stored, WriteFailed, CutOff, TypeOK
  <2> QED BY <2>3, <2>4, <2>5 DEF Progress
<1>4. ~(UNCHANGED row)
  OBVIOUS
<1> QED
  BY <1>1, <1>2, <1>3, <1>4
  DEF Next, HandlerStep, WorkerStep, Send, SendClosed, Disconnect, LockRx, Recv,
      Prepare, RunCases, Panic, Hang, Restart, vars

\* A status a client has seen is only ever replaced by a later one, and a
\* verdict by nothing.
THEOREM StatusAdvances == Spec => StatusOnlyAdvances
<1>1. ASSUME IInv, [Next]_vars
      PROVE  [\A s \in Submissions :
                row'[s] # row[s] => Progress(row'[s]) > Progress(row[s])]_vars
  BY <1>1, StepAdvances
<1> QED
  BY <1>1, InductiveInvariant, PTL DEF Spec, StatusOnlyAdvances

-----------------------------------------------------------------------------
(* The judge implements the life cycle.                                    *)

Stages == [s \in Submissions |-> Stage(s)]

\* The stage of a submission depends on who holds it and on its row.
LEMMA StageKept ==
  ASSUME NEW s \in Submissions,
         Held(s)' <=> Held(s),
         (handler[s] = "send" \/ Queued(s))' <=> handler[s] = "send" \/ Queued(s),
         Stuck' <=> Stuck,
         row'[s] = row[s]
  PROVE  Stage(s)' = Stage(s)
BY DEF Stage, Live, InCustody, Unfinished

\* A worker with a job or at the receiver is one that is left.
LEMMA BusyNotStuck ==
  ASSUME IInv, NEW w \in Workers, wpc[w] \notin {"hung", "dead"}
  PROVE  ~Stuck
BY DEF Stuck

\* A job in the queue or on its way there is with no worker.
LEMMA StageOfCustody ==
  ASSUME IInv, NEW s \in Submissions
  PROVE  /\ Held(s) => Stage(s) = "judging"
         /\ (handler[s] = "send" \/ Queued(s)) /\ ~Stuck => Stage(s) = "waiting"
         /\ Live(s) => Stage(s) \in {"waiting", "judging"}
         /\ ~InCustody(s) /\ row[s] = "none" => Stage(s) = "unsent"
         /\ ~InCustody(s) /\ row[s] \in Terminal => Stage(s) = "settled"
         /\ Stranded(s) => Stage(s) = "stranded"
<1>1. Held(s) => ~Stuck
  BY ConstantsAssumption DEF IInv, HoldsJobWhileJudging, Held, Stuck, TypeOK
<1> QED
  BY <1>1
  DEF IInv, OneJobPerSubmission, Stage, Live, InCustody, Stranded, Unfinished,
      Terminal, AllCaseVerdicts

\* Under the mapping, nothing has been sent at the start.
LEMMA InitLifecycle == Init => Lifecycle!Init
<1> SUFFICES ASSUME Init PROVE Lifecycle!Init
  OBVIOUS
<1>1. ASSUME NEW s \in Submissions
      PROVE  Stage(s) = "unsent" /\ row[s] = "none"
  <2>1. channel = <<>> /\ Len(channel) = 0
    BY DEF Init
  <2>2. ~Queued(s)
    BY <2>1 DEF Queued
  <2>3. ~Held(s)
    BY ConstantsAssumption DEF Init, Held
  <2> QED BY <2>2, <2>3 DEF Init, Stage, Live, InCustody, Unfinished
<1> QED BY <1>1 DEF Init, Lifecycle!Init

\* An Insert is the Submit of the life cycle.
LEMMA InsertLifecycle ==
  ASSUME IInv, IInv', NEW s \in Submissions, Insert(s)
  PROVE  Lifecycle!Next \/ UNCHANGED Lifecycle!vars
<1>1. /\ \A t \in Submissions : (Queued(t)' <=> Queued(t)) /\ (Held(t)' <=> Held(t))
      /\ Stuck' <=> Stuck
  BY QueueSame DEF Insert, Held, Stuck
<1>2. ~InCustody(s) /\ row[s] = "none"
  BY DEF IInv, Insert, CustodyMeansUnfinished
<1>3. Stage(s) = "unsent"
  BY <1>2, StageOfCustody
<1>4. ASSUME NEW t \in Submissions, t # s PROVE Stage(t)' = Stage(t)
  <2>1. handler'[t] = handler[t] /\ row'[t] = row[t]
    BY <1>4 DEF IInv, TypeOK, Insert, Stored, WriteFailed, CutOff
  <2> QED BY <1>1, <2>1, StageKept
<1>5. CASE row' = row
  <2>1. handler'[s] = "failed"
    BY <1>2, <1>5 DEF IInv, TypeOK, Insert, Stored, WriteFailed, CutOff
  <2>2. Stage(s)' = "unsent"
    BY <1>1, <1>2, <1>5, <2>1 DEF Stage, Live, InCustody, Unfinished
  <2>3. Stages' = Stages
    BY <1>3, <1>4, <2>2 DEF Stages
  <2> QED BY <1>5, <2>3 DEF Lifecycle!vars, Stages
<1>6. CASE row' = [row EXCEPT ![s] = "pending"]
  <2>1. Stage(s)' \in {"waiting", "stranded"}
    BY <1>1, <1>2, <1>6
    DEF Stage, Live, InCustody, Unfinished, IInv, TypeOK
  <2>2. Stages' = [Stages EXCEPT ![s] = Stage(s)']
    BY <1>4 DEF Stages
  <2>3. Lifecycle!Submit(s)
    BY <1>3, <1>6, <2>1, <2>2 DEF Lifecycle!Submit, Stages
  <2> QED BY <2>3 DEF Lifecycle!Next
<1> QED BY <1>5, <1>6 DEF Insert, Stored, WriteFailed, CutOff

\* A step that writes no row, gives nobody a job and leaves those that are
\* still live where they are, strands the others.
LEMMA StrandLifecycle ==
  ASSUME IInv, IInv',
         row' = row,
         \A t \in Submissions : Live(t)' => Live(t) /\ (Held(t)' <=> Held(t))
  PROVE  Lifecycle!Next
<1>1. PICK S \in SUBSET Submissions :
        \A t \in Submissions : t \in S <=> Live(t) /\ ~Live(t)'
  <2> WITNESS {t \in Submissions : Live(t) /\ ~Live(t)'} \in SUBSET Submissions
  <2> QED OBVIOUS
<1>2. \A s \in S : Stage(s) \in {"waiting", "judging"}
  BY <1>1, StageOfCustody
<1>3. ASSUME NEW s \in S PROVE Stage(s)' = "stranded"
  <2>1. Unfinished(s)
    BY <1>1 DEF IInv, CustodyMeansUnfinished, Live
  <2> QED
    BY <1>1, <2>1 DEF Stage, Unfinished
<1>4. ASSUME NEW s \in Submissions \ S PROVE Stage(s)' = Stage(s)
  BY <1>1 DEF Stage, Unfinished
<1>5. Stages' = [s \in Submissions |-> IF s \in S THEN "stranded" ELSE Stage(s)]
  BY <1>3, <1>4 DEF Stages
<1>6. Lifecycle!Strand(S)
  BY <1>2, <1>5 DEF Lifecycle!Strand, Stages
<1> QED BY <1>6 DEF Lifecycle!Next

\* Moving a job from its handler to the channel cannot be seen from outside.
LEMMA SendQuiet ==
  ASSUME IInv, IInv', NEW s \in Submissions, Send(s)
  PROVE  UNCHANGED Lifecycle!vars
<1>1. /\ row' = row
      /\ \A t \in Submissions : Held(t)' <=> Held(t)
      /\ Stuck' <=> Stuck
  BY DEF Send, Held, Stuck
<1>2. \A t \in Submissions :
        (handler[t] = "send" \/ Queued(t))' <=> handler[t] = "send" \/ Queued(t)
  BY QueueAppend DEF Send, IInv, TypeOK
<1>3. Stages' = Stages
  BY <1>1, <1>2, StageKept DEF Stages
<1> QED BY <1>1, <1>3 DEF Lifecycle!vars, Stages

\* Nor can the steps of a worker between two writes to the row.
LEMMA WorkerQuiet ==
  ASSUME IInv, IInv', NEW w \in Workers, LockRx(w) \/ Prepare(w) \/ RunCases(w)
  PROVE  UNCHANGED Lifecycle!vars
<1>1. row' = row /\ \A t \in Submissions : Held(t)' <=> Held(t)
  BY DEF LockRx, Prepare, RunCases, Held
<1>4. /\ wpc[w] \notin {"hung", "dead"}
      /\ wpc'[w] \notin {"hung", "dead"}
  BY DEF LockRx, Prepare, RunCases, Goto, Decide, IInv, TypeOK
<1>5. ~Stuck /\ ~Stuck'
  BY <1>4 DEF Stuck
<1>2. \A t \in Submissions :
        (handler[t] = "send" \/ Queued(t))' <=> handler[t] = "send" \/ Queued(t)
  BY QueueSame DEF LockRx, Prepare, RunCases
<1>3. Stages' = Stages
  BY <1>1, <1>2, <1>5, StageKept DEF Stages
<1> QED BY <1>1, <1>3 DEF Lifecycle!vars, Stages

\* A handler whose send fails, or that is dropped, strands its submission,
\* unless that had happened with the loss of the last worker.
LEMMA CutOffLifecycle ==
  ASSUME IInv, IInv', NEW s \in Submissions, SendClosed(s) \/ Disconnect(s)
  PROVE  Lifecycle!Next
<1>1. /\ row' = row
      /\ \A t \in Submissions :
           (Queued(t)' <=> Queued(t)) /\ (Held(t)' <=> Held(t))
      /\ Stuck' <=> Stuck
  BY QueueSame DEF SendClosed, Disconnect, Held, Stuck
<1>2. \A t \in Submissions : handler'[t] = "send" => handler[t] = "send"
  BY DEF SendClosed, Disconnect, IInv, TypeOK
<1>3. \A t \in Submissions : Live(t)' => Live(t) /\ (Held(t)' <=> Held(t))
  BY <1>1, <1>2 DEF Live, InCustody
<1> QED BY <1>1, <1>3, StrandLifecycle

\* A Recv is the start of a judgement of the life cycle.
LEMMA RecvLifecycle ==
  ASSUME IInv, IInv', NEW w \in Workers, Recv(w)
  PROVE  Lifecycle!Next
<1>1. PICK s \in Submissions :
        /\ s = Head(channel)
        /\ Queued(s)
        /\ \A t \in Submissions : Queued(t)' <=> Queued(t) /\ t # s
  BY QueueTail DEF Recv, IInv, TypeOK, OneJobPerSubmission
<1>2. job' = [job EXCEPT ![w] = s] /\ job[w] = NoJob
  BY <1>1 DEF Recv, IInv, HoldsJobWhileJudging
<1>3. \A t \in Submissions : Held(t)' <=> Held(t) \/ t = s
  BY <1>1, <1>2, ConstantsAssumption DEF Held, IInv, TypeOK
<1>8. ~Stuck /\ ~Stuck'
  BY DEF Recv, Goto, Stuck, IInv, TypeOK
<1>4. Stage(s) = "waiting" /\ Stage(s)' = "judging"
  BY <1>1, <1>3, <1>8, StageOfCustody DEF Stage, Live, InCustody
<1>5. ASSUME NEW t \in Submissions, t # s PROVE Stage(t)' = Stage(t)
  BY <1>1, <1>3, <1>5, <1>8, StageKept DEF Recv
<1>6. Stages' = [Stages EXCEPT ![s] = "judging"]
  BY <1>4, <1>5 DEF Stages
<1>7. Lifecycle!Start(s)
  BY <1>1, <1>4, <1>6 DEF Lifecycle!Start, Stages, Recv
<1> QED BY <1>1, <1>7 DEF Lifecycle!Next

\* The write of "running" shows a judgement that has started, or is lost.
LEMMA MarkRunningLifecycle ==
  ASSUME IInv, IInv', NEW w \in Workers, MarkRunning(w)
  PROVE  Lifecycle!Next \/ UNCHANGED Lifecycle!vars
<1>1. PICK s \in Submissions : s = job[w] /\ Held(s) /\ row[s] = "pending"
  BY ConstantsAssumption
  DEF MarkRunning, IInv, HoldsJobWhileJudging, CustodyMeansUnfinished, Held,
      TypeOK
<1>2. \A t \in Submissions : (Queued(t)' <=> Queued(t)) /\ (Held(t)' <=> Held(t))
  BY QueueSame DEF MarkRunning, Held
<1>3. row' = row \/ row' = [row EXCEPT ![s] = "running"]
  BY <1>1 DEF MarkRunning, Stored, WriteFailed, CutOff
<1>8. ~Stuck /\ ~Stuck'
  BY DEF MarkRunning, Goto, Stuck, IInv, TypeOK
<1>4. ASSUME NEW t \in Submissions PROVE Stage(t)' = Stage(t)
  <2>1. CASE t = s
    BY <1>1, <1>2, <1>8, <2>1 DEF Stage, Live, InCustody, Unfinished
  <2>2. CASE t # s
    BY <1>1, <1>2, <1>3, <1>8, <2>2, StageKept DEF MarkRunning, IInv, TypeOK
  <2> QED BY <2>1, <2>2
<1>5. Stages' = Stages
  BY <1>4 DEF Stages
<1>6. CASE row' = row
  BY <1>5, <1>6 DEF Lifecycle!vars, Stages
<1>7. CASE row' = [row EXCEPT ![s] = "running"]
  <2>1. Stage(s) = "judging"
    BY <1>1, StageOfCustody
  <2>2. Lifecycle!ShowRunning(s)
    BY <1>1, <1>5, <1>7, <2>1 DEF Lifecycle!ShowRunning, Stages
  <2> QED BY <1>1, <2>2 DEF Lifecycle!Next
<1> QED BY <1>3, <1>6, <1>7

\* The final write settles a submission, or strands it.
LEMMA FinishLifecycle ==
  ASSUME IInv, IInv', NEW w \in Workers, Finish(w)
  PROVE  Lifecycle!Next
<1>1. PICK s \in Submissions : s = job[w] /\ Held(s)
  BY DEF Finish, IInv, HoldsJobWhileJudging, Held, TypeOK
<1>2. /\ handler[s] # "send"
      /\ ~Queued(s)
      /\ Stage(s) = "judging"
      /\ Unfinished(s)
  BY <1>1, StageOfCustody
  DEF IInv, OneJobPerSubmission, CustodyMeansUnfinished, InCustody
<1>3. /\ job' = [job EXCEPT ![w] = NoJob]
      /\ \A t \in Submissions : Queued(t)' <=> Queued(t)
  BY QueueSame DEF Finish
<1>4. \A t \in Submissions : Held(t)' <=> Held(t) /\ t # s
  BY <1>1, <1>3, ConstantsAssumption DEF Held, IInv, OneJobPerSubmission, TypeOK
<1>5. PICK v \in Terminal : v = outcome[w]
  BY DEF Finish, IInv, HoldsJobWhileJudging, TypeOK
<1>6. row' = row \/ row' = [row EXCEPT ![s] = v]
  BY <1>1, <1>5 DEF Finish, Stored, WriteFailed, CutOff
<1>11. ~Stuck /\ ~Stuck'
  BY DEF Finish, Goto, Stuck, IInv, TypeOK
<1>7. ASSUME NEW t \in Submissions \ {s} PROVE Stage(t)' = Stage(t)
  BY <1>3, <1>4, <1>6, <1>11, StageKept DEF Finish, IInv, TypeOK
<1>8. ~InCustody(s)'
  BY <1>2, <1>3, <1>4 DEF Finish, InCustody
<1>9. CASE row' = row
  <2>1. \A t \in Submissions : Live(t)' => Live(t) /\ (Held(t)' <=> Held(t))
    BY <1>3, <1>4, <1>8, <1>11 DEF Finish, Live, InCustody
  <2> QED BY <1>9, <2>1, StrandLifecycle
<1>10. CASE row' = [row EXCEPT ![s] = v]
  <2>1. row'[s] = v /\ v \notin {"none", "pending", "running"}
    BY <1>5, <1>10 DEF IInv, TypeOK, Terminal, AllCaseVerdicts
  <2>2. Stage(s)' = "settled"
    BY <1>8, <2>1 DEF Stage, Live, Unfinished
  <2>3. Stages' = [Stages EXCEPT ![s] = "settled"]
    BY <1>7, <2>2 DEF Stages
  <2>4. Lifecycle!Settle(s)
    BY <1>2, <1>10, <2>3 DEF Lifecycle!Settle, Stages
  <2> QED BY <2>4 DEF Lifecycle!Next
<1> QED BY <1>6, <1>9, <1>10

\* A panic or a hang strands the job of its worker, and with the last worker
\* all that wait.
LEMMA WorkerLostLifecycle ==
  ASSUME IInv, IInv', NEW w \in Workers, Panic(w) \/ Hang(w)
  PROVE  Lifecycle!Next
<1>1. PICK s \in Submissions : s = job[w] /\ Held(s)
  BY DEF Panic, Hang, IInv, HoldsJobWhileJudging, Held, TypeOK
<1>2. /\ job' = [job EXCEPT ![w] = NoJob]
      /\ row' = row
      /\ handler' = handler
      /\ wpc[w] = "cases"
  BY DEF Panic, Hang
<1>3. \A t \in Submissions : Held(t)' <=> Held(t) /\ t # s
  BY <1>1, <1>2, ConstantsAssumption DEF Held, IInv, OneJobPerSubmission, TypeOK
<1>4. channel' = <<>> \/ channel' = channel
  BY DEF Panic, Hang
<1>5. \A t \in Submissions : Queued(t)' => Queued(t)
  BY <1>4, QueueEmpty, QueueSame
<1>6. ~Stuck
  BY <1>2 DEF Stuck
<1>7. handler[s] # "send" /\ ~Queued(s)
  BY <1>1 DEF IInv, OneJobPerSubmission
<1>8. \A t \in Submissions : Live(t)' => Live(t) /\ (Held(t)' <=> Held(t))
  BY <1>2, <1>3, <1>5, <1>6, <1>7 DEF Live, InCustody
<1> QED BY <1>2, <1>8, StrandLifecycle

\* A restart strands whatever waits or is judged.
LEMMA RestartLifecycle ==
  ASSUME IInv, IInv', Restart
  PROVE  Lifecycle!Next
<1>1. \A s \in Submissions : ~Queued(s)'
  BY QueueEmpty DEF Restart
<1>2. \A s \in Submissions : ~InCustody(s)'
  BY <1>1, ConstantsAssumption DEF Restart, InCustody, Held, IInv, TypeOK
<1>3. row' = row
  BY DEF Restart
<1> QED BY <1>2, <1>3, StrandLifecycle DEF Live

\* Every step of the judge queue is a step of the life cycle or a stutter.
LEMMA StepLifecycle ==
  ASSUME IInv, IInv', [Next]_vars
  PROVE  [Lifecycle!Next]_(Lifecycle!vars)
<1>1. CASE \E s \in Submissions : HandlerStep(s)
  <2>1. PICK s \in Submissions : HandlerStep(s)
    BY <1>1
  <2>2. CASE Send(s)
    BY <2>2, SendQuiet
  <2> QED
    BY <2>1, <2>2, InsertLifecycle, CutOffLifecycle DEF HandlerStep
<1>2. CASE \E w \in Workers : WorkerStep(w)
  BY <1>2, WorkerQuiet, RecvLifecycle, MarkRunningLifecycle, FinishLifecycle,
     WorkerLostLifecycle
  DEF WorkerStep
<1>3. CASE Restart
  BY <1>3, RestartLifecycle
<1>4. CASE UNCHANGED vars
  <2>1. Stages' = Stages /\ row' = row
    BY <1>4 DEF vars, Stages, Stage, Live, Stuck, InCustody, Held, Queued, Unfinished
  <2> QED BY <2>1 DEF Stages, Lifecycle!vars
<1> QED BY <1>1, <1>2, <1>3, <1>4 DEF Next

\* Every behaviour of handlers, workers and faults is a behaviour of the life
\* cycle that SubmissionLifecycle promises (its safety part).
THEOREM RefinesLifecycle == Spec => Lifecycle!Spec
<1>1. Init => Lifecycle!Init
  BY InitLifecycle
<1>2. IInv /\ IInv' /\ [Next]_vars => [Lifecycle!Next]_(Lifecycle!vars)
  BY StepLifecycle
<1> QED
  BY <1>1, <1>2, InductiveInvariant, PTL DEF Spec, Lifecycle!Spec
===============================================================================
