-------------------------- MODULE SubmissionLifecycle --------------------------
(***************************************************************************)
(* What the judge promises to whoever polls a submission: it waits, it is  *)
(* judged at most once, and the status shown only moves forward until a    *)
(* verdict, which stays.  A submission may also be stranded: its row keeps *)
(* the status it had and nobody will touch it again.                       *)
(*                                                                         *)
(* JudgeQueue implements this specification (Lifecycle there).             *)
(***************************************************************************)
CONSTANTS Submissions, Verdicts

VARIABLES
  stage,  \* where a submission is, seen from outside
  shown   \* the status a poll reads

vars == <<stage, shown>>

Init ==
  /\ stage = [s \in Submissions |-> "unsent"]
  /\ shown = [s \in Submissions |-> "none"]

\* The row appears, with a job behind it or, after an error, without one.
Submit(s) ==
  /\ stage[s] = "unsent"
  /\ \E next \in {"waiting", "stranded"} : stage' = [stage EXCEPT ![s] = next]
  /\ shown' = [shown EXCEPT ![s] = "pending"]

Start(s) ==
  /\ stage[s] = "waiting"
  /\ stage' = [stage EXCEPT ![s] = "judging"]
  /\ UNCHANGED shown

ShowRunning(s) ==
  /\ stage[s] = "judging"
  /\ shown[s] = "pending"
  /\ shown' = [shown EXCEPT ![s] = "running"]
  /\ UNCHANGED stage

Settle(s) ==
  /\ stage[s] = "judging"
  /\ stage' = [stage EXCEPT ![s] = "settled"]
  /\ \E v \in Verdicts : shown' = [shown EXCEPT ![s] = v]

\* A fault may cut off any number of live submissions at once.
Strand(S) ==
  /\ \A s \in S : stage[s] \in {"waiting", "judging"}
  /\ stage' = [s \in Submissions |-> IF s \in S THEN "stranded" ELSE stage[s]]
  /\ UNCHANGED shown

Next ==
  \/ \E s \in Submissions :
       Submit(s) \/ Start(s) \/ ShowRunning(s) \/ Settle(s)
  \/ \E S \in SUBSET Submissions : Strand(S)

Spec == Init /\ [][Next]_vars

\* A waiting submission is started and a judged one settled, unless stranded.
FairSpec ==
  /\ Spec
  /\ \A s \in Submissions : WF_vars(Start(s)) /\ WF_vars(Settle(s))
================================================================================
