----------------------------- MODULE MCJudgeQueue -----------------------------
(* Small instances of JudgeQueue for TLC. *)
EXTENDS JudgeQueue

CONSTANTS s1, s2, s3, w1, w2

MCSubmissions == {s1, s2, s3}
MCWorkers == {w1, w2}
AllFaults == {"db", "disconnect", "panic", "hang", "restart"}
===============================================================================
