----------------------------- MODULE MCSubmitGate -----------------------------
(* Small instances of SubmitGate for TLC. *)
EXTENDS SubmitGate, TLC

CONSTANTS q1, q2, q3

ThreeRequests == {q1, q2, q3}

\* Requests are interchangeable.
MCSymmetry == Permutations(Requests)
===============================================================================
