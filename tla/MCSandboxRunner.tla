--------------------------- MODULE MCSandboxRunner ---------------------------
(* Small instances of SandboxRunner for TLC. *)
EXTENDS SandboxRunner, TLC

CONSTANTS r1, r2, p1

Two == {r1, r2}
One == {p1}
None == {}
Alone == AllPrograms \ {"parent"}
Echoes == {"echo"}
Parents == {"parent"}

\* Runs are interchangeable.
MCSymmetry == Permutations(Two)
===============================================================================
