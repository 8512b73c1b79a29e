------------------------------ MODULE MCStandings ------------------------------
(* Small instances of Standings for TLC. *)
EXTENDS Standings

MCListed     == {"A", "B", "C"}
MCOthers     == {"X"}
MCUnreadable == {"C"}
MCPoints     == [p \in MCListed |-> IF p = "A" THEN 2 ELSE 1]
MCUsers      == {1, 2, 3}
MCTimes      == {1, 3, 4}
MCMarks      == {-1, 2}
===============================================================================
