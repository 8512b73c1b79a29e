------------------------------- MODULE MCAccounts -------------------------------
(* A small instance of Accounts for TLC. *)
EXTENDS Accounts, TLC

CONSTANTS r1, r2, r3, b1, b2, n1, n2, p1, p2

MCRequests  == {r1, r2, r3}
MCBrowsers  == {b1, b2}
MCNames     == {n1, n2}
MCPasswords == {p1, p2}

\* Requests, browsers, names and passwords are interchangeable.
MCSymmetry ==
  Permutations(Requests) \cup Permutations(Browsers) \cup Permutations(Names)
    \cup Permutations(Passwords)
===============================================================================
