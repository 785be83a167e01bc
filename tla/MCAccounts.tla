----------------------------- MODULE MCAccounts -----------------------------
(* Model values for Accounts.                                              *)
EXTENDS Accounts, TLC

CONSTANTS u1, u2, e1, e2, p1, p2, r1, r2, s1, s2

MCFirst == [id |-> u1, email |-> e1, password |-> p1, role |-> "admin"]
MCSymmetry == Permutations({r1, r2}) \cup Permutations({s1, s2})
=============================================================================
