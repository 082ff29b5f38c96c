----------------------------- MODULE MCAccounts -----------------------------
(* A small instance of Accounts for TLC.                                   *)
EXTENDS Accounts, TLC

CONSTANTS c1, u1, u2, l1, l2, r1, r2, none

Alike == Permutations(Calls) \cup Permutations(Logins)
=============================================================================
