----------------------------- MODULE MCAccounts -----------------------------
(* A small instance of Accounts for TLC.                                   *)
EXTENDS Accounts

CONSTANTS e1, e2, i1, i2, p1, p2, t1, t2, c1, c2
=============================================================================
