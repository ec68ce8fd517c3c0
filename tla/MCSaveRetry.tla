----------------------------- MODULE MCSaveRetry -----------------------------
(* Small instances of SaveRetry for TLC.                                   *)
EXTENDS SaveRetry

CONSTANTS u1, m1, m2, m3, m4, s1, s2

\* Two messages of one user, one whose user id does not parse, and one of no user.
MCUserOf == [m \in Msgs |-> CASE m = m3 -> BadUser [] m = m4 -> NoUser [] OTHER -> u1]
=============================================================================
