----------------------------- MODULE MCCommunity -----------------------------
(* A small instance of Community for TLC.                                  *)
EXTENDS Community

CONSTANTS u1, u2, k1, c1, c2
=============================================================================
