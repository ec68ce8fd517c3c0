-------------------------- MODULE MCUploadPipeline --------------------------
(* Small instances of UploadPipeline for TLC.                              *)
EXTENDS UploadPipeline

CONSTANTS u1, u2, k1, k2, s1, s2

\* A key of each user.
MCKeyOwner == [k \in Keys |-> IF k = k2 THEN u2 ELSE u1]
====
