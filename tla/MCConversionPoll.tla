-------------------------- MODULE MCConversionPoll --------------------------
(* Small instances of ConversionPoll for TLC.                              *)
EXTENDS ConversionPoll

CONSTANTS u1, u2, j1, j2, s1, s2, w1, w2

\* Both jobs are u1's; u2, where there is one, is a stranger.
MCOwner == [j \in Jobs |-> u1]

\* Two slots of one worker, or one slot in each of two.
OneWorker  == [s \in Slots |-> w1]
TwoWorkers == [s \in Slots |-> IF s = s1 THEN w1 ELSE w2]
=============================================================================
