---------------------------- MODULE MCConversion ----------------------------
(* Small instances of Conversion for TLC.                                  *)
EXTENDS Conversion, TLC

CONSTANTS u1, u2, j1, j2, j3, s1, s2, w1, w2

\* One user's requests; the last one, where there is one, names another's video.
MCOwner == [j \in Jobs |-> u1]
MCForeign == Jobs \cap {j3}

\* Two slots of one worker, or one slot in each of two.
OneWorker  == [s \in Slots |-> w1]
TwoWorkers == [s \in Slots |-> IF s = s1 THEN w1 ELSE w2]

\* The requests of one user for a video of their own are alike, and so are the two workers
\* with their slots: no definition tells them apart.
SwapWorkers == s1 :> s2 @@ s2 :> s1 @@ w1 :> w2 @@ w2 :> w1
MCSymmetry  == Permutations({j1, j2}) \cup {SwapWorkers}
=============================================================================
