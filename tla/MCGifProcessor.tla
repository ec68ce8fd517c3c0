--------------------------- MODULE MCGifProcessor ---------------------------
(* Small instances of GifProcessor for TLC.                                *)
EXTENDS GifProcessor

CONSTANTS j1, j2, j3, v1, v2, s1, s2

\* The first two jobs convert the same video.
MCVideoOf == [j \in Jobs |-> IF j = j3 THEN v2 ELSE v1]
=============================================================================
