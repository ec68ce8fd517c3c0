CONSTANTS
    j1 = j1  j2 = j2  j3 = j3  v1 = v1  v2 = v2  s1 = s1  s2 = s2
    Nothing = Nothing
    Jobs = {j1, j2, j3}
    Videos = {v1, v2}
    VideoOf <- MCVideoOf
    Slots = {s1, s2}
    Faults = {"ffmpeg", "crash"}
    MaxCrashes = 2
SPECIFICATION FairSpec
INVARIANTS GifsAgree
PROPERTIES JobsEnd
CHECK_DEADLOCK FALSE
