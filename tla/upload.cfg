CONSTANTS
    u1 = u1  u2 = u2  k1 = k1  k2 = k2  s1 = s1  s2 = s2
    Nothing = Nothing
    Users = {u1, u2}
    Keys = {k1, k2}
    KeyOwner <- MCKeyOwner
    Slots = {s1, s2}
    Faults = {"cache", "db", "ffmpeg", "expire", "crash", "sigterm"}
    MaxPuts = 2
    MaxOutages = 1
SPECIFICATION FairSpec
INVARIANTS RecordsAgree ReadyHasVideo VideoIsOwn
CHECK_DEADLOCK FALSE
PROPERTIES EventsSettle
