CONSTANTS
    u1 = u1  u2 = u2  j1 = j1  j2 = j2  j3 = j3
    s1 = s1  s2 = s2  w1 = w1  w2 = w2
    NoJob = NoJob
    Users = {u1}
    Jobs = {j1, j2, j3}
    Workers = {w1, w2}
    Slots = {s1, s2}
    Owner <- MCOwner
    Foreign <- MCForeign
    WorkerOf <- TwoWorkers
    Limit = 1
    Faults = {"cache", "db", "ffmpeg", "publish", "lost", "crash", "cut"}
    MaxOutages = 1
SPECIFICATION Spec
SYMMETRY MCSymmetry
INVARIANTS TypeOK MessageInOnePlace UsageCoveredByGifs AckedJobHasGif ResultsAgree
CHECK_DEADLOCK FALSE
