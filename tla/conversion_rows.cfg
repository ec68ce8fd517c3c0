CONSTANTS
    u1 = u1  u2 = u2  j1 = j1  j2 = j2  j3 = j3
    s1 = s1  s2 = s2  w1 = w1  w2 = w2
    NoJob = NoJob
    Users = {u1}
    Jobs = {j1, j2}
    Workers = {w1}
    Slots = {s1, s2}
    Owner <- MCOwner
    Foreign = {}
    WorkerOf <- OneWorker
    Limit = 1
    Faults = {"cache", "publish", "crash", "sigterm", "api"}
    MaxOutages = 2
SPECIFICATION FairSpec
INVARIANTS RowsAgree
PROPERTIES SettledRowIsFinal ImplementsBoard RequestsReturn AcceptedJobsSettle
CHECK_DEADLOCK FALSE
