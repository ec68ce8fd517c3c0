CONSTANTS
    c1 = c1  c2 = c2
    Nothing = Nothing
    Clients = {c1, c2}
    Second = 3
    Capacity = 2
    Rate = 2
    MinTtl = 5
    Life = 2
    MaxLag = 1
    MaxTime = 7
    MaxAsked = 4
SPECIFICATION Spec
INVARIANTS BucketIsSound WindowBound WaitSuffices LoggedOutIsRefused
CHECK_DEADLOCK FALSE
