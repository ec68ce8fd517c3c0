CONSTANTS
    u1 = u1  m1 = m1  m2 = m2  m3 = m3  m4 = m4  s1 = s1  s2 = s2
    None = None
    BadUser = BadUser
    NoUser = NoUser
    Users = {u1}
    Msgs = {m1, m2, m3, m4}
    UserOf <- MCUserOf
    Slots = {s1, s2}
    MaxCopies = 2
    MaxFailures = 1
SPECIFICATION FairSpec
INVARIANTS MessagesKept AckedIsSaved
PROPERTIES CopiesDrain
CHECK_DEADLOCK FALSE
