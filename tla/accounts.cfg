CONSTANTS
    e1 = e1  e2 = e2  i1 = i1  i2 = i2  p1 = p1  p2 = p2
    t1 = t1  t2 = t2  c1 = c1  c2 = c2
    Nothing = Nothing
    Emails = {e1}
    Ids = {i1, i2}
    Passwords = {p1, p2}
    Tokens = {t1, t2}
    Clients = {c1, c2}
    Faults = {"db", "mq", "smtp", "crash", "expire"}
    MaxVersion = 1
    MaxOutages = 1
SPECIFICATION FairSpec
INVARIANTS TablesAgree VerifiedByOwnLink StoredLinkIsMailed AnswersAreTrue
PROPERTIES MailedLinkWorks
