CONSTANTS
    u1 = u1  u2 = u2  k1 = k1  c1 = c1  c2 = c2
    Nothing = Nothing
    Users = {u1, u2}
    Keys = {k1}
    Clients = {c1, c2}
    MaxVersion = 2
SPECIFICATION Spec
INVARIANTS SharesAgree RowHasObject EditSeesItsVersion FriendsAgree
PROPERTIES ImplementsAccess
