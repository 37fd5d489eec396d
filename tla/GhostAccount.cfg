CONSTANTS
    Users = {u1, u2}
    Names = {n1, n2}
    Rows = {c1}
    CredentialIDs = {k1}
    SessionIDs = {s1, s2}
    SessionTokens = {st1}
    GuestTokens = {}
    Requests = {r1}
    MaxSignCount = 0
    Nil = Nil
SPECIFICATION Spec
INVARIANTS
    NoGhostAccount
