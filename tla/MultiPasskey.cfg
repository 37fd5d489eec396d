CONSTANTS
    Users = {u1}
    Names = {n1}
    Rows = {c1, c2}
    CredentialIDs = {k1, k2}
    SessionIDs = {s1, s2, s3}
    SessionTokens = {st1}
    GuestTokens = {}
    Requests = {r1, r2}
    MaxSignCount = 0
    Nil = Nil
SPECIFICATION MultiFairSpec
PROPERTIES
    EveryRequestEnds
