CONSTANTS
    Users = {u1}
    Names = {n1}
    Rows = {c1}
    CredentialIDs = {k1}
    SessionIDs = {s1, s2, s3}
    SessionTokens = {st1}
    GuestTokens = {}
    Requests = {r1, r2}
    MaxSignCount = 2
    Nil = Nil
SPECIFICATION Spec
PROPERTIES
    SignCountNeverRegresses
