CONSTANTS
    Users = {u1}
    Names = {n1}
    Rows = {c1, c2, c3}
    CredentialIDs = {k1, k2}
    SessionIDs = {s1}
    SessionTokens = {st1}
    GuestTokens = {gt1}
    Requests = {t1, t2}
    MaxSignCount = 1
    Nil = Nil
SPECIFICATION StoreFairSpec
INVARIANTS
    CredentialsTypeOK
    LiveCredentialIdUnique
    LockedRowIsLive
PROPERTY SoftDeleteEnds
PROPERTY DeletedCredentialsStay
