CONSTANTS
    Users = {u1, u2}
    Names = {n1}
    Rows = {c1, c2}
    CredentialIDs = {k1, k2}
    SessionIDs = {s1}
    SessionTokens = {st1}
    GuestTokens = {gt1}
    Requests = {t1, t2}
    MaxSignCount = 0
    Nil = Nil
SPECIFICATION StoreSpec
PROPERTIES
    LastCredentialGuard
SYMMETRY StoreSymmetry
