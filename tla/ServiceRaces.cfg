CONSTANTS
    Users = {u1, u2}
    Names = {n1, n2}
    Rows = {c1, c2}
    CredentialIDs = {k1, k2}
    SessionIDs = {s1, s2, s3}
    SessionTokens = {st1}
    GuestTokens = {gt1}
    Requests = {r1, r2}
    MaxSignCount = 0
    Nil = Nil
SPECIFICATION Spec
SYMMETRY Symmetry
INVARIANTS
    TypeOK
    RegisteredUsernameUnique
    CeremonyIsOneShot
    CeremonyMatchesAccount
    OnePasskeyPerAccount
    SessionHolderCanLogIn
    DeleteTouchesOwnCredential
    IInv
PROPERTY ImplementsLifecycle
