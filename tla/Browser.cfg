SPECIFICATION Spec
CONSTANTS
    Users = {u1, u2}
    Names = {n1, n2}
    Rows = {}
    CredentialIDs = {}
    SessionIDs = {}
    SessionTokens = {st1, st2}
    GuestTokens = {gt1, gt2}
    Requests = {f1, f2}
    MaxSignCount = 0
    MaxFaultKinds = 1
    Nil = Nil
SYMMETRY Symmetry
INVARIANT TypeOK
INVARIANT GuestIdempotentInTurn
INVARIANT PageMatchesSession
INVARIANT LogoutSticks
INVARIANT PasskeyEndsGuestCookie
INVARIANT GuestReplyNamesAGuest
