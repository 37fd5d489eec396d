--------------------------- MODULE PasskeyService ---------------------------
(***************************************************************************)
(* The whole server as its router exposes it: concurrent requests of the   *)
(* auth and user handlers over the Postgres and Redis stores. Clients are  *)
(* not modelled: any request may arrive at any time, with any ceremony,    *)
(* cookie, credential and counter that exists.                             *)
(***************************************************************************)
EXTENDS AuthHandler, UserHandler

vars == <<users, credentials, tx, challenges, sessions, guests, req>>

Init ==
    /\ UsersInit
    /\ CredentialsInit
    /\ RedisInit
    /\ RequestsInit

\* The routes that keep a request in flight.
Arrive(r) ==
    \/ \E n \in Names : BeginRegister(r, n)
    \/ \E s \in SessionIDs, k \in CredentialIDs, n \in SignCounts : CompleteRegister(r, s, k, n)
    \/ \E s \in SessionIDs, k \in CredentialIDs, n \in SignCounts, g \in Opt(IssuedGuests) :
           CompleteLogin(r, s, k, n, g)
    \/ \E g \in Opt(IssuedGuests) : Guest(r, g)
    \/ \E g \in IssuedGuests, n \in Names : BeginPromote(r, g, n)
    \/ \E s \in SessionIDs, k \in CredentialIDs, n \in SignCounts, g \in Opt(IssuedGuests) :
           CompletePromote(r, s, k, n, g)
    \/ \E t \in IssuedSessions, c \in Rows : DeleteCredential(r, t, c)

RegisterStep(r) ==
    \/ BeginRegisterSave(r)
    \/ CompleteRegisterCreate(r)
    \/ CompleteRegisterTaken(r)
    \/ CompleteRegisterInsert(r)
    \/ CompleteRegisterExists(r)

LoginStep(r) ==
    \/ CompleteLoginResolve(r)
    \/ CompleteLoginUpdate(r)
    \/ CompleteLoginGone(r)
    \/ CompleteLoginSession(r)
    \/ DropGuest(r)

GuestStep(r) ==
    \/ GuestGet(r)
    \/ GuestCreateUser(r)
    \/ GuestMintToken(r)

PromoteStep(r) ==
    \/ BeginPromoteGet(r)
    \/ BeginPromoteSave(r)
    \/ CompletePromotePromote(r)
    \/ CompletePromoteRefused(r)
    \/ CompletePromoteInsert(r)
    \/ CompletePromoteExists(r)
    \/ CompletePromoteSession(r)

DeleteStep(r) ==
    \/ DeleteCredentialOwned(r)
    \/ DeleteCredentialNotOwned(r)
    \/ DeleteCredentialStep(r)
    \/ DeleteCredentialEnd(r)

\* A request in flight makes its next store call.
Step(r) ==
    \/ RegisterStep(r)
    \/ LoginStep(r)
    \/ GuestStep(r)
    \/ PromoteStep(r)
    \/ DeleteStep(r)
    \/ Exhausted(r)

ExpireKey == Expire /\ UNCHANGED <<postgres, req>>

Next ==
    \/ \E r \in Requests : Arrive(r) \/ Step(r) \/ Fail(r)
    \/ BeginLogin
    \/ \E t \in IssuedSessions : Logout(t)
    \/ ExpireKey

Spec == Init /\ [][Next]_vars

------------------------------------------------------------------------------
\* Every variable holds what its table, keyspace or goroutine can hold.
TypeOK ==
    /\ UsersTypeOK
    /\ CredentialsTypeOK
    /\ RedisTypeOK
    /\ RequestsTypeOK

\* One registered account per username, however /register/complete and
\* /promote/complete race for it after both begin handlers let it pass.
RegisteredUsernameUnique ==
    \A u, v \in Users :
        Registered(u) /\ Registered(v) /\ users[u].username = users[v].username => u = v

\* A ceremony serves one request: while a registration, promotion or log-in is
\* being completed its session id is out of the store for good and is no other
\* request's, and it yields at most one credential. A session id presented
\* twice, at once or one after the other, is taken once (GETDEL in
\* challenge.go).
CeremonyIsOneShot ==
    /\ \A r \in Requests : req[r].sid # Nil => challenges[req[r].sid].status = "gone"
    /\ \A r, q \in Requests : req[r].sid # Nil /\ req[r].sid = req[q].sid => r = q
    /\ \A c, d \in Rows :
           credentials[c].status # "absent" /\ credentials[d].status # "absent"
           /\ credentials[c].handle = credentials[d].handle => c = d

\* A credential came out of the ceremony that asked for its account: one begun
\* with /register/begin under the account's username for an account that never
\* was a guest, one begun with /promote/begin for this very guest and username
\* otherwise. No mix of begin and complete handlers crosses the two flows.
CeremonyMatchesAccount ==
    \A c \in Rows : credentials[c].status # "absent" =>
        LET u == credentials[c].user
            p == challenges[credentials[c].handle].payload
        IN  /\ p.username = users[u].username
            /\ \/ users[u].status = "registered" /\ p.kind = "register"
               \/ users[u].status = "promoted" /\ p.kind = "promote" /\ p.promoteUser = u

\* No account ever has two credentials: each ceremony makes the account it adds
\* its credential to, and two promotions of one guest cannot both succeed.
OnePasskeyPerAccount ==
    \A c, d \in Rows :
        credentials[c].status # "absent" /\ credentials[d].status # "absent"
        /\ credentials[c].user = credentials[d].user => c = d

\* Whoever holds a session can log in again once it ends: the account is
\* registered and has a live credential, for sessions of /login/complete and of
\* /promote/complete, whatever DELETE requests run beside them.
SessionHolderCanLogIn ==
    \A t \in SessionTokens : sessions[t].status = "stored" =>
        Registered(sessions[t].user) /\ LiveOf(sessions[t].user) # {}

\* The transaction of a DELETE works on the credential the request named and
\* on one of the account whose session asked for it, although the check and the
\* transaction are two calls; and it is open exactly while the request is in
\* SoftDelete, so no answer and no failure leaves a row locked.
DeleteTouchesOwnCredential ==
    \A r \in Requests :
        /\ tx[r].phase # "none" <=> At(r, "del_soft")
        /\ tx[r].phase # "none" => /\ tx[r].row = req[r].row
                                   /\ credentials[tx[r].row].user = req[r].user

\* The counter of a credential never goes back, except to zero: "the actual
\* rejection of new < stored is enforced by the library" (auth.go
\* recordCounterAnomalies).
SignCountNeverRegresses ==
    [][\A c \in Rows : \/ credentials'[c].sign_count >= credentials[c].sign_count
                       \/ credentials'[c].sign_count = 0]_vars

\* A username is taken only by an account that can be logged in to, or whose
\* credential is about to be inserted: a registration that did not complete
\* leaves no "ghost row blocking the username forever" (auth.go
\* registrationSession).
NoGhostAccount ==
    \A u \in Users : Registered(u) =>
        \/ LiveOf(u) # {}
        \/ \E r \in Requests : req[r].pc \in {"reg_insert", "prom_insert"} /\ req[r].user = u

\* Every request gets its response: no handler waits for ever on a row lock,
\* a unique index or another request.
EveryRequestEnds == \A r \in Requests : ~At(r, "idle") ~> At(r, "idle")
=============================================================================
