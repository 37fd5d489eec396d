-------------------------- MODULE PasskeyInvariants --------------------------
(***************************************************************************)
(* The inductive strengthening of the service's safety properties: what    *)
(* the requests that hold a ceremony know about the stores. The properties *)
(* themselves speak of the stores only and are not inductive: a request    *)
(* between Take and Insert carries the right to add one credential, and    *)
(* the invariants below say that nobody else has the same right.           *)
(***************************************************************************)
EXTENDS PasskeyService

\* A request that took a ceremony and has not inserted its credential yet ...
CompletingPcs == {"reg_create", "reg_insert", "prom_promote", "prom_insert"}

Completing(r) == req[r].pc \in CompletingPcs

\* ... and one that already owns the account the credential is for.
InsertingPcs == {"reg_insert", "prom_insert"}

Inserting(r) == req[r].pc \in InsertingPcs

Exists(c) == credentials[c].status # "absent"

\* A SoftDelete works on a row, and the row it holds was inserted.
LockInv ==
    \A t \in Requests :
        /\ tx[t].phase # "none" => tx[t].row \in Rows
        /\ tx[t].phase \in {"locked", "counted", "updated"} => Exists(tx[t].row)

\* A ceremony that a request or a credential came from was taken out of the
\* store, and no two of them came from the same one.
CeremonyInv ==
    /\ \A r \in Requests : Completing(r) => req[r].sid \in SessionIDs
    /\ \A c \in Rows : Exists(c) =>
           /\ credentials[c].handle \in SessionIDs
           /\ challenges[credentials[c].handle].status = "gone"
    /\ \A c \in Rows, r \in Requests : Exists(c) /\ Completing(r) =>
           credentials[c].handle # req[r].sid
    /\ CeremonyIsOneShot

\* A user that a promotion, a guest token or a promote ceremony names is a row
\* of users.
GuestPcs == {"guest_token", "prom_get", "prom_save", "prom_promote"}

GuestInv ==
    /\ \A r \in Requests : req[r].pc \in GuestPcs => req[r].user \in Users
    /\ \A g \in GuestTokens : guests[g].status # "unissued" => guests[g].user \in Users
    /\ \A s \in SessionIDs : challenges[s].payload.kind = "promote"
                               => challenges[s].payload.promoteUser \in Users

\* The account a request is about to insert a credential for is registered,
\* has no credential and is no other request's; an account with a credential
\* is registered and has that one only.
AccountInv ==
    /\ \A r \in Requests : Inserting(r) => req[r].user \in Users /\ Registered(req[r].user)
    /\ \A r, q \in Requests : Inserting(r) /\ Inserting(q) /\ req[r].user = req[q].user => r = q
    /\ \A c \in Rows : Exists(c) =>
           credentials[c].user \in Users /\ Registered(credentials[c].user)
    /\ \A c \in Rows, r \in Requests : Exists(c) /\ Inserting(r) =>
           credentials[c].user # req[r].user
    /\ OnePasskeyPerAccount

\* A name a request asks for is a username, and it reaches the users table by
\* way of a ceremony; a row that claimed none has none.
NamePcs == {"reg_save", "prom_get", "prom_save"}

NameInv ==
    /\ \A r \in Requests : req[r].pc \in NamePcs => req[r].name \in Names
    /\ \A s \in SessionIDs : challenges[s].payload.kind # "login"
                               => challenges[s].payload.username \in Names
    /\ \A u \in Users : ~Registered(u) => users[u].username = Nil

\* What a request that completes a ceremony remembers is what the begin handler
\* stored, and the account it made or promoted carries that name.
FlowOf(r) ==
    LET p == challenges[req[r].sid].payload
    IN  /\ req[r].pc \in {"reg_create", "reg_insert"}
               => p.kind = "register" /\ p.username = req[r].name
        /\ req[r].pc \in {"prom_promote", "prom_insert"}
               => p.kind = "promote" /\ p.username = req[r].name /\ p.promoteUser = req[r].user
        /\ At(r, "reg_insert")
               => users[req[r].user] = [status |-> "registered", username |-> req[r].name]
        /\ At(r, "prom_insert")
               => users[req[r].user] = [status |-> "promoted", username |-> req[r].name]

FlowInv == CeremonyMatchesAccount /\ \A r \in Requests : FlowOf(r)

\* No DELETE gets past the count, because no account has two credentials; so
\* no credential is ever deleted.
DeleteInv ==
    /\ \A t \in Requests : tx[t].phase \notin {"counted", "updated"}
    /\ \A c \in Rows : credentials[c].status # "deleted"
    /\ \A r \in Requests : tx[r].phase # "none" => Exists(tx[r].row)
    /\ DeleteTouchesOwnCredential

\* An account that can be logged in to.
CanLogIn(u) == u \in Users /\ Registered(u) /\ LiveOf(u) # {}

\* A request that is about to open a session does so for such an account, and
\* every session, open or ended, was opened for one.
SessionPcs == {"login_update", "login_session", "prom_session"}

SessionInv ==
    /\ \A r \in Requests : req[r].pc \in SessionPcs => CanLogIn(req[r].user)
    /\ \A t \in SessionTokens :
           IF sessions[t].status = "unissued" THEN sessions[t].user = Nil
                                              ELSE CanLogIn(sessions[t].user)

\* The inductive invariant as a whole: it, TypeOK and RegisteredUsernameUnique
\* hold together in every reachable state, and every step preserves them.
IInv ==
    /\ LockInv /\ CeremonyInv /\ GuestInv /\ AccountInv
    /\ NameInv /\ FlowInv /\ DeleteInv /\ SessionInv
=============================================================================
