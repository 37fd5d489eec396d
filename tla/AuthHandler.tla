---------------------------- MODULE AuthHandler ----------------------------
(***************************************************************************)
(* internal/api/handler/auth.go: registration, login, logout, guests and   *)
(* promotion. Each operator below is one handler step of request r, named  *)
(* for its handler and the store call it makes.                            *)
(***************************************************************************)
EXTENDS HandlerState

------------------------------------------------------------------------------
(* The WebAuthn library, as the handlers use it. It may always refuse: every *)
(* step below that consults it has an alternative in which it does.          *)

\* CreateCredential accepts a response only against session data that
\* BeginRegistration made: a login session has no user and no parameters.
LibCreates(p) == p.kind \in {"register", "promote"}

\* ValidateDiscoverableLogin refuses session data that names a user.
LibAsserts(p) == p.kind = "login"

\* The counters the library may return for an accepted assertion: the asserted
\* one if it is not below the stored one, or zero; else it may keep the stored.
LibSignCounts(stored, asserted) ==
    {n \in {stored, asserted} : n >= stored \/ n = 0}

------------------------------------------------------------------------------
(* Registration.                                                             *)

\* GetByUsername finds nobody; a taken name is a 409 and nothing else.
BeginRegister(r, n) ==
    /\ At(r, "idle")
    /\ ~UsernameTaken(n)
    /\ req' = [req EXCEPT ![r] = [Idle EXCEPT !.pc = "reg_save", !.name = n]]
    /\ UNCHANGED <<postgres, redis>>

BeginRegisterSave(r) ==
    /\ At(r, "reg_save")
    /\ \E s \in SessionIDs :
           ChallengeSave(s, [kind |-> "register", username |-> req[r].name,
                             promoteUser |-> Nil])
    /\ Respond(r)
    /\ UNCHANGED <<postgres, sessions, guests>>

\* Whether CompleteRegister goes on with a payload, without the test of Promote.
AcceptsAnyCeremony(p) == LibCreates(p)

\* if stored.Promote { 401 }, then CreateCredential.
AcceptsRegistration(p) == p.kind # "promote" /\ LibCreates(p)

\* Take, and the checks that need no store. The ceremony is used up even when
\* they fail.
CompleteRegister(r, s, k, n) ==
    /\ At(r, "idle")
    /\ Take(s)
    /\ \/ /\ AcceptsRegistration(challenges[s].payload)
          /\ req' = [req EXCEPT ![r] =
                 [Idle EXCEPT !.pc = "reg_create", !.sid = s, !.key = k, !.count = n,
                              !.name = challenges[s].payload.username]]
       \/ UNCHANGED req
    /\ UNCHANGED <<postgres, sessions, guests>>

CompleteRegisterCreate(r) ==
    /\ At(r, "reg_create")
    /\ \E u \in Users :
           /\ CreateRegistered(u, req[r].name)
           /\ req' = [req EXCEPT ![r].pc = "reg_insert", ![r].user = u]
    /\ UNCHANGED <<credentials, tx, redis>>

\* ErrUsernameTaken.
CompleteRegisterTaken(r) ==
    /\ At(r, "reg_create")
    /\ UsernameTaken(req[r].name)
    /\ Respond(r)
    /\ UNCHANGED <<postgres, redis>>

\* The row that a ceremony's credential becomes.
InsertCredential(r) ==
    \E c \in Rows : Insert(c, req[r].user, req[r].key, req[r].sid, req[r].count)

CompleteRegisterInsert(r) ==
    /\ At(r, "reg_insert")
    /\ InsertCredential(r)
    /\ Respond(r)
    /\ UNCHANGED <<users, tx, redis>>

\* ErrCredentialExists: the user row stays behind.
CompleteRegisterExists(r) ==
    /\ At(r, "reg_insert")
    /\ CredentialIDTaken(req[r].key)
    /\ ~InsertMustWait(req[r].key)
    /\ Respond(r)
    /\ UNCHANGED <<postgres, redis>>

------------------------------------------------------------------------------
(* Login and logout.                                                         *)

\* One store call, so one step: the request is never seen in flight.
BeginLogin ==
    /\ \E s \in SessionIDs : ChallengeSave(s, NoPayload)
    /\ UNCHANGED <<postgres, sessions, guests, req>>

\* g is the guest cookie of the request, or Nil.
CompleteLogin(r, s, k, n, g) ==
    /\ At(r, "idle")
    /\ Take(s)
    /\ \/ /\ LibAsserts(challenges[s].payload)
          /\ req' = [req EXCEPT ![r] =
                 [Idle EXCEPT !.pc = "login_resolve", !.sid = s, !.key = k,
                              !.count = n, !.guest = g]]
       \/ UNCHANGED req
    /\ UNCHANGED <<postgres, sessions, guests>>

\* The resolver's GetByCredentialID (its GetByID adds nothing: user rows are
\* never removed), and the library's verdict on what it read.
CompleteLoginResolve(r) ==
    /\ At(r, "login_resolve")
    /\ \/ \E c \in Rows :
              /\ Live(c)
              /\ credentials[c].credential_id = req[r].key
              /\ \E n \in LibSignCounts(credentials[c].sign_count, req[r].count) :
                     req' = [req EXCEPT ![r].pc = "login_update", ![r].row = c,
                                        ![r].user = credentials[c].user, ![r].count = n]
       \/ Respond(r)
    /\ UNCHANGED <<postgres, redis>>

CompleteLoginUpdate(r) ==
    /\ At(r, "login_update")
    /\ UpdateAfterAssertion(req[r].row, req[r].count)
    /\ Goto(r, "login_session")
    /\ UNCHANGED <<users, tx, redis>>

\* RowsAffected() = 0: the credential was deleted after it was resolved.
CompleteLoginGone(r) ==
    /\ At(r, "login_update")
    /\ ~Live(req[r].row)
    /\ Respond(r)
    /\ UNCHANGED <<postgres, redis>>

\* sessions.Create, then on to the guest token if the request carries one.
IssueSession(r) ==
    /\ \E t \in SessionTokens : SessionCreate(t, req[r].user)
    /\ IF req[r].guest = Nil THEN Respond(r) ELSE Goto(r, "drop_guest")
    /\ UNCHANGED <<postgres, challenges, guests>>

CompleteLoginSession(r) == At(r, "login_session") /\ IssueSession(r)

\* The end of CompleteLogin and of CompletePromote. A failed Delete is only
\* logged: the same as Fail.
DropGuest(r) ==
    /\ At(r, "drop_guest")
    /\ GuestDelete(req[r].guest)
    /\ Respond(r)
    /\ UNCHANGED <<postgres, challenges, sessions>>

\* One store call; if it fails the cookie is cleared and the session stays.
Logout(t) ==
    /\ SessionDelete(t)
    /\ UNCHANGED <<postgres, challenges, guests, req>>

------------------------------------------------------------------------------
(* Guests and promotion.                                                     *)

\* A cookie that resolves leads to GetByID; no cookie, a dead one or an error
\* of the store leads to a new guest.
Guest(r, g) ==
    /\ At(r, "idle")
    /\ \/ /\ g # Nil
          /\ guests[g].status = "stored"
          /\ req' = [req EXCEPT ![r] = [Idle EXCEPT !.pc = "guest_get", !.user = guests[g].user]]
       \/ req' = [req EXCEPT ![r] = [Idle EXCEPT !.pc = "guest_create"]]
    /\ UNCHANGED <<postgres, redis>>

\* A user who is still a guest is reused. One who is not, or an error of
\* GetByID, leads to a new guest.
GuestGet(r) ==
    /\ At(r, "guest_get")
    /\ \/ IsGuest(req[r].user) /\ Respond(r)
       \/ req' = [req EXCEPT ![r] = [Idle EXCEPT !.pc = "guest_create"]]
    /\ UNCHANGED <<postgres, redis>>

GuestCreateUser(r) ==
    /\ At(r, "guest_create")
    /\ \E u \in Users :
           /\ CreateGuest(u)
           /\ req' = [req EXCEPT ![r].pc = "guest_token", ![r].user = u]
    /\ UNCHANGED <<credentials, tx, redis>>

GuestMintToken(r) ==
    /\ At(r, "guest_token")
    /\ \E g \in GuestTokens : GuestCreate(g, req[r].user)
    /\ Respond(r)
    /\ UNCHANGED <<postgres, challenges, sessions>>

\* resolveGuest's guests.Get; any failure is a 401.
BeginPromote(r, g, n) ==
    /\ At(r, "idle")
    /\ guests[g].status = "stored"
    /\ req' = [req EXCEPT ![r] =
           [Idle EXCEPT !.pc = "prom_get", !.name = n, !.user = guests[g].user]]
    /\ UNCHANGED <<postgres, redis>>

\* resolveGuest's GetByID and the IsGuest test. The chosen name is not looked
\* up here.
BeginPromoteGet(r) ==
    /\ At(r, "prom_get")
    /\ \/ IsGuest(req[r].user) /\ Goto(r, "prom_save")
       \/ ~IsGuest(req[r].user) /\ Respond(r)
    /\ UNCHANGED <<postgres, redis>>

BeginPromoteSave(r) ==
    /\ At(r, "prom_save")
    /\ \E s \in SessionIDs :
           ChallengeSave(s, [kind |-> "promote", username |-> req[r].name,
                             promoteUser |-> req[r].user])
    /\ Respond(r)
    /\ UNCHANGED <<postgres, sessions, guests>>

\* if !stored.Promote { 401 }, then CreateCredential.
AcceptsPromotion(p) == p.kind = "promote" /\ LibCreates(p)

\* Nothing ties the ceremony to the guest cookie g that completes it.
CompletePromote(r, s, k, n, g) ==
    /\ At(r, "idle")
    /\ Take(s)
    /\ \/ /\ AcceptsPromotion(challenges[s].payload)
          /\ req' = [req EXCEPT ![r] =
                 [Idle EXCEPT !.pc = "prom_promote", !.sid = s, !.key = k, !.count = n,
                              !.guest = g, !.name = challenges[s].payload.username,
                              !.user = challenges[s].payload.promoteUser]]
       \/ UNCHANGED req
    /\ UNCHANGED <<postgres, sessions, guests>>

CompletePromotePromote(r) ==
    /\ At(r, "prom_promote")
    /\ PromoteGuest(req[r].user, req[r].name)
    /\ Goto(r, "prom_insert")
    /\ UNCHANGED <<credentials, tx, redis>>

\* ErrUserNotFound (no longer a guest) or ErrUsernameTaken.
CompletePromoteRefused(r) ==
    /\ At(r, "prom_promote")
    /\ ~IsGuest(req[r].user) \/ UsernameTaken(req[r].name)
    /\ Respond(r)
    /\ UNCHANGED <<postgres, redis>>

\* An insert that comes after the session, not before it.
CompletePromoteSkipInsert(r) ==
    /\ At(r, "prom_insert")
    /\ Goto(r, "prom_session")
    /\ UNCHANGED <<postgres, redis>>

CompletePromoteInsert(r) ==
    /\ At(r, "prom_insert")
    /\ InsertCredential(r)
    /\ Goto(r, "prom_session")
    /\ UNCHANGED <<users, tx, redis>>

\* ErrCredentialExists: the promoted row stays behind.
CompletePromoteExists(r) ==
    /\ At(r, "prom_insert")
    /\ CredentialIDTaken(req[r].key)
    /\ ~InsertMustWait(req[r].key)
    /\ Respond(r)
    /\ UNCHANGED <<postgres, redis>>

CompletePromoteSession(r) == At(r, "prom_session") /\ IssueSession(r)
=============================================================================
