---------------------------- MODULE BrowserClient ----------------------------
(***************************************************************************)
(* One browser: its cookie jar, the demo page internal/api/static/         *)
(* index.html, and the answers of the handlers as the browser sees them    *)
(* (cookie.go, response.go). The page's functions are async: a click       *)
(* starts one while others wait for an answer, and each call carries the   *)
(* cookies the jar holds when it is sent.                                  *)
(*                                                                         *)
(* A handler is one step here, but for CompletePromote, whose row, key and *)
(* guest token go one after the other; PasskeyService has the store calls  *)
(* of every handler one by one. A handler goes on when the page has given  *)
(* up its call. The begin half of a registration or a log-in leaves        *)
(* neither jar nor page changed and is part of the click, and so is the    *)
(* DELETE of a passkey; promote/begin reads the guest cookie and is a call *)
(* of its own.                                                             *)
(***************************************************************************)
EXTENDS UserStore, RedisStores, FiniteSets

CONSTANT MaxFaultKinds   \* bound on the kinds of fault in one behaviour

ASSUME FaultsAssumption == MaxFaultKinds \in Nat

\* A token is not one of the two words Reply uses beside tokens.
ASSUME CookieAssumption == {"keep", "clear"} \cap (SessionTokens \cup GuestTokens) = {}

VARIABLES
    passkeys,   \* users whose credential is in the table and in the authenticator
    jar,        \* the two cookies
    page,       \* what the page shows
    flow,       \* the async functions under way (slots: Requests)
    loggedOut,  \* session tokens sent with a logout whose answer has arrived
    faults      \* the kinds of fault so far, for the properties

stores == <<users, challenges, sessions, guests, passkeys>>
vars == <<users, challenges, sessions, guests, passkeys, jar, page, flow, loggedOut, faults>>

\* A response: its status, the user in its body, and what its Set-Cookie
\* headers do to the two cookies ("keep", "clear" or a new value).
Reply ==
    [status  : {"none", "ok", "error"},
     user    : Opt(Users),
     session : SessionTokens \cup {"keep", "clear"},
     guest   : GuestTokens \cup {"keep", "clear"}]

NoReply == [status |-> "none", user |-> Nil, session |-> "keep", guest |-> "keep"]

OK(u) == [NoReply EXCEPT !.status = "ok", !.user = u]

Error == [NoReply EXCEPT !.status = "error"]

Calls == {"register", "login", "logout", "guest", "promote_begin", "promote", "me", "list"}

\* The calls whose handlers read the session cookie, and the guest cookie.
SessionCalls == {"logout", "me", "list"}

GuestCalls == {"login", "guest", "promote_begin", "promote"}

\* call: the request that is out ("create": the authenticator is being asked);
\* session, guest: the cookies its handler reads; user: the guest a promotion is for;
\* at: how far CompletePromote has come (the row and the key are written); lost:
\* fetch has thrown, and only the server still knows of the call.
Flow ==
    [call : Calls \cup {"idle", "create"}, session : Opt(SessionTokens),
     guest : Opt(GuestTokens), user : Opt(Users), reply : Reply,
     at : {"sent", "row", "key"}, lost : BOOLEAN]

IdleFlow ==
    [call |-> "idle", session |-> Nil, guest |-> Nil, user |-> Nil, reply |-> NoReply,
     at |-> "sent", lost |-> FALSE]

\* "lost": a request or a response. "store": a store call failed. "overlap": a
\* function of the page was started while another was under way. "early": a
\* cookie lapsed before its key.
Faults == {"lost", "store", "overlap", "early"}

EmptyPage == [me |-> Nil, list |-> Nil, shown |-> FALSE, guest |-> FALSE]

TypeOK ==
    /\ UsersTypeOK
    /\ RedisTypeOK
    /\ passkeys \subseteq Users
    /\ jar \in [session : Opt(SessionTokens), guest : Opt(GuestTokens)]
    /\ page \in [me : Opt(Users), list : Opt(Users), shown : BOOLEAN, guest : BOOLEAN]
    /\ flow \in [Requests -> Flow]
    /\ loggedOut \subseteq SessionTokens
    /\ faults \subseteq Faults

Init ==
    /\ UsersInit
    /\ RedisInit
    /\ passkeys = {}
    /\ jar = [session |-> Nil, guest |-> Nil]
    /\ page = EmptyPage
    /\ flow = [f \in Requests |-> IdleFlow]
    /\ loggedOut = {}
    /\ faults = {}

\* A fault of kind k happens.
Occurs(k) ==
    /\ k \in faults \/ Cardinality(faults) < MaxFaultKinds
    /\ faults' = faults \cup {k}

Idle(f) == flow[f].call = "idle"

\* A call no handler has begun to answer.
Out(f, call) == flow[f].call = call /\ flow[f].reply = NoReply /\ flow[f].at = "sent"

------------------------------------------------------------------------------
(* The handlers, as the browser sees them.                                   *)

\* A response that changes neither jar nor page and is followed by no call.
Ends(call, reply) == call = "register" \/ (reply = Error /\ call \notin {"logout", "me", "list"})

\* A handler writes its response. That to a call given up goes nowhere, and the
\* way of one that only ends a function is part of the step.
Answer(f, reply) ==
    flow' = [flow EXCEPT ![f] = IF flow[f].lost \/ Ends(flow[f].call, reply) THEN IdleFlow
                                ELSE [flow[f] EXCEPT !.reply = reply]]

\* A store call of f's handler fails. When the client is gone the request's
\* context is over, and it takes no other fault.
StoreFails(f) == IF flow[f].lost THEN UNCHANGED faults ELSE Occurs("store")

\* The user RequireSession finds for a call, if any.
SessionUser(f) ==
    {sessions[t].user : t \in {t \in {flow[f].session} \ {Nil} : sessions[t].status = "stored"}}

\* The user guests.Get finds for a call, if any.
GuestUser(f) ==
    {guests[g].user : g \in {g \in {flow[f].guest} \ {Nil} : guests[g].status = "stored"}}

\* The bound on guests is reached: CreateGuest or guests.Create fails.
GuestsExhausted ==
    \/ \A u \in Users : users[u].status # "absent"
    \/ \A g \in GuestTokens : guests[g].status # "unissued"

\* The bound on sessions is reached: sessions.Create fails.
SessionsExhausted == \A t \in SessionTokens : sessions[t].status # "unissued"

\* The ceremony, the attestation or a store refuses before anything is written.
HandleRefused(f) ==
    /\ \E call \in Calls \ {"logout"} : Out(f, call)
    /\ \/ flow[f].call \notin {"me", "list", "guest"} /\ UNCHANGED faults
       \/ flow[f].call = "guest" /\ GuestsExhausted /\ UNCHANGED faults
       \/ flow[f].call \in {"me", "list", "guest"} /\ StoreFails(f)
    /\ Answer(f, Error)
    /\ UNCHANGED <<stores, jar, page, loggedOut>>

\* CompleteRegister: the user row, then the credential, which may be unusable or
\* taken.
HandleRegister(f) ==
    /\ Out(f, "register")
    /\ \E u \in Users, n \in Names :
           /\ CreateRegistered(u, n)
           /\ \/ passkeys' = passkeys \cup {u} /\ Answer(f, OK(u))
              \/ UNCHANGED passkeys /\ Answer(f, Error)
    /\ UNCHANGED <<challenges, sessions, guests, jar, page, loggedOut, faults>>

\* guests.Delete of the cookie, whose error is only logged, and clearGuestCookie.
DropGuest(f) ==
    \/ flow[f].guest = Nil /\ UNCHANGED <<guests, faults>>
    \/ flow[f].guest # Nil /\ GuestDelete(flow[f].guest) /\ UNCHANGED faults
    \/ flow[f].guest # Nil /\ UNCHANGED guests /\ StoreFails(f)

Cleared(f) == IF flow[f].guest = Nil THEN "keep" ELSE "clear"

\* CompleteLogin with one of the passkeys the authenticator offers.
HandleLogin(f) ==
    /\ Out(f, "login")
    /\ \E u \in passkeys, t \in SessionTokens :
           /\ SessionCreate(t, u)
           /\ Answer(f, [OK(u) EXCEPT !.session = t, !.guest = Cleared(f)])
    /\ DropGuest(f)
    /\ UNCHANGED <<users, challenges, passkeys, jar, page, loggedOut>>

\* A Logout that stops when Delete fails.
HandleLogoutStops(f) ==
    /\ Out(f, "logout")
    /\ \/ /\ flow[f].session = Nil /\ UNCHANGED <<sessions, faults>>
          /\ Answer(f, [OK(Nil) EXCEPT !.session = "clear"])
       \/ /\ flow[f].session # Nil /\ SessionDelete(flow[f].session) /\ UNCHANGED faults
          /\ Answer(f, [OK(Nil) EXCEPT !.session = "clear"])
       \/ /\ flow[f].session # Nil /\ UNCHANGED sessions /\ StoreFails(f)
          /\ Answer(f, Error)
    /\ UNCHANGED <<users, challenges, guests, passkeys, jar, page, loggedOut>>

\* Logout: always 204, always the clearing cookie.
HandleLogout(f) ==
    /\ Out(f, "logout")
    /\ \/ flow[f].session = Nil /\ UNCHANGED <<sessions, faults>>
       \/ flow[f].session # Nil /\ SessionDelete(flow[f].session) /\ UNCHANGED faults
       \/ flow[f].session # Nil /\ UNCHANGED sessions /\ StoreFails(f)
    /\ Answer(f, [OK(Nil) EXCEPT !.session = "clear"])
    /\ UNCHANGED <<users, challenges, guests, passkeys, jar, page, loggedOut>>

\* A Guest that does not look whether the user is still a guest.
ReusesAnyone(f) == GuestUser(f)

\* A Guest that never reuses.
ReusesNobody(f) == {}

\* The guest user that Guest reuses, if any.
Reuses(f) == {u \in GuestUser(f) : IsGuest(u)}

HandleGuestReuse(f) ==
    /\ Out(f, "guest")
    /\ \E u \in Reuses(f) : Answer(f, OK(u))
    /\ UNCHANGED <<stores, jar, page, loggedOut, faults>>

\* No guest to reuse, or a lookup failed: a new row and a new token.
HandleGuestNew(f) ==
    /\ Out(f, "guest")
    /\ \E u \in Users :
           /\ CreateGuest(u)
           /\ \/ /\ \E g \in GuestTokens :
                        GuestCreate(g, u) /\ Answer(f, [OK(u) EXCEPT !.guest = g])
                 /\ IF Reuses(f) = {} THEN UNCHANGED faults ELSE StoreFails(f)
              \/ UNCHANGED guests /\ Answer(f, Error) /\ StoreFails(f)
    /\ UNCHANGED <<challenges, sessions, passkeys, jar, page, loggedOut>>

\* BeginPromote: resolveGuest, then options for that user.
HandlePromoteBegin(f) ==
    /\ Out(f, "promote_begin")
    /\ \E u \in GuestUser(f) : IsGuest(u) /\ Answer(f, OK(u))
    /\ UNCHANGED <<stores, jar, page, loggedOut, faults>>

\* CompletePromote, the row. (HandleRefused has the ways it stops before.)
HandlePromoteRow(f) ==
    /\ Out(f, "promote")
    /\ \E n \in Names : PromoteGuest(flow[f].user, n)
    /\ flow' = [flow EXCEPT ![f].at = "row"]
    /\ UNCHANGED <<challenges, sessions, guests, passkeys, jar, page, loggedOut, faults>>

\* The credential: it is inserted, or it is unusable or taken, or the store
\* fails, and the row stays as it is.
HandlePromoteKey(f) ==
    /\ flow[f].at = "row" /\ flow[f].reply = NoReply
    /\ \/ passkeys' = passkeys \cup {flow[f].user} /\ flow' = [flow EXCEPT ![f].at = "key"]
       \/ UNCHANGED passkeys /\ Answer(f, Error)
    /\ UNCHANGED <<users, challenges, sessions, guests, jar, page, loggedOut, faults>>

\* A CompletePromote that keeps the guest token and its cookie.
HandlePromoteEndKeepsGuest(f) ==
    /\ flow[f].at = "key" /\ flow[f].reply = NoReply
    /\ \E t \in SessionTokens :
           /\ SessionCreate(t, flow[f].user)
           /\ Answer(f, [OK(flow[f].user) EXCEPT !.session = t])
    /\ UNCHANGED <<users, challenges, guests, passkeys, jar, page, loggedOut, faults>>

\* The session, then the guest token.
HandlePromoteEnd(f) ==
    /\ flow[f].at = "key" /\ flow[f].reply = NoReply
    /\ \/ /\ \E t \in SessionTokens :
                 /\ SessionCreate(t, flow[f].user)
                 /\ Answer(f, [OK(flow[f].user) EXCEPT !.session = t, !.guest = Cleared(f)])
          /\ DropGuest(f)
       \/ /\ Answer(f, Error)
          /\ StoreFails(f) \/ (SessionsExhausted /\ faults' = faults \cup {"store"})
          /\ UNCHANGED <<sessions, guests>>
    /\ UNCHANGED <<users, challenges, passkeys, jar, page, loggedOut>>

\* Me and ListCredentials behind RequireSession.
HandleUser(f) ==
    /\ \E call \in {"me", "list"} : Out(f, call)
    /\ \/ \E u \in SessionUser(f) : Answer(f, OK(u))
       \/ SessionUser(f) = {} /\ Answer(f, Error)
    /\ UNCHANGED <<stores, jar, page, loggedOut, faults>>

------------------------------------------------------------------------------
(* The page.                                                                 *)

\* fetch: the call goes out with the cookies of jar j.
Send(call, u, j) ==
    [call |-> call, user |-> u, reply |-> NoReply, at |-> "sent", lost |-> FALSE,
     session |-> IF call \in SessionCalls THEN j.session ELSE Nil,
     guest   |-> IF call \in GuestCalls THEN j.guest ELSE Nil]

\* No function of the page is under way; the server may be at calls given up.
PageAtRest == \A g \in Requests : Idle(g) \/ flow[g].lost

\* A click on Register, Log in (or the conditional UI), Log out, Guest,
\* Promote or Delete. (A DELETE changes neither jar nor page; refreshMe follows.)
Click(f, call) ==
    /\ Idle(f)
    /\ call = "promote_begin" => page.guest
    /\ call \in {"logout", "me"} => page.shown
    /\ call = "me" => page.list # Nil
    /\ flow' = [flow EXCEPT ![f] = Send(call, Nil, jar)]
    /\ IF PageAtRest THEN UNCHANGED faults ELSE Occurs("overlap")
    /\ UNCHANGED <<stores, jar, page, loggedOut>>

\* The page is loaded again: refreshMe.
Reload(f) ==
    /\ Idle(f)
    /\ PageAtRest
    /\ page' = EmptyPage
    /\ flow' = [flow EXCEPT ![f] = Send("me", Nil, jar)]
    /\ UNCHANGED <<stores, jar, loggedOut, faults>>

\* The authenticator made the credential of a promotion, or the user gave up.
Created(f) ==
    /\ flow[f].call = "create"
    /\ flow' = [flow EXCEPT ![f] = Send("promote", flow[f].user, jar)] \/ flow' = [flow EXCEPT ![f] = IdleFlow]
    /\ UNCHANGED <<stores, jar, page, loggedOut, faults>>

Answered(f) == flow[f].reply # NoReply

\* A browser that takes the clearing cookie for a value.
UpdateLiteral(old, header) == IF header = "keep" THEN old ELSE header

Update(old, header) == IF header = "keep" THEN old ELSE IF header = "clear" THEN Nil ELSE header

\* The browser applies the Set-Cookie headers of a response.
JarAfter(reply) ==
    [session |-> Update(jar.session, reply.session), guest |-> Update(jar.guest, reply.guest)]

\* What each function does to the page when its call returns. A list that is an
\* error body is no array: the loop over it throws, after replaceChildren.
PageAfter(call, reply) ==
    CASE call = "logout" -> [page EXCEPT !.me = Nil, !.list = Nil, !.shown = FALSE]
      [] call = "list" /\ reply.status = "ok" -> [page EXCEPT !.list = reply.user, !.shown = TRUE]
      [] call = "list" /\ reply.status # "ok" -> [page EXCEPT !.list = Nil]
      [] call = "me" /\ reply.status = "ok" -> [page EXCEPT !.me = reply.user]
      [] call = "me" /\ reply.status # "ok" -> [page EXCEPT !.shown = FALSE]
      [] call = "guest" /\ reply.status = "ok" -> [page EXCEPT !.guest = TRUE]
      [] call = "promote" /\ reply.status = "ok" -> [page EXCEPT !.guest = FALSE]
      [] OTHER -> page

\* Log-ins and promotions that forget refreshMe.
NextCallNoRefresh(call, reply) ==
    CASE reply.status = "ok" /\ call = "me" -> "list"
      [] reply.status = "ok" /\ call = "promote_begin" -> "create"
      [] OTHER -> "idle"

\* The call a function makes next, refreshMe's included.
NextCall(call, reply) ==
    CASE reply.status = "ok" /\ call \in {"login", "promote"} -> "me"
      [] reply.status = "ok" /\ call = "me" -> "list"
      [] reply.status = "ok" /\ call = "promote_begin" -> "create"
      [] OTHER -> "idle"

\* A response arrives: the jar, the page and the next call.
Deliver(f) ==
    /\ Answered(f)
    /\ LET reply == flow[f].reply
           call == flow[f].call
           next == NextCall(call, reply)
       IN  /\ jar' = JarAfter(reply)
           /\ page' = PageAfter(call, reply)
           /\ flow' = [flow EXCEPT ![f] = CASE next = "idle" -> IdleFlow
                                            [] next = "create" -> [IdleFlow EXCEPT !.call = "create", !.user = reply.user]
                                            [] OTHER -> Send(next, Nil, JarAfter(reply))]
           /\ loggedOut' = loggedOut \cup IF call = "logout" THEN {flow[f].session} \ {Nil} ELSE {}
    /\ UNCHANGED <<stores, faults>>

\* fetch throws and the function ends: the request has not reached the server, or
\* the response is lost, or the handler has not answered and goes on alone. (Of the
\* others that go on the browser could see no more than that a key is gone, and
\* ExpireToken has that: a token they make is nobody's.)
Lose(f) ==
    /\ flow[f].call \in Calls
    /\ ~flow[f].lost
    /\ Occurs("lost")
    /\ \/ /\ Answered(f) \/ flow[f].at = "sent"
          /\ flow' = [flow EXCEPT ![f] = IdleFlow]
       \/ /\ ~Answered(f)
          /\ flow[f].call \in {"register", "promote"}
          /\ flow' = [flow EXCEPT ![f].lost = TRUE]
    /\ UNCHANGED <<stores, jar, page, loggedOut>>

\* A key expires; its cookie may stay for a while.
ExpireToken ==
    /\ \/ \E t \in SessionTokens :
              sessions[t].status = "stored" /\ SessionDelete(t) /\ UNCHANGED guests
       \/ \E g \in GuestTokens :
              guests[g].status = "stored" /\ GuestDelete(g) /\ UNCHANGED sessions
    /\ UNCHANGED <<users, challenges, passkeys, jar, page, flow, loggedOut, faults>>

\* A cookie passes its Max-Age, which is the TTL of its key rounded down: the key
\* may have some of its last second left (Lifetimes has the clocks).
LapseCookie ==
    /\ \/ /\ jar.session # Nil
          /\ jar' = [jar EXCEPT !.session = Nil]
          /\ IF sessions[jar.session].status = "stored" THEN Occurs("early") ELSE UNCHANGED faults
       \/ /\ jar.guest # Nil
          /\ jar' = [jar EXCEPT !.guest = Nil]
          /\ IF guests[jar.guest].status = "stored" THEN Occurs("early") ELSE UNCHANGED faults
    /\ UNCHANGED <<stores, page, flow, loggedOut>>

Handle(f) ==
    \/ HandleRefused(f) \/ HandleRegister(f) \/ HandleLogin(f) \/ HandleLogout(f)
    \/ HandleGuestReuse(f) \/ HandleGuestNew(f)
    \/ HandlePromoteBegin(f) \/ HandlePromoteRow(f) \/ HandlePromoteKey(f)
    \/ HandlePromoteEnd(f) \/ HandleUser(f)

Browse(f) ==
    \/ \E call \in {"register", "login", "logout", "guest", "promote_begin", "me"} : Click(f, call)
    \/ Reload(f) \/ Created(f) \/ Deliver(f) \/ Lose(f)

Next == (\E f \in Requests : Handle(f) \/ Browse(f)) \/ ExpireToken \/ LapseCookie

Spec == Init /\ [][Next]_vars

------------------------------------------------------------------------------
OneGuest ==
    \A g, h \in GuestTokens :
        /\ guests[g].status = "stored" /\ IsGuest(guests[g].user)
        /\ guests[h].status = "stored" /\ IsGuest(guests[h].user)
        => g = h

\* However often Guest is clicked, one guest of this browser is alive, as long
\* as no message is lost and no store fails: "repeated /guest calls from the
\* same browser stay idempotent" (auth.go Guest), "Idempotent" (README,
\* /auth/guest).
GuestIdempotent == faults \subseteq {"overlap"} => OneGuest

\* The same for calls one after the other, between any other calls of the page,
\* expiries included.
GuestIdempotentInTurn == faults = {} => OneGuest

\* A session is over for the browser once its logout was answered, even if the
\* server could not delete it: "Invalidate session, clear cookie" (README,
\* /auth/logout), "the response is always 204" (auth.go Logout). The jar never
\* holds its token again, and no call carries it that was not sent before.
LogoutSticks ==
    \A t \in loggedOut :
        /\ jar.session # t
        /\ faults \cap {"overlap", "lost"} = {} => \A f \in Requests : flow[f].session # t

\* Somebody who has a passkey is done with being a guest: while the stores answer,
\* a guest cookie resolves to such a user only in the middle of the promotion
\* that gave the passkey ("Drop the guest token + cookie now that the user is
\* registered", auth.go CompletePromote). A promotion that stopped without a
\* passkey leaves the cookie of a user who is no guest; nothing is said of it.
PasskeyEndsGuestCookie ==
    /\ faults \cap {"store", "lost"} = {}
    /\ jar.guest # Nil
    /\ guests[jar.guest].status = "stored"
    /\ guests[jar.guest].user \in passkeys
    => \E f \in Requests :
           flow[f].at = "key" /\ flow[f].reply = NoReply /\ flow[f].user = guests[jar.guest].user

\* An answer of /auth/guest names a guest, even when an earlier promotion of
\* the same cookie stopped half-way and its token still resolves. (A promotion
\* at the same time, or one given up, may overtake the answer.)
GuestReplyNamesAGuest ==
    faults \cap {"overlap", "lost"} = {} =>
        \A f \in Requests :
            flow[f].call = "guest" /\ flow[f].reply.status = "ok" => IsGuest(flow[f].reply.user)

\* When nothing is under way the page shows the profile of the session in the
\* jar, over its own passkeys, after any sequence of log-ins, promotions and
\* log-outs one at a time, whatever expires.
PageMatchesSession ==
    faults = {} /\ (\A f \in Requests : Idle(f)) /\ page.shown /\ jar.session # Nil =>
        /\ page.me = sessions[jar.session].user
        /\ page.list \in {Nil, page.me}
=============================================================================
