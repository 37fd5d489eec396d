------------------------- MODULE BrowserClientProofs -------------------------
(***************************************************************************)
(* The browser and its page, for any number of users, tokens and page      *)
(* functions under way. A step is either a handler's, which leaves jar and *)
(* page alone and is known here only by the contract it keeps with the     *)
(* browser (Handled), or the page's, which leaves the stores alone         *)
(* (Browsed), or one that only takes away: a key, a cookie, the page's     *)
(* interest in a call (Faded). Each part of the invariant is shown to be   *)
(* kept by the three.                                                      *)
(***************************************************************************)
EXTENDS BrowserClient, TLAPS

(* What holds after every step, one part per concern.                        *)

OnItsWay(g) == \E f \in Requests : flow[f].reply.guest = g

Arriving(t) == \E f \in Requests : flow[f].reply.session = t

\* u is the guest a promotion is under way for, from the answer of
\* promote/begin on.
Promotes(f, u) ==
    \/ flow[f].call \in {"create", "promote"} /\ flow[f].user = u
    \/ flow[f].call = "promote_begin" /\ flow[f].reply.status = "ok" /\ flow[f].reply.user = u

\* Every token in the jar, in a request or in a response was drawn by a store;
\* those of the jar and of requests came in a response that was delivered.
TokenInv ==
    /\ jar.session \in Opt(IssuedSessions)
    /\ jar.guest \in Opt(IssuedGuests)
    /\ \A f \in Requests :
           /\ flow[f].session \in Opt(IssuedSessions)
           /\ flow[f].guest \in Opt(IssuedGuests)
           /\ flow[f].reply.session \in IssuedSessions \cup {"keep", "clear"}
           /\ flow[f].reply.guest \in IssuedGuests \cup {"keep", "clear"}
    /\ \A g \in GuestTokens : OnItsWay(g) =>
           /\ jar.guest # g
           /\ \A f \in Requests : flow[f].guest # g
           /\ \A e, f \in Requests : flow[e].reply.guest = g /\ flow[f].reply.guest = g => e = f

\* The same of session tokens; one whose logout was answered was delivered
\* before.
SessionInv ==
    /\ loggedOut \subseteq IssuedSessions
    /\ \A t \in SessionTokens : Arriving(t) =>
           /\ jar.session # t /\ t \notin loggedOut
           /\ \A f \in Requests : flow[f].session # t
           /\ \A e, f \in Requests : flow[e].reply.session = t /\ flow[f].reply.session = t => e = f

\* A guest token is for a row that exists, and for no other token's row; a
\* passkey is a row's too.
GuestKeyInv ==
    /\ \A g \in IssuedGuests : guests[g].user \in Users /\ users[guests[g].user].status # "absent"
    /\ \A g, h \in IssuedGuests : guests[g].user = guests[h].user => g = h
    /\ \A u \in passkeys : users[u].status # "absent"

\* Which answers go with which calls, and whom a promotion is for.
ReplyInv ==
    \A f \in Requests :
        /\ flow[f].call \notin Calls => flow[f].reply = NoReply
        /\ flow[f].reply.status = "none" => flow[f].reply = NoReply
        /\ flow[f].reply.status = "error" => flow[f].reply = Error
        /\ flow[f].reply.session \in SessionTokens => flow[f].call \in {"login", "promote"}
        /\ flow[f].reply.session = "clear" => flow[f].call = "logout"
        /\ flow[f].call = "logout" => flow[f].reply = NoReply \/ flow[f].reply.session = "clear"
        /\ flow[f].call \in {"create", "promote"} => flow[f].user \in Users
        /\ flow[f].call = "promote_begin" /\ flow[f].reply.status = "ok" => flow[f].reply.user \in Users
        /\ flow[f].call = "guest" /\ flow[f].reply.status = "ok" => flow[f].reply.user \in Users
        /\ flow[f].call = "idle" => flow[f].session = Nil
        /\ flow[f].at # "sent" => flow[f].call = "promote"

\* A call is given up only when a message was lost.
LostInv == \A f \in Requests : flow[f].lost => "lost" \in faults

\* The token of a guest being promoted has been delivered; once the second
\* half is out, the cookie it carries is that token unless the jar lost it.
PromotionInv ==
    \A f \in Requests, u \in Users : Promotes(f, u) =>
        /\ users[u].status # "absent"
        /\ \A g \in IssuedGuests : guests[g].user = u =>
               /\ ~OnItsWay(g)
               /\ flow[f].call = "promote" => g = flow[f].guest \/ g # jar.guest

\* f is the promotion that gave g's user a passkey, and will drop g.
Finishing(f, g) ==
    /\ flow[f].at = "key" /\ flow[f].reply = NoReply
    /\ flow[f].user = guests[g].user /\ flow[f].guest = g

\* A token that resolves to someone with a passkey is about to be dropped, or is
\* out of the jar and no response will bring it back.
CookieInv ==
    faults \cap {"store", "lost"} = {} =>
        \A g \in GuestTokens : guests[g].status = "stored" /\ guests[g].user \in passkeys =>
            (g # jar.guest /\ ~OnItsWay(g)) \/ \E f \in Requests : Finishing(f, g)

\* Calls one after the other: one function at a time, whose request carries
\* what the jar still holds.
TurnInv ==
    faults \cap {"overlap", "lost"} = {} =>
        /\ \A e, f \in Requests : ~Idle(e) /\ ~Idle(f) => e = f
        /\ \A f \in Requests :
               /\ flow[f].call \in SessionCalls => jar.session \in {Nil, flow[f].session}
               /\ flow[f].call \in GuestCalls => jar.guest \in {Nil, flow[f].guest}

\* The one guest alive is the jar's, or on its way into it.
AliveInv ==
    faults = {} =>
        \A g \in GuestTokens : guests[g].status = "stored" /\ IsGuest(guests[g].user) =>
            \/ jar.guest = g /\ \A f \in Requests : flow[f].reply.guest = "keep"
            \/ OnItsWay(g)

\* Outside refreshMe the page shows the session of the jar; inside, profile and
\* list are brought up to it one after the other.
Settled ==
    page.shown /\ jar.session # Nil =>
        page.me = sessions[jar.session].user /\ page.list \in {Nil, page.me}

PageInv ==
    faults = {} =>
        /\ (\A f \in Requests : flow[f].call \notin {"me", "list"}) => Settled
        /\ jar.session # Nil =>
               \A f \in Requests :
                   /\ flow[f].call = "me" /\ flow[f].reply.status = "ok" =>
                          flow[f].reply.user = sessions[jar.session].user
                   /\ flow[f].call = "list" => page.me = sessions[jar.session].user
                   /\ flow[f].call = "list" /\ flow[f].reply.status = "ok" =>
                          flow[f].reply.user = page.me

BrowserInv ==
    /\ TypeOK /\ TokenInv /\ SessionInv /\ GuestKeyInv /\ ReplyInv /\ LostInv /\ PromotionInv
    /\ CookieInv /\ TurnInv /\ AliveInv /\ PageInv
    /\ LogoutSticks /\ GuestReplyNamesAGuest
------------------------------------------------------------------------------
(* The parts of a step.                                                      *)

\* One slot of flow is replaced.
LEMMA SlotFacts ==
  ASSUME TypeOK, NEW f \in Requests, NEW x \in Flow, flow' = [flow EXCEPT ![f] = x]
  PROVE  /\ flow' \in [Requests -> Flow]
         /\ flow'[f] = x
         /\ \A e \in Requests \ {f} : flow'[e] = flow[e]
  BY DEF TypeOK

\* The answers the handlers make are replies.
LEMMA ReplyTypes ==
  /\ NoReply \in Reply /\ Error \in Reply
  /\ Error.status = "error" /\ Error.session = "keep" /\ Error.guest = "keep"
  /\ NoReply.status = "none" /\ NoReply.session = "keep" /\ NoReply.guest = "keep"
  BY DEF Reply, NoReply, Error, Opt

LEMMA OKTypes ==
  ASSUME NEW u \in Opt(Users)
  PROVE  /\ OK(u) \in Reply /\ OK(u).status = "ok" /\ OK(u).user = u
         /\ OK(u).session = "keep" /\ OK(u).guest = "keep"
  BY DEF Reply, NoReply, OK

\* What a request is when it goes out.
LEMMA SendTypes ==
  ASSUME NEW call \in Calls, NEW u \in Opt(Users),
         NEW j \in [session : Opt(SessionTokens), guest : Opt(GuestTokens)]
  PROVE  LET x == Send(call, u, j)
         IN  /\ x \in Flow /\ x.call = call /\ x.user = u /\ x.reply = NoReply
             /\ x.at = "sent" /\ ~x.lost
             /\ x.session \in {Nil, j.session} /\ x.guest \in {Nil, j.guest}
             /\ call \in SessionCalls => x.session = j.session
             /\ call \in GuestCalls => x.guest = j.guest
  BY ReplyTypes DEF Send, Flow, Opt

LEMMA IdleTypes ==
  /\ IdleFlow \in Flow /\ IdleFlow.call = "idle" /\ IdleFlow.reply = NoReply
  /\ IdleFlow.session = Nil /\ IdleFlow.guest = Nil /\ IdleFlow.at = "sent" /\ ~IdleFlow.lost
  /\ \A u \in Opt(Users) :
         LET x == [IdleFlow EXCEPT !.call = "create", !.user = u]
         IN  /\ x \in Flow /\ x.call = "create" /\ x.reply = NoReply /\ x.user = u
             /\ x.session = Nil /\ x.guest = Nil /\ x.at = "sent" /\ ~x.lost
  BY ReplyTypes DEF IdleFlow, Flow, Opt

\* What becomes of slot f when its handler writes reply, or gets on without one
\* (NoReply): it goes idle, or it keeps its request and holds the reply.
Replied(f, x, reply) ==
    /\ x.lost => flow[f].lost
    /\ \/ x = IdleFlow /\ (flow[f].lost \/ Ends(flow[f].call, reply))
       \/ /\ x.call = flow[f].call /\ x.session = flow[f].session /\ x.guest = flow[f].guest
          /\ x.user = flow[f].user /\ x.reply = reply
          /\ reply = NoReply \/ (~flow[f].lost /\ x.at = flow[f].at)

\* One slot gets its answer.
LEMMA AnswerFacts ==
  ASSUME TypeOK, NEW f \in Requests, NEW reply \in Reply, Answer(f, reply)
  PROVE  \E x \in Flow : flow' = [flow EXCEPT ![f] = x] /\ Replied(f, x, reply)
<1>0. flow[f] \in Flow
  BY DEF TypeOK
<1>1. CASE flow[f].lost \/ Ends(flow[f].call, reply)
  <2>1. flow' = [flow EXCEPT ![f] = IdleFlow]
    BY <1>1 DEF Answer
  <2>3. Replied(f, IdleFlow, reply)
    BY <1>1, IdleTypes DEF Replied
  <2> QED BY <2>1, <2>3, IdleTypes
<1>2. CASE ~(flow[f].lost \/ Ends(flow[f].call, reply))
  <2>1. PICK x : x = [flow[f] EXCEPT !.reply = reply]
    OBVIOUS
  <2>2. flow' = [flow EXCEPT ![f] = x]
    BY <1>2, <2>1 DEF Answer
  <2>3. /\ x \in Flow /\ x.call = flow[f].call /\ x.session = flow[f].session /\ x.guest = flow[f].guest
        /\ x.user = flow[f].user /\ x.reply = reply /\ x.at = flow[f].at /\ (x.lost = flow[f].lost)
    BY <1>0, <2>1 DEF Flow
  <2>4. Replied(f, x, reply)
    BY <1>2, <2>3 DEF Replied
  <2> QED BY <2>2, <2>3, <2>4
<1> QED BY <1>1, <1>2

\* Tokens are drawn once, keep their user and do not come back; rows are not
\* deleted, and nobody becomes a guest again.
Grow ==
    /\ \A t \in SessionTokens : sessions[t].status # "unissued" =>
           /\ sessions'[t].status # "unissued"
           /\ sessions'[t].user = sessions[t].user
    /\ \A g \in GuestTokens : guests[g].status # "unissued" =>
           /\ guests'[g].status # "unissued"
           /\ guests'[g].user = guests[g].user
           /\ guests[g].status = "gone" => guests'[g].status = "gone"
    /\ \A u \in Users : users[u].status # "absent" =>
           /\ users'[u].status # "absent"
           /\ users'[u].status = "guest" => users[u].status = "guest"
    /\ faults \subseteq faults'

LEMMA SessionCreateFacts ==
  ASSUME TypeOK, NEW t \in SessionTokens, NEW u \in Users, SessionCreate(t, u)
  PROVE  /\ sessions' \in [SessionTokens -> TokenKey]
         /\ sessions[t].status = "unissued"
         /\ sessions'[t].status = "stored" /\ sessions'[t].user = u
         /\ \A s \in SessionTokens \ {t} : sessions'[s] = sessions[s]
  BY DEF TypeOK, RedisTypeOK, SessionCreate, TokenKey, Opt

LEMMA GuestCreateFacts ==
  ASSUME TypeOK, NEW t \in GuestTokens, NEW u \in Users, GuestCreate(t, u)
  PROVE  /\ guests' \in [GuestTokens -> TokenKey]
         /\ guests[t].status = "unissued"
         /\ guests'[t].status = "stored" /\ guests'[t].user = u
         /\ \A s \in GuestTokens \ {t} : guests'[s] = guests[s]
  BY DEF TypeOK, RedisTypeOK, GuestCreate, TokenKey, Opt

LEMMA SessionDeleteFacts ==
  ASSUME TypeOK, NEW t \in SessionTokens, SessionDelete(t)
  PROVE  /\ sessions' \in [SessionTokens -> TokenKey]
         /\ sessions[t].status # "unissued"
         /\ sessions'[t].status = "gone" /\ sessions'[t].user = sessions[t].user
         /\ \A s \in SessionTokens \ {t} : sessions'[s] = sessions[s]
  BY DEF TypeOK, RedisTypeOK, SessionDelete, TokenKey

LEMMA GuestDeleteFacts ==
  ASSUME TypeOK, NEW t \in GuestTokens, GuestDelete(t)
  PROVE  /\ guests' \in [GuestTokens -> TokenKey]
         /\ guests[t].status # "unissued"
         /\ guests'[t].status = "gone" /\ guests'[t].user = guests[t].user
         /\ \A s \in GuestTokens \ {t} : guests'[s] = guests[s]
  BY DEF TypeOK, RedisTypeOK, GuestDelete, TokenKey

\* The three ways a users row is written.
LEMMA UserFacts ==
  ASSUME TypeOK, NEW u \in Users
  PROVE  /\ CreateGuest(u) => /\ users' \in [Users -> UserRow]
                              /\ users[u].status = "absent" /\ users'[u].status = "guest"
                              /\ \A v \in Users \ {u} : users'[v] = users[v]
         /\ \A n \in Names : CreateRegistered(u, n) =>
                /\ users' \in [Users -> UserRow]
                /\ users[u].status = "absent" /\ users'[u].status = "registered"
                /\ \A v \in Users \ {u} : users'[v] = users[v]
         /\ \A n \in Names : PromoteGuest(u, n) =>
                /\ users' \in [Users -> UserRow]
                /\ users[u].status = "guest" /\ users'[u].status = "promoted"
                /\ \A v \in Users \ {u} : users'[v] = users[v]
  BY DEF TypeOK, UsersTypeOK, CreateGuest, CreateRegistered, PromoteGuest, IsGuest, UserRow, Opt

LEMMA OccursFacts ==
  ASSUME TypeOK, NEW k \in Faults, Occurs(k)
  PROVE  faults' = faults \cup {k} /\ faults' \subseteq Faults
  BY DEF TypeOK, Occurs

\* When a store call fails, it is recorded or the client is gone.
LEMMA StoreFailsFacts ==
  ASSUME TypeOK, NEW f \in Requests, StoreFails(f)
  PROVE  /\ faults' \in {faults, faults \cup {"store"}} /\ faults' \subseteq Faults
         /\ "store" \in faults' \/ flow[f].lost
<1>1. CASE flow[f].lost
  BY <1>1 DEF StoreFails, TypeOK
<1>2. CASE ~flow[f].lost
  <2>1. Occurs("store") /\ "store" \in Faults
    BY <1>2 DEF StoreFails, Faults
  <2> QED BY <2>1, OccursFacts
<1> QED BY <1>1, <1>2

\* The guest token of a request is deleted, or the store failed.
LEMMA DropGuestFacts ==
  ASSUME TypeOK, NEW f \in Requests, DropGuest(f)
  PROVE  /\ guests' \in [GuestTokens -> TokenKey]
         /\ faults' \subseteq Faults /\ faults' \in {faults, faults \cup {"store"}}
         /\ flow[f].guest \in GuestTokens =>
                guests'[flow[f].guest].status = "gone" \/ "store" \in faults' \/ flow[f].lost
         /\ \A g \in GuestTokens :
                /\ guests'[g].user = guests[g].user
                /\ guests'[g].status = "unissued" <=> guests[g].status = "unissued"
                /\ guests[g].status = "gone" => guests'[g].status = "gone"
<1>0. flow[f].guest \in Opt(GuestTokens) /\ guests \in [GuestTokens -> TokenKey] /\ faults \subseteq Faults
  BY DEF TypeOK, RedisTypeOK, Flow
<1>1. CASE flow[f].guest = Nil /\ UNCHANGED <<guests, faults>>
  BY <1>0, <1>1, NilAssumption
<1>2. CASE flow[f].guest # Nil /\ GuestDelete(flow[f].guest) /\ UNCHANGED faults
  <2>1. flow[f].guest \in GuestTokens
    BY <1>0, <1>2 DEF Opt
  <2> QED BY <1>0, <1>2, <2>1, GuestDeleteFacts
<1>3. CASE flow[f].guest # Nil /\ UNCHANGED guests /\ StoreFails(f)
  <2>1. /\ faults' \in {faults, faults \cup {"store"}} /\ faults' \subseteq Faults
        /\ "store" \in faults' \/ flow[f].lost
    BY <1>3, StoreFailsFacts
  <2> QED BY <1>0, <1>3, <2>1
<1> QED BY <1>1, <1>2, <1>3 DEF DropGuest

\* What a handler does, as far as the browser can tell: it answers one call, or
\* gets on with it (reply is NoReply), and draws, deletes and writes what that
\* answer says. Slot f is x afterwards.
Handled(f, x, reply) ==
    /\ flow[f].call \in Calls /\ flow[f].reply = NoReply
    /\ flow' = [flow EXCEPT ![f] = x]
    /\ Replied(f, x, reply)
    /\ x.at # "sent" => x.call = "promote"
    /\ UNCHANGED <<jar, page, loggedOut>>
    /\ faults' \in {faults, faults \cup {"store"}}
    /\ reply.status = "ok" \/ reply \in {Error, NoReply}
    \* the session cookie
    /\ reply.session = "clear" => flow[f].call = "logout"
    /\ flow[f].call = "logout" => reply.session = "clear"
    /\ reply.session \in SessionTokens =>
           /\ flow[f].call \in {"login", "promote"}
           /\ sessions[reply.session].status = "unissued"
           /\ sessions'[reply.session].status # "unissued"
    \* the guest cookie
    /\ reply.guest # "keep" => flow[f].call \in GuestCalls
    /\ reply.guest \in GuestTokens =>
           /\ guests[reply.guest].status = "unissued"
           /\ guests'[reply.guest].status # "unissued"
           /\ Reuses(f) = {} \/ "store" \in faults' \/ flow[f].lost
    /\ \A g \in GuestTokens : guests[g].status = "unissued" /\ guests'[g].status # "unissued" =>
           /\ g = reply.guest /\ guests'[g].user = reply.user /\ reply.user \in Users
           /\ users[reply.user].status = "absent" /\ users'[reply.user].status # "absent"
           /\ passkeys' = passkeys
    /\ reply.guest = "clear" =>
           /\ flow[f].guest \in GuestTokens
           /\ guests'[flow[f].guest].status = "gone" \/ "store" \in faults' \/ flow[f].lost
    \* the body
    /\ flow[f].call = "guest" /\ reply.status = "ok" =>
           reply.user \in Users /\ users'[reply.user].status = "guest"
    /\ flow[f].call = "promote_begin" /\ reply.status = "ok" =>
           /\ flow[f].guest \in GuestTokens
           /\ guests[flow[f].guest].status = "stored"
           /\ guests[flow[f].guest].user = reply.user
    /\ flow[f].call \in {"me", "list"} /\ reply.status = "ok" =>
           /\ flow[f].session \in SessionTokens
           /\ reply.user = sessions[flow[f].session].user
    \* a passkey is a new user's, or ends the middle part of a promotion, whose
    \* last part drops the guest token
    /\ \A u \in passkeys' \ passkeys :
           /\ users'[u].status # "absent"
           /\ \/ users[u].status = "absent"
              \/ /\ flow[f].call = "promote" /\ flow[f].user = u
                 /\ x.at = "key" /\ x.reply = NoReply /\ x.user = u /\ x.guest = flow[f].guest
    /\ flow[f].at = "key" =>
           \/ flow[f].guest = Nil
           \/ guests'[flow[f].guest].status = "gone"
           \/ "store" \in faults'
           \/ flow[f].lost

\* Every handler keeps the contract and the types.
LEMMA Handlers ==
  ASSUME TypeOK, GuestKeyInv, ReplyInv, PromotionInv, NEW f \in Requests, Handle(f)
  PROVE  TypeOK' /\ Grow /\ \E x \in Flow, reply \in Reply : Handled(f, x, reply)
<1>0. /\ flow[f] \in Flow /\ flow[f].session \in Opt(SessionTokens) /\ flow[f].guest \in Opt(GuestTokens)
      /\ flow[f].user \in Opt(Users)
  BY DEF TypeOK, Flow
<1>t. /\ users \in [Users -> UserRow] /\ sessions \in [SessionTokens -> TokenKey]
      /\ guests \in [GuestTokens -> TokenKey] /\ challenges \in [SessionIDs -> ChallengeKey]
      /\ passkeys \subseteq Users /\ loggedOut \subseteq SessionTokens /\ faults \subseteq Faults
  BY DEF TypeOK, UsersTypeOK, RedisTypeOK
<1>k. "keep" \notin SessionTokens \cup GuestTokens /\ "clear" \notin SessionTokens \cup GuestTokens
  BY CookieAssumption
<1>n. Nil \notin SessionTokens /\ Nil \notin GuestTokens /\ Nil \notin Users
  BY NilAssumption
<1>i. /\ flow[f].call = "promote" => flow[f].user \in Users /\ users[flow[f].user].status # "absent"
      /\ flow[f].at # "sent" => flow[f].call = "promote"
  BY DEF ReplyInv, PromotionInv, Promotes
\* A handler that replaces its slot and leaves the types of the stores right
\* keeps all types.
<1>a. ASSUME NEW x \in Flow, flow' = [flow EXCEPT ![f] = x], UNCHANGED <<jar, page, challenges, loggedOut>>,
             users' \in [Users -> UserRow], sessions' \in [SessionTokens -> TokenKey],
             guests' \in [GuestTokens -> TokenKey], passkeys' \subseteq Users, faults' \subseteq Faults
      PROVE  TypeOK'
  <2>1. flow' \in [Requests -> Flow]
    BY <1>a, SlotFacts
  <2> QED BY <1>a, <2>1 DEF TypeOK, UsersTypeOK, RedisTypeOK
\* The slot of a handler that answers.
<1>s. ASSUME NEW reply \in Reply, reply.status # "none", Answer(f, reply)
      PROVE  \E x \in Flow : /\ flow' = [flow EXCEPT ![f] = x] /\ Replied(f, x, reply)
                             /\ x.at # "sent" => x.call = "promote"
  <2>1. PICK x \in Flow : flow' = [flow EXCEPT ![f] = x] /\ Replied(f, x, reply)
    BY <1>s, AnswerFacts
  <2>2. reply # NoReply
    BY <1>s, ReplyTypes
  <2>3. x = IdleFlow \/ (x.at = flow[f].at /\ x.call = flow[f].call)
    BY <2>1, <2>2 DEF Replied
  <2> QED BY <1>i, <2>1, <2>3, IdleTypes
<1>1. CASE HandleRefused(f)
  <2>1. /\ flow[f].call \in Calls /\ flow[f].reply = NoReply /\ Answer(f, Error) /\ flow[f].at = "sent"
        /\ flow[f].call # "logout"
        /\ UNCHANGED <<stores, jar, page, loggedOut>>
    BY <1>1 DEF HandleRefused, Out
  <2>2. faults' \in {faults, faults \cup {"store"}} /\ faults' \subseteq Faults
    <3>1. UNCHANGED faults \/ StoreFails(f)
      BY <1>1 DEF HandleRefused
    <3> QED BY <3>1, <1>t, StoreFailsFacts
  <2>x. PICK x \in Flow : /\ flow' = [flow EXCEPT ![f] = x] /\ Replied(f, x, Error)
                          /\ x.at # "sent" => x.call = "promote"
    BY <2>1, <1>s, ReplyTypes
  <2>3. Handled(f, x, Error)
    BY <2>1, <2>2, <2>x, ReplyTypes, <1>k DEF Handled, stores
  <2>4. TypeOK' /\ Grow
    BY <2>1, <2>2, <2>x, <1>a, <1>t DEF stores, Grow
  <2> QED BY <2>3, <2>4, ReplyTypes
<1>2. CASE HandleRegister(f)
  <2>0. PICK u \in Users, n \in Names :
           /\ CreateRegistered(u, n)
           /\ \/ passkeys' = passkeys \cup {u} /\ Answer(f, OK(u))
              \/ UNCHANGED passkeys /\ Answer(f, Error)
    BY <1>2 DEF HandleRegister
  <2>1. /\ flow[f].call = "register" /\ flow[f].reply = NoReply /\ flow[f].at = "sent"
        /\ UNCHANGED <<challenges, sessions, guests, jar, page, loggedOut, faults>>
    BY <1>2 DEF HandleRegister, Out
  <2>2. PICK reply \in {OK(u), Error} : Answer(f, reply) /\ passkeys' \subseteq passkeys \cup {u}
    BY <2>0
  <2>3. reply \in Reply /\ (reply.status = "ok" \/ reply = Error) /\ reply.session = "keep" /\ reply.guest = "keep"
    BY ReplyTypes, OKTypes DEF Opt
  <2>x. PICK x \in Flow : /\ flow' = [flow EXCEPT ![f] = x] /\ Replied(f, x, reply)
                          /\ x.at # "sent" => x.call = "promote"
    BY <2>2, <2>3, <1>s, ReplyTypes
  <2>u. /\ users' \in [Users -> UserRow]
        /\ users[u].status = "absent" /\ users'[u].status = "registered"
        /\ \A v \in Users \ {u} : users'[v] = users[v]
    BY <2>0, UserFacts
  <2>4. Handled(f, x, reply)
    BY <2>1, <2>2, <2>3, <2>x, <2>u, <1>k DEF Handled, Calls
  <2>5. TypeOK' /\ Grow
    BY <2>1, <2>2, <2>x, <2>u, <1>a, <1>t DEF Grow
  <2> QED BY <2>3, <2>4, <2>5
<1>3. CASE HandleLogin(f)
  <2>0. PICK u \in passkeys, t \in SessionTokens :
           /\ SessionCreate(t, u)
           /\ Answer(f, [OK(u) EXCEPT !.session = t, !.guest = Cleared(f)])
    BY <1>3 DEF HandleLogin
  <2>1. /\ flow[f].call = "login" /\ flow[f].reply = NoReply /\ flow[f].at = "sent" /\ DropGuest(f)
        /\ UNCHANGED <<users, challenges, passkeys, jar, page, loggedOut>>
    BY <1>3 DEF HandleLogin, Out
  <2>c. Cleared(f) \in {"keep", "clear"} /\ (Cleared(f) = "clear" => flow[f].guest \in GuestTokens)
    BY <1>0 DEF Cleared, Opt
  <2>o. u \in Opt(Users) /\ u \in Users
    BY <1>t DEF Opt
  <2>p. PICK reply : reply = [OK(u) EXCEPT !.session = t, !.guest = Cleared(f)]
    OBVIOUS
  <2>2. /\ reply \in Reply /\ reply.status = "ok" /\ reply.session = t /\ reply.guest \in {"keep", "clear"}
        /\ reply.guest = "clear" => flow[f].guest \in GuestTokens
    BY <2>c, <2>o, <2>p DEF Reply, NoReply, OK
  <2>x. PICK x \in Flow : /\ flow' = [flow EXCEPT ![f] = x] /\ Replied(f, x, reply)
                          /\ x.at # "sent" => x.call = "promote"
    BY <2>0, <2>p, <2>2, <1>s
  <2>s. /\ sessions' \in [SessionTokens -> TokenKey]
        /\ sessions[t].status = "unissued"
        /\ sessions'[t].status = "stored"
        /\ \A s \in SessionTokens \ {t} : sessions'[s] = sessions[s]
      BY <2>0, <2>o, SessionCreateFacts
  <2>d. /\ guests' \in [GuestTokens -> TokenKey]
        /\ faults' \subseteq Faults /\ faults' \in {faults, faults \cup {"store"}}
        /\ flow[f].guest \in GuestTokens =>
               guests'[flow[f].guest].status = "gone" \/ "store" \in faults' \/ flow[f].lost
        /\ \A g \in GuestTokens :
               /\ guests'[g].user = guests[g].user
               /\ guests'[g].status = "unissued" <=> guests[g].status = "unissued"
               /\ guests[g].status = "gone" => guests'[g].status = "gone"
      BY <2>1, DropGuestFacts
  <2>3. Handled(f, x, reply)
    BY <2>1, <2>2, <2>x, <2>s, <2>d, <1>0, <1>k DEF Handled, Calls, GuestCalls
  <2>4. TypeOK'
    BY <2>1, <2>x, <2>s, <2>d, <1>a, <1>t
  <2>5. Grow
    BY <2>1, <2>s, <2>d DEF Grow
  <2> QED BY <2>2, <2>3, <2>4, <2>5
<1>4. CASE HandleLogout(f)
  <2>1. /\ flow[f].call = "logout" /\ flow[f].reply = NoReply /\ flow[f].at = "sent"
        /\ UNCHANGED <<users, challenges, guests, passkeys, jar, page, loggedOut>>
    BY <1>4 DEF HandleLogout, Out
  <2>p. PICK reply : reply = [OK(Nil) EXCEPT !.session = "clear"]
    OBVIOUS
  <2>2. /\ reply \in Reply /\ reply.status = "ok" /\ reply.session = "clear" /\ reply.guest = "keep"
        /\ Answer(f, reply)
    BY <1>4, <2>p DEF HandleLogout, Reply, NoReply, OK, Opt
  <2>x. PICK x \in Flow : /\ flow' = [flow EXCEPT ![f] = x] /\ Replied(f, x, reply)
                          /\ x.at # "sent" => x.call = "promote"
    BY <2>2, <1>s
  <2>3. /\ sessions' \in [SessionTokens -> TokenKey]
        /\ \A t \in SessionTokens : sessions[t].status # "unissued" =>
             /\ sessions'[t].status # "unissued"
             /\ sessions'[t].user = sessions[t].user
        /\ faults' \in {faults, faults \cup {"store"}} /\ faults' \subseteq Faults
    <3>1. CASE flow[f].session = Nil /\ UNCHANGED <<sessions, faults>>
      BY <3>1, <1>t
    <3>2. CASE flow[f].session # Nil /\ SessionDelete(flow[f].session) /\ UNCHANGED faults
      <4>1. flow[f].session \in SessionTokens
        BY <3>2, <1>0 DEF Opt
      <4> QED BY <3>2, <4>1, <1>t, SessionDeleteFacts
    <3>3. CASE flow[f].session # Nil /\ UNCHANGED sessions /\ StoreFails(f)
      BY <3>3, <1>t, StoreFailsFacts
    <3> QED BY <1>4, <3>1, <3>2, <3>3 DEF HandleLogout
  <2>4. Handled(f, x, reply)
    BY <2>1, <2>2, <2>3, <2>x, <1>k DEF Handled, Calls
  <2>5. TypeOK' /\ Grow
    BY <2>1, <2>2, <2>3, <2>x, <1>0, <1>a, <1>t DEF Grow
  <2> QED BY <2>2, <2>4, <2>5
<1>5. CASE HandleGuestReuse(f)
  <2>0. PICK u \in Reuses(f) : Answer(f, OK(u))
    BY <1>5 DEF HandleGuestReuse
  <2>1. /\ flow[f].call = "guest" /\ flow[f].reply = NoReply /\ flow[f].at = "sent"
        /\ UNCHANGED <<stores, jar, page, loggedOut, faults>>
    BY <1>5 DEF HandleGuestReuse, Out
  <2>2. u \in Users /\ users[u].status = "guest"
    BY <1>0, <1>t DEF Reuses, GuestUser, IsGuest, GuestKeyInv, IssuedGuests, Opt
  <2>3. /\ OK(u) \in Reply /\ OK(u).status = "ok" /\ OK(u).session = "keep" /\ OK(u).guest = "keep"
        /\ OK(u).user = u
    BY <2>2, OKTypes DEF Opt
  <2>x. PICK x \in Flow : /\ flow' = [flow EXCEPT ![f] = x] /\ Replied(f, x, OK(u))
                          /\ x.at # "sent" => x.call = "promote"
    BY <2>0, <2>3, <1>s
  <2>4. Handled(f, x, OK(u))
    BY <2>1, <2>2, <2>3, <2>x, <1>k DEF Handled, Calls, stores
  <2>5. TypeOK' /\ Grow
    BY <2>1, <2>x, <1>a, <1>t DEF Grow, stores
  <2> QED BY <2>3, <2>4, <2>5
<1>6. CASE HandleGuestNew(f)
  <2>0. PICK u \in Users :
           /\ CreateGuest(u)
           /\ \/ /\ \E g \in GuestTokens :
                        GuestCreate(g, u) /\ Answer(f, [OK(u) EXCEPT !.guest = g])
                 /\ IF Reuses(f) = {} THEN UNCHANGED faults ELSE StoreFails(f)
              \/ UNCHANGED guests /\ Answer(f, Error) /\ StoreFails(f)
    BY <1>6 DEF HandleGuestNew
  <2>1. /\ flow[f].call = "guest" /\ flow[f].reply = NoReply /\ flow[f].at = "sent"
        /\ UNCHANGED <<challenges, sessions, passkeys, jar, page, loggedOut>>
    BY <1>6 DEF HandleGuestNew, Out
  <2>u. /\ users' \in [Users -> UserRow]
        /\ users[u].status = "absent" /\ users'[u].status = "guest"
        /\ \A v \in Users \ {u} : users'[v] = users[v]
    BY <2>0, UserFacts
  <2>2. CASE UNCHANGED guests /\ Answer(f, Error) /\ StoreFails(f)
    <3>1. faults' \in {faults, faults \cup {"store"}} /\ faults' \subseteq Faults
      BY <2>2, StoreFailsFacts
    <3>x. PICK x \in Flow : /\ flow' = [flow EXCEPT ![f] = x] /\ Replied(f, x, Error)
                            /\ x.at # "sent" => x.call = "promote"
      BY <2>2, <1>s, ReplyTypes
    <3>2. Handled(f, x, Error)
      BY <2>1, <2>2, <3>1, <3>x, <1>k, ReplyTypes DEF Handled, Calls
    <3>3. TypeOK' /\ Grow
      BY <2>1, <2>u, <2>2, <3>1, <3>x, <1>a, <1>t DEF Grow
    <3> QED BY <3>2, <3>3, ReplyTypes
  <2>3. CASE /\ \E g \in GuestTokens :
                    GuestCreate(g, u) /\ Answer(f, [OK(u) EXCEPT !.guest = g])
             /\ IF Reuses(f) = {} THEN UNCHANGED faults ELSE StoreFails(f)
    <3>0. PICK g \in GuestTokens : GuestCreate(g, u) /\ Answer(f, [OK(u) EXCEPT !.guest = g])
      BY <2>3
    <3>p. PICK reply : reply = [OK(u) EXCEPT !.guest = g]
      OBVIOUS
    <3>1. /\ reply \in Reply /\ reply.status = "ok" /\ reply.session = "keep" /\ reply.guest = g
          /\ reply.user = u
      BY <3>p DEF Reply, NoReply, OK, Opt
    <3>x. PICK x \in Flow : /\ flow' = [flow EXCEPT ![f] = x] /\ Replied(f, x, reply)
                            /\ x.at # "sent" => x.call = "promote"
      BY <3>0, <3>p, <3>1, <1>s
    <3>2. /\ faults' \in {faults, faults \cup {"store"}} /\ faults' \subseteq Faults
          /\ Reuses(f) = {} \/ "store" \in faults' \/ flow[f].lost
      BY <2>3, <1>t, StoreFailsFacts
    <3>g. /\ guests' \in [GuestTokens -> TokenKey]
          /\ guests[g].status = "unissued" /\ guests'[g].status = "stored" /\ guests'[g].user = u
          /\ \A s \in GuestTokens \ {g} : guests'[s] = guests[s]
      BY <3>0, GuestCreateFacts
    <3>3. Handled(f, x, reply)
      BY <2>1, <2>u, <3>g, <3>x, <3>1, <3>2, <1>k DEF Handled, Calls, GuestCalls
    <3>4. TypeOK'
      BY <2>1, <2>u, <3>g, <3>x, <3>2, <1>a, <1>t
    <3>5. Grow
      BY <2>1, <2>u, <3>g, <3>2 DEF Grow
    <3> QED BY <3>1, <3>3, <3>4, <3>5
  <2> QED BY <2>0, <2>2, <2>3
<1>7. CASE HandlePromoteBegin(f)
  <2>0. PICK u \in GuestUser(f) : IsGuest(u) /\ Answer(f, OK(u))
    BY <1>7 DEF HandlePromoteBegin
  <2>1. /\ flow[f].call = "promote_begin" /\ flow[f].reply = NoReply /\ flow[f].at = "sent"
        /\ UNCHANGED <<stores, jar, page, loggedOut, faults>>
    BY <1>7 DEF HandlePromoteBegin, Out
  <2>2. /\ flow[f].guest \in GuestTokens /\ guests[flow[f].guest].status = "stored"
        /\ guests[flow[f].guest].user = u
    BY <1>0 DEF GuestUser, Opt
  <2>3. u \in Users
    BY <2>2, <1>t DEF GuestKeyInv, IssuedGuests
  <2>4. /\ OK(u) \in Reply /\ OK(u).status = "ok" /\ OK(u).session = "keep" /\ OK(u).guest = "keep"
        /\ OK(u).user = u
    BY <2>3, OKTypes DEF Opt
  <2>x. PICK x \in Flow : /\ flow' = [flow EXCEPT ![f] = x] /\ Replied(f, x, OK(u))
                          /\ x.at # "sent" => x.call = "promote"
    BY <2>0, <2>4, <1>s
  <2>5. Handled(f, x, OK(u))
    BY <2>1, <2>2, <2>3, <2>4, <2>x, <1>k DEF Handled, Calls, stores
  <2>6. TypeOK' /\ Grow
    BY <2>1, <2>x, <1>a, <1>t DEF Grow, stores
  <2> QED BY <2>4, <2>5, <2>6
\* A promotion that gets on to the next part.
<1>p. ASSUME NEW at \in {"row", "key"}, flow' = [flow EXCEPT ![f].at = at], flow[f].call = "promote",
             flow[f].reply = NoReply
      PROVE  \E x \in Flow : /\ flow' = [flow EXCEPT ![f] = x] /\ Replied(f, x, NoReply)
                             /\ x.at = at /\ x.call = "promote" /\ x.reply = NoReply
                             /\ x.user = flow[f].user /\ x.guest = flow[f].guest
  <2>1. PICK x : x = [flow[f] EXCEPT !.at = at]
    OBVIOUS
  <2>2. flow' = [flow EXCEPT ![f] = x]
    BY <1>p, <2>1
  <2>3. /\ x \in Flow /\ x.call = flow[f].call /\ x.session = flow[f].session /\ x.guest = flow[f].guest
        /\ x.user = flow[f].user /\ x.reply = flow[f].reply /\ x.at = at /\ (x.lost = flow[f].lost)
    BY <1>0, <2>1 DEF Flow
  <2> QED BY <1>p, <2>2, <2>3 DEF Replied
<1>8. CASE HandlePromoteRow(f)
  <2>1. /\ flow[f].call = "promote" /\ flow[f].reply = NoReply /\ flow[f].at = "sent"
        /\ flow' = [flow EXCEPT ![f].at = "row"]
        /\ UNCHANGED <<challenges, sessions, guests, passkeys, jar, page, loggedOut, faults>>
    BY <1>8 DEF HandlePromoteRow, Out
  <2>2. PICK n \in Names : PromoteGuest(flow[f].user, n)
    BY <1>8 DEF HandlePromoteRow
  <2>u. /\ users' \in [Users -> UserRow]
        /\ users[flow[f].user].status = "guest" /\ users'[flow[f].user].status = "promoted"
        /\ \A v \in Users \ {flow[f].user} : users'[v] = users[v]
    BY <2>1, <2>2, <1>i, UserFacts
  <2>x. PICK x \in Flow : /\ flow' = [flow EXCEPT ![f] = x] /\ Replied(f, x, NoReply)
                          /\ x.call = "promote"
    BY <2>1, <1>p
  <2>3. Handled(f, x, NoReply)
    BY <2>1, <2>x, <1>k, ReplyTypes DEF Handled, Calls
  <2>4. TypeOK' /\ Grow
    BY <2>1, <2>u, <2>x, <1>a, <1>t DEF Grow
  <2> QED BY <2>3, <2>4, ReplyTypes
<1>9. CASE HandlePromoteKey(f)
  <2>1. /\ flow[f].at = "row" /\ flow[f].reply = NoReply
        /\ UNCHANGED <<users, challenges, sessions, guests, jar, page, loggedOut, faults>>
    BY <1>9 DEF HandlePromoteKey
  <2>2. flow[f].call = "promote" /\ flow[f].user \in Users /\ users[flow[f].user].status # "absent"
    BY <2>1, <1>i
  <2>3. CASE passkeys' = passkeys \cup {flow[f].user} /\ flow' = [flow EXCEPT ![f].at = "key"]
    <3>x. PICK x \in Flow : /\ flow' = [flow EXCEPT ![f] = x] /\ Replied(f, x, NoReply)
                            /\ x.at = "key" /\ x.call = "promote" /\ x.reply = NoReply
                            /\ x.user = flow[f].user /\ x.guest = flow[f].guest
      BY <2>1, <2>2, <2>3, <1>p
    <3>1. Handled(f, x, NoReply)
      BY <2>1, <2>2, <2>3, <3>x, <1>k, ReplyTypes DEF Handled, Calls
    <3>2. TypeOK' /\ Grow
      BY <2>1, <2>2, <2>3, <3>x, <1>a, <1>t DEF Grow
    <3> QED BY <3>1, <3>2, ReplyTypes
  <2>4. CASE UNCHANGED passkeys /\ Answer(f, Error)
    <3>x. PICK x \in Flow : /\ flow' = [flow EXCEPT ![f] = x] /\ Replied(f, x, Error)
                            /\ x.at # "sent" => x.call = "promote"
      BY <2>4, <1>s, ReplyTypes
    <3>1. Handled(f, x, Error)
      BY <2>1, <2>2, <2>4, <3>x, <1>k, ReplyTypes DEF Handled, Calls
    <3>2. TypeOK' /\ Grow
      BY <2>1, <2>4, <3>x, <1>a, <1>t DEF Grow
    <3> QED BY <3>1, <3>2, ReplyTypes
  <2> QED BY <1>9, <2>3, <2>4 DEF HandlePromoteKey
<1>10. CASE HandlePromoteEnd(f)
  <2>1. /\ flow[f].at = "key" /\ flow[f].reply = NoReply
        /\ UNCHANGED <<users, challenges, passkeys, jar, page, loggedOut>>
    BY <1>10 DEF HandlePromoteEnd
  <2>2. flow[f].call = "promote" /\ flow[f].user \in Users
    BY <2>1, <1>i
  <2>4. CASE /\ Answer(f, Error)
             /\ StoreFails(f) \/ (SessionsExhausted /\ faults' = faults \cup {"store"})
             /\ UNCHANGED <<sessions, guests>>
    <3>1. /\ faults' \in {faults, faults \cup {"store"}} /\ faults' \subseteq Faults
          /\ "store" \in faults' \/ flow[f].lost
      <4>1. CASE StoreFails(f)
        BY <4>1, StoreFailsFacts
      <4>2. CASE faults' = faults \cup {"store"}
        BY <4>2, <1>t DEF Faults
      <4> QED BY <2>4, <4>1, <4>2
    <3>x. PICK x \in Flow : /\ flow' = [flow EXCEPT ![f] = x] /\ Replied(f, x, Error)
                            /\ x.at # "sent" => x.call = "promote"
      BY <2>4, <1>s, ReplyTypes
    <3>2. Handled(f, x, Error)
      BY <2>1, <2>2, <2>4, <3>1, <3>x, <1>k, ReplyTypes DEF Handled, Calls
    <3>3. TypeOK' /\ Grow
      BY <2>1, <2>4, <3>1, <3>x, <1>a, <1>t DEF Grow
    <3> QED BY <3>2, <3>3, ReplyTypes
  <2>5. CASE /\ \E t \in SessionTokens :
                    /\ SessionCreate(t, flow[f].user)
                    /\ Answer(f, [OK(flow[f].user) EXCEPT !.session = t, !.guest = Cleared(f)])
             /\ DropGuest(f)
    <3>0. PICK t \in SessionTokens :
                    /\ SessionCreate(t, flow[f].user)
                    /\ Answer(f, [OK(flow[f].user) EXCEPT !.session = t, !.guest = Cleared(f)])
      BY <2>5
    <3>c. Cleared(f) \in {"keep", "clear"} /\ (Cleared(f) = "clear" => flow[f].guest \in GuestTokens)
      BY <1>0 DEF Cleared, Opt
    <3>p. PICK reply : reply = [OK(flow[f].user) EXCEPT !.session = t, !.guest = Cleared(f)]
      OBVIOUS
    <3>1. /\ reply \in Reply /\ reply.status = "ok" /\ reply.session = t /\ reply.guest \in {"keep", "clear"}
          /\ reply.guest = "clear" => flow[f].guest \in GuestTokens
      BY <1>0, <3>c, <3>p DEF Reply, NoReply, OK
    <3>x. PICK x \in Flow : /\ flow' = [flow EXCEPT ![f] = x] /\ Replied(f, x, reply)
                            /\ x.at # "sent" => x.call = "promote"
      BY <3>0, <3>p, <3>1, <1>s
    <3>s. /\ sessions' \in [SessionTokens -> TokenKey]
          /\ sessions[t].status = "unissued"
          /\ sessions'[t].status = "stored"
          /\ \A s \in SessionTokens \ {t} : sessions'[s] = sessions[s]
        BY <3>0, <2>2, SessionCreateFacts
    <3>d. /\ guests' \in [GuestTokens -> TokenKey]
          /\ faults' \subseteq Faults /\ faults' \in {faults, faults \cup {"store"}}
          /\ flow[f].guest \in GuestTokens =>
                 guests'[flow[f].guest].status = "gone" \/ "store" \in faults' \/ flow[f].lost
          /\ \A g \in GuestTokens :
                 /\ guests'[g].user = guests[g].user
                 /\ guests'[g].status = "unissued" <=> guests[g].status = "unissued"
                 /\ guests[g].status = "gone" => guests'[g].status = "gone"
        BY <2>5, DropGuestFacts
    <3>3. Handled(f, x, reply)
      BY <2>1, <2>2, <3>1, <3>x, <3>s, <3>d, <1>0, <1>k DEF Handled, Calls, GuestCalls, Opt
    <3>4. TypeOK'
      BY <2>1, <3>x, <3>s, <3>d, <1>a, <1>t
    <3>5. Grow
      BY <2>1, <3>s, <3>d DEF Grow
    <3> QED BY <3>1, <3>3, <3>4, <3>5
  <2> QED BY <1>10, <2>4, <2>5 DEF HandlePromoteEnd
<1>11. CASE HandleUser(f)
  <2>1. /\ flow[f].call \in {"me", "list"} /\ flow[f].reply = NoReply /\ flow[f].at = "sent"
        /\ UNCHANGED <<stores, jar, page, loggedOut, faults>>
    BY <1>11 DEF HandleUser, Out
  <2>2. PICK reply \in Reply :
          /\ Answer(f, reply) /\ reply.session = "keep" /\ reply.guest = "keep"
          /\ \/ reply = Error
             \/ /\ reply.status = "ok" /\ flow[f].session \in SessionTokens
                /\ reply.user = sessions[flow[f].session].user
    <3>1. CASE SessionUser(f) = {} /\ Answer(f, Error)
      BY <3>1, ReplyTypes
    <3>2. CASE \E u \in SessionUser(f) : Answer(f, OK(u))
      <4>1. PICK u \in SessionUser(f) : Answer(f, OK(u))
        BY <3>2
      <4>2. flow[f].session \in SessionTokens /\ u = sessions[flow[f].session].user
        BY <1>0 DEF SessionUser, Opt
      <4>3. u \in Opt(Users)
        BY <4>2, <1>t DEF TokenKey
      <4> QED BY <4>1, <4>2, <4>3, OKTypes
    <3> QED BY <1>11, <3>1, <3>2 DEF HandleUser
  <2>x. PICK x \in Flow : /\ flow' = [flow EXCEPT ![f] = x] /\ Replied(f, x, reply)
                          /\ x.at # "sent" => x.call = "promote"
    BY <2>2, <1>s, ReplyTypes
  <2>3. Handled(f, x, reply)
    BY <2>1, <2>2, <2>x, <1>k, ReplyTypes DEF Handled, Calls, stores
  <2>4. TypeOK' /\ Grow
    BY <2>1, <2>x, <1>a, <1>t DEF Grow, stores
  <2> QED BY <2>3, <2>4
<1> QED BY <1>1, <1>2, <1>3, <1>4, <1>5, <1>6, <1>7, <1>8, <1>9, <1>10, <1>11 DEF Handle

\* What a step of the page does: slot f becomes x, a request that carries the
\* jar's cookies or a function that ended or asks the authenticator, after the
\* response of f, if any, went into jar and page.
Browsed(f, x) ==
    /\ flow' = [flow EXCEPT ![f] = x]
    /\ x.reply = NoReply /\ x.at = "sent" /\ ~x.lost
    /\ UNCHANGED stores
    /\ faults \subseteq faults' /\ ("store" \in faults' => "store" \in faults)
    /\ Idle(f) => (\A e \in Requests : Idle(e)) \/ "overlap" \in faults' \/ "lost" \in faults'
    /\ flow[f].at # "sent" /\ flow[f].reply = NoReply => "lost" \in faults'
    \* the cookies
    /\ \/ "lost" \in faults' /\ UNCHANGED jar
       \/ jar' = JarAfter(flow[f].reply)
    /\ x.call \in SessionCalls => x.session = jar'.session
    /\ x.call \in GuestCalls => x.guest = jar'.guest
    /\ x.call = "idle" => x.session = Nil
    /\ x.session \in {Nil, jar'.session} /\ x.guest \in {Nil, jar'.guest}
    /\ \/ loggedOut' = loggedOut
       \/ /\ loggedOut' = loggedOut \cup ({flow[f].session} \ {Nil})
          /\ jar'.session = Nil
    \* the two halves of a promotion
    /\ x.call = "create" =>
           /\ flow[f].call = "promote_begin" /\ flow[f].reply.status = "ok"
           /\ x.user = flow[f].reply.user
    /\ x.call = "promote" => flow[f].call = "create" /\ x.user = flow[f].user
    \* the page: refreshMe begins; its first answer; a page cleared; its second
    \* answer; anything else
    /\ \/ "lost" \in faults'
       \/ x.call = "me"
       \/ /\ flow[f].call = "me" /\ flow[f].reply.status = "ok"
          /\ x.call = "list" /\ page'.me = flow[f].reply.user
       \/ ~page'.shown /\ x.call = "idle"
       \/ /\ flow[f].call = "list" /\ x.call = "idle" /\ page'.me = page.me
          /\ page'.list = Nil \/ (flow[f].reply.status = "ok" /\ page'.list = flow[f].reply.user)
       \/ /\ flow[f].call \notin {"me", "list"} /\ x.call \notin {"me", "list"}
          /\ page'.me = page.me /\ page'.list = page.list /\ page'.shown = page.shown
          /\ jar'.session = jar.session

\* What only takes away: an expiry, a cookie that lapses, a call given up whose
\* handler goes on. Every slot keeps its request and its answer.
Faded ==
    /\ UNCHANGED <<users, passkeys, page, loggedOut>>
    /\ faults \subseteq faults' /\ ("store" \in faults' => "store" \in faults)
    /\ \A e \in Requests :
           /\ flow'[e].call = flow[e].call /\ flow'[e].session = flow[e].session
           /\ flow'[e].guest = flow[e].guest /\ flow'[e].user = flow[e].user
           /\ flow'[e].reply = flow[e].reply /\ flow'[e].at = flow[e].at
           /\ flow'[e].lost => flow[e].lost \/ "lost" \in faults'
    /\ jar'.session \in {jar.session, Nil} /\ jar'.guest \in {jar.guest, Nil}
    /\ \A t \in SessionTokens :
           /\ sessions'[t].user = sessions[t].user
           /\ sessions'[t].status = "unissued" <=> sessions[t].status = "unissued"
    /\ \A g \in GuestTokens :
           /\ guests'[g].user = guests[g].user
           /\ guests'[g].status = "unissued" <=> guests[g].status = "unissued"
           /\ guests'[g].status = "stored" => guests[g].status = "stored"
    /\ \A g \in GuestTokens :
           jar.guest = g /\ jar'.guest # g => guests'[g].status # "stored" \/ "early" \in faults'

PageType == [me : Opt(Users), list : Opt(Users), shown : BOOLEAN, guest : BOOLEAN]

JarType == [session : Opt(SessionTokens), guest : Opt(GuestTokens)]

\* The jar after a response.
LEMMA JarFacts ==
  ASSUME TypeOK, NEW f \in Requests
  PROVE  LET reply == flow[f].reply
             j == JarAfter(reply)
         IN  /\ j \in JarType
             /\ reply.session = "keep" => j.session = jar.session
             /\ reply.session = "clear" => j.session = Nil
             /\ reply.session \in SessionTokens => j.session = reply.session
             /\ reply.guest = "keep" => j.guest = jar.guest
             /\ reply.guest = "clear" => j.guest = Nil
             /\ reply.guest \in GuestTokens => j.guest = reply.guest
             /\ reply = NoReply => j = jar
<1>1. /\ flow[f].reply \in Reply /\ jar \in JarType
      /\ flow[f].reply.session \in SessionTokens \cup {"keep", "clear"}
      /\ flow[f].reply.guest \in GuestTokens \cup {"keep", "clear"}
      /\ jar.session \in Opt(SessionTokens) /\ jar.guest \in Opt(GuestTokens)
  BY DEF TypeOK, Flow, Reply, JarType
<1>2. /\ "keep" \notin SessionTokens /\ "clear" \notin SessionTokens
      /\ "keep" \notin GuestTokens /\ "clear" \notin GuestTokens
  BY CookieAssumption
<1>3. JarAfter(NoReply) = jar
  BY <1>1 DEF JarAfter, Update, NoReply, JarType
<1> QED BY <1>1, <1>2, <1>3 DEF JarAfter, Update, JarType, Opt

\* What each call does to the page, field by field.
LEMMA PageFacts ==
  ASSUME TypeOK, NEW f \in Requests
  PROVE  LET reply == flow[f].reply
             call == flow[f].call
             p == PageAfter(call, reply)
         IN  /\ p \in PageType
             /\ call = "logout" => ~p.shown
             /\ call = "me" /\ reply.status = "ok" => p.me = reply.user
             /\ call = "me" /\ reply.status # "ok" => ~p.shown
             /\ call = "list" => /\ p.me = page.me
                                 /\ p.list = IF reply.status = "ok" THEN reply.user ELSE Nil
             /\ call \notin {"me", "list", "logout"} =>
                    p.me = page.me /\ p.list = page.list /\ p.shown = page.shown
<1>1. page \in PageType /\ flow[f].reply.user \in Opt(Users) /\ Nil \in Opt(Users)
  BY DEF TypeOK, Flow, Reply, PageType, Opt
<1> DEFINE reply == flow[f].reply
           call == flow[f].call
<1>2. CASE call = "logout"
  BY <1>1, <1>2 DEF PageAfter, PageType
<1>3. CASE call = "list"
  BY <1>1, <1>3 DEF PageAfter, PageType
<1>4. CASE call = "me"
  BY <1>1, <1>4 DEF PageAfter, PageType
<1>5. CASE call \notin {"logout", "list", "me"}
  <2>1. PageAfter(call, reply) \in {page, [page EXCEPT !.guest = TRUE], [page EXCEPT !.guest = FALSE]}
    BY <1>5 DEF PageAfter
  <2> QED BY <1>1, <1>5, <2>1 DEF PageType
<1> QED BY <1>2, <1>3, <1>4, <1>5

\* Every step of the page is of one of the two forms and keeps the types.
LEMMA Browsers ==
  ASSUME TypeOK, ReplyInv, LostInv, NEW f \in Requests, Browse(f)
  PROVE  TypeOK' /\ (Faded \/ \E x \in Flow : Browsed(f, x))
<1>0. /\ jar \in JarType /\ page \in PageType /\ Nil \in Opt(Users) /\ flow[f] \in Flow /\ flow[f].reply \in Reply
      /\ flow[f].session \in Opt(SessionTokens) /\ loggedOut \subseteq SessionTokens
  BY DEF TypeOK, Flow, Opt, JarType, PageType
<1>c. flow[f].call \notin Calls => JarAfter(flow[f].reply) = jar
  BY JarFacts DEF ReplyInv
<1>t. flow[f].at # "sent" => flow[f].call = "promote"
  BY DEF ReplyInv
<1>a. ASSUME NEW x \in Flow, flow' = [flow EXCEPT ![f] = x], UNCHANGED stores,
             jar' \in JarType, page' \in PageType, loggedOut' \subseteq SessionTokens, faults' \subseteq Faults
      PROVE  TypeOK'
  <2>1. flow' \in [Requests -> Flow]
    BY <1>a, SlotFacts
  <2> QED BY <1>a, <2>1 DEF TypeOK, UsersTypeOK, RedisTypeOK, stores, JarType, PageType
\* At rest no function is under way, or a message was lost.
<1>r. PageAtRest => (\A e \in Requests : Idle(e)) \/ "lost" \in faults
  BY DEF PageAtRest, LostInv
<1>1. ASSUME NEW call \in {"register", "login", "logout", "guest", "promote_begin", "me"}, Click(f, call)
      PROVE  TypeOK' /\ \E x \in Flow : Browsed(f, x)
  <2>0. call \in Calls /\ call \notin {"promote", "create", "list", "idle"}
    BY DEF Calls
  <2>1. /\ Idle(f) /\ flow' = [flow EXCEPT ![f] = Send(call, Nil, jar)]
        /\ UNCHANGED <<stores, jar, page, loggedOut>>
    BY <1>1 DEF Click
  <2>2. /\ faults \subseteq faults' /\ faults' \subseteq Faults /\ ("store" \in faults' => "store" \in faults)
        /\ (\A e \in Requests : Idle(e)) \/ "overlap" \in faults' \/ "lost" \in faults'
    <3>1. CASE PageAtRest
      BY <1>1, <1>r, <3>1 DEF Click, TypeOK
    <3>2. CASE ~PageAtRest
      BY <1>1, <3>2, OccursFacts DEF Click, Faults
    <3> QED BY <3>1, <3>2
  <2>3. PICK x \in Flow : /\ x = Send(call, Nil, jar) /\ x.call = call /\ x.reply = NoReply
                          /\ x.at = "sent" /\ ~x.lost
                          /\ x.session \in {Nil, jar.session} /\ x.guest \in {Nil, jar.guest}
                          /\ call \in SessionCalls => x.session = jar.session
                          /\ call \in GuestCalls => x.guest = jar.guest
    BY <1>0, <2>0, SendTypes DEF JarType
  <2>4. flow[f].call = "idle" /\ flow[f].call \notin Calls /\ flow[f].at = "sent"
    BY <2>1, <1>t DEF Idle, Calls
  <2>5. Browsed(f, x)
    BY <2>0, <2>1, <2>2, <2>3, <2>4, <1>c DEF Browsed
  <2> QED BY <2>1, <2>2, <2>3, <2>5, <1>0, <1>a
<1>2. CASE Reload(f)
  <2>1. /\ Idle(f) /\ PageAtRest
        /\ page' = EmptyPage /\ flow' = [flow EXCEPT ![f] = Send("me", Nil, jar)]
        /\ UNCHANGED <<stores, jar, loggedOut, faults>>
    BY <1>2 DEF Reload
  <2>2. "me" \in Calls
    BY DEF Calls
  <2>3. PICK x \in Flow : /\ x = Send("me", Nil, jar) /\ x.call = "me" /\ x.reply = NoReply
                          /\ x.at = "sent" /\ ~x.lost
                          /\ x.session \in {Nil, jar.session} /\ x.guest \in {Nil, jar.guest}
                          /\ "me" \in SessionCalls => x.session = jar.session
                          /\ "me" \in GuestCalls => x.guest = jar.guest
    BY <1>0, <2>2, SendTypes DEF JarType
  <2>4. flow[f].call \notin Calls /\ flow[f].at = "sent"
    BY <2>1, <1>t DEF Idle, Calls
  <2>5. Browsed(f, x)
    BY <2>1, <2>2, <2>3, <2>4, <1>c, <1>r DEF Browsed
  <2>6. page' \in PageType /\ faults' \subseteq Faults
    BY <2>1 DEF EmptyPage, PageType, Opt, TypeOK
  <2> QED BY <2>1, <2>3, <2>5, <2>6, <1>0, <1>a
<1>3. CASE Created(f)
  <2>1. /\ flow[f].call = "create" /\ UNCHANGED <<stores, jar, page, loggedOut, faults>>
        /\ \/ flow' = [flow EXCEPT ![f] = Send("promote", flow[f].user, jar)]
           \/ flow' = [flow EXCEPT ![f] = IdleFlow]
    BY <1>3 DEF Created
  <2>2. /\ flow[f].call \notin Calls /\ "promote" \in Calls /\ ~Idle(f) /\ flow[f].user \in Opt(Users)
        /\ flow[f].at = "sent"
    BY <2>1, <1>0, <1>t DEF Calls, Idle, Flow
  <2>3. PICK x \in Flow : /\ flow' = [flow EXCEPT ![f] = x] /\ x.reply = NoReply
                          /\ x.at = "sent" /\ ~x.lost
                          /\ x.session \in {Nil, jar.session} /\ x.guest \in {Nil, jar.guest}
                          /\ \/ x.call = "promote" /\ x.user = flow[f].user /\ x.guest = jar.guest
                             \/ x.call = "idle" /\ x.session = Nil
    <3>1. CASE flow' = [flow EXCEPT ![f] = Send("promote", flow[f].user, jar)]
      <4>1. PICK x \in Flow : /\ x = Send("promote", flow[f].user, jar) /\ x.call = "promote"
                              /\ x.user = flow[f].user /\ x.reply = NoReply /\ x.at = "sent" /\ ~x.lost
                              /\ x.session \in {Nil, jar.session} /\ x.guest \in {Nil, jar.guest}
                              /\ "promote" \in GuestCalls => x.guest = jar.guest
        BY <1>0, <2>2, SendTypes DEF JarType
      <4> QED BY <3>1, <4>1 DEF GuestCalls
    <3>2. CASE flow' = [flow EXCEPT ![f] = IdleFlow]
      BY <3>2, IdleTypes
    <3> QED BY <2>1, <3>1, <3>2
  <2>4. Browsed(f, x)
    BY <2>1, <2>2, <2>3, <1>c DEF Browsed, SessionCalls, GuestCalls
  <2>5. faults' \subseteq Faults
    BY <2>1 DEF TypeOK
  <2> QED BY <2>1, <2>3, <2>4, <2>5, <1>0, <1>a
<1>4. CASE Deliver(f)
  <2> DEFINE reply == flow[f].reply
             call == flow[f].call
             next == NextCall(call, reply)
             j == JarAfter(reply)
  <2>1. /\ reply # NoReply /\ jar' = j /\ page' = PageAfter(call, reply)
        /\ UNCHANGED <<stores, faults>>
        /\ flow' = [flow EXCEPT ![f] = CASE next = "idle" -> IdleFlow
                                         [] next = "create" -> [IdleFlow EXCEPT !.call = "create", !.user = reply.user]
                                         [] OTHER -> Send(next, Nil, j)]
        /\ loggedOut' = loggedOut \cup IF call = "logout" THEN {flow[f].session} \ {Nil} ELSE {}
    BY <1>4 DEF Deliver, Answered
  <2>2. /\ next \in {"idle", "me", "list", "create"}
        /\ next = "create" => call = "promote_begin" /\ reply.status = "ok"
        /\ next = "list" => call = "me" /\ reply.status = "ok"
        /\ next = "idle" => reply.status # "ok" \/ call \notin {"login", "promote", "me", "promote_begin"}
    <3>1. CASE reply.status # "ok"
      BY <3>1 DEF NextCall
    <3>2. CASE reply.status = "ok" /\ call \in {"login", "promote"}
      BY <3>2 DEF NextCall
    <3>3. CASE reply.status = "ok" /\ call \in {"me", "promote_begin"}
      BY <3>3 DEF NextCall
    <3>4. CASE reply.status = "ok" /\ call \notin {"login", "promote", "me", "promote_begin"}
      BY <3>4 DEF NextCall
    <3> QED BY <3>1, <3>2, <3>3, <3>4
  <2>3. call \in Calls /\ ~Idle(f) /\ reply.user \in Opt(Users) /\ j \in JarType /\ page' \in PageType
    BY <2>1, <1>0, JarFacts, PageFacts DEF ReplyInv, Idle, Calls, Reply
  <2>4. PICK x \in Flow : /\ flow' = [flow EXCEPT ![f] = x] /\ x.reply = NoReply /\ x.call = next
                          /\ x.at = "sent" /\ ~x.lost
                          /\ next = "create" => x.user = reply.user
                          /\ x.session \in {Nil, jar'.session} /\ x.guest \in {Nil, jar'.guest}
                          /\ x.call \in SessionCalls => x.session = jar'.session
                          /\ x.call \in GuestCalls => x.guest = jar'.guest
                          /\ x.call = "idle" => x.session = Nil
    <3> HIDE DEF next, j, reply
    <3>1. CASE next = "idle"
      BY <2>1, <3>1, IdleTypes DEF SessionCalls, GuestCalls
    <3>2. CASE next = "create"
      <4>1. PICK x \in Flow : /\ x = [IdleFlow EXCEPT !.call = "create", !.user = reply.user]
                              /\ x.call = "create" /\ x.reply = NoReply /\ x.user = reply.user
                              /\ x.session = Nil /\ x.guest = Nil /\ x.at = "sent" /\ ~x.lost
        BY <2>3, IdleTypes
      <4> QED BY <2>1, <3>2, <4>1 DEF SessionCalls, GuestCalls
    <3>3. CASE next \in {"me", "list"}
      <4>1. next \in Calls /\ next # "idle" /\ next # "create"
        BY <3>3 DEF Calls
      <4>2. PICK x \in Flow : /\ x = Send(next, Nil, j) /\ x.call = next /\ x.reply = NoReply
                              /\ x.at = "sent" /\ ~x.lost
                              /\ x.session \in {Nil, j.session} /\ x.guest \in {Nil, j.guest}
                              /\ next \in SessionCalls => x.session = j.session
                              /\ next \in GuestCalls => x.guest = j.guest
        BY <1>0, <2>3, <4>1, SendTypes DEF JarType
      <4> QED BY <2>1, <4>1, <4>2
    <3> QED BY <2>2, <3>1, <3>2, <3>3
  <2>5. /\ reply.session # "keep" => call \in {"login", "promote", "logout"} /\ reply.status = "ok"
        /\ call = "logout" => reply.session = "clear"
    <3>1. reply.session \in SessionTokens \cup {"keep", "clear"} /\ reply.status \in {"none", "ok", "error"}
      BY <1>0 DEF Reply
    <3> QED BY <3>1, <2>1, ReplyTypes DEF ReplyInv
  <2>6. \/ x.call = "me"
        \/ /\ flow[f].call = "me" /\ flow[f].reply.status = "ok"
           /\ x.call = "list" /\ page'.me = flow[f].reply.user
        \/ ~page'.shown /\ x.call = "idle"
        \/ /\ flow[f].call = "list" /\ x.call = "idle" /\ page'.me = page.me
           /\ page'.list = Nil \/ (flow[f].reply.status = "ok" /\ page'.list = flow[f].reply.user)
        \/ /\ flow[f].call \notin {"me", "list"} /\ x.call \notin {"me", "list"}
           /\ page'.me = page.me /\ page'.list = page.list /\ page'.shown = page.shown
           /\ jar'.session = jar.session
    <3>1. CASE call = "logout"
      BY <3>1, <2>1, <2>2, <2>4, PageFacts
    <3>2. CASE call = "me"
      BY <3>2, <2>1, <2>2, <2>4, PageFacts
    <3>3. CASE call = "list"
      <4>1. next = "idle"
        BY <3>3 DEF NextCall
      <4> QED BY <3>3, <4>1, <2>1, <2>4, PageFacts
    <3>4. CASE call \notin {"logout", "me", "list"}
      <4>1. CASE next = "me"
        BY <4>1, <2>4
      <4>2. CASE next # "me"
        <5>1. reply.session = "keep"
          BY <3>4, <4>2, <2>2, <2>5
        <5>2. jar'.session = jar.session
          BY <5>1, <2>1, JarFacts
        <5>3. x.call \notin {"me", "list"}
          BY <3>4, <4>2, <2>2, <2>4
        <5>4. page'.me = page.me /\ page'.list = page.list /\ page'.shown = page.shown
          BY <3>4, <2>1, PageFacts
        <5> QED BY <3>4, <5>2, <5>3, <5>4
      <4> QED BY <4>1, <4>2
    <3> QED BY <3>1, <3>2, <3>3, <3>4
  \* The answer of a logout empties the jar.
  <2>9. /\ loggedOut' \subseteq SessionTokens
        /\ \/ loggedOut' = loggedOut
           \/ loggedOut' = loggedOut \cup ({flow[f].session} \ {Nil}) /\ jar'.session = Nil
    <3>1. CASE call = "logout"
      <4>1. jar'.session = Nil
        BY <3>1, <2>1, <2>5, JarFacts
      <4> QED BY <3>1, <4>1, <2>1, <1>0 DEF Opt
    <3>2. CASE call # "logout"
      BY <3>2, <2>1, <1>0
    <3> QED BY <3>1, <3>2
  <2> HIDE DEF next, j
  <2>7. Browsed(f, x)
    BY <2>1, <2>2, <2>3, <2>4, <2>6, <2>9 DEF Browsed, j
  <2>8. faults' \subseteq Faults
    BY <2>1 DEF TypeOK
  <2> QED BY <2>1, <2>3, <2>4, <2>7, <2>8, <2>9, <1>a
<1>5. CASE Lose(f)
  <2>1. /\ flow[f].call \in Calls /\ Occurs("lost") /\ UNCHANGED <<stores, jar, page, loggedOut>>
    BY <1>5 DEF Lose
  <2>2. faults' = faults \cup {"lost"} /\ faults' \subseteq Faults
    BY <2>1, OccursFacts DEF Faults
  <2>3. ~Idle(f)
    BY <2>1 DEF Idle, Calls
  <2>4. CASE flow' = [flow EXCEPT ![f] = IdleFlow]
    <3>1. Browsed(f, IdleFlow)
      BY <2>1, <2>2, <2>3, <2>4, IdleTypes DEF Browsed, SessionCalls, GuestCalls
    <3> QED BY <2>1, <2>2, <2>4, <3>1, <1>0, <1>a, IdleTypes
  <2>5. CASE flow' = [flow EXCEPT ![f].lost = TRUE]
    <3>1. PICK x : x = [flow[f] EXCEPT !.lost = TRUE]
      OBVIOUS
    <3>2. /\ x \in Flow /\ x.call = flow[f].call /\ x.session = flow[f].session /\ x.guest = flow[f].guest
          /\ x.user = flow[f].user /\ x.reply = flow[f].reply /\ x.at = flow[f].at
      BY <3>1, <1>0 DEF Flow
    <3>3. flow' = [flow EXCEPT ![f] = x]
      BY <2>5, <3>1
    <3>4. flow'[f] = x /\ \A e \in Requests \ {f} : flow'[e] = flow[e]
      BY <3>2, <3>3, SlotFacts
    <3>5. Faded
      BY <2>1, <2>2, <3>2, <3>4 DEF Faded, stores
    <3> QED BY <2>1, <2>2, <3>2, <3>3, <3>5, <1>0, <1>a
  <2> QED BY <1>5, <2>4, <2>5 DEF Lose
<1> QED BY <1>1, <1>2, <1>3, <1>4, <1>5 DEF Browse

LEMMA Fades ==
  ASSUME TypeOK, ExpireToken \/ LapseCookie
  PROVE  TypeOK' /\ Faded
<1>0. /\ sessions \in [SessionTokens -> TokenKey] /\ guests \in [GuestTokens -> TokenKey]
      /\ jar \in JarType /\ faults \subseteq Faults
  BY DEF TypeOK, RedisTypeOK, JarType
<1>a. ASSUME UNCHANGED <<users, challenges, passkeys, page, flow, loggedOut>>, jar' \in JarType,
             sessions' \in [SessionTokens -> TokenKey], guests' \in [GuestTokens -> TokenKey], faults' \subseteq Faults
      PROVE  TypeOK'
  BY <1>a DEF TypeOK, UsersTypeOK, RedisTypeOK, JarType
<1>1. CASE ExpireToken
  <2>u. UNCHANGED <<users, challenges, passkeys, jar, page, flow, loggedOut, faults>>
    BY <1>1 DEF ExpireToken
  <2>1. CASE \E t \in SessionTokens :
                sessions[t].status = "stored" /\ SessionDelete(t) /\ UNCHANGED guests
    <3>1. PICK t \in SessionTokens :
                sessions[t].status = "stored" /\ SessionDelete(t) /\ UNCHANGED guests
      BY <2>1
    <3> QED BY <1>0, <1>a, <2>u, <3>1, SessionDeleteFacts DEF Faded
  <2>2. CASE \E g \in GuestTokens :
                guests[g].status = "stored" /\ GuestDelete(g) /\ UNCHANGED sessions
    <3>1. PICK g \in GuestTokens :
                guests[g].status = "stored" /\ GuestDelete(g) /\ UNCHANGED sessions
      BY <2>2
    <3> QED BY <1>0, <1>a, <2>u, <3>1, GuestDeleteFacts DEF Faded
  <2> QED BY <1>1, <2>1, <2>2 DEF ExpireToken
<1>2. CASE LapseCookie
  <2>u. UNCHANGED <<stores, page, flow, loggedOut>>
    BY <1>2 DEF LapseCookie
  <2>1. CASE /\ jar.session # Nil
             /\ jar' = [jar EXCEPT !.session = Nil]
             /\ IF sessions[jar.session].status = "stored" THEN Occurs("early") ELSE UNCHANGED faults
    <3>1. jar' \in JarType /\ jar'.session = Nil /\ jar'.guest = jar.guest
      BY <1>0, <2>1 DEF JarType, Opt
    <3>2. faults' \in {faults, faults \cup {"early"}} /\ faults' \subseteq Faults
      BY <1>0, <2>1, OccursFacts DEF Faults
    <3> QED BY <1>0, <1>a, <2>u, <3>1, <3>2 DEF Faded, stores
  <2>2. CASE /\ jar.guest # Nil
             /\ jar' = [jar EXCEPT !.guest = Nil]
             /\ IF guests[jar.guest].status = "stored" THEN Occurs("early") ELSE UNCHANGED faults
    <3>1. jar' \in JarType /\ jar'.guest = Nil /\ jar'.session = jar.session
      BY <1>0, <2>2 DEF JarType, Opt
    <3>2. /\ faults' \in {faults, faults \cup {"early"}} /\ faults' \subseteq Faults
          /\ guests[jar.guest].status # "stored" \/ "early" \in faults'
      BY <1>0, <2>2, OccursFacts DEF Faults
    <3> QED BY <1>0, <1>a, <2>u, <3>1, <3>2 DEF Faded, stores
  <2> QED BY <1>2, <2>1, <2>2 DEF LapseCookie
<1> QED BY <1>1, <1>2

------------------------------------------------------------------------------
(* Each part of the invariant is kept by each kind of step.                  *)

\* What the slots look like after a handler's and after a page's step.
LEMMA HandledSlots ==
  ASSUME TypeOK, NEW f \in Requests, NEW x \in Flow, NEW r \in Reply, Handled(f, x, r)
  PROVE  /\ flow'[f] = x
         /\ \A e \in Requests \ {f} : flow'[e] = flow[e]
         /\ \/ /\ x.call = "idle" /\ x.reply = NoReply /\ x.session = Nil /\ x.guest = Nil
               /\ flow[f].lost \/ flow[f].call \notin {"me", "list"}
            \/ /\ x.call = flow[f].call /\ x.session = flow[f].session /\ x.guest = flow[f].guest
               /\ x.user = flow[f].user /\ x.reply = r
         /\ jar' = jar /\ page' = page /\ loggedOut' = loggedOut
<1>1. flow'[f] = x /\ \A e \in Requests \ {f} : flow'[e] = flow[e]
  BY SlotFacts DEF Handled
<1>2. Replied(f, x, r) /\ jar' = jar /\ page' = page /\ loggedOut' = loggedOut
  BY DEF Handled
<1>3. \/ x = IdleFlow /\ (flow[f].lost \/ flow[f].call \notin {"me", "list"})
      \/ /\ x.call = flow[f].call /\ x.session = flow[f].session /\ x.guest = flow[f].guest
         /\ x.user = flow[f].user /\ x.reply = r
  BY <1>2 DEF Replied, Ends
<1> QED BY <1>1, <1>2, <1>3, IdleTypes

\* An answer in a slot is the one the handler gave to a page that still waits.
LEMMA HandledReply ==
  ASSUME TypeOK, NEW f \in Requests, NEW x \in Flow, NEW r \in Reply, Handled(f, x, r), x.reply # NoReply
  PROVE  x.reply = r /\ x.call = flow[f].call /\ ~flow[f].lost
<1>1. Replied(f, x, r)
  BY DEF Handled
<1> QED BY <1>1, IdleTypes DEF Replied

LEMMA BrowsedSlots ==
  ASSUME TypeOK, NEW f \in Requests, NEW x \in Flow, Browsed(f, x)
  PROVE  /\ flow'[f] = x
         /\ \A e \in Requests \ {f} : flow'[e] = flow[e]
         /\ x.reply = NoReply
         /\ users' = users /\ sessions' = sessions /\ guests' = guests /\ passkeys' = passkeys
  BY SlotFacts DEF Browsed, stores

\* The guest cookie after a page's step.
LEMMA BrowsedGuest ==
  ASSUME TypeOK, NEW f \in Requests, NEW x \in Flow, Browsed(f, x)
  PROVE  LET r == flow[f].reply
         IN  /\ \/ jar'.guest = jar.guest
                \/ jar'.guest = Nil
                \/ r.guest \in GuestTokens /\ jar'.guest = r.guest
             /\ x.guest \in {Nil, jar'.guest}
             /\ x.reply.guest = "keep"
<1>1. flow[f].reply.guest \in GuestTokens \cup {"keep", "clear"}
  BY DEF TypeOK, Flow, Reply
<1> QED BY <1>1, JarFacts, ReplyTypes DEF Browsed

\* And the session cookie.
LEMMA BrowsedSession ==
  ASSUME TypeOK, NEW f \in Requests, NEW x \in Flow, Browsed(f, x)
  PROVE  LET r == flow[f].reply
         IN  /\ \/ jar'.session = jar.session
                \/ jar'.session = Nil
                \/ r.session \in SessionTokens /\ jar'.session = r.session
             /\ x.session \in {Nil, jar'.session}
             /\ x.reply.session = "keep"
<1>1. flow[f].reply.session \in SessionTokens \cup {"keep", "clear"}
  BY DEF TypeOK, Flow, Reply
<1> QED BY <1>1, JarFacts, ReplyTypes DEF Browsed

LEMMA ReplyKept ==
  ASSUME BrowserInv, NEW f \in Requests, NEW x \in Flow
  PROVE  /\ \A r \in Reply : Handled(f, x, r) => ReplyInv' /\ LostInv'
         /\ Browsed(f, x) => ReplyInv' /\ LostInv'
<1>0. TypeOK /\ ReplyInv /\ LostInv /\ GuestKeyInv
  BY DEF BrowserInv
<1>1. ASSUME NEW r \in Reply, Handled(f, x, r) PROVE ReplyInv' /\ LostInv'
  <2>2. /\ flow'[f] = x /\ \A e \in Requests \ {f} : flow'[e] = flow[e]
        /\ \/ x.call = "idle" /\ x.reply = NoReply /\ x.session = Nil
           \/ x.call = flow[f].call /\ x.user = flow[f].user /\ x.reply = r
    BY <1>0, <1>1, HandledSlots
  <2>3. flow[f].call \in Calls /\ flow[f].call # "idle" /\ (x.at # "sent" => x.call = "promote")
    BY <1>1 DEF Handled, Calls
  <2>4. flow[f].call = "promote_begin" /\ r.status = "ok" => r.user \in Users
    BY <1>0, <1>1 DEF Handled, GuestKeyInv, IssuedGuests
  <2>5. /\ r.status = "none" => r = NoReply
        /\ r.status = "error" => r = Error
        /\ r.session \in SessionTokens => flow[f].call \in {"login", "promote"}
        /\ r.session = "clear" => flow[f].call = "logout"
        /\ flow[f].call = "logout" => r.session = "clear"
        /\ flow[f].call = "guest" /\ r.status = "ok" => r.user \in Users
    BY <1>1, ReplyTypes DEF Handled
  <2>6. flow[f].call \in {"create", "promote"} => flow[f].user \in Users
    BY <1>0 DEF ReplyInv
  <2>7. NoReply.status = "none" /\ NoReply.session \notin SessionTokens \cup {"clear"}
    BY ReplyTypes, CookieAssumption
  <2>8. ReplyInv'
    <3>1. CASE x.call = "idle" /\ x.reply = NoReply /\ x.session = Nil
      BY <3>1, <1>0, <2>2, <2>3, <2>7 DEF ReplyInv
    <3>2. CASE x.call = flow[f].call /\ x.user = flow[f].user /\ x.reply = r
      BY <3>2, <1>0, <2>2, <2>3, <2>4, <2>5, <2>6 DEF ReplyInv
    <3> QED BY <2>2, <3>1, <3>2
  <2>9. LostInv'
    <3>1. (x.lost => flow[f].lost) /\ faults \subseteq faults'
      BY <1>1 DEF Handled, Replied
    <3> QED BY <3>1, <2>2, <1>0 DEF LostInv
  <2> QED BY <2>8, <2>9
<1>2. ASSUME Browsed(f, x) PROVE ReplyInv' /\ LostInv'
  <2>1. flow'[f] = x /\ \A e \in Requests \ {f} : flow'[e] = flow[e]
    BY <1>0, <1>2, BrowsedSlots
  <2>2. /\ x.reply = NoReply /\ x.at = "sent" /\ (x.call = "idle" => x.session = Nil)
        /\ x.call \in {"create", "promote"} => x.user \in Users
    BY <1>0, <1>2 DEF Browsed, ReplyInv
  <2>3. NoReply.status = "none" /\ NoReply.session \notin SessionTokens \cup {"clear"}
    BY ReplyTypes, CookieAssumption
  <2>4. ReplyInv'
    BY <1>0, <2>1, <2>2, <2>3 DEF ReplyInv
  <2>5. ~x.lost /\ faults \subseteq faults'
    BY <1>2 DEF Browsed
  <2>6. LostInv'
    BY <1>0, <2>1, <2>5 DEF LostInv
  <2> QED BY <2>4, <2>6
<1> QED BY <1>1, <1>2

LEMMA TokenKept ==
  ASSUME BrowserInv, NEW f \in Requests, NEW x \in Flow
  PROVE  /\ \A r \in Reply : Handled(f, x, r) /\ Grow => TokenInv'
         /\ Browsed(f, x) => TokenInv'
<1>0. TypeOK /\ TokenInv
  BY DEF BrowserInv
<1>k. /\ "keep" \notin SessionTokens /\ "clear" \notin SessionTokens /\ Nil \notin SessionTokens
      /\ "keep" \notin GuestTokens /\ "clear" \notin GuestTokens /\ Nil \notin GuestTokens
  BY CookieAssumption, NilAssumption
<1>1. ASSUME NEW r \in Reply, Handled(f, x, r), Grow PROVE TokenInv'
  <2>f. /\ flow'[f] = x /\ \A e \in Requests \ {f} : flow'[e] = flow[e]
        /\ x.session \in {Nil, flow[f].session} /\ x.guest \in {Nil, flow[f].guest}
        /\ x.reply \in {NoReply, r}
        /\ jar' = jar
    BY <1>0, <1>1, HandledSlots
  <2>r. /\ r.session \in SessionTokens \cup {"keep", "clear"} /\ r.guest \in GuestTokens \cup {"keep", "clear"}
        /\ r.session \in SessionTokens => sessions'[r.session].status # "unissued"
        /\ r.guest \in GuestTokens => /\ guests[r.guest].status = "unissued"
                                      /\ guests'[r.guest].status # "unissued"
    BY <1>1 DEF Handled, Reply
  <2>x. /\ x.reply.session \in {"keep", r.session} /\ x.reply.guest \in {"keep", r.guest}
    BY <2>f, ReplyTypes
  <2>i. IssuedSessions \subseteq IssuedSessions' /\ IssuedGuests \subseteq IssuedGuests'
    BY <1>1 DEF Grow, IssuedSessions, IssuedGuests
  <2>1. jar'.session \in Opt(IssuedSessions)' /\ jar'.guest \in Opt(IssuedGuests)'
    BY <1>0, <2>f, <2>i DEF TokenInv, Opt
  <2>2. ASSUME NEW e \in Requests
        PROVE  /\ flow'[e].session \in Opt(IssuedSessions)'
               /\ flow'[e].guest \in Opt(IssuedGuests)'
    BY <1>0, <2>f, <2>i DEF TokenInv, Opt
  <2>3. ASSUME NEW e \in Requests
        PROVE  /\ flow'[e].reply.session \in IssuedSessions' \cup {"keep", "clear"}
               /\ flow'[e].reply.guest \in IssuedGuests' \cup {"keep", "clear"}
    <3>1. CASE e = f
      BY <3>1, <2>f, <2>r, <2>x DEF IssuedSessions, IssuedGuests
    <3>2. CASE e # f
      BY <3>2, <1>0, <2>f, <2>i DEF TokenInv
    <3> QED BY <3>1, <3>2
  <2>4. ASSUME NEW g \in GuestTokens, NEW e \in Requests, flow'[e].reply.guest = g
        PROVE  /\ jar'.guest # g
               /\ \A d \in Requests : flow'[d].guest # g
               /\ \A d \in Requests : flow'[d].reply.guest = g => d = e
    <3>1. CASE g = r.guest
      <4>1. guests[g].status = "unissued"
        BY <3>1, <2>r
      <4>2. /\ jar.guest # g /\ \A d \in Requests : flow[d].guest # g
            /\ \A d \in Requests : flow[d].reply.guest # g
        BY <4>1, <1>0, <1>k DEF TokenInv, IssuedGuests, Opt
      <4> QED BY <3>1, <4>2, <2>4, <2>f, <1>k
    <3>2. CASE g # r.guest
      <4>1. e # f /\ flow[e].reply.guest = g
        BY <3>2, <2>4, <2>f, <2>x, <1>k
      <4>2. /\ jar.guest # g /\ \A d \in Requests : flow[d].guest # g
            /\ \A d \in Requests : flow[d].reply.guest = g => d = e
        BY <4>1, <1>0 DEF TokenInv, OnItsWay
      <4> QED BY <3>2, <4>1, <4>2, <2>f, <2>x, <1>k
    <3> QED BY <3>1, <3>2
  <2> QED BY <2>1, <2>2, <2>3, <2>4 DEF TokenInv, OnItsWay
<1>2. ASSUME Browsed(f, x) PROVE TokenInv'
  <2>f. /\ flow'[f] = x /\ (\A e \in Requests \ {f} : flow'[e] = flow[e])
        /\ sessions' = sessions /\ guests' = guests
    BY <1>0, <1>2, BrowsedSlots
  <2>g. /\ \/ jar'.guest = jar.guest
           \/ jar'.guest = Nil
           \/ flow[f].reply.guest \in GuestTokens /\ jar'.guest = flow[f].reply.guest
        /\ x.guest \in {Nil, jar'.guest}
        /\ x.reply.guest = "keep"
    BY <1>0, <1>2, BrowsedGuest
  <2>s. /\ \/ jar'.session = jar.session
           \/ jar'.session = Nil
           \/ flow[f].reply.session \in SessionTokens /\ jar'.session = flow[f].reply.session
        /\ x.session \in {Nil, jar'.session}
        /\ x.reply.session = "keep"
    BY <1>0, <1>2, BrowsedSession
  <2>i. IssuedSessions' = IssuedSessions /\ IssuedGuests' = IssuedGuests
    BY <2>f DEF IssuedSessions, IssuedGuests
  <2>1. jar'.session \in Opt(IssuedSessions) /\ jar'.guest \in Opt(IssuedGuests)
    BY <1>0, <1>k, <2>g, <2>s DEF TokenInv, Opt
  <2>2. ASSUME NEW e \in Requests
        PROVE  /\ flow'[e].session \in Opt(IssuedSessions)
               /\ flow'[e].guest \in Opt(IssuedGuests)
               /\ flow'[e].reply.session \in IssuedSessions \cup {"keep", "clear"}
               /\ flow'[e].reply.guest \in IssuedGuests \cup {"keep", "clear"}
    <3>1. CASE e = f
      BY <3>1, <2>f, <2>g, <2>s, <2>1 DEF Opt
    <3>2. CASE e # f
      BY <3>2, <1>0, <2>f DEF TokenInv
    <3> QED BY <3>1, <3>2
  <2>3. ASSUME NEW g \in GuestTokens, NEW e \in Requests, flow'[e].reply.guest = g
        PROVE  /\ jar'.guest # g
               /\ \A d \in Requests : flow'[d].guest # g
               /\ \A d \in Requests : flow'[d].reply.guest = g => d = e
    <3>1. e # f /\ flow[e].reply.guest = g
      BY <2>3, <2>f, <2>g, <1>k
    <3>2. /\ jar.guest # g /\ \A d \in Requests : flow[d].guest # g
          /\ \A d \in Requests : flow[d].reply.guest = g => d = e
      BY <3>1, <1>0 DEF TokenInv, OnItsWay
    <3>3. jar'.guest # g
      BY <3>1, <3>2, <2>g, <1>k
    <3> QED BY <3>1, <3>2, <3>3, <2>f, <2>g, <1>k
  <2> QED BY <2>1, <2>2, <2>3, <2>i DEF TokenInv, OnItsWay, Opt
<1> QED BY <1>1, <1>2

LEMMA SessionKept ==
  ASSUME BrowserInv, NEW f \in Requests, NEW x \in Flow
  PROVE  /\ \A r \in Reply : Handled(f, x, r) /\ Grow => SessionInv'
         /\ Browsed(f, x) => SessionInv'
<1>0. TypeOK /\ TokenInv /\ SessionInv
  BY DEF BrowserInv
<1>k. "keep" \notin SessionTokens /\ "clear" \notin SessionTokens /\ Nil \notin SessionTokens
  BY CookieAssumption, NilAssumption
<1>1. ASSUME NEW r \in Reply, Handled(f, x, r), Grow PROVE SessionInv'
  <2>f. /\ flow'[f] = x /\ \A e \in Requests \ {f} : flow'[e] = flow[e]
        /\ x.session \in {Nil, flow[f].session}
        /\ x.reply \in {NoReply, r}
        /\ jar' = jar /\ loggedOut' = loggedOut
    BY <1>0, <1>1, HandledSlots
  <2>r. r.session \in SessionTokens => sessions[r.session].status = "unissued"
    BY <1>1 DEF Handled
  <2>x. x.reply.session \in {"keep", r.session}
    BY <2>f, ReplyTypes
  <2>1. loggedOut' \subseteq IssuedSessions'
    BY <2>f, <1>0, <1>1 DEF SessionInv, Grow, IssuedSessions
  <2>2. ASSUME NEW t \in SessionTokens, NEW e \in Requests, flow'[e].reply.session = t
        PROVE  /\ jar'.session # t /\ t \notin loggedOut'
               /\ \A d \in Requests : flow'[d].session # t
               /\ \A d \in Requests : flow'[d].reply.session = t => d = e
    <3>1. CASE t = r.session
      <4>1. sessions[t].status = "unissued"
        BY <3>1, <2>r
      <4>2. /\ jar.session # t /\ \A d \in Requests : flow[d].session # t
            /\ \A d \in Requests : flow[d].reply.session # t
            /\ t \notin loggedOut
        BY <4>1, <1>0, <1>k DEF TokenInv, SessionInv, IssuedSessions, Opt
      <4> QED BY <3>1, <4>2, <2>2, <2>f, <1>k
    <3>2. CASE t # r.session
      <4>1. e # f /\ flow[e].reply.session = t
        BY <3>2, <2>2, <2>f, <2>x, <1>k
      <4>2. /\ jar.session # t /\ t \notin loggedOut /\ \A d \in Requests : flow[d].session # t
            /\ \A d \in Requests : flow[d].reply.session = t => d = e
        BY <4>1, <1>0 DEF SessionInv, Arriving
      <4> QED BY <3>2, <4>1, <4>2, <2>f, <2>x, <1>k
    <3> QED BY <3>1, <3>2
  <2> QED BY <2>1, <2>2 DEF SessionInv, Arriving
<1>2. ASSUME Browsed(f, x) PROVE SessionInv'
  <2>f. /\ flow'[f] = x /\ (\A e \in Requests \ {f} : flow'[e] = flow[e])
        /\ sessions' = sessions
    BY <1>0, <1>2, BrowsedSlots
  <2>s. /\ \/ jar'.session = jar.session
           \/ jar'.session = Nil
           \/ flow[f].reply.session \in SessionTokens /\ jar'.session = flow[f].reply.session
        /\ x.session \in {Nil, jar'.session}
        /\ x.reply.session = "keep"
    BY <1>0, <1>2, BrowsedSession
  <2>o. loggedOut' \subseteq loggedOut \cup ({flow[f].session} \ {Nil})
    BY <1>2 DEF Browsed
  <2>1. loggedOut' \subseteq IssuedSessions'
    BY <2>f, <2>o, <1>0 DEF SessionInv, TokenInv, IssuedSessions, Opt
  <2>2. ASSUME NEW t \in SessionTokens, NEW e \in Requests, flow'[e].reply.session = t
        PROVE  /\ jar'.session # t /\ t \notin loggedOut'
               /\ \A d \in Requests : flow'[d].session # t
               /\ \A d \in Requests : flow'[d].reply.session = t => d = e
    <3>1. e # f /\ flow[e].reply.session = t
      BY <2>2, <2>f, <2>s, <1>k
    <3>2. /\ jar.session # t /\ t \notin loggedOut /\ \A d \in Requests : flow[d].session # t
          /\ \A d \in Requests : flow[d].reply.session = t => d = e
      BY <3>1, <1>0 DEF SessionInv, Arriving
    <3>3. jar'.session # t /\ t \notin loggedOut'
      BY <3>1, <3>2, <2>s, <2>o, <1>k
    <3> QED BY <3>1, <3>2, <3>3, <2>f, <2>s, <1>k
  <2> QED BY <2>1, <2>2 DEF SessionInv, Arriving
<1> QED BY <1>1, <1>2

LEMMA GuestKeyKept ==
  ASSUME BrowserInv, NEW f \in Requests, NEW x \in Flow
  PROVE  \A r \in Reply : Handled(f, x, r) /\ Grow => GuestKeyInv'
<1>0. TypeOK /\ GuestKeyInv /\ passkeys \subseteq Users
  BY DEF BrowserInv, TypeOK
<1>1. ASSUME NEW r \in Reply, Handled(f, x, r), Grow PROVE GuestKeyInv'
  <2>1. ASSUME NEW g \in GuestTokens, guests'[g].status # "unissued"
        PROVE  \/ g \in IssuedGuests /\ guests'[g].user = guests[g].user
               \/ /\ g = r.guest /\ guests[g].status = "unissued"
                  /\ guests'[g].user = r.user /\ r.user \in Users /\ users[r.user].status = "absent"
                  /\ users'[r.user].status # "absent"
    <3>1. CASE guests[g].status # "unissued"
      BY <3>1, <1>1 DEF Grow, IssuedGuests
    <3>2. CASE guests[g].status = "unissued"
      BY <3>2, <2>1, <1>1 DEF Handled
    <3> QED BY <3>1, <3>2
  <2>2. ASSUME NEW g \in IssuedGuests'
        PROVE  guests'[g].user \in Users /\ users'[guests'[g].user].status # "absent"
    BY <2>1, <1>0, <1>1 DEF IssuedGuests, GuestKeyInv, Grow
  <2>3. ASSUME NEW g \in IssuedGuests', NEW h \in IssuedGuests', guests'[g].user = guests'[h].user
        PROVE  g = h
    BY <2>1, <2>3, <1>0 DEF IssuedGuests, GuestKeyInv
  <2>4. ASSUME NEW u \in passkeys' PROVE users'[u].status # "absent"
    <3>1. CASE u \in passkeys
      BY <3>1, <1>0, <1>1 DEF GuestKeyInv, Grow
    <3>2. CASE u \notin passkeys
      BY <3>2, <1>1 DEF Handled
    <3> QED BY <3>1, <3>2
  <2> QED BY <2>2, <2>3, <2>4 DEF GuestKeyInv
<1> QED BY <1>1

\* g is on its way afterwards only if it was, or if the handler just drew it.
LEMMA HandledWay ==
  ASSUME TypeOK, NEW f \in Requests, NEW x \in Flow, NEW r \in Reply, Handled(f, x, r),
         NEW g \in GuestTokens, OnItsWay(g)'
  PROVE  OnItsWay(g) \/ g = r.guest
<1>1. x.reply.guest \in {"keep", r.guest} /\ "keep" \notin GuestTokens
  BY HandledSlots, ReplyTypes, CookieAssumption
<1> QED BY <1>1, HandledSlots DEF OnItsWay

LEMMA BrowsedWay ==
  ASSUME TypeOK, NEW f \in Requests, NEW x \in Flow, Browsed(f, x), NEW g \in GuestTokens, OnItsWay(g)'
  PROVE  OnItsWay(g)
<1>1. x.reply.guest = "keep" /\ "keep" \notin GuestTokens
  BY BrowsedGuest, CookieAssumption
<1> QED BY <1>1, BrowsedSlots DEF OnItsWay

LEMMA PromotionKept ==
  ASSUME BrowserInv, NEW f \in Requests, NEW x \in Flow
  PROVE  /\ \A r \in Reply : Handled(f, x, r) /\ Grow => PromotionInv'
         /\ Browsed(f, x) => PromotionInv'
<1>0. TypeOK /\ TokenInv /\ GuestKeyInv /\ ReplyInv /\ PromotionInv
  BY DEF BrowserInv
<1>k. "keep" \notin GuestTokens /\ "clear" \notin GuestTokens /\ Nil \notin GuestTokens
  BY CookieAssumption, NilAssumption
<1>1. ASSUME NEW r \in Reply, Handled(f, x, r), Grow PROVE PromotionInv'
  <2>f. /\ flow'[f] = x /\ \A e \in Requests \ {f} : flow'[e] = flow[e]
        /\ \/ x.call = "idle"
           \/ x.call = flow[f].call /\ x.guest = flow[f].guest /\ x.user = flow[f].user /\ x.reply = r
        /\ jar' = jar
    BY <1>0, <1>1, HandledSlots
  <2> SUFFICES ASSUME NEW e \in Requests, NEW u \in Users, Promotes(e, u)'
               PROVE  /\ users'[u].status # "absent"
                      /\ \A g \in IssuedGuests' : guests'[g].user = u =>
                             /\ ~OnItsWay(g)'
                             /\ flow'[e].call = "promote" => g = flow'[e].guest \/ g # jar'.guest
    BY DEF PromotionInv
  <2>e. flow'[e].call = flow[e].call /\ flow'[e].guest = flow[e].guest /\ flow'[e].user = flow[e].user
    <3>1. CASE e # f
      BY <3>1, <2>f
    <3>2. CASE e = f
      <4>1. x.call # "idle"
        BY <3>2, <2>f DEF Promotes
      <4> QED BY <3>2, <4>1, <2>f
    <3> QED BY <3>1, <3>2
  \* The promotion was under way, or promote/begin has just resolved its cookie.
  <2>1. \/ Promotes(e, u)
        \/ /\ e = f /\ flow[f].call = "promote_begin" /\ flow[f].guest \in GuestTokens
           /\ guests[flow[f].guest].status = "stored" /\ guests[flow[f].guest].user = u
    <3>1. CASE e # f
      BY <3>1, <2>f DEF Promotes
    <3>2. CASE e = f /\ flow[f].call \in {"create", "promote"}
      BY <3>2, <2>e DEF Promotes
    <3>3. CASE e = f /\ flow[f].call \notin {"create", "promote"}
      <4>1. flow[f].call = "promote_begin" /\ r.status = "ok" /\ r.user = u
        BY <3>3, <2>e, <2>f DEF Promotes
      <4> QED BY <3>3, <4>1, <1>1 DEF Handled
    <3> QED BY <3>1, <3>2, <3>3
  <2>2. users[u].status # "absent"
    BY <2>1, <1>0 DEF PromotionInv, GuestKeyInv, IssuedGuests
  <2>3. ASSUME NEW g \in GuestTokens, guests'[g].status # "unissued", guests'[g].user = u
        PROVE  /\ ~OnItsWay(g)'
               /\ flow'[e].call = "promote" => g = flow'[e].guest \/ g # jar'.guest
    <3>2. guests[g].status # "unissued" /\ guests[g].user = u
      <4>1. guests[g].status # "unissued"
        BY <2>2, <2>3, <1>1 DEF Handled
      <4> QED BY <4>1, <2>3, <1>1 DEF Grow
    <3>1. g # r.guest
      BY <3>2, <1>1 DEF Handled
    <3>3. CASE Promotes(e, u)
      <4>1. ~OnItsWay(g) /\ (flow[e].call = "promote" => g = flow[e].guest \/ g # jar.guest)
        BY <3>2, <3>3, <1>0 DEF PromotionInv, IssuedGuests
      <4> QED BY <4>1, <3>1, <2>e, <2>f, <1>0, <1>1, HandledWay
    <3>4. CASE /\ e = f /\ flow[f].call = "promote_begin" /\ flow[f].guest \in GuestTokens
               /\ guests[flow[f].guest].status = "stored" /\ guests[flow[f].guest].user = u
      <4>1. g = flow[f].guest
        BY <3>2, <3>4, <1>0 DEF GuestKeyInv, IssuedGuests
      <4>2. ~OnItsWay(g)
        BY <4>1, <1>0 DEF TokenInv
      <4> QED BY <4>2, <3>1, <3>4, <2>e, <1>0, <1>1, HandledWay
    <3> QED BY <2>1, <3>3, <3>4
  <2>4. users'[u].status # "absent"
    BY <2>2, <1>1 DEF Grow
  <2> QED BY <2>3, <2>4 DEF IssuedGuests
<1>2. ASSUME Browsed(f, x) PROVE PromotionInv'
  <2>f. /\ flow'[f] = x /\ (\A e \in Requests \ {f} : flow'[e] = flow[e])
        /\ users' = users /\ guests' = guests /\ x.reply = NoReply
    BY <1>0, <1>2, BrowsedSlots
  <2>g. \/ jar'.guest = jar.guest
        \/ jar'.guest = Nil
        \/ flow[f].reply.guest \in GuestTokens /\ jar'.guest = flow[f].reply.guest
    BY <1>0, <1>2, BrowsedGuest
  <2>p. ASSUME NEW e \in Requests, NEW u \in Users, Promotes(e, u)' PROVE Promotes(e, u)
    BY <2>p, <2>f, <1>2, ReplyTypes DEF Promotes, Browsed
  <2> SUFFICES ASSUME NEW e \in Requests, NEW u \in Users, Promotes(e, u)',
                      NEW g \in GuestTokens, guests[g].status # "unissued", guests[g].user = u
               PROVE  /\ ~OnItsWay(g)'
                      /\ flow'[e].call = "promote" => g = flow'[e].guest \/ g # jar'.guest
    <3>1. ASSUME NEW e \in Requests, NEW u \in Users, Promotes(e, u)' PROVE users'[u].status # "absent"
      BY <3>1, <2>p, <2>f, <1>0 DEF PromotionInv
    <3> QED BY <3>1, <2>f DEF PromotionInv, IssuedGuests
  <2>1. Promotes(e, u)
    BY <2>p
  <2>2. ~OnItsWay(g) /\ (flow[e].call = "promote" => g = flow[e].guest \/ g # jar.guest)
    BY <2>1, <1>0 DEF PromotionInv, IssuedGuests
  <2>3. ~OnItsWay(g)'
    BY <2>2, <1>0, <1>2, BrowsedWay
  <2>4. jar.guest # g => jar'.guest # g
    BY <2>2, <2>g, <1>k DEF OnItsWay
  <2>5. CASE e = f
    <3>1. x.call = "promote" => x.guest = jar'.guest
      BY <1>2 DEF Browsed, GuestCalls
    <3> QED BY <3>1, <2>3, <2>5, <2>f
  <2>6. CASE e # f
    BY <2>2, <2>3, <2>4, <2>6, <2>f
  <2> QED BY <2>5, <2>6
<1> QED BY <1>1, <1>2

LEMMA CookieKept ==
  ASSUME BrowserInv, NEW f \in Requests, NEW x \in Flow
  PROVE  /\ \A r \in Reply : Handled(f, x, r) /\ Grow => CookieInv'
         /\ Browsed(f, x) => CookieInv'
<1>0. /\ TypeOK /\ TokenInv /\ GuestKeyInv /\ ReplyInv /\ LostInv /\ PromotionInv /\ CookieInv
      /\ passkeys \subseteq Users
  BY DEF BrowserInv, TypeOK
<1>k. "keep" \notin GuestTokens /\ "clear" \notin GuestTokens /\ Nil \notin GuestTokens
  BY CookieAssumption, NilAssumption
<1>1. ASSUME NEW r \in Reply, Handled(f, x, r), Grow PROVE CookieInv'
  <2> SUFFICES ASSUME faults' \cap {"store", "lost"} = {}, NEW g \in GuestTokens,
                      guests'[g].status = "stored", guests'[g].user \in passkeys'
               PROVE  (g # jar'.guest /\ ~OnItsWay(g)') \/ \E e \in Requests : Finishing(e, g)'
    BY DEF CookieInv
  <2>f. jar' = jar /\ flow'[f] = x /\ \A e \in Requests \ {f} : flow'[e] = flow[e]
    BY <1>0, <1>1, HandledSlots
  <2>n. "store" \notin faults' /\ "store" \notin faults /\ "lost" \notin faults
    BY <1>1 DEF Grow
  <2>l. ~flow[f].lost
    BY <2>n, <1>0 DEF LostInv
  \* A token just drawn is for a user just made, who has no passkey.
  <2>1. guests[g].status # "unissued"
    <3>1. ASSUME guests[g].status = "unissued" PROVE FALSE
      <4>1. /\ guests'[g].user = r.user /\ users[r.user].status = "absent" /\ passkeys' = passkeys
        BY <3>1, <1>1 DEF Handled
      <4> QED BY <4>1, <1>0 DEF GuestKeyInv
    <3> QED BY <3>1
  <2>2. guests[g].status = "stored" /\ guests'[g].user = guests[g].user /\ guests[g].user \in Users
    <3>2. guests[g].status \in {"unissued", "stored", "gone"}
      BY <1>0 DEF TypeOK, RedisTypeOK, TokenKey
    <3> QED BY <2>1, <3>2, <1>0, <1>1 DEF Grow, GuestKeyInv, IssuedGuests
  <2>3. g # r.guest
    BY <2>1, <1>1 DEF Handled
  <2>4. ~OnItsWay(g) => ~OnItsWay(g)'
    BY <2>3, <1>0, <1>1, HandledWay
  <2>5. CASE guests[g].user \in passkeys
    <3>1. (g # jar.guest /\ ~OnItsWay(g)) \/ \E e \in Requests : Finishing(e, g)
      BY <2>2, <2>5, <2>n, <1>0 DEF CookieInv
    <3>2. CASE g # jar.guest /\ ~OnItsWay(g)
      BY <3>2, <2>4, <2>f
    <3>3. ASSUME NEW e \in Requests, Finishing(e, g)
          PROVE  Finishing(e, g)'
      <4>1. e # f
        <5>1. ASSUME e = f PROVE FALSE
          <6>1. flow[f].at = "key" /\ flow[f].guest = g
            BY <3>3, <5>1 DEF Finishing
          <6>2. guests'[g].status = "gone"
            BY <6>1, <2>l, <2>n, <1>k, <1>1 DEF Handled
          <6> QED BY <6>2
        <5> QED BY <5>1
      <4> QED BY <4>1, <3>3, <2>f, <2>2 DEF Finishing
    <3> QED BY <3>1, <3>2, <3>3
  <2>6. CASE guests[g].user \notin passkeys
    <3>1. users[guests[g].user].status # "absent"
      BY <2>1, <1>0 DEF GuestKeyInv, IssuedGuests
    <3>2. /\ flow[f].call = "promote" /\ flow[f].user = guests[g].user
          /\ x.at = "key" /\ x.reply = NoReply /\ x.user = guests[g].user /\ x.guest = flow[f].guest
      BY <3>1, <2>2, <2>6, <1>1 DEF Handled
    <3>3. ~OnItsWay(g) /\ (g = flow[f].guest \/ g # jar.guest)
      BY <3>2, <2>1, <2>2, <1>0 DEF PromotionInv, Promotes, IssuedGuests
    <3>4. CASE g = flow[f].guest
      <4>1. Finishing(f, g)'
        BY <3>2, <3>4, <2>2, <2>f DEF Finishing
      <4> QED BY <4>1
    <3>5. CASE g # jar.guest
      BY <3>3, <3>5, <2>4, <2>f
    <3> QED BY <3>3, <3>4, <3>5
  <2> QED BY <2>5, <2>6
<1>2. ASSUME Browsed(f, x) PROVE CookieInv'
  <2>f. /\ guests' = guests /\ passkeys' = passkeys
        /\ flow'[f] = x /\ \A e \in Requests \ {f} : flow'[e] = flow[e]
    BY <1>0, <1>2, BrowsedSlots
  <2>g. \/ jar'.guest = jar.guest
        \/ jar'.guest = Nil
        \/ flow[f].reply.guest \in GuestTokens /\ jar'.guest = flow[f].reply.guest
    BY <1>0, <1>2, BrowsedGuest
  <2> SUFFICES ASSUME faults' \cap {"store", "lost"} = {}, NEW g \in GuestTokens, guests[g].status = "stored",
                      guests[g].user \in passkeys
               PROVE  (g # jar'.guest /\ ~OnItsWay(g)') \/ \E e \in Requests : Finishing(e, g)'
    BY <2>f DEF CookieInv
  <2>n. "lost" \notin faults' /\ faults \cap {"store", "lost"} = {}
    BY <1>2 DEF Browsed
  <2>1. (g # jar.guest /\ ~OnItsWay(g)) \/ \E e \in Requests : Finishing(e, g)
    BY <2>n, <1>0 DEF CookieInv
  <2>2. CASE g # jar.guest /\ ~OnItsWay(g)
    <3>1. g # jar'.guest
      BY <2>2, <2>g, <1>k DEF OnItsWay
    <3> QED BY <2>2, <3>1, <1>0, <1>2, BrowsedWay
  <2>3. ASSUME NEW e \in Requests, Finishing(e, g) PROVE Finishing(e, g)'
    <3>1. e # f
      BY <2>3, <2>n, <1>2 DEF Finishing, Browsed
    <3> QED BY <2>3, <3>1, <2>f DEF Finishing
  <2> QED BY <2>1, <2>2, <2>3
<1> QED BY <1>1, <1>2

LEMMA TurnKept ==
  ASSUME BrowserInv, NEW f \in Requests, NEW x \in Flow
  PROVE  /\ \A r \in Reply : Handled(f, x, r) => TurnInv'
         /\ Browsed(f, x) => TurnInv'
<1>0. TypeOK /\ TurnInv
  BY DEF BrowserInv
<1>i. "idle" \notin SessionCalls /\ "idle" \notin GuestCalls
  BY DEF SessionCalls, GuestCalls
<1>1. ASSUME NEW r \in Reply, Handled(f, x, r) PROVE TurnInv'
  <2>1. /\ flow'[f] = x /\ \A e \in Requests \ {f} : flow'[e] = flow[e]
        /\ \/ x.call = "idle"
           \/ x.call = flow[f].call /\ x.session = flow[f].session /\ x.guest = flow[f].guest
        /\ jar' = jar
    BY <1>0, <1>1, HandledSlots
  <2>2. faults' \cap {"overlap", "lost"} = {} => faults \cap {"overlap", "lost"} = {}
    BY <1>1 DEF Handled
  <2>3. flow[f].call # "idle"
    BY <1>1 DEF Handled, Calls
  <2> QED BY <1>0, <1>i, <2>1, <2>2, <2>3 DEF TurnInv, Idle
<1>2. ASSUME Browsed(f, x) PROVE TurnInv'
  <2>f. flow'[f] = x /\ \A e \in Requests \ {f} : flow'[e] = flow[e]
    BY <1>0, <1>2, BrowsedSlots
  <2> SUFFICES ASSUME faults' \cap {"overlap", "lost"} = {} PROVE TurnInv'
    BY DEF TurnInv
  <2>1. faults \cap {"overlap", "lost"} = {}
    BY <1>2 DEF Browsed
  \* No other slot is busy: f was the one that was, or none was.
  <2>2. \A e \in Requests \ {f} : Idle(e)
    BY <2>1, <1>0, <1>2 DEF TurnInv, Browsed
  <2>3. \A e \in Requests \ {f} : flow'[e].call = "idle"
    BY <2>2, <2>f DEF Idle
  <2>4. /\ x.call \in SessionCalls => jar'.session = x.session
        /\ x.call \in GuestCalls => jar'.guest = x.guest
    BY <1>2 DEF Browsed
  <2> QED BY <1>i, <2>3, <2>4, <2>f DEF TurnInv, Idle
<1> QED BY <1>1, <1>2

LEMMA GuestReplyKept ==
  ASSUME BrowserInv, NEW f \in Requests, NEW x \in Flow
  PROVE  /\ \A r \in Reply : Handled(f, x, r) => GuestReplyNamesAGuest'
         /\ Browsed(f, x) => GuestReplyNamesAGuest'
<1>0. TypeOK /\ TurnInv /\ ReplyInv /\ GuestReplyNamesAGuest
  BY DEF BrowserInv
<1>1. ASSUME NEW r \in Reply, Handled(f, x, r) PROVE GuestReplyNamesAGuest'
  <2>f. /\ flow'[f] = x /\ \A e \in Requests \ {f} : flow'[e] = flow[e]
    BY <1>0, <1>1, HandledSlots
  <2> SUFFICES ASSUME faults' \cap {"overlap", "lost"} = {}, NEW e \in Requests,
                      flow'[e].call = "guest", flow'[e].reply.status = "ok"
               PROVE  users'[flow'[e].reply.user].status = "guest"
    BY DEF GuestReplyNamesAGuest, IsGuest
  <2>1. faults \cap {"overlap", "lost"} = {} /\ ~Idle(f)
    BY <1>1 DEF Handled, Idle, Calls
  <2>2. e = f
    BY <2>1, <2>f, <1>0 DEF TurnInv, Idle
  <2>3. x.reply = r /\ x.call = flow[f].call
    BY <2>2, <2>f, <1>0, <1>1, HandledReply, ReplyTypes
  <2> QED BY <2>2, <2>3, <2>f, <1>1 DEF Handled
<1>2. ASSUME Browsed(f, x) PROVE GuestReplyNamesAGuest'
  <2>f. /\ flow'[f] = x /\ (\A e \in Requests \ {f} : flow'[e] = flow[e])
        /\ x.reply = NoReply /\ users' = users
    BY <1>0, <1>2, BrowsedSlots
  <2>1. faults' \cap {"overlap", "lost"} = {} => faults \cap {"overlap", "lost"} = {}
    BY <1>2 DEF Browsed
  <2> QED BY <2>f, <2>1, <1>0, ReplyTypes DEF GuestReplyNamesAGuest, IsGuest
<1> QED BY <1>1, <1>2

LEMMA AliveKept ==
  ASSUME BrowserInv, NEW f \in Requests, NEW x \in Flow
  PROVE  /\ \A r \in Reply : Handled(f, x, r) /\ Grow => AliveInv'
         /\ Browsed(f, x) => AliveInv'
<1>0. TypeOK /\ TokenInv /\ GuestKeyInv /\ ReplyInv /\ LostInv /\ TurnInv /\ AliveInv
  BY DEF BrowserInv
<1>k. "keep" \notin GuestTokens /\ "clear" \notin GuestTokens /\ Nil \notin GuestTokens
  BY CookieAssumption, NilAssumption
<1>1. ASSUME NEW r \in Reply, Handled(f, x, r), Grow PROVE AliveInv'
  <2>f. /\ flow'[f] = x /\ jar' = jar
        /\ \A e \in Requests \ {f} : flow'[e] = flow[e]
    BY <1>0, <1>1, HandledSlots
  <2> SUFFICES ASSUME faults' = {}, NEW g \in GuestTokens, guests'[g].status = "stored",
                      users'[guests'[g].user].status = "guest"
               PROVE  \/ jar'.guest = g /\ \A e \in Requests : flow'[e].reply.guest = "keep"
                      \/ OnItsWay(g)'
    BY DEF AliveInv, IsGuest
  <2>n. faults = {} /\ faults \cap {"overlap", "lost"} = {} /\ "lost" \notin faults
    BY <1>1 DEF Handled
  <2>l. ~flow[f].lost
    BY <2>n, <1>0 DEF LostInv
  <2>1. CASE guests[g].status = "unissued"
    <3>1. g = r.guest /\ flow[f].call \in GuestCalls /\ r # Error /\ Replied(f, x, r)
      BY <2>1, <1>1, <1>k, ReplyTypes DEF Handled
    \* The call was not given up, and its answer is more than the end of it.
    <3>2. ~Ends(flow[f].call, r)
      BY <3>1 DEF Ends, GuestCalls
    <3>3. x.reply.guest = g
      BY <3>1, <3>2, <2>l DEF Replied
    <3> QED BY <3>3, <2>f DEF OnItsWay
  <2>2. CASE guests[g].status # "unissued"
    \* g was alive before, and this is the only function under way.
    <3>2. guests[g].status = "stored" /\ users[guests[g].user].status = "guest"
      <4>2. guests[g].status \in {"unissued", "stored", "gone"}
        BY <1>0 DEF TypeOK, RedisTypeOK, TokenKey
      <4> QED BY <2>2, <4>2, <1>0, <1>1 DEF Grow, GuestKeyInv, IssuedGuests
    <3>3. \A e \in Requests \ {f} : flow[e].reply.guest = "keep"
      <4>1. ~Idle(f)
        BY <1>1 DEF Handled, Idle, Calls
      <4>2. \A e \in Requests \ {f} : flow[e].call \notin Calls
        BY <4>1, <2>n, <1>0 DEF TurnInv, Idle, Calls
      <4> QED BY <4>2, <1>0, ReplyTypes DEF ReplyInv
    <3>4. flow[f].reply.guest = "keep"
      BY <1>1, ReplyTypes DEF Handled
    <3>5. jar.guest = g
      BY <2>n, <3>2, <3>3, <3>4, <1>0, <1>k DEF AliveInv, IsGuest, OnItsWay
    \* A handler that would replace or drop the cookie had its token, and did
    \* neither.
    <3>9. r.guest = "keep"
      <4> SUFFICES ASSUME r.guest # "keep" PROVE FALSE
        OBVIOUS
      <4>1. flow[f].guest = g
        <5>1. flow[f].call \in GuestCalls
          BY <1>1 DEF Handled
        <5> QED BY <5>1, <2>n, <3>5, <1>0, <1>k DEF TurnInv
      <4>2. r.guest \notin GuestTokens
        <5>1. guests[g].user \in Reuses(f)
          BY <3>2, <4>1, <1>k DEF Reuses, GuestUser, IsGuest
        <5> QED BY <5>1, <2>l, <1>1 DEF Handled
      <4>3. r.guest # "clear"
        BY <4>1, <2>l, <1>1 DEF Handled
      <4> QED BY <4>2, <4>3 DEF Reply
    <3>10. x.reply.guest = "keep"
      BY <3>9, <1>0, <1>1, HandledSlots, ReplyTypes
    <3> QED BY <3>3, <3>5, <3>10, <2>f
  <2> QED BY <2>1, <2>2
<1>2. ASSUME Browsed(f, x) PROVE AliveInv'
  <2>f. /\ flow'[f] = x /\ (\A e \in Requests \ {f} : flow'[e] = flow[e])
        /\ x.reply = NoReply /\ users' = users /\ guests' = guests
    BY <1>0, <1>2, BrowsedSlots
  <2> SUFFICES ASSUME faults' = {}, NEW g \in GuestTokens, guests[g].status = "stored", IsGuest(guests[g].user)
               PROVE  \/ jar'.guest = g /\ \A e \in Requests : flow'[e].reply.guest = "keep"
                      \/ OnItsWay(g)'
    BY <2>f DEF AliveInv, IsGuest
  <2>1. faults = {} /\ jar' = JarAfter(flow[f].reply)
    BY <1>2 DEF Browsed
  <2>2. \A e \in Requests \ {f} : flow'[e].reply.guest = "keep"
    <3>1. \A e \in Requests \ {f} : Idle(e)
      BY <2>1, <1>0, <1>2 DEF TurnInv, Browsed
    <3>2. \A e \in Requests \ {f} : flow[e].reply = NoReply
      BY <3>1, <1>0 DEF ReplyInv, Idle, Calls
    <3> QED BY <3>2, <2>f, ReplyTypes
  <2>3. jar'.guest = g
    <3>1. CASE flow[f].reply.guest = g
      BY <3>1, <2>1, <1>0, JarFacts
    <3>2. CASE flow[f].reply.guest # g
      <4>1. jar.guest = g /\ flow[f].reply.guest = "keep"
        BY <3>2, <2>1, <2>2, <2>f, <1>0, <1>k DEF AliveInv, OnItsWay
      <4> QED BY <4>1, <2>1, <1>0, JarFacts
    <3> QED BY <3>1, <3>2
  <2> QED BY <2>2, <2>3, <2>f, ReplyTypes
<1> QED BY <1>1, <1>2

LEMMA PageKept ==
  ASSUME BrowserInv, NEW f \in Requests, NEW x \in Flow
  PROVE  /\ \A r \in Reply : Handled(f, x, r) /\ Grow => PageInv'
         /\ Browsed(f, x) => PageInv'
<1>0. TypeOK /\ TokenInv /\ ReplyInv /\ LostInv /\ TurnInv /\ PageInv
  BY DEF BrowserInv
<1>k. Nil \notin SessionTokens
  BY NilAssumption
<1>j. jar.session # Nil => jar.session \in SessionTokens /\ sessions[jar.session].status # "unissued"
  BY <1>0 DEF TokenInv, IssuedSessions, Opt
<1>1. ASSUME NEW r \in Reply, Handled(f, x, r), Grow PROVE PageInv'
  <2> SUFFICES ASSUME faults' = {} PROVE PageInv'
    BY DEF PageInv
  <2>1. faults = {} /\ faults \cap {"overlap", "lost"} = {} /\ "lost" \notin faults
    BY <1>1 DEF Handled
  <2>l. ~flow[f].lost
    BY <2>1, <1>0 DEF LostInv
  <2>f. /\ flow'[f] = x /\ jar' = jar /\ page' = page
        /\ \A e \in Requests \ {f} : flow'[e] = flow[e]
        /\ \/ x.call = "idle" /\ flow[f].call \notin {"me", "list"}
           \/ x.call = flow[f].call /\ x.reply = r
    BY <2>l, <1>0, <1>1, HandledSlots
  <2>s. jar.session # Nil => sessions'[jar.session].user = sessions[jar.session].user
    BY <1>j, <1>1 DEF Grow
  <2>2. (\A e \in Requests : flow'[e].call \notin {"me", "list"}) => Settled'
    <3>1. SUFFICES ASSUME \A e \in Requests : flow'[e].call \notin {"me", "list"} PROVE Settled'
      OBVIOUS
    <3>2. \A e \in Requests : flow[e].call \notin {"me", "list"}
      BY <3>1, <2>f
    <3> QED BY <3>2, <2>1, <2>f, <2>s, <1>0 DEF PageInv, Settled
  <2>3. ASSUME jar.session # Nil, NEW e \in Requests
        PROVE  /\ flow'[e].call = "me" /\ flow'[e].reply.status = "ok" =>
                      flow'[e].reply.user = sessions[jar.session].user
               /\ flow'[e].call = "list" => page.me = sessions[jar.session].user
               /\ flow'[e].call = "list" /\ flow'[e].reply.status = "ok" =>
                      flow'[e].reply.user = page.me
    <3>1. CASE e # f
      BY <3>1, <2>1, <2>3, <2>f, <1>0 DEF PageInv
    <3>2. CASE e = f
      <4>1. flow[f].call \in {"me", "list"} => flow[f].session = jar.session
        BY <2>1, <2>3, <1>0 DEF TurnInv, SessionCalls
      <4>2. flow[f].call \in {"me", "list"} /\ r.status = "ok" => r.user = sessions[jar.session].user
        BY <4>1, <1>1 DEF Handled
      <4>3. flow[f].call = "list" => page.me = sessions[jar.session].user
        BY <2>1, <2>3, <1>0 DEF PageInv
      <4> QED BY <3>2, <4>2, <4>3, <2>f
    <3> QED BY <3>1, <3>2
  <2> QED BY <2>2, <2>3, <2>f, <2>s DEF PageInv
<1>2. ASSUME Browsed(f, x) PROVE PageInv'
  <2>f. /\ flow'[f] = x /\ (\A e \in Requests \ {f} : flow'[e] = flow[e])
        /\ x.reply = NoReply /\ sessions' = sessions
    BY <1>0, <1>2, BrowsedSlots
  <2> SUFFICES ASSUME faults' = {} PROVE PageInv'
    BY DEF PageInv
  <2>1. faults = {} /\ jar' = JarAfter(flow[f].reply)
    BY <1>2 DEF Browsed
  <2>2. \A e \in Requests \ {f} : flow[e].call = "idle" /\ flow'[e].call = "idle"
    BY <2>1, <2>f, <1>0, <1>2 DEF TurnInv, Browsed, Idle
  <2>3. NoReply.status # "ok"
    BY ReplyTypes
  \* Only slot f matters from here on.
  <2>4. SUFFICES /\ x.call \notin {"me", "list"} => Settled'
                 /\ jar'.session # Nil /\ x.call = "list" => page'.me = sessions[jar'.session].user
    BY <2>f, <2>2, <2>3, <2>4 DEF PageInv
  <2>5. CASE x.call = "me"
    BY <2>5
  <2>6. CASE /\ flow[f].call = "me" /\ flow[f].reply.status = "ok"
             /\ x.call = "list" /\ page'.me = flow[f].reply.user
    <3>1. jar'.session = jar.session
      <4>1. flow[f].reply.session \in SessionTokens \cup {"keep", "clear"}
        BY <1>0 DEF TypeOK, Flow, Reply
      <4>2. flow[f].reply.session = "keep"
        BY <4>1, <2>6, <1>0 DEF ReplyInv
      <4> QED BY <4>2, <2>1, <1>0, JarFacts
    <3>2. jar.session # Nil => flow[f].reply.user = sessions[jar.session].user
      BY <2>1, <2>6, <1>0 DEF PageInv
    <3> QED BY <2>6, <3>1, <3>2
  <2>7. CASE ~page'.shown /\ x.call = "idle"
    BY <2>7 DEF Settled
  <2>8. CASE /\ flow[f].call = "list" /\ x.call = "idle" /\ page'.me = page.me
             /\ page'.list = Nil \/ (flow[f].reply.status = "ok" /\ page'.list = flow[f].reply.user)
    <3>1. jar'.session = jar.session
      <4>1. flow[f].reply.session \in SessionTokens \cup {"keep", "clear"}
        BY <1>0 DEF TypeOK, Flow, Reply
      <4>2. flow[f].reply.session = "keep"
        BY <4>1, <2>8, <1>0 DEF ReplyInv
      <4> QED BY <4>2, <2>1, <1>0, JarFacts
    <3>2. jar.session # Nil => /\ page.me = sessions[jar.session].user
                               /\ flow[f].reply.status = "ok" => flow[f].reply.user = page.me
      BY <2>1, <2>8, <1>0 DEF PageInv
    <3> QED BY <2>8, <3>1, <3>2, <2>f DEF Settled
  <2>9. CASE /\ flow[f].call \notin {"me", "list"} /\ x.call \notin {"me", "list"}
             /\ page'.me = page.me /\ page'.list = page.list /\ page'.shown = page.shown
             /\ jar'.session = jar.session
    <3>1. Settled
      BY <2>1, <2>2, <2>9, <1>0 DEF PageInv
    <3> QED BY <3>1, <2>9, <2>f DEF Settled
  <2> QED BY <2>5, <2>6, <2>7, <2>8, <2>9, <1>2 DEF Browsed
<1> QED BY <1>1, <1>2

LEMMA LogoutKept ==
  ASSUME BrowserInv, NEW f \in Requests, NEW x \in Flow
  PROVE  /\ \A r \in Reply : Handled(f, x, r) => LogoutSticks'
         /\ Browsed(f, x) => LogoutSticks'
<1>0. TypeOK /\ SessionInv /\ TokenInv /\ ReplyInv /\ TurnInv /\ LogoutSticks /\ loggedOut \subseteq SessionTokens
  BY DEF BrowserInv, TypeOK
<1>k. Nil \notin SessionTokens
  BY NilAssumption
<1>1. ASSUME NEW r \in Reply, Handled(f, x, r) PROVE LogoutSticks'
  <2>1. /\ flow'[f] = x /\ \A e \in Requests \ {f} : flow'[e] = flow[e]
        /\ x.session \in {Nil, flow[f].session} /\ jar' = jar /\ loggedOut' = loggedOut
    BY <1>0, <1>1, HandledSlots
  <2>2. faults' \cap {"overlap", "lost"} = {} => faults \cap {"overlap", "lost"} = {}
    BY <1>1 DEF Handled
  <2> QED BY <1>0, <1>k, <2>1, <2>2 DEF LogoutSticks
<1>2. ASSUME Browsed(f, x) PROVE LogoutSticks'
  <2>f. flow'[f] = x /\ \A e \in Requests \ {f} : flow'[e] = flow[e]
    BY <1>0, <1>2, BrowsedSlots
  <2>s. /\ \/ jar'.session = jar.session
           \/ jar'.session = Nil
           \/ flow[f].reply.session \in SessionTokens /\ jar'.session = flow[f].reply.session
        /\ x.session \in {Nil, jar'.session}
    BY <1>0, <1>2, BrowsedSession
  <2>n. faults' \cap {"overlap", "lost"} = {} => faults \cap {"overlap", "lost"} = {}
    BY <1>2 DEF Browsed
  <2> SUFFICES ASSUME NEW t \in loggedOut'
               PROVE  /\ jar'.session # t
                      /\ faults' \cap {"overlap", "lost"} = {} => \A e \in Requests : flow'[e].session # t
    BY DEF LogoutSticks
  \* Logged out before: no response brings the token back.
  <2>1. CASE t \in loggedOut
    <3>1. /\ jar.session # t /\ flow[f].reply.session # t /\ t # Nil
      BY <2>1, <1>0, <1>k DEF LogoutSticks, SessionInv, Arriving
    <3>2. jar'.session # t
      BY <3>1, <2>s
    <3>3. faults' \cap {"overlap", "lost"} = {} => \A e \in Requests : flow[e].session # t
      BY <2>1, <2>n, <1>0 DEF LogoutSticks
    <3> QED BY <3>1, <3>2, <3>3, <2>s, <2>f
  \* Logged out by this answer, which empties the jar.
  <2>2. CASE t \notin loggedOut
    <3>1. t = flow[f].session /\ t # Nil /\ jar'.session = Nil
      BY <2>2, <1>2 DEF Browsed
    <3>2. ASSUME faults' \cap {"overlap", "lost"} = {}, NEW e \in Requests PROVE flow'[e].session # t
      <4>1. CASE e = f
        BY <4>1, <3>1, <2>s, <2>f
      <4>2. CASE e # f
        <5>1. ~Idle(f)
          BY <3>1, <1>0 DEF ReplyInv, Idle
        <5>2. Idle(e)
          BY <4>2, <5>1, <3>2, <2>n, <1>0 DEF TurnInv
        <5>3. flow[e].session = Nil
          BY <5>2, <1>0 DEF ReplyInv, Idle
        <5> QED BY <4>2, <5>3, <3>1, <2>f
      <4> QED BY <4>1, <4>2
    <3> QED BY <3>1, <3>2
  <2> QED BY <2>1, <2>2
<1> QED BY <1>1, <1>2

\* What only takes away hands nothing out.
LEMMA FadeKeeps ==
  ASSUME BrowserInv, Faded
  PROVE  /\ TokenInv' /\ SessionInv' /\ GuestKeyInv' /\ ReplyInv' /\ LostInv' /\ PromotionInv' /\ CookieInv'
         /\ TurnInv' /\ AliveInv' /\ PageInv' /\ LogoutSticks' /\ GuestReplyNamesAGuest'
<1>0. /\ TypeOK /\ TokenInv /\ SessionInv /\ GuestKeyInv /\ ReplyInv /\ LostInv /\ PromotionInv /\ CookieInv
      /\ TurnInv /\ AliveInv /\ PageInv /\ LogoutSticks /\ GuestReplyNamesAGuest
  BY DEF BrowserInv
<1>k. Nil \notin SessionTokens /\ Nil \notin GuestTokens
  BY NilAssumption
<1>j. jar.session # Nil => jar.session \in SessionTokens /\ sessions[jar.session].status # "unissued"
  BY <1>0 DEF TokenInv, IssuedSessions, Opt
<1>u. /\ users' = users /\ passkeys' = passkeys /\ page' = page /\ loggedOut' = loggedOut /\ faults \subseteq faults'
      /\ jar'.session \in {jar.session, Nil} /\ jar'.guest \in {jar.guest, Nil}
  BY DEF Faded
<1>f. \A e \in Requests :
         /\ flow'[e].call = flow[e].call /\ flow'[e].session = flow[e].session
         /\ flow'[e].guest = flow[e].guest /\ flow'[e].user = flow[e].user
         /\ flow'[e].reply = flow[e].reply /\ flow'[e].at = flow[e].at
  BY DEF Faded
<1>g. \A g \in GuestTokens :
         /\ guests'[g].user = guests[g].user
         /\ guests'[g].status = "unissued" <=> guests[g].status = "unissued"
         /\ guests'[g].status = "stored" => guests[g].status = "stored"
  BY DEF Faded
<1>s. \A t \in SessionTokens :
         /\ sessions'[t].user = sessions[t].user
         /\ sessions'[t].status = "unissued" <=> sessions[t].status = "unissued"
  BY DEF Faded
<1>i. IssuedSessions' = IssuedSessions /\ IssuedGuests' = IssuedGuests
  BY <1>g, <1>s DEF IssuedSessions, IssuedGuests
<1>w. /\ \A g : OnItsWay(g)' <=> OnItsWay(g)
      /\ \A t : Arriving(t)' <=> Arriving(t)
  BY <1>f DEF OnItsWay, Arriving
<1>1. TokenInv'
  BY <1>0, <1>k, <1>u, <1>f, <1>i, <1>w DEF TokenInv, Opt
<1>2. SessionInv'
  BY <1>0, <1>k, <1>u, <1>f, <1>i, <1>w DEF SessionInv
<1>3. GuestKeyInv'
  <2>1. \A g \in IssuedGuests : g \in GuestTokens /\ guests'[g].user = guests[g].user
    BY <1>g DEF IssuedGuests
  <2> QED BY <1>0, <1>u, <1>i, <2>1 DEF GuestKeyInv
<1>4. ReplyInv'
  BY <1>0, <1>f DEF ReplyInv
<1>5. LostInv'
  BY <1>0 DEF Faded, LostInv
<1>6. PromotionInv'
  <2> SUFFICES ASSUME NEW e \in Requests, NEW u \in Users, Promotes(e, u)
               PROVE  /\ users[u].status # "absent"
                      /\ \A g \in IssuedGuests : guests[g].user = u =>
                             /\ ~OnItsWay(g)
                             /\ flow[e].call = "promote" => g = flow[e].guest \/ g # jar'.guest
    BY <1>u, <1>f, <1>g, <1>i, <1>w DEF PromotionInv, Promotes, IssuedGuests
  <2> QED BY <1>0, <1>k, <1>u DEF PromotionInv, IssuedGuests
<1>7. CookieInv'
  <2> SUFFICES ASSUME faults' \cap {"store", "lost"} = {}, NEW g \in GuestTokens,
                      guests'[g].status = "stored", guests'[g].user \in passkeys
               PROVE  (g # jar'.guest /\ ~OnItsWay(g)) \/ \E e \in Requests : Finishing(e, g)'
    BY <1>u, <1>w DEF CookieInv
  <2>1. (g # jar.guest /\ ~OnItsWay(g)) \/ \E e \in Requests : Finishing(e, g)
    BY <1>0, <1>u, <1>g DEF CookieInv
  <2>2. \A e \in Requests : Finishing(e, g) => Finishing(e, g)'
    BY <1>f, <1>g DEF Finishing
  <2> QED BY <2>1, <2>2, <1>u, <1>k
<1>8. TurnInv'
  <2>1. faults' \cap {"overlap", "lost"} = {} => faults \cap {"overlap", "lost"} = {}
    BY <1>u
  <2> QED BY <1>0, <1>u, <1>f, <2>1 DEF TurnInv, Idle
<1>9. AliveInv'
  <2>1. /\ faults' = {} => faults = {} /\ "early" \notin faults'
        /\ \A g \in GuestTokens :
               jar.guest = g /\ jar'.guest # g => guests'[g].status # "stored" \/ "early" \in faults'
    BY <1>u DEF Faded
  <2> SUFFICES ASSUME faults' = {}, NEW g \in GuestTokens, guests'[g].status = "stored",
                      users[guests[g].user].status = "guest"
               PROVE  \/ jar'.guest = g /\ \A e \in Requests : flow[e].reply.guest = "keep"
                      \/ OnItsWay(g)
    BY <1>u, <1>f, <1>g, <1>w DEF AliveInv, IsGuest
  <2> QED BY <2>1, <1>0, <1>g DEF AliveInv, IsGuest
<1>10. PageInv'
  <2>1. faults' = {} => faults = {}
    BY <1>u
  <2>2. jar'.session # Nil => jar'.session = jar.session /\ sessions'[jar.session].user = sessions[jar.session].user
    BY <1>u, <1>s, <1>j
  <2> QED BY <1>0, <1>u, <1>f, <2>1, <2>2 DEF PageInv, Settled
<1>11. LogoutSticks'
  <2>1. faults' \cap {"overlap", "lost"} = {} => faults \cap {"overlap", "lost"} = {}
    BY <1>u
  <2>2. Nil \notin loggedOut
    BY <1>0, <1>k DEF TypeOK
  <2> QED BY <1>0, <1>u, <1>f, <2>1, <2>2 DEF LogoutSticks
<1>12. GuestReplyNamesAGuest'
  <2>1. faults' \cap {"overlap", "lost"} = {} => faults \cap {"overlap", "lost"} = {}
    BY <1>u
  <2> QED BY <1>0, <1>u, <1>f, <2>1 DEF GuestReplyNamesAGuest, IsGuest
<1> QED BY <1>1, <1>2, <1>3, <1>4, <1>5, <1>6, <1>7, <1>8, <1>9, <1>10, <1>11, <1>12

------------------------------------------------------------------------------
(* The invariant and what follows from it.                                   *)

LEMMA BrowserInit == Init => BrowserInv
<1> SUFFICES ASSUME Init PROVE BrowserInv
  OBVIOUS
<1>1. /\ users = [u \in Users |-> NoUserRow]
      /\ \A t \in SessionTokens : sessions[t].status = "unissued"
      /\ \A g \in GuestTokens : guests[g].status = "unissued"
      /\ passkeys = {} /\ loggedOut = {} /\ faults = {}
      /\ jar.session = Nil /\ jar.guest = Nil /\ page = EmptyPage
  BY DEF Init, UsersInit, RedisInit
<1>2. \A f \in Requests : flow[f] = IdleFlow
  BY DEF Init
<1>3. TypeOK
  <2>1. UsersTypeOK /\ RedisTypeOK
    BY DEF Init, UsersInit, RedisInit, UsersTypeOK, RedisTypeOK, UserRow, NoUserRow, TokenKey,
           ChallengeKey, Payload, NoPayload, Opt
  <2>2. jar \in JarType /\ page \in PageType
    BY DEF Init, EmptyPage, JarType, PageType, Opt
  <2>3. flow \in [Requests -> Flow]
    BY IdleTypes DEF Init
  <2> QED BY <1>1, <2>1, <2>2, <2>3 DEF TypeOK, JarType, PageType
<1>4. \A f \in Requests :
         /\ flow[f].call = "idle" /\ flow[f].call \notin Calls /\ flow[f].call \notin SessionCalls \cup GuestCalls
         /\ flow[f].call \notin {"create", "promote", "promote_begin", "guest", "logout"}
         /\ flow[f].reply = NoReply /\ flow[f].session = Nil /\ flow[f].guest = Nil /\ flow[f].at = "sent"
         /\ flow[f].reply.session = "keep" /\ flow[f].reply.guest = "keep" /\ flow[f].reply.status = "none"
  BY <1>2, IdleTypes, ReplyTypes DEF Calls, SessionCalls, GuestCalls
<1>k. "keep" \notin SessionTokens /\ "keep" \notin GuestTokens
  BY CookieAssumption
<1>5. TokenInv /\ SessionInv
  BY <1>1, <1>4, <1>k DEF TokenInv, SessionInv, OnItsWay, Arriving, IssuedSessions, IssuedGuests, Opt
<1>6. GuestKeyInv /\ ReplyInv /\ PromotionInv /\ CookieInv
  BY <1>1, <1>4, <1>k DEF GuestKeyInv, ReplyInv, PromotionInv, CookieInv, Promotes, IssuedGuests
<1>l. LostInv
  BY <1>2, IdleTypes DEF LostInv
<1>7. TurnInv /\ AliveInv
  BY <1>1, <1>4 DEF TurnInv, AliveInv, Idle
<1>8. PageInv
  BY <1>1, <1>4 DEF PageInv, Settled
<1>9. LogoutSticks /\ GuestReplyNamesAGuest
  BY <1>1, <1>4 DEF LogoutSticks, GuestReplyNamesAGuest
<1> QED BY <1>3, <1>5, <1>6, <1>l, <1>7, <1>8, <1>9 DEF BrowserInv

LEMMA BrowserNext == BrowserInv /\ [Next]_vars => BrowserInv'
<1> SUFFICES ASSUME BrowserInv, [Next]_vars PROVE BrowserInv'
  OBVIOUS
<1>0. TypeOK /\ GuestKeyInv /\ ReplyInv /\ LostInv /\ PromotionInv
  BY DEF BrowserInv
<1>1. ASSUME NEW f \in Requests, Handle(f) PROVE BrowserInv'
  <2>1. TypeOK' /\ Grow /\ \E x \in Flow, r \in Reply : Handled(f, x, r)
    BY <1>0, <1>1, Handlers
  <2>2. PICK x \in Flow, r \in Reply : Handled(f, x, r)
    BY <2>1
  <2>3. TokenInv' /\ SessionInv' /\ GuestKeyInv' /\ ReplyInv' /\ LostInv'
    BY <2>1, <2>2, TokenKept, SessionKept, GuestKeyKept, ReplyKept
  <2>4. PromotionInv' /\ CookieInv' /\ TurnInv'
    BY <2>1, <2>2, PromotionKept, CookieKept, TurnKept
  <2>5. AliveInv' /\ PageInv' /\ LogoutSticks' /\ GuestReplyNamesAGuest'
    BY <2>1, <2>2, AliveKept, PageKept, LogoutKept, GuestReplyKept
  <2> QED BY <2>1, <2>3, <2>4, <2>5 DEF BrowserInv
<1>2. ASSUME NEW f \in Requests, Browse(f) PROVE BrowserInv'
  <2>1. TypeOK' /\ (Faded \/ \E x \in Flow : Browsed(f, x))
    BY <1>0, <1>2, Browsers
  <2>2. ASSUME NEW x \in Flow, Browsed(f, x) PROVE BrowserInv'
    <3>1. GuestKeyInv'
      BY <1>0, <2>2, BrowsedSlots DEF GuestKeyInv, IssuedGuests
    <3>2. TokenInv' /\ SessionInv' /\ ReplyInv' /\ LostInv' /\ PromotionInv' /\ CookieInv' /\ TurnInv'
      BY <2>2, TokenKept, SessionKept, ReplyKept, PromotionKept, CookieKept, TurnKept
    <3>3. AliveInv' /\ PageInv' /\ LogoutSticks' /\ GuestReplyNamesAGuest'
      BY <2>2, AliveKept, PageKept, LogoutKept, GuestReplyKept
    <3> QED BY <2>1, <3>1, <3>2, <3>3 DEF BrowserInv
  <2>3. ASSUME Faded PROVE BrowserInv'
    BY <2>1, <2>3, FadeKeeps DEF BrowserInv
  <2> QED BY <2>1, <2>2, <2>3
<1>3. ASSUME ExpireToken \/ LapseCookie PROVE BrowserInv'
  <2>1. TypeOK' /\ Faded
    BY <1>0, <1>3, Fades
  <2> QED BY <2>1, FadeKeeps DEF BrowserInv
<1>4. CASE UNCHANGED vars
  <2>1. TypeOK'
    BY <1>0, <1>4 DEF vars, TypeOK, UsersTypeOK, RedisTypeOK
  <2>2. Faded
    BY <1>4 DEF vars, Faded
  <2> QED BY <2>1, <2>2, FadeKeeps DEF BrowserInv
<1> QED BY <1>1, <1>2, <1>3, <1>4 DEF Next

\* In every reachable state of the browser and the stores behind it the whole
\* invariant holds, whatever overlaps, is lost, lapses or fails.
THEOREM BrowserInvariant == Spec => []BrowserInv
  BY BrowserInit, BrowserNext, PTL DEF Spec

\* Jar, page, calls and stores keep their types: no answer of a handler and no
\* Set-Cookie header puts anything else in them.
THEOREM BrowserTypes == Spec => []TypeOK
<1>1. BrowserInv => TypeOK
  BY DEF BrowserInv
<1> QED BY <1>1, BrowserInvariant, PTL

\* Once the answer of Logout (auth.go) has arrived, the jar never holds the
\* session's token again, whether or not the server could delete it and
\* whatever is still out; with calls in turn no call carries it either.
THEOREM LogoutsStick == Spec => []LogoutSticks
<1>1. BrowserInv => LogoutSticks
  BY DEF BrowserInv
<1> QED BY <1>1, BrowserInvariant, PTL

\* A successful answer of Guest names a row that is still a guest when the page
\* reads it, as long as the page's functions take turns and none is given up.
THEOREM GuestRepliesNameGuests == Spec => []GuestReplyNamesAGuest
<1>1. BrowserInv => GuestReplyNamesAGuest
  BY DEF BrowserInv
<1> QED BY <1>1, BrowserInvariant, PTL

\* A guest cookie resolves to a user with a passkey only while the promotion
\* that gave the passkey is about to drop it, whatever overlaps: CompletePromote
\* (auth.go) takes the token along in its last step, and a cookie it does not
\* carry is not that user's.
THEOREM PasskeysEndGuestCookies == Spec => []PasskeyEndsGuestCookie
<1>1. BrowserInv => PasskeyEndsGuestCookie
  <2> SUFFICES ASSUME BrowserInv, faults \cap {"store", "lost"} = {}, jar.guest # Nil,
                      guests[jar.guest].status = "stored", guests[jar.guest].user \in passkeys
               PROVE  \E f \in Requests :
                          flow[f].at = "key" /\ flow[f].reply = NoReply /\ flow[f].user = guests[jar.guest].user
    BY DEF PasskeyEndsGuestCookie
  <2>1. jar.guest \in GuestTokens
    BY DEF BrowserInv, TokenInv, IssuedGuests, Opt
  <2> QED BY <2>1 DEF BrowserInv, CookieInv, Finishing
<1> QED BY <1>1, BrowserInvariant, PTL

\* One guest of this browser at a time, however often Guest is called in turn
\* ("stay idempotent", auth.go Guest).
THEOREM OneGuestAtATime == Spec => []GuestIdempotentInTurn
<1>1. BrowserInv => GuestIdempotentInTurn
  <2> SUFFICES ASSUME BrowserInv, faults = {},
                      NEW g \in GuestTokens, NEW h \in GuestTokens,
                      guests[g].status = "stored", IsGuest(guests[g].user),
                      guests[h].status = "stored", IsGuest(guests[h].user)
               PROVE  g = h
    BY DEF GuestIdempotentInTurn, OneGuest
  <2>1. ASSUME NEW k \in {g, h}
        PROVE  \/ jar.guest = k /\ \A f \in Requests : flow[f].reply.guest = "keep"
               \/ OnItsWay(k)
    BY DEF BrowserInv, AliveInv
  <2>2. "keep" \notin GuestTokens
    BY CookieAssumption
  <2>3. CASE OnItsWay(g) /\ OnItsWay(h)
    <3>1. PICK e \in Requests, f \in Requests : flow[e].reply.guest = g /\ flow[f].reply.guest = h
      BY <2>3 DEF OnItsWay
    <3>2. flow[e].reply # NoReply /\ flow[f].reply # NoReply
      BY <3>1, <2>2, ReplyTypes
    <3>3. ~Idle(e) /\ ~Idle(f)
      BY <3>2 DEF BrowserInv, ReplyInv, Idle, Calls
    <3>4. e = f
      BY <3>3 DEF BrowserInv, TurnInv
    <3> QED BY <3>1, <3>4
  <2>4. CASE ~OnItsWay(g) \/ ~OnItsWay(h)
    BY <2>1, <2>2, <2>4 DEF OnItsWay
  <2> QED BY <2>3, <2>4
<1> QED BY <1>1, BrowserInvariant, PTL

\* At rest the page shows the profile of the session in the jar over that
\* user's own passkeys, after any sequence of calls in turn (index.html
\* refreshMe), whatever expires in between.
THEOREM PagesMatchSessions == Spec => []PageMatchesSession
<1>1. BrowserInv => PageMatchesSession
  <2> SUFFICES ASSUME BrowserInv, faults = {}, \A f \in Requests : Idle(f), page.shown, jar.session # Nil
               PROVE  page.me = sessions[jar.session].user /\ page.list \in {Nil, page.me}
    BY DEF PageMatchesSession
  <2>1. \A f \in Requests : flow[f].call \notin {"me", "list"}
    BY DEF Idle
  <2> QED BY <2>1 DEF BrowserInv, PageInv, Settled
<1> QED BY <1>1, BrowserInvariant, PTL
=============================================================================
