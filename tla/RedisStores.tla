----------------------------- MODULE RedisStores -----------------------------
(***************************************************************************)
(* internal/store/redis: the challenge, session and guest stores. Each     *)
(* method is one Redis command, so one atomic step. A key is "gone" after  *)
(* a DEL, a GETDEL or its TTL; what it held stays in the model, where only *)
(* properties look at it.                                                  *)
(***************************************************************************)
EXTENDS Domain

VARIABLES
    challenges,   \* challenge:<session id> -> what a begin handler stored
    sessions,     \* session:<token> -> user
    guests        \* guest:<token> -> user

\* The JSON payload: a registrationSession of /register/begin ("register") or
\* of /promote/begin ("promote", Promote = true), or a loginSession.
Payload ==
    [kind : {"register", "promote", "login"},
     username : Opt(Names), promoteUser : Opt(Users)]

NoPayload == [kind |-> "login", username |-> Nil, promoteUser |-> Nil]

ChallengeKey == [status : {"unissued", "stored", "gone"}, payload : Payload]

TokenKey == [status : {"unissued", "stored", "gone"}, user : Opt(Users)]

RedisTypeOK ==
    /\ challenges \in [SessionIDs -> ChallengeKey]
    /\ sessions \in [SessionTokens -> TokenKey]
    /\ guests \in [GuestTokens -> TokenKey]

RedisInit ==
    /\ challenges = [s \in SessionIDs |-> [status |-> "unissued", payload |-> NoPayload]]
    /\ sessions = [t \in SessionTokens |-> [status |-> "unissued", user |-> Nil]]
    /\ guests = [g \in GuestTokens |-> [status |-> "unissued", user |-> Nil]]

\* SET challenge:s. The handlers draw s at random just before, so s is fresh.
ChallengeSave(s, p) ==
    /\ challenges[s].status = "unissued"
    /\ challenges' = [challenges EXCEPT ![s] = [status |-> "stored", payload |-> p]]

\* A Take that reads the key and leaves it there (GET for GETDEL).
TakeWithoutDelete(s) ==
    /\ challenges[s].status = "stored"
    /\ UNCHANGED challenges

\* GETDEL challenge:s.
Take(s) ==
    /\ challenges[s].status = "stored"
    /\ challenges' = [challenges EXCEPT ![s].status = "gone"]

SessionCreate(t, u) ==
    /\ sessions[t].status = "unissued"
    /\ sessions' = [sessions EXCEPT ![t] = [status |-> "stored", user |-> u]]

SessionDelete(t) ==
    /\ sessions[t].status # "unissued"
    /\ sessions' = [sessions EXCEPT ![t].status = "gone"]

GuestCreate(g, u) ==
    /\ guests[g].status = "unissued"
    /\ guests' = [guests EXCEPT ![g] = [status |-> "stored", user |-> u]]

GuestDelete(g) ==
    /\ guests[g].status # "unissued"
    /\ guests' = [guests EXCEPT ![g].status = "gone"]

\* The tokens a client may present: those the stores have handed out, whether
\* or not they still resolve.
IssuedSessions == {t \in SessionTokens : sessions[t].status # "unissued"}

IssuedGuests == {g \in GuestTokens : guests[g].status # "unissued"}

\* A TTL running out. There is no clock: a key may expire at any moment, and
\* a short TTL and a long one are both among the behaviours.
Expire ==
    \/ /\ \E s \in SessionIDs : Take(s)
       /\ UNCHANGED <<sessions, guests>>
    \/ /\ \E t \in SessionTokens : sessions[t].status = "stored" /\ SessionDelete(t)
       /\ UNCHANGED <<challenges, guests>>
    \/ /\ \E g \in GuestTokens : guests[g].status = "stored" /\ GuestDelete(g)
       /\ UNCHANGED <<challenges, sessions>>
=============================================================================
