---------------------------- MODULE AccountProofs ----------------------------
(***************************************************************************)
(* What the service knows about accounts and sessions, for every value of  *)
(* the constants, and that it implements AccountLifecycle. StoreSteps and  *)
(* SlotSteps name the few handler steps that write a table or take a       *)
(* request to a point where it relies on one. The argument is then one of  *)
(* rely and guarantee: what a request relies on is kept by the steps of    *)
(* all others (Kept), and each step that makes it rely on more establishes *)
(* what it relies on.                                                      *)
(***************************************************************************)
EXTENDS PasskeyProofs, PasskeyRefinement, FiniteSetTheorems

------------------------------------------------------------------------------
(* Which steps do what.                                                      *)

\* The handler steps that write users, credentials or sessions; whatever else
\* happens leaves the three alone or ends a session.
LEMMA StoreSteps ==
  ASSUME [Next]_vars
  PROVE  \/ UNCHANGED <<users, credentials, sessions>>
         \/ \E r \in Requests :
                \/ GuestCreateUser(r) \/ CompleteRegisterCreate(r) \/ CompletePromotePromote(r)
                \/ CompleteRegisterInsert(r) \/ CompletePromoteInsert(r)
                \/ CompleteLoginUpdate(r)
                \/ CompleteLoginSession(r) \/ CompletePromoteSession(r)
                \/ At(r, "del_soft") /\ SoftDeleteCommit(r) /\ UNCHANGED <<users, sessions>>
         \/ \E t \in SessionTokens : SessionDelete(t) /\ UNCHANGED <<users, credentials>>
<1> USE DEF postgres, redis
<1>1. CASE \E r \in Requests : Arrive(r)
  BY <1>1 DEF Arrive, BeginRegister, CompleteRegister, CompleteLogin, Guest, BeginPromote,
              CompletePromote, DeleteCredential
<1>2. CASE \E r \in Requests : Step(r)
  <2>1. PICK r \in Requests : Step(r)
    BY <1>2
  <2>2. CASE RegisterStep(r)
    BY <2>2 DEF RegisterStep, BeginRegisterSave, CompleteRegisterTaken, CompleteRegisterExists
  <2>3. CASE LoginStep(r)
    BY <2>3 DEF LoginStep, CompleteLoginResolve, CompleteLoginGone, DropGuest
  <2>4. CASE GuestStep(r)
    BY <2>4 DEF GuestStep, GuestGet, GuestMintToken
  <2>5. CASE PromoteStep(r)
    BY <2>5 DEF PromoteStep, BeginPromoteGet, BeginPromoteSave, CompletePromoteRefused,
                CompletePromoteExists
  <2>6. CASE DeleteStep(r)
    BY <2>6 DEF DeleteStep, DeleteCredentialOwned, DeleteCredentialNotOwned,
                DeleteCredentialStep, DeleteCredentialEnd, SoftDeleteBegin, SoftDeleteGoOn,
                SoftDeleteLock, SoftDeleteCount, SoftDeleteUpdate, SoftDeleteEnd,
                SoftDeleteNotFound, SoftDeleteLast
  <2>7. CASE Exhausted(r)
    BY <2>7 DEF Exhausted
  <2> QED BY <2>1, <2>2, <2>3, <2>4, <2>5, <2>6, <2>7 DEF Step
<1>3. CASE \E r \in Requests : Fail(r)
  BY <1>3 DEF Fail
<1>4. CASE BeginLogin \/ UNCHANGED vars
  BY <1>4 DEF BeginLogin, vars
<1>5. CASE (\E t \in IssuedSessions : Logout(t)) \/ ExpireKey
  BY <1>5 DEF Logout, IssuedSessions, ExpireKey, Expire
<1> QED BY <1>1, <1>2, <1>3, <1>4, <1>5 DEF Next

\* The points at which a request relies on nothing the invariants below say.
FreePcs ==
    {"idle", "login_resolve", "guest_get", "guest_create", "guest_token", "drop_guest",
     "del_list"}

\* A registration or promotion that has just taken its ceremony.
TakesAs(r, kind, pc) ==
    \E s \in SessionIDs :
        /\ Take(s)
        /\ challenges[s].payload.kind = kind
        /\ req'[r].pc = pc
        /\ req'[r].sid = s
        /\ req'[r].name = challenges[s].payload.username
        /\ kind = "promote" => req'[r].user = challenges[s].payload.promoteUser
        /\ UNCHANGED <<postgres, sessions>>

\* What a request comes to rely on, by the step that takes it there.
Moves(r) ==
    \/ req'[r].pc \in FreePcs
    \/ req'[r].pc \in {"reg_save", "prom_get"} /\ req'[r].name \in Names
    \/ At(r, "prom_get") /\ req'[r].pc = "prom_save" /\ req'[r].name = req[r].name
    \/ TakesAs(r, "register", "reg_create")
    \/ TakesAs(r, "promote", "prom_promote")
    \/ CompleteRegisterCreate(r)
    \/ CompletePromotePromote(r)
    \/ CompletePromoteInsert(r)
    \/ /\ req'[r].pc = "login_update"
       /\ \E c \in Rows : Live(c) /\ req'[r].user = credentials[c].user
       /\ UNCHANGED <<postgres, sessions>>
    \/ CompleteLoginUpdate(r)
    \/ DeleteCredentialOwned(r)

\* A step moves at most one request, and as Moves says.
LEMMA SlotArrive ==
  ASSUME TypeOK, NEW r \in Requests, Arrive(r)
  PROVE  \/ UNCHANGED req
         \/ Moves(r) /\ \A q \in Requests \ {r} : req'[q] = req[q]
<1> USE IdleType DEF redis, Moves
<1>i. ASSUME NEW x, req' = [req EXCEPT ![r] = x]
      PROVE  req'[r] = x /\ \A q \in Requests \ {r} : req'[q] = req[q]
  BY <1>i DEF TypeOK, RequestsTypeOK
<1>1. CASE \E n \in Names : BeginRegister(r, n)
  <2>1. PICK n \in Names : BeginRegister(r, n)
    BY <1>1
  <2> DEFINE x == [Idle EXCEPT !.pc = "reg_save", !.name = n]
  <2>2. x.pc = "reg_save" /\ x.name = n
    BY DEF RequestState
  <2>3. req' = [req EXCEPT ![r] = x]
    BY <2>1 DEF BeginRegister
  <2> HIDE DEF x
  <2> QED BY <2>2, <2>3, <1>i
<1>2. CASE \E s \in SessionIDs, k \in CredentialIDs, n \in SignCounts :
              CompleteRegister(r, s, k, n)
  <2>1. PICK s \in SessionIDs, k \in CredentialIDs, n \in SignCounts :
              CompleteRegister(r, s, k, n)
    BY <1>2
  <2> DEFINE x == [Idle EXCEPT !.pc = "reg_create", !.sid = s, !.key = k, !.count = n,
                               !.name = challenges[s].payload.username]
  <2>2. x.pc = "reg_create" /\ x.sid = s /\ x.name = challenges[s].payload.username
    BY DEF RequestState
  <2>3. \/ req' = [req EXCEPT ![r] = x] /\ AcceptsRegistration(challenges[s].payload)
        \/ UNCHANGED req
    BY <2>1 DEF CompleteRegister
  <2>4. Take(s) /\ UNCHANGED <<postgres, sessions>>
    BY <2>1 DEF CompleteRegister
  <2> HIDE DEF x
  <2>5. ASSUME req' = [req EXCEPT ![r] = x], AcceptsRegistration(challenges[s].payload)
        PROVE  TakesAs(r, "register", "reg_create")
    BY <2>2, <2>4, <2>5, <1>i DEF TakesAs, AcceptsRegistration, LibCreates
  <2> QED BY <2>3, <2>5, <1>i
<1>3. CASE \E s \in SessionIDs, k \in CredentialIDs, n \in SignCounts, g \in Opt(IssuedGuests) :
              CompleteLogin(r, s, k, n, g)
  <2>1. PICK s \in SessionIDs, k \in CredentialIDs, n \in SignCounts, g \in Opt(IssuedGuests) :
              CompleteLogin(r, s, k, n, g)
    BY <1>3
  <2> DEFINE x == [Idle EXCEPT !.pc = "login_resolve", !.sid = s, !.key = k, !.count = n,
                               !.guest = g]
  <2>2. x.pc \in FreePcs
    BY DEF RequestState, FreePcs
  <2>3. req' = [req EXCEPT ![r] = x] \/ UNCHANGED req
    BY <2>1 DEF CompleteLogin
  <2> HIDE DEF x
  <2> QED BY <2>2, <2>3, <1>i
<1>4. CASE \E g \in Opt(IssuedGuests) : Guest(r, g)
  <2>1. PICK g \in Opt(IssuedGuests) : Guest(r, g)
    BY <1>4
  <2> DEFINE x == [Idle EXCEPT !.pc = "guest_create"]
             y == [Idle EXCEPT !.pc = "guest_get", !.user = guests[g].user]
  <2>2. x.pc \in FreePcs /\ y.pc \in FreePcs
    BY DEF RequestState, FreePcs
  <2>3. req' = [req EXCEPT ![r] = x] \/ req' = [req EXCEPT ![r] = y]
    BY <2>1 DEF Guest
  <2> HIDE DEF x, y
  <2> QED BY <2>2, <2>3, <1>i
<1>5. CASE \E g \in IssuedGuests, n \in Names : BeginPromote(r, g, n)
  <2>1. PICK g \in IssuedGuests, n \in Names : BeginPromote(r, g, n)
    BY <1>5
  <2> DEFINE x == [Idle EXCEPT !.pc = "prom_get", !.name = n, !.user = guests[g].user]
  <2>2. x.pc = "prom_get" /\ x.name = n
    BY DEF RequestState
  <2>3. req' = [req EXCEPT ![r] = x]
    BY <2>1 DEF BeginPromote
  <2> HIDE DEF x
  <2> QED BY <2>2, <2>3, <1>i
<1>6. CASE \E s \in SessionIDs, k \in CredentialIDs, n \in SignCounts, g \in Opt(IssuedGuests) :
              CompletePromote(r, s, k, n, g)
  <2>1. PICK s \in SessionIDs, k \in CredentialIDs, n \in SignCounts, g \in Opt(IssuedGuests) :
              CompletePromote(r, s, k, n, g)
    BY <1>6
  <2> DEFINE x == [Idle EXCEPT !.pc = "prom_promote", !.sid = s, !.key = k, !.count = n,
                               !.guest = g, !.name = challenges[s].payload.username,
                               !.user = challenges[s].payload.promoteUser]
  <2>2. /\ x.pc = "prom_promote" /\ x.sid = s /\ x.name = challenges[s].payload.username
        /\ x.user = challenges[s].payload.promoteUser
    BY DEF RequestState
  <2>3. \/ req' = [req EXCEPT ![r] = x] /\ AcceptsPromotion(challenges[s].payload)
        \/ UNCHANGED req
    BY <2>1 DEF CompletePromote
  <2>4. Take(s) /\ UNCHANGED <<postgres, sessions>>
    BY <2>1 DEF CompletePromote
  <2> HIDE DEF x
  <2>5. ASSUME req' = [req EXCEPT ![r] = x], AcceptsPromotion(challenges[s].payload)
        PROVE  TakesAs(r, "promote", "prom_promote")
    BY <2>2, <2>4, <2>5, <1>i DEF TakesAs, AcceptsPromotion
  <2> QED BY <2>3, <2>5, <1>i
<1>7. CASE \E t \in IssuedSessions, c \in Rows : DeleteCredential(r, t, c)
  <2>1. PICK t \in IssuedSessions, c \in Rows : DeleteCredential(r, t, c)
    BY <1>7
  <2> DEFINE x == [Idle EXCEPT !.pc = "del_list", !.user = sessions[t].user, !.row = c]
  <2>2. x.pc \in FreePcs
    BY DEF RequestState, FreePcs
  <2>3. req' = [req EXCEPT ![r] = x]
    BY <2>1 DEF DeleteCredential
  <2> HIDE DEF x
  <2> QED BY <2>2, <2>3, <1>i
<1> QED BY <1>1, <1>2, <1>3, <1>4, <1>5, <1>6, <1>7 DEF Arrive

\* The same for the steps of a request in flight.
LEMMA SlotStep ==
  ASSUME TypeOK, NEW r \in Requests, Step(r) \/ Fail(r)
  PROVE  \/ UNCHANGED req
         \/ Moves(r) /\ \A q \in Requests \ {r} : req'[q] = req[q]
<1> USE PcType DEF postgres, redis, Moves
<1>t. req \in [Requests -> RequestState]
  BY DEF TypeOK, RequestsTypeOK
<1>r. Respond(r) => req'[r].pc \in FreePcs /\ \A q \in Requests \ {r} : req'[q] = req[q]
  BY <1>t DEF Respond, Idle, FreePcs
<1>g. \A pc \in Pcs : Goto(r, pc) => /\ req'[r].pc = pc /\ req'[r].name = req[r].name
                                     /\ \A q \in Requests \ {r} : req'[q] = req[q]
  BY <1>t DEF Goto, RequestState
<1>d. "drop_guest" \in FreePcs
  BY DEF FreePcs
<1>1. CASE RegisterStep(r)
  <2>1. CASE CompleteRegisterCreate(r)
    BY <2>1, <1>t DEF CompleteRegisterCreate
  <2>2. CASE ~CompleteRegisterCreate(r)
    BY <1>1, <2>2, <1>r
    DEF RegisterStep, BeginRegisterSave, CompleteRegisterTaken, CompleteRegisterInsert,
        CompleteRegisterExists
  <2> QED BY <2>1, <2>2
<1>2. CASE LoginStep(r)
  <2>1. CASE CompleteLoginResolve(r)
    <3>1. CASE Respond(r)
      BY <3>1, <1>r
    <3>2. CASE ~Respond(r)
      <4>1. PICK c \in Rows : /\ Live(c)
                             /\ \E n : req' = [req EXCEPT ![r].pc = "login_update", ![r].row = c,
                                                          ![r].user = credentials[c].user,
                                                          ![r].count = n]
        BY <2>1, <3>2 DEF CompleteLoginResolve
      <4>2. /\ req'[r].pc = "login_update" /\ req'[r].user = credentials[c].user
            /\ \A q \in Requests \ {r} : req'[q] = req[q]
        BY <4>1, <1>t DEF RequestState
      <4> QED BY <2>1, <4>1, <4>2 DEF CompleteLoginResolve
    <3> QED BY <3>1, <3>2
  <2>2. CASE CompleteLoginUpdate(r)
    BY <2>2, <1>g DEF CompleteLoginUpdate
  <2>3. CASE CompleteLoginSession(r)
    BY <2>3, <1>r, <1>g, <1>d DEF CompleteLoginSession, IssueSession
  <2>4. CASE CompleteLoginGone(r) \/ DropGuest(r)
    BY <2>4, <1>r DEF CompleteLoginGone, DropGuest
  <2> QED BY <1>2, <2>1, <2>2, <2>3, <2>4 DEF LoginStep
<1>3. CASE GuestStep(r)
  <2>1. CASE GuestGet(r)
    <3> DEFINE x == [Idle EXCEPT !.pc = "guest_create"]
    <3>1. x.pc \in FreePcs
      BY IdleType DEF RequestState, FreePcs
    <3>2. req' = [req EXCEPT ![r] = x] \/ Respond(r)
      BY <2>1 DEF GuestGet
    <3> HIDE DEF x
    <3> QED BY <3>1, <3>2, <1>r, <1>t
  <2>2. CASE GuestCreateUser(r)
    <3>1. req'[r].pc = "guest_token" /\ \A q \in Requests \ {r} : req'[q] = req[q]
      BY <2>2, <1>t DEF GuestCreateUser, RequestState
    <3> QED BY <3>1 DEF FreePcs
  <2>3. CASE GuestMintToken(r)
    BY <2>3, <1>r DEF GuestMintToken
  <2> QED BY <1>3, <2>1, <2>2, <2>3 DEF GuestStep
<1>4. CASE PromoteStep(r)
  <2>1. CASE BeginPromoteGet(r)
    BY <2>1, <1>r, <1>g DEF BeginPromoteGet
  <2>2. CASE CompletePromotePromote(r) \/ CompletePromoteInsert(r)
    BY <2>2, <1>g DEF CompletePromotePromote, CompletePromoteInsert
  <2>3. CASE CompletePromoteSession(r)
    BY <2>3, <1>r, <1>g, <1>d DEF CompletePromoteSession, IssueSession
  <2>4. CASE BeginPromoteSave(r) \/ CompletePromoteRefused(r) \/ CompletePromoteExists(r)
    BY <2>4, <1>r DEF BeginPromoteSave, CompletePromoteRefused, CompletePromoteExists
  <2> QED BY <1>4, <2>1, <2>2, <2>3, <2>4 DEF PromoteStep
<1>5. CASE DeleteStep(r)
  BY <1>5, <1>r, <1>g
  DEF DeleteStep, DeleteCredentialOwned, DeleteCredentialNotOwned, DeleteCredentialStep,
      DeleteCredentialEnd
<1>6. CASE Exhausted(r) \/ Fail(r)
  BY <1>6, <1>r DEF Exhausted, Fail
<1> QED BY <1>1, <1>2, <1>3, <1>4, <1>5, <1>6 DEF Step

\* The two together, and the steps of no request.
LEMMA SlotSteps ==
  ASSUME TypeOK, [Next]_vars
  PROVE  \/ UNCHANGED req
         \/ \E r \in Requests : Moves(r) /\ \A q \in Requests \ {r} : req'[q] = req[q]
<1>1. CASE \E r \in Requests : Arrive(r) \/ Step(r) \/ Fail(r)
  BY <1>1, SlotArrive, SlotStep
<1>2. CASE BeginLogin \/ (\E t \in IssuedSessions : Logout(t)) \/ ExpireKey \/ UNCHANGED vars
  BY <1>2 DEF BeginLogin, Logout, ExpireKey, vars
<1> QED BY <1>1, <1>2 DEF Next

\* The steps that write a challenge: a begin handler's Save, a Take, an expiry.
LEMMA ChallengeSteps ==
  ASSUME [Next]_vars
  PROVE  \/ UNCHANGED challenges
         \/ \E s \in SessionIDs : Take(s) \/ ChallengeSave(s, NoPayload)
         \/ \E r \in Requests : BeginRegisterSave(r) \/ BeginPromoteSave(r)
<1> USE DEF postgres, redis
<1>1. CASE \E r \in Requests : Arrive(r)
  BY <1>1 DEF Arrive, BeginRegister, CompleteRegister, CompleteLogin, Guest, BeginPromote,
              CompletePromote, DeleteCredential
<1>2. CASE \E r \in Requests : Step(r)
  <2>1. PICK r \in Requests : Step(r)
    BY <1>2
  <2>2. CASE RegisterStep(r)
    BY <2>2 DEF RegisterStep, CompleteRegisterCreate, CompleteRegisterTaken,
                CompleteRegisterInsert, CompleteRegisterExists
  <2>3. CASE LoginStep(r)
    BY <2>3 DEF LoginStep, CompleteLoginResolve, CompleteLoginUpdate, CompleteLoginGone,
                CompleteLoginSession, IssueSession, DropGuest
  <2>4. CASE GuestStep(r)
    BY <2>4 DEF GuestStep, GuestGet, GuestCreateUser, GuestMintToken
  <2>5. CASE PromoteStep(r)
    BY <2>5 DEF PromoteStep, BeginPromoteGet, CompletePromotePromote, CompletePromoteRefused,
                CompletePromoteInsert, CompletePromoteExists, CompletePromoteSession,
                IssueSession
  <2>6. CASE DeleteStep(r) \/ Exhausted(r)
    BY <2>6 DEF DeleteStep, DeleteCredentialOwned, DeleteCredentialNotOwned,
                DeleteCredentialStep, DeleteCredentialEnd, Exhausted
  <2> QED BY <2>1, <2>2, <2>3, <2>4, <2>5, <2>6 DEF Step
<1>3. CASE \E r \in Requests : Fail(r)
  BY <1>3 DEF Fail
<1>4. CASE BeginLogin \/ (\E t \in IssuedSessions : Logout(t)) \/ ExpireKey \/ UNCHANGED vars
  BY <1>4 DEF BeginLogin, Logout, ExpireKey, Expire, vars
<1> QED BY <1>1, <1>2, <1>3, <1>4 DEF Next

\* A step that is not one of DELETE's leaves the transactions alone and neither
\* enters SoftDelete nor leaves it; one that answers ends the transaction.
LEMMA DeleteSteps ==
  ASSUME TypeOK, [Next]_vars
  PROVE  \/ UNCHANGED <<tx, req>>
         \/ \E r \in Requests :
                /\ \A q \in Requests \ {r} : req'[q] = req[q] /\ tx'[q] = tx[q]
                /\ \/ tx'[r] = tx[r] /\ ~At(r, "del_soft") /\ req'[r].pc # "del_soft"
                   \/ tx'[r] = NoTx /\ req'[r].pc = "idle"
                   \/ DeleteCredentialOwned(r)
                   \/ DeleteCredentialStep(r)
<1> USE DEF postgres
<1>t. /\ req \in [Requests -> RequestState]
      /\ tx \in [Requests -> [phase : {"none", "waiting", "locked", "counted", "updated"},
                              row : Opt(Rows)]]
  BY DEF TypeOK, RequestsTypeOK, CredentialsTypeOK
<1>m. ASSUME NEW r \in Requests, Moves(r), ~DeleteCredentialOwned(r)
      PROVE  req'[r].pc # "del_soft"
  BY <1>m, <1>t
  DEF Moves, FreePcs, TakesAs, CompleteRegisterCreate, CompletePromotePromote,
      CompletePromoteInsert, CompleteLoginUpdate, Goto, RequestState
<1>r. ASSUME NEW r \in Requests, Respond(r)
      PROVE  req'[r].pc = "idle" /\ \A q \in Requests \ {r} : req'[q] = req[q]
  BY <1>r, <1>t DEF Respond, Idle
<1>1. CASE \E r \in Requests : Arrive(r)
  <2>1. PICK r \in Requests : Arrive(r)
    BY <1>1
  <2>2. At(r, "idle") /\ UNCHANGED tx
    BY <2>1 DEF Arrive, BeginRegister, CompleteRegister, CompleteLogin, Guest, BeginPromote,
                CompletePromote, DeleteCredential
  <2> QED BY <2>1, <2>2, <1>m, SlotArrive DEF At, DeleteCredentialOwned
<1>2. CASE \E r \in Requests : Step(r)
  <2>1. PICK r \in Requests : Step(r)
    BY <1>2
  <2>a. ASSUME UNCHANGED tx, ~At(r, "del_soft"), ~DeleteCredentialOwned(r)
        PROVE  \/ UNCHANGED <<tx, req>>
               \/ /\ \A q \in Requests \ {r} : req'[q] = req[q] /\ tx'[q] = tx[q]
                  /\ tx'[r] = tx[r] /\ ~At(r, "del_soft") /\ req'[r].pc # "del_soft"
    BY <2>a, <2>1, <1>m, SlotStep
  <2>2. CASE RegisterStep(r)
    <3>1. UNCHANGED tx /\ ~At(r, "del_soft") /\ ~At(r, "del_list")
      BY <2>2 DEF RegisterStep, BeginRegisterSave, CompleteRegisterCreate,
                  CompleteRegisterTaken, CompleteRegisterInsert, CompleteRegisterExists, At
    <3> QED BY <3>1, <2>a DEF DeleteCredentialOwned
  <2>3. CASE LoginStep(r)
    <3>1. UNCHANGED tx /\ ~At(r, "del_soft") /\ ~At(r, "del_list")
      BY <2>3 DEF LoginStep, CompleteLoginResolve, CompleteLoginUpdate, CompleteLoginGone,
                  CompleteLoginSession, IssueSession, DropGuest, At
    <3> QED BY <3>1, <2>a DEF DeleteCredentialOwned
  <2>4. CASE GuestStep(r)
    <3>1. UNCHANGED tx /\ ~At(r, "del_soft") /\ ~At(r, "del_list")
      BY <2>4 DEF GuestStep, GuestGet, GuestCreateUser, GuestMintToken, At
    <3> QED BY <3>1, <2>a DEF DeleteCredentialOwned
  <2>5. CASE PromoteStep(r)
    <3>1. UNCHANGED tx /\ ~At(r, "del_soft") /\ ~At(r, "del_list")
      BY <2>5 DEF PromoteStep, BeginPromoteGet, BeginPromoteSave, CompletePromotePromote,
                  CompletePromoteRefused, CompletePromoteInsert, CompletePromoteExists,
                  CompletePromoteSession, IssueSession, At
    <3> QED BY <3>1, <2>a DEF DeleteCredentialOwned
  <2>6. CASE DeleteCredentialOwned(r)
    <3>1. \A q \in Requests \ {r} : req'[q] = req[q] /\ tx'[q] = tx[q]
      BY <2>6, <1>t DEF DeleteCredentialOwned, SoftDeleteBegin, Goto
    <3> QED BY <2>6, <3>1
  <2>7. CASE DeleteCredentialNotOwned(r)
    <3>1. UNCHANGED tx /\ ~At(r, "del_soft")
      BY <2>7 DEF DeleteCredentialNotOwned, At
    <3> QED BY <2>7, <3>1, <1>r DEF DeleteCredentialNotOwned
  <2>8. CASE DeleteCredentialStep(r)
    <3>1. \A q \in Requests \ {r} : req'[q] = req[q] /\ tx'[q] = tx[q]
      BY <2>8, <1>t DEF DeleteCredentialStep, SoftDeleteGoOn, SoftDeleteLock, SoftDeleteCount,
                        SoftDeleteUpdate
    <3> QED BY <2>8, <3>1
  <2>9. CASE DeleteCredentialEnd(r)
    <3>1. tx' = [tx EXCEPT ![r] = NoTx] /\ Respond(r)
      BY <2>9 DEF DeleteCredentialEnd, SoftDeleteEnd, SoftDeleteNotFound, SoftDeleteLast,
                  SoftDeleteCommit
    <3> QED BY <3>1, <1>r, <1>t
  <2>10. CASE Exhausted(r)
    <3>1. UNCHANGED tx /\ Respond(r) /\ ~At(r, "del_soft")
      BY <2>10 DEF Exhausted, At
    <3> QED BY <3>1, <1>r
  <2> QED BY <2>1, <2>2, <2>3, <2>4, <2>5, <2>6, <2>7, <2>8, <2>9, <2>10 DEF Step, DeleteStep
<1>3. CASE \E r \in Requests : Fail(r)
  <2>1. PICK r \in Requests : tx' = [tx EXCEPT ![r] = NoTx] /\ Respond(r)
    BY <1>3 DEF Fail
  <2> QED BY <2>1, <1>r, <1>t
<1>4. CASE BeginLogin \/ (\E t \in IssuedSessions : Logout(t)) \/ ExpireKey \/ UNCHANGED vars
  BY <1>4 DEF BeginLogin, Logout, ExpireKey, vars
<1> QED BY <1>1, <1>2, <1>3, <1>4 DEF Next

------------------------------------------------------------------------------
(* What is kept.                                                             *)

\* What a request or a session may rely on: ceremonies that were taken,
\* accounts that are registered and credentials that were inserted.
Kept ==
    /\ \A s \in SessionIDs : challenges[s].status = "gone" => challenges'[s] = challenges[s]
    /\ \A u \in Users : Registered(u) => users'[u] = users[u]
    /\ \A c \in Rows : Exists(c) => /\ credentials'[c].status = credentials[c].status
                                    /\ credentials'[c].user = credentials[c].user
                                    /\ credentials'[c].handle = credentials[c].handle

\* Every step keeps it, as long as no DELETE has written deleted_at.
LEMMA KeptByAll ==
  ASSUME TypeOK, DeleteInv, [Next]_vars
  PROVE  Kept
<1>1. ASSUME NEW s \in SessionIDs, challenges[s].status = "gone"
      PROVE  challenges'[s] = challenges[s]
  <2>1. \/ UNCHANGED challenges
        \/ \E x \in SessionIDs : \/ Take(x)
                                  \/ \E p : ChallengeSave(x, p)
    BY ChallengeSteps DEF BeginRegisterSave, BeginPromoteSave
  <2> QED BY <1>1, <2>1 DEF Take, ChallengeSave, TypeOK, RedisTypeOK
<1>2. ASSUME NEW u \in Users, Registered(u)
      PROVE  users'[u] = users[u]
  <2>1. \/ UNCHANGED users
        \/ \E v : CreateGuest(v) \/ \E n : CreateRegistered(v, n) \/ PromoteGuest(v, n)
    BY StoreSteps
    DEF GuestCreateUser, CompleteRegisterCreate, CompletePromotePromote,
        CompleteRegisterInsert, CompletePromoteInsert, CompleteLoginUpdate,
        CompleteLoginSession, CompletePromoteSession, IssueSession, postgres
  <2> QED BY <1>2, <2>1 DEF CreateGuest, CreateRegistered, PromoteGuest, Registered, IsGuest,
                            TypeOK, UsersTypeOK
<1>3. ASSUME NEW c \in Rows, Exists(c)
      PROVE  /\ credentials'[c].status = credentials[c].status
             /\ credentials'[c].user = credentials[c].user
             /\ credentials'[c].handle = credentials[c].handle
  <2>1. \/ UNCHANGED credentials
        \/ \E d \in Rows : \E u, k, h, n : Insert(d, u, k, h, n)
        \/ \E d, n : UpdateAfterAssertion(d, n)
    BY StoreSteps
    DEF GuestCreateUser, CompleteRegisterCreate, CompletePromotePromote,
        CompleteRegisterInsert, CompletePromoteInsert, CompleteLoginUpdate, InsertCredential,
        CompleteLoginSession, CompletePromoteSession, IssueSession, postgres, DeleteInv,
        SoftDeleteCommit
  <2> QED BY <1>3, <2>1 DEF Insert, UpdateAfterAssertion, Exists, TypeOK, CredentialsTypeOK,
                            CredentialRow
<1> QED BY <1>1, <1>2, <1>3 DEF Kept

\* CanLogIn of the state after the step, for accounts named in either state.
CanLogInAfter(u) ==
    /\ u \in Users
    /\ users'[u].status \in {"registered", "promoted"}
    /\ \E c \in Rows : credentials'[c].status = "live" /\ credentials'[c].user = u

\* So an account that can be logged in to stays so.
LEMMA CanLogInKept ==
  ASSUME Kept, NEW u, CanLogIn(u)
  PROVE  CanLogInAfter(u)
<1>1. u \in Users /\ Registered(u) /\ users'[u] = users[u]
  BY DEF CanLogIn, Kept
<1>2. PICK c \in Rows : Live(c) /\ credentials[c].user = u
  BY DEF CanLogIn, LiveOf
<1>3. credentials'[c].status = "live" /\ credentials'[c].user = u
  BY <1>2 DEF Kept, Live, Exists
<1> QED BY <1>1, <1>3 DEF CanLogInAfter, Registered

\* An account with at most one credential has at most one live one, so the count
\* of SoftDelete never lets a DELETE go on.
LEMMA NothingToSpare ==
  ASSUME OnePasskeyPerAccount, NEW u
  PROVE  ~(LiveCount(u) > 1)
<1>1. CASE LiveOf(u) = {}
  BY <1>1, FS_EmptySet DEF LiveCount
<1>2. CASE LiveOf(u) # {}
  <2>1. PICK c \in Rows : c \in LiveOf(u)
    BY <1>2 DEF LiveOf
  <2>2. LiveOf(u) = {c}
    BY <2>1 DEF LiveOf, Live, OnePasskeyPerAccount
  <2>3. Cardinality({c}) = 1
    BY FS_Singleton
  <2> QED BY <2>2, <2>3 DEF LiveCount
<1> QED BY <1>1, <1>2

------------------------------------------------------------------------------
(* Deletes.                                                                  *)

\* A DELETE stays with the credential its ownership check saw, and none gets
\* past the count.
LEMMA DeleteNext ==
  TypeOK /\ LockInv /\ AccountInv /\ DeleteInv /\ [Next]_vars => DeleteInv'
<1> SUFFICES ASSUME TypeOK, LockInv, AccountInv, DeleteInv, [Next]_vars PROVE DeleteInv'
  OBVIOUS
<1> USE DEF DeleteInv, DeleteTouchesOwnCredential, At
<1>k. \A c \in Rows : Exists(c) => Exists(c)' /\ credentials'[c].user = credentials[c].user
  BY KeptByAll DEF Kept, Exists
<1>t. /\ req \in [Requests -> RequestState]
      /\ tx \in [Requests -> [phase : {"none", "waiting", "locked", "counted", "updated"},
                              row : Opt(Rows)]]
  BY DEF TypeOK, RequestsTypeOK, CredentialsTypeOK
<1>1. \A c \in Rows : credentials'[c].status # "deleted"
  <2>1. \/ UNCHANGED credentials
        \/ \E d \in Rows : \E u, k, h, n : Insert(d, u, k, h, n)
        \/ \E d, n : UpdateAfterAssertion(d, n)
    BY StoreSteps
    DEF GuestCreateUser, CompleteRegisterCreate, CompletePromotePromote,
        CompleteRegisterInsert, CompletePromoteInsert, CompleteLoginUpdate, InsertCredential,
        CompleteLoginSession, CompletePromoteSession, IssueSession, postgres,
        SoftDeleteCommit
  <2>2. credentials \in [Rows -> CredentialRow]
    BY DEF TypeOK, CredentialsTypeOK
  <2>3. CASE \E d \in Rows : \E u, k, h, n : Insert(d, u, k, h, n)
    BY <2>2, <2>3 DEF Insert
  <2>4. CASE \E d, n : UpdateAfterAssertion(d, n)
    <3>1. \A c \in Rows : credentials'[c].status = credentials[c].status
      BY <2>2, <2>4 DEF UpdateAfterAssertion, CredentialRow
    <3> QED BY <3>1
  <2> QED BY <2>1, <2>3, <2>4
<1> DEFINE Ok(ph, c, q) ==
      /\ ph \notin {"counted", "updated"}
      /\ ph # "none" <=> q.pc = "del_soft"
      /\ ph # "none" => /\ c \in Rows
                        /\ credentials'[c].status # "absent"
                        /\ c = q.row
                        /\ credentials'[c].user = q.user
<1>2. \A r \in Requests : Ok(tx[r].phase, tx[r].row, req[r])
  BY <1>k DEF LockInv, Exists
<1>3. ASSUME \A r \in Requests : Ok(tx'[r].phase, tx'[r].row, req'[r])
      PROVE  DeleteInv'
  BY <1>1, <1>3 DEF Exists
<1>4. CASE UNCHANGED <<tx, req>>
  BY <1>2, <1>3, <1>4
<1>5. CASE ~UNCHANGED <<tx, req>>
  <2>1. PICK r \in Requests :
            /\ \A q \in Requests \ {r} : req'[q] = req[q] /\ tx'[q] = tx[q]
            /\ \/ tx'[r] = tx[r] /\ ~At(r, "del_soft") /\ req'[r].pc # "del_soft"
               \/ tx'[r] = NoTx /\ req'[r].pc = "idle"
               \/ DeleteCredentialOwned(r)
               \/ DeleteCredentialStep(r)
    BY <1>5, DeleteSteps
  <2> SUFFICES Ok(tx'[r].phase, tx'[r].row, req'[r])
    BY <2>1, <1>2, <1>3
  <2>2. CASE tx'[r] = tx[r] /\ ~At(r, "del_soft") /\ req'[r].pc # "del_soft"
    BY <2>2, <1>2
  <2>3. CASE tx'[r] = NoTx /\ req'[r].pc = "idle"
    BY <2>3 DEF NoTx
  <2>4. CASE DeleteCredentialOwned(r)
    <3>1. /\ tx'[r].phase = "waiting" /\ tx'[r].row = req[r].row
          /\ req'[r].pc = "del_soft" /\ req'[r].row = req[r].row /\ req'[r].user = req[r].user
      BY <2>4, <1>t DEF DeleteCredentialOwned, SoftDeleteBegin, Goto, RequestState
    <3>2. /\ req[r].row \in Rows /\ Exists(req[r].row)
          /\ credentials[req[r].row].user = req[r].user
      BY <2>4 DEF DeleteCredentialOwned, LiveOf, Live, Exists
    <3> QED BY <3>1, <3>2, <1>k DEF Exists
  <2>5. CASE DeleteCredentialStep(r)
    <3>1. UNCHANGED req
      BY <2>5 DEF DeleteCredentialStep
    <3>2. SoftDeleteLock(r)
      BY <2>5, NothingToSpare
      DEF DeleteCredentialStep, SoftDeleteGoOn, SoftDeleteCount, SoftDeleteUpdate, AccountInv
    <3>3. tx[r].phase = "waiting" /\ tx'[r].phase = "locked" /\ tx'[r].row = tx[r].row
      BY <3>2, <1>t DEF SoftDeleteLock
    <3> QED BY <3>1, <3>3, <1>2
  <2> QED BY <2>1, <2>2, <2>3, <2>4, <2>5
<1> QED BY <1>4, <1>5

------------------------------------------------------------------------------
(* Names.                                                                    *)

\* Names reach the users table only as the client gave them to a begin handler.
LEMMA NameNext == TypeOK /\ NameInv /\ [Next]_vars => NameInv'
<1> SUFFICES ASSUME TypeOK, NameInv, [Next]_vars PROVE NameInv'
  OBVIOUS
<1>1. ASSUME NEW q \in Requests, req'[q].pc \in NamePcs
      PROVE  req'[q].name \in Names
  <2>1. CASE req'[q] = req[q]
    BY <1>1, <2>1 DEF NameInv
  <2>2. CASE req'[q] # req[q]
    <3>1. Moves(q)
      BY <2>2, SlotSteps
    <3>2. \/ req'[q].pc \in {"reg_save", "prom_get"} /\ req'[q].name \in Names
          \/ At(q, "prom_get") /\ req'[q].pc = "prom_save" /\ req'[q].name = req[q].name
      BY <1>1, <3>1
      DEF Moves, NamePcs, FreePcs, TakesAs, CompleteRegisterCreate, CompletePromotePromote,
          CompletePromoteInsert, CompleteLoginUpdate, DeleteCredentialOwned, Goto, TypeOK,
          RequestsTypeOK, RequestState
    <3> QED BY <3>2 DEF NameInv, NamePcs, At
  <2> QED BY <2>1, <2>2
<1>2. ASSUME NEW s \in SessionIDs, challenges'[s].payload.kind # "login"
      PROVE  challenges'[s].payload.username \in Names
  <2>t. challenges \in [SessionIDs -> ChallengeKey]
    BY DEF TypeOK, RedisTypeOK
  <2>1. CASE UNCHANGED challenges
    BY <1>2, <2>1 DEF NameInv
  <2>2. CASE \E x \in SessionIDs : Take(x)
    <3>1. challenges'[s].payload = challenges[s].payload
      BY <2>2, <2>t DEF Take, ChallengeKey
    <3> QED BY <1>2, <3>1 DEF NameInv
  <2>3. CASE \E x \in SessionIDs : ChallengeSave(x, NoPayload)
    <3>1. challenges'[s] = challenges[s] \/ challenges'[s].payload.kind = "login"
      BY <2>3, <2>t DEF ChallengeSave, NoPayload
    <3> QED BY <1>2, <3>1 DEF NameInv
  <2>4. CASE \E r \in Requests : BeginRegisterSave(r) \/ BeginPromoteSave(r)
    <3>1. PICK r \in Requests : BeginRegisterSave(r) \/ BeginPromoteSave(r)
      BY <2>4
    <3>2. req[r].name \in Names
      BY <3>1 DEF NameInv, NamePcs, BeginRegisterSave, BeginPromoteSave, At
    <3>3. PICK x \in SessionIDs :
              \E k, v :
                  ChallengeSave(x, [kind |-> k, username |-> req[r].name, promoteUser |-> v])
      BY <3>1 DEF BeginRegisterSave, BeginPromoteSave
    <3>4. challenges'[s] = challenges[s] \/ challenges'[s].payload.username = req[r].name
      BY <3>3, <2>t DEF ChallengeSave
    <3> QED BY <1>2, <3>2, <3>4 DEF NameInv
  <2> QED BY <2>1, <2>2, <2>3, <2>4, ChallengeSteps
<1>3. ASSUME NEW u \in Users, ~Registered(u)'
      PROVE  users'[u].username = Nil
  <2>1. \/ UNCHANGED users
        \/ \E v : CreateGuest(v) \/ \E n : CreateRegistered(v, n) \/ PromoteGuest(v, n)
    BY StoreSteps
    DEF GuestCreateUser, CompleteRegisterCreate, CompletePromotePromote,
        CompleteRegisterInsert, CompletePromoteInsert, CompleteLoginUpdate,
        CompleteLoginSession, CompletePromoteSession, IssueSession, postgres
  <2> QED BY <1>3, <2>1 DEF CreateGuest, CreateRegistered, PromoteGuest, Registered, NameInv,
                            TypeOK, UsersTypeOK
<1> QED BY <1>1, <1>2, <1>3 DEF NameInv

------------------------------------------------------------------------------
(* Ceremonies and accounts.                                                  *)

\* A row of credentials is the one a request inserted at the end of its ceremony.
LEMMA NewRow ==
  ASSUME TypeOK, DeleteInv, [Next]_vars, NEW c \in Rows, ~Exists(c), Exists(c)'
  PROVE  \E r \in Requests :
             /\ CompleteRegisterInsert(r) \/ CompletePromoteInsert(r)
             /\ Inserting(r)
             /\ credentials'[c].status = "live"
             /\ credentials'[c].user = req[r].user /\ credentials'[c].handle = req[r].sid
             /\ UNCHANGED <<users, challenges, sessions>>
<1>t. credentials \in [Rows -> CredentialRow]
  BY DEF TypeOK, CredentialsTypeOK
<1>1. ASSUME \E d, n : UpdateAfterAssertion(d, n) PROVE FALSE
  BY <1>1, <1>t DEF UpdateAfterAssertion, CredentialRow, Exists
<1>2. PICK r \in Requests : CompleteRegisterInsert(r) \/ CompletePromoteInsert(r)
  BY <1>1, StoreSteps
  DEF GuestCreateUser, CompleteRegisterCreate, CompletePromotePromote, CompleteLoginUpdate,
      CompleteLoginSession, CompletePromoteSession, IssueSession, postgres, DeleteInv,
      SoftDeleteCommit, Exists
<1>3. /\ InsertCredential(r) /\ Inserting(r)
      /\ UNCHANGED <<users, challenges, sessions>>
  BY <1>2 DEF CompleteRegisterInsert, CompletePromoteInsert, At, Inserting, InsertingPcs, redis
<1>4. PICK d \in Rows : Insert(d, req[r].user, req[r].key, req[r].sid, req[r].count)
  BY <1>3 DEF InsertCredential
<1>5. /\ credentials'[c].status = "live"
      /\ credentials'[c].user = req[r].user /\ credentials'[c].handle = req[r].sid
  BY <1>4, <1>t DEF Insert, Exists
<1> QED BY <1>2, <1>3, <1>5

\* A ceremony that a request holds or a credential came from is the one that
\* asked for the account.
LEMMA FlowNext ==
  TypeOK /\ CeremonyInv /\ GuestInv /\ AccountInv /\ DeleteInv /\ FlowInv /\ [Next]_vars
      => FlowInv'
<1> SUFFICES ASSUME TypeOK, CeremonyInv, GuestInv, AccountInv, DeleteInv, FlowInv, [Next]_vars
             PROVE  FlowInv'
  OBVIOUS
<1>k. Kept
  BY KeptByAll
<1>t. req \in [Requests -> RequestState] /\ challenges \in [SessionIDs -> ChallengeKey]
  BY DEF TypeOK, RequestsTypeOK, RedisTypeOK
<1>s. \A q \in Requests : Completing(q) =>
          req[q].sid \in SessionIDs /\ challenges'[req[q].sid] = challenges[req[q].sid]
  BY <1>k, NilAssumption DEF CeremonyInv, CeremonyIsOneShot, Kept
<1>u. \A q \in Requests : Inserting(q) => users'[req[q].user] = users[req[q].user]
  BY <1>k DEF AccountInv, Kept
<1>1. ASSUME NEW q \in Requests PROVE FlowOf(q)'
  <2>f. FlowOf(q)
    BY DEF FlowInv
  <2>1. CASE req'[q] = req[q]
    BY <2>1, <2>f, <1>s, <1>u
    DEF FlowOf, At, Completing, CompletingPcs, Inserting, InsertingPcs
  <2>2. CASE req'[q] # req[q]
    <3>1. Moves(q)
      BY <2>2, SlotSteps
    <3>2. CASE req'[q].pc \notin CompletingPcs
      BY <3>2 DEF FlowOf, At, CompletingPcs
    <3>3. CASE TakesAs(q, "register", "reg_create") \/ TakesAs(q, "promote", "prom_promote")
      BY <3>3, <1>t DEF TakesAs, FlowOf, At, Take, ChallengeKey
    <3>4. CASE CompleteRegisterCreate(q)
      <4>1. PICK v \in Users : /\ CreateRegistered(v, req[q].name)
                               /\ req' = [req EXCEPT ![q].pc = "reg_insert", ![q].user = v]
        BY <3>4 DEF CompleteRegisterCreate
      <4>2. /\ req'[q].pc = "reg_insert" /\ req'[q].user = v
            /\ req'[q].name = req[q].name /\ req'[q].sid = req[q].sid
        BY <4>1, <1>t DEF RequestState
      <4>3. users'[v] = [status |-> "registered", username |-> req[q].name]
        BY <4>1 DEF CreateRegistered, TypeOK, UsersTypeOK
      <4>4. At(q, "reg_create") /\ UNCHANGED challenges
        BY <3>4 DEF CompleteRegisterCreate, redis
      <4> QED BY <4>2, <4>3, <4>4, <2>f DEF FlowOf, At
    <3>5. CASE CompletePromotePromote(q)
      <4>1. /\ req'[q].pc = "prom_insert" /\ req'[q].user = req[q].user
            /\ req'[q].name = req[q].name /\ req'[q].sid = req[q].sid
        BY <3>5, <1>t DEF CompletePromotePromote, Goto, RequestState
      <4>2. /\ At(q, "prom_promote") /\ UNCHANGED challenges
            /\ PromoteGuest(req[q].user, req[q].name)
        BY <3>5 DEF CompletePromotePromote, redis
      <4>3. req[q].user \in Users
        BY <4>2 DEF At, GuestInv, GuestPcs
      <4>4. users'[req[q].user] = [status |-> "promoted", username |-> req[q].name]
        BY <4>2, <4>3 DEF PromoteGuest, TypeOK, UsersTypeOK
      <4> QED BY <4>1, <4>2, <4>4, <2>f DEF FlowOf, At
    <3> QED BY <3>1, <3>2, <3>3, <3>4, <3>5, <1>t
            DEF Moves, FreePcs, CompletingPcs, CompletePromoteInsert, CompleteLoginUpdate,
                DeleteCredentialOwned, Goto, RequestState
  <2> QED BY <2>1, <2>2
<1>2. ASSUME NEW c \in Rows, Exists(c)
      PROVE  /\ Exists(c)' /\ credentials'[c].user = credentials[c].user
             /\ credentials'[c].handle = credentials[c].handle
             /\ challenges'[credentials[c].handle] = challenges[credentials[c].handle]
             /\ users'[credentials[c].user] = users[credentials[c].user]
  BY <1>2, <1>k DEF Kept, Exists, CeremonyInv, AccountInv
<1>3. ASSUME NEW c \in Rows, ~Exists(c), Exists(c)'
      PROVE  \E r \in Requests :
                 /\ At(r, "reg_insert") \/ At(r, "prom_insert")
                 /\ credentials'[c].user = req[r].user /\ credentials'[c].handle = req[r].sid
                 /\ UNCHANGED <<users, challenges>>
  BY <1>3, NewRow DEF Inserting, InsertingPcs, At
<1>4. CeremonyMatchesAccount'
  <2> SUFFICES ASSUME NEW c \in Rows, Exists(c)'
               PROVE  LET u == credentials'[c].user
                          p == challenges'[credentials'[c].handle].payload
                      IN  /\ p.username = users'[u].username
                          /\ \/ users'[u].status = "registered" /\ p.kind = "register"
                             \/ /\ users'[u].status = "promoted" /\ p.kind = "promote"
                                /\ p.promoteUser = u
    BY DEF CeremonyMatchesAccount, Exists
  <2>1. CASE Exists(c)
    BY <2>1, <1>2 DEF FlowInv, CeremonyMatchesAccount, Exists
  <2>2. CASE ~Exists(c)
    <3>1. PICK r \in Requests :
              /\ At(r, "reg_insert") \/ At(r, "prom_insert")
              /\ credentials'[c].user = req[r].user /\ credentials'[c].handle = req[r].sid
              /\ UNCHANGED <<users, challenges>>
      BY <2>2, <1>3
    <3>2. FlowOf(r)
      BY DEF FlowInv
    <3>3. LET p == challenges[req[r].sid].payload
          IN  /\ p.username = users[req[r].user].username
              /\ \/ users[req[r].user].status = "registered" /\ p.kind = "register"
                 \/ /\ users[req[r].user].status = "promoted" /\ p.kind = "promote"
                    /\ p.promoteUser = req[r].user
      BY <3>1, <3>2 DEF FlowOf, At
    <3> QED BY <3>1, <3>3
  <2> QED BY <2>1, <2>2
<1> QED BY <1>1, <1>4 DEF FlowInv

------------------------------------------------------------------------------
(* Sessions.                                                                 *)

\* A log-in or promotion that is about to open a session does so for an account
\* that can be logged in to.
LEMMA SessionNext ==
  TypeOK /\ AccountInv /\ DeleteInv /\ SessionInv /\ [Next]_vars => SessionInv'
<1> SUFFICES ASSUME TypeOK, AccountInv, DeleteInv, SessionInv, [Next]_vars
             PROVE  SessionInv'
  OBVIOUS
<1>k. \A u : CanLogIn(u) => CanLogInAfter(u)
  BY KeptByAll, CanLogInKept
<1>t. req \in [Requests -> RequestState] /\ sessions \in [SessionTokens -> TokenKey]
  BY DEF TypeOK, RequestsTypeOK, RedisTypeOK
<1>1. ASSUME NEW q \in Requests, req'[q].pc \in SessionPcs
      PROVE  CanLogInAfter(req'[q].user)
  <2>1. CASE req'[q] = req[q]
    BY <1>1, <2>1, <1>k DEF SessionInv
  <2>2. CASE req'[q] # req[q]
    <3>1. Moves(q)
      BY <2>2, SlotSteps
    <3>2. CASE CompletePromoteInsert(q)
      <4>1. req'[q].user = req[q].user
        BY <3>2, <1>t DEF CompletePromoteInsert, Goto, RequestState
      <4>2. req[q].user \in Users /\ Registered(req[q].user) /\ UNCHANGED users
        BY <3>2 DEF CompletePromoteInsert, At, AccountInv, Inserting, InsertingPcs
      <4>3. PICK c \in Rows : Insert(c, req[q].user, req[q].key, req[q].sid, req[q].count)
        BY <3>2 DEF CompletePromoteInsert, InsertCredential
      <4>4. credentials'[c].status = "live" /\ credentials'[c].user = req[q].user
        BY <4>3 DEF Insert, TypeOK, CredentialsTypeOK
      <4> QED BY <4>1, <4>2, <4>4 DEF CanLogInAfter, Registered
    <3>3. CASE CompleteLoginUpdate(q)
      <4>1. req'[q].user = req[q].user /\ At(q, "login_update")
        BY <3>3, <1>t DEF CompleteLoginUpdate, Goto, RequestState
      <4> QED BY <4>1, <1>k DEF SessionInv, SessionPcs, At
    <3>4. CASE \E c \in Rows : Live(c) /\ req'[q].user = credentials[c].user
      <4>1. PICK c \in Rows : Live(c) /\ req'[q].user = credentials[c].user
        BY <3>4
      <4>2. CanLogIn(credentials[c].user)
        BY <4>1 DEF CanLogIn, AccountInv, Exists, Live, LiveOf
      <4> QED BY <4>1, <4>2, <1>k
    <3> QED BY <1>1, <3>1, <3>2, <3>3, <3>4, <1>t
            DEF Moves, SessionPcs, FreePcs, TakesAs, CompleteRegisterCreate,
                CompletePromotePromote, DeleteCredentialOwned, Goto, RequestState
  <2> QED BY <2>1, <2>2
<1>2. ASSUME NEW t \in SessionTokens
      PROVE  IF sessions'[t].status = "unissued" THEN sessions'[t].user = Nil
                                                 ELSE CanLogInAfter(sessions'[t].user)
  <2>1. CASE sessions'[t] = sessions[t]
    BY <2>1, <1>k DEF SessionInv
  <2>2. CASE \E x \in SessionTokens : SessionDelete(x)
    <3>1. \/ sessions'[t] = sessions[t]
          \/ /\ sessions[t].status # "unissued" /\ sessions'[t].status = "gone"
             /\ sessions'[t].user = sessions[t].user
      BY <2>2, <1>t DEF SessionDelete, TokenKey
    <3> QED BY <3>1, <2>1, <1>k DEF SessionInv
  <2>3. CASE \E r \in Requests : CompleteLoginSession(r) \/ CompletePromoteSession(r)
    <3>1. PICK r \in Requests : CompleteLoginSession(r) \/ CompletePromoteSession(r)
      BY <2>3
    <3>2. CanLogIn(req[r].user)
      BY <3>1 DEF CompleteLoginSession, CompletePromoteSession, At, SessionInv, SessionPcs
    <3>3. PICK x \in SessionTokens : SessionCreate(x, req[r].user)
      BY <3>1 DEF CompleteLoginSession, CompletePromoteSession, IssueSession
    <3>4. \/ sessions'[t] = sessions[t]
          \/ sessions'[t].status = "stored" /\ sessions'[t].user = req[r].user
      BY <3>3, <1>t DEF SessionCreate
    <3> QED BY <3>2, <3>4, <2>1, <1>k
  <2> QED BY <2>1, <2>2, <2>3, StoreSteps
          DEF GuestCreateUser, CompleteRegisterCreate, CompletePromotePromote,
              CompleteRegisterInsert, CompletePromoteInsert, CompleteLoginUpdate, redis
<1>3. /\ \A q \in Requests : CanLogInAfter(req'[q].user) => CanLogIn(req[q].user)'
      /\ \A t \in SessionTokens : CanLogInAfter(sessions'[t].user) => CanLogIn(sessions[t].user)'
  BY DEF CanLogInAfter, CanLogIn, Registered, LiveOf, Live
<1> QED BY <1>1, <1>2, <1>3 DEF SessionInv

------------------------------------------------------------------------------
(* The invariants hold.                                                      *)

\* The empty server satisfies them.
LEMMA InitAccounts == Init => NameInv /\ FlowInv /\ DeleteInv /\ SessionInv
<1> SUFFICES ASSUME Init PROVE NameInv /\ FlowInv /\ DeleteInv /\ SessionInv
  OBVIOUS
<1>1. \A r \in Requests : tx[r].phase = "none" /\ req[r].pc = "idle"
  BY DEF Init, CredentialsInit, NoTx, RequestsInit, Idle
<1>2. \A c \in Rows : credentials[c].status = "absent"
  BY DEF Init, CredentialsInit, NoCredentialRow
<1>3. \A u \in Users : users[u].username = Nil
  BY DEF Init, UsersInit, NoUserRow
<1>4. /\ \A t \in SessionTokens : sessions[t].status = "unissued" /\ sessions[t].user = Nil
      /\ \A s \in SessionIDs : challenges[s].payload.kind = "login"
  BY DEF Init, RedisInit, NoPayload
<1>5. NameInv
  BY <1>1, <1>3, <1>4 DEF NameInv, NamePcs
<1>6. FlowInv
  BY <1>1, <1>2 DEF FlowInv, FlowOf, At, CeremonyMatchesAccount
<1>7. DeleteInv
  BY <1>1, <1>2 DEF DeleteInv, DeleteTouchesOwnCredential, At
<1>8. SessionInv
  BY <1>1, <1>4 DEF SessionInv, SessionPcs
<1> QED BY <1>5, <1>6, <1>7, <1>8

\* The inductive invariant holds in every behaviour: what a request relies on
\* between two of its store calls is never disturbed by another.
THEOREM InvariantHolds == Spec => []IInv
<1>1. Spec => []DeleteInv
  BY InitAccounts, DeleteNext, TypeCorrect, LockCorrect, AccountCorrect, PTL DEF Spec
<1>2. Spec => []NameInv
  BY InitAccounts, NameNext, TypeCorrect, PTL DEF Spec
<1>3. Spec => []FlowInv
  BY <1>1, InitAccounts, FlowNext, TypeCorrect, CeremonyCorrect, GuestCorrect, AccountCorrect,
     PTL DEF Spec
<1>4. Spec => []SessionInv
  BY <1>1, InitAccounts, SessionNext, TypeCorrect, AccountCorrect, PTL DEF Spec
<1>5. /\ LockInv /\ CeremonyInv /\ GuestInv /\ AccountInv
      /\ NameInv /\ FlowInv /\ DeleteInv /\ SessionInv
      => IInv
  BY DEF IInv
<1> QED BY <1>1, <1>2, <1>3, <1>4, <1>5, LockCorrect, CeremonyCorrect, GuestCorrect,
           AccountCorrect, PTL

\* Every credential came out of the ceremony that asked for its account, however
\* begin and complete handlers are mixed.
THEOREM FlowsNeverCross == Spec => []CeremonyMatchesAccount
<1>1. IInv => CeremonyMatchesAccount
  BY DEF IInv, FlowInv
<1> QED BY <1>1, InvariantHolds, PTL

\* A DELETE only ever works on the caller's own credential, and no transaction
\* outlives its request.
THEOREM DeletesStayWithTheirOwner == Spec => []DeleteTouchesOwnCredential
<1>1. IInv => DeleteTouchesOwnCredential
  BY DEF IInv, DeleteInv
<1> QED BY <1>1, InvariantHolds, PTL

\* Nobody holds a session of an account that cannot be logged in to again.
THEOREM SessionHoldersCanLogIn == Spec => []SessionHolderCanLogIn
<1>1. IInv => SessionHolderCanLogIn
  BY DEF IInv, SessionInv, SessionHolderCanLogIn, CanLogIn
<1> QED BY <1>1, InvariantHolds, PTL

------------------------------------------------------------------------------
(* The service implements AccountLifecycle.                                  *)

\* What AccountOf says, case by case.
LEMMA AccountCases ==
  ASSUME TypeOK, NEW u \in Users
  PROVE  /\ users[u].status = "absent" => AccountOf(u) = "none"
         /\ IsGuest(u) => AccountOf(u) = "guest"
         /\ Registered(u) /\ LiveOf(u) = {} => AccountOf(u) = "claimed"
         /\ Registered(u) /\ LiveOf(u) # {} => AccountOf(u) = "active"
  BY DEF TypeOK, UsersTypeOK, UserRow, AccountOf, IsGuest, Registered

\* The same in the state after a step.
LEMMA AccountCasesAfter ==
  ASSUME TypeOK', NEW u \in Users
  PROVE  /\ users'[u].status = "guest" => AccountOf(u)' = "guest"
         /\ Registered(u)' /\ LiveOf(u)' = {} => AccountOf(u)' = "claimed"
         /\ Registered(u)' /\ LiveOf(u)' # {} => AccountOf(u)' = "active"
  BY DEF TypeOK, UsersTypeOK, UserRow, AccountOf, IsGuest, Registered

\* An account whose row and live credentials stay is in the same stage.
LEMMA SameStage ==
  ASSUME NEW u \in Users, users'[u] = users[u],
         \A c \in Rows : credentials'[c].status = "live" /\ credentials'[c].user = u
                            <=> Live(c) /\ credentials[c].user = u
  PROVE  AccountOf(u)' = AccountOf(u)
<1>1. LiveOf(u)' = LiveOf(u)
  BY DEF LiveOf, Live
<1>2. (users[u].status)' = users[u].status
  OBVIOUS
<1> QED BY <1>1, <1>2 DEF AccountOf, IsGuest, Registered

\* An account without a username has no credential.
LEMMA NoCredentialYet ==
  ASSUME AccountInv, NEW u \in Users, ~Registered(u)
  PROVE  LiveOf(u) = {}
  BY DEF AccountInv, LiveOf, Live, Exists

\* The first state of the service is the first state of the life cycle.
LEMMA LifecycleInitRefined == Init => Lifecycle!LifecycleInit
<1> SUFFICES ASSUME Init PROVE Lifecycle!LifecycleInit
  OBVIOUS
<1>1. accountBar = [u \in Users |-> "none"]
  BY InitType, AccountCases DEF accountBar, Init, UsersInit, NoUserRow
<1>2. usernameBar = [u \in Users |-> Nil]
  BY DEF usernameBar, Init, UsersInit, NoUserRow
<1>3. holderBar = [t \in SessionTokens |-> [user |-> Nil, open |-> FALSE]]
  BY DEF holderBar, Init, RedisInit
<1> QED BY <1>1, <1>2, <1>3 DEF Lifecycle!LifecycleInit, Lifecycle!NewToken

\* A new guest.
LEMMA BecomeGuestRefined ==
  ASSUME TypeOK, TypeOK', IInv, NEW r \in Requests, GuestCreateUser(r)
  PROVE  \E u \in Users : Lifecycle!BecomeGuest(u)
<1>1. PICK u \in Users : CreateGuest(u)
  BY DEF GuestCreateUser
<1>2. UNCHANGED <<credentials, sessions>>
  BY DEF GuestCreateUser, redis
<1>3. /\ users[u].status = "absent" /\ users'[u].status = "guest" /\ users'[u].username = Nil
      /\ \A v \in Users \ {u} : users'[v] = users[v]
  BY <1>1 DEF CreateGuest, TypeOK, UsersTypeOK
<1>4. AccountOf(u) = "none" /\ AccountOf(u)' = "guest"
  BY <1>3, AccountCases, AccountCasesAfter
<1>5. \A v \in Users \ {u} : AccountOf(v)' = AccountOf(v)
  BY <1>2, <1>3, SameStage DEF Live
<1>6. accountBar[u] = "none" /\ accountBar' = [accountBar EXCEPT ![u] = "guest"]
  BY <1>4, <1>5 DEF accountBar
<1>7. users[u].username = Nil
  BY <1>3 DEF IInv, NameInv, Registered
<1>8. UNCHANGED <<usernameBar, holderBar>>
  BY <1>2, <1>3, <1>7 DEF usernameBar, holderBar
<1> QED BY <1>6, <1>8 DEF Lifecycle!BecomeGuest

\* A registration or a promotion claims its name.
LEMMA ClaimRefined ==
  ASSUME TypeOK, TypeOK', IInv, NEW r \in Requests,
         CompleteRegisterCreate(r) \/ CompletePromotePromote(r)
  PROVE  \E u \in Users, n \in Names : Lifecycle!Claim(u, n)
<1> DEFINE n == req[r].name
<1>1. n \in Names
  <2>1. Completing(r) /\ (At(r, "reg_create") \/ At(r, "prom_promote"))
    BY DEF CompleteRegisterCreate, CompletePromotePromote, At, Completing, CompletingPcs
  <2>2. /\ req[r].sid \in SessionIDs
        /\ challenges[req[r].sid].payload.kind # "login"
        /\ challenges[req[r].sid].payload.username = n
    BY <2>1 DEF IInv, CeremonyInv, FlowInv, FlowOf, At
  <2> QED BY <2>2 DEF IInv, NameInv
<1>2. PICK u \in Users : CreateRegistered(u, n) \/ PromoteGuest(u, n)
  BY DEF CompleteRegisterCreate, CompletePromotePromote, IInv, GuestInv, GuestPcs, At
<1>3. UNCHANGED <<credentials, sessions>>
  BY DEF CompleteRegisterCreate, CompletePromotePromote, redis
<1>4. /\ users[u].status = "absent" \/ IsGuest(u)
      /\ \A v \in Users : Registered(v) => users[v].username # n
      /\ users'[u].status \in {"registered", "promoted"} /\ users'[u].username = n
      /\ \A v \in Users \ {u} : users'[v] = users[v]
  BY <1>2 DEF CreateRegistered, PromoteGuest, UsernameTaken, TypeOK, UsersTypeOK
<1>5. LiveOf(u)' = {}
  <2>1. LiveOf(u) = {}
    BY <1>4, NoCredentialYet DEF IInv, IsGuest, Registered
  <2> QED BY <2>1, <1>3 DEF LiveOf, Live
<1>6. AccountOf(u) \in {"none", "guest"} /\ AccountOf(u)' = "claimed"
  BY <1>4, <1>5, AccountCases, AccountCasesAfter DEF Registered
<1>7. \A v \in Users \ {u} : AccountOf(v)' = AccountOf(v)
  BY <1>3, <1>4, SameStage DEF Live
<1>8. accountBar[u] \in {"none", "guest"} /\ accountBar' = [accountBar EXCEPT ![u] = "claimed"]
  BY <1>6, <1>7 DEF accountBar
<1>9. \A v \in Users : usernameBar[v] # n
  BY <1>1, <1>4, NilAssumption DEF usernameBar, IInv, NameInv
<1>10. usernameBar' = [usernameBar EXCEPT ![u] = n] /\ UNCHANGED holderBar
  BY <1>3, <1>4 DEF usernameBar, holderBar
<1> QED BY <1>1, <1>8, <1>9, <1>10 DEF Lifecycle!Claim

\* A credential inserted for an account activates it.
LEMMA ActivateRefined ==
  ASSUME TypeOK, TypeOK', IInv, NEW r \in Requests,
         CompleteRegisterInsert(r) \/ CompletePromoteInsert(r)
  PROVE  \E u \in Users : Lifecycle!Activate(u)
<1>1. InsertCredential(r) /\ Inserting(r) /\ UNCHANGED <<users, sessions>>
  BY DEF CompleteRegisterInsert, CompletePromoteInsert, At, Inserting, InsertingPcs, redis
<1>2. PICK u \in Users : /\ u = req[r].user /\ Registered(u)
                         /\ \A d \in Rows : Exists(d) => credentials[d].user # u
  BY <1>1 DEF IInv, AccountInv
<1>3. PICK c \in Rows : Insert(c, u, req[r].key, req[r].sid, req[r].count)
  BY <1>1, <1>2 DEF InsertCredential
<1>4. /\ ~Exists(c) /\ credentials'[c].status = "live" /\ credentials'[c].user = u
      /\ \A d \in Rows \ {c} : credentials'[d] = credentials[d]
  BY <1>3 DEF Insert, Exists, TypeOK, CredentialsTypeOK
<1>5. LiveOf(u) = {} /\ LiveOf(u)' # {}
  BY <1>2, <1>4 DEF LiveOf, Live, Exists
<1>6. AccountOf(u) = "claimed" /\ AccountOf(u)' = "active"
  BY <1>1, <1>2, <1>5, AccountCases, AccountCasesAfter DEF Registered
<1>7. ASSUME NEW v \in Users \ {u} PROVE AccountOf(v)' = AccountOf(v)
  <2>1. \A d \in Rows : credentials'[d].status = "live" /\ credentials'[d].user = v
                            <=> Live(d) /\ credentials[d].user = v
    BY <1>4 DEF Live, Exists
  <2> QED BY <2>1, <1>1, SameStage
<1>8. accountBar[u] = "claimed" /\ accountBar' = [accountBar EXCEPT ![u] = "active"]
  BY <1>2, <1>6, <1>7 DEF accountBar
<1>9. UNCHANGED <<usernameBar, holderBar>>
  BY <1>1 DEF usernameBar, holderBar
<1> QED BY <1>2, <1>8, <1>9 DEF Lifecycle!Activate

\* Opening a session logs in to an active account.
LEMMA LogInRefined ==
  ASSUME TypeOK, TypeOK', IInv, NEW r \in Requests,
         CompleteLoginSession(r) \/ CompletePromoteSession(r)
  PROVE  \E t \in SessionTokens, u \in Users : Lifecycle!LogIn(t, u)
<1> DEFINE u == req[r].user
<1>1. PICK t \in SessionTokens : SessionCreate(t, u)
  BY DEF CompleteLoginSession, CompletePromoteSession, IssueSession
<1>2. UNCHANGED <<users, credentials>>
  BY DEF CompleteLoginSession, CompletePromoteSession, IssueSession, postgres
<1>3. CanLogIn(u)
  BY DEF CompleteLoginSession, CompletePromoteSession, At, IInv, SessionInv, SessionPcs
<1>4. u \in Users /\ AccountOf(u) = "active"
  BY <1>3, AccountCases DEF CanLogIn
<1>5. /\ sessions[t].status = "unissued" /\ sessions[t].user = Nil
      /\ sessions'[t].status = "stored" /\ sessions'[t].user = u
      /\ \A x \in SessionTokens \ {t} : sessions'[x] = sessions[x]
  BY <1>1 DEF SessionCreate, IInv, SessionInv, TypeOK, RedisTypeOK
<1>6. \A v \in Users : AccountOf(v)' = AccountOf(v)
  BY <1>2, SameStage DEF Live
<1>7. UNCHANGED <<accountBar, usernameBar>>
  BY <1>2, <1>6 DEF accountBar, usernameBar
<1>8. holderBar[t] = [user |-> Nil, open |-> FALSE]
  BY <1>5 DEF holderBar
<1>9. holderBar' = [holderBar EXCEPT ![t] = [user |-> u, open |-> TRUE]]
  BY <1>5 DEF holderBar
<1>10. accountBar[u] = "active"
  BY <1>4 DEF accountBar
<1> QED BY <1>4, <1>7, <1>8, <1>9, <1>10 DEF Lifecycle!LogIn, Lifecycle!NewToken

\* Ending a session logs out, or does nothing if it had ended.
LEMMA LogOutRefined ==
  ASSUME TypeOK, NEW t \in SessionTokens, SessionDelete(t), UNCHANGED <<users, credentials>>
  PROVE  Lifecycle!LogOut(t) \/ UNCHANGED <<accountBar, usernameBar, holderBar>>
<1>1. /\ sessions'[t].status = "gone" /\ sessions'[t].user = sessions[t].user
      /\ \A x \in SessionTokens \ {t} : sessions'[x] = sessions[x]
  BY DEF SessionDelete, TypeOK, RedisTypeOK, TokenKey
<1>2. \A v \in Users : AccountOf(v)' = AccountOf(v)
  BY SameStage DEF Live
<1>3. UNCHANGED <<accountBar, usernameBar>>
  BY <1>2 DEF accountBar, usernameBar
<1>4. CASE sessions[t].status = "stored"
  <2>1. holderBar[t].open
    BY <1>4 DEF holderBar
  <2>2. holderBar' = [holderBar EXCEPT ![t].open = FALSE]
    BY <1>1 DEF holderBar
  <2> QED BY <1>3, <2>1, <2>2 DEF Lifecycle!LogOut
<1>5. CASE sessions[t].status # "stored"
  <2>1. UNCHANGED holderBar
    BY <1>1, <1>5 DEF holderBar
  <2> QED BY <1>3, <2>1
<1> QED BY <1>4, <1>5

\* Every step of the service is a step of the life cycle or changes nothing there.
LEMMA LifecycleStep ==
  ASSUME TypeOK, TypeOK', IInv, [Next]_vars
  PROVE  [Lifecycle!LifecycleNext]_<<accountBar, usernameBar, holderBar>>
<1> USE DEF Lifecycle!LifecycleNext
<1>1. CASE UNCHANGED <<users, credentials, sessions>>
  <2>1. \A v \in Users : AccountOf(v)' = AccountOf(v)
    BY <1>1, SameStage DEF Live
  <2> QED BY <1>1, <2>1 DEF accountBar, usernameBar, holderBar
<1>2. CASE \E r \in Requests : CompleteLoginUpdate(r)
  <2>1. UNCHANGED <<users, sessions>> /\ \E c, n : UpdateAfterAssertion(c, n)
    BY <1>2 DEF CompleteLoginUpdate, redis
  <2>2. \A c \in Rows : /\ credentials'[c].status = credentials[c].status
                        /\ credentials'[c].user = credentials[c].user
    BY <2>1 DEF UpdateAfterAssertion, TypeOK, CredentialsTypeOK, CredentialRow
  <2>3. \A v \in Users : AccountOf(v)' = AccountOf(v)
    BY <2>1, <2>2, SameStage DEF Live
  <2> QED BY <2>1, <2>3 DEF accountBar, usernameBar, holderBar
<1>3. CASE \E t \in SessionTokens : SessionDelete(t) /\ UNCHANGED <<users, credentials>>
  BY <1>3, LogOutRefined
<1>4. CASE \E r \in Requests : SoftDeleteCommit(r)
  BY <1>4 DEF SoftDeleteCommit, IInv, DeleteInv
<1> QED BY <1>1, <1>2, <1>3, <1>4, StoreSteps, BecomeGuestRefined, ClaimRefined,
           ActivateRefined, LogInRefined

\* The service implements AccountLifecycle: accounts move forward through their
\* life cycle whatever requests run at once, fail half-way or repeat.
THEOREM ServiceImplementsLifecycle == Spec => ImplementsLifecycle
<1>1. TypeOK /\ TypeOK' /\ IInv /\ [Next]_vars
          => [Lifecycle!LifecycleNext]_<<accountBar, usernameBar, holderBar>>
  BY LifecycleStep
<1> QED BY <1>1, LifecycleInitRefined, TypeCorrect, InvariantHolds, PTL
        DEF Spec, ImplementsLifecycle, Lifecycle!LifecycleSpec
=============================================================================
