---------------------------- MODULE PasskeyProofs ----------------------------
(***************************************************************************)
(* Safety of the service, for any number of users, rows, ceremonies,       *)
(* tokens and requests. First the types: one lemma per store says that its *)
(* operations keep its table or keyspace well-typed, one per group of      *)
(* handler steps puts them together. Then the invariants, to which few     *)
(* kinds of step matter: a request takes a ceremony, makes or promotes its *)
(* account, or inserts its credential. QuietOrNot shows that every other   *)
(* step is Quiet; each invariant has one Quiet case.                       *)
(***************************************************************************)
EXTENDS PasskeyInvariants, TLAPS

------------------------------------------------------------------------------
(* Requests.                                                                 *)

\* A free slot is a request state.
LEMMA IdleType == Idle \in RequestState
  BY SignCountAssumption DEF RequestState, Idle, Pcs, Opt, SignCounts

\* The program points, listed so that proofs need not unfold Pcs.
LEMMA PcType ==
  {"idle", "reg_save", "reg_create", "reg_insert", "login_resolve", "login_update",
   "login_session", "guest_get", "guest_create", "guest_token", "prom_get", "prom_save",
   "prom_promote", "prom_insert", "prom_session", "drop_guest", "del_list", "del_soft"}
  \subseteq Pcs
  BY DEF Pcs

\* Replacing one slot by a request state, moving it or answering it.
LEMMA SlotType ==
  ASSUME RequestsTypeOK, NEW r \in Requests
  PROVE  /\ \A x \in RequestState : req' = [req EXCEPT ![r] = x] => RequestsTypeOK'
         /\ \A pc \in Pcs : Goto(r, pc) => RequestsTypeOK'
         /\ Respond(r) => RequestsTypeOK'
         /\ UNCHANGED req => RequestsTypeOK'
<1>1. \A x \in RequestState : req' = [req EXCEPT ![r] = x] => RequestsTypeOK'
  BY DEF RequestsTypeOK
<1>2. \A pc \in Pcs : Goto(r, pc) => RequestsTypeOK'
  BY DEF RequestsTypeOK, RequestState, Goto
<1>3. Respond(r) => RequestsTypeOK'
  BY <1>1, IdleType DEF Respond
<1> QED BY <1>1, <1>2, <1>3 DEF RequestsTypeOK

------------------------------------------------------------------------------
(* Stores.                                                                   *)

\* The user store's three writes keep users well-typed.
LEMMA UsersType ==
  ASSUME UsersTypeOK, NEW u \in Opt(Users), NEW n \in Opt(Names),
         CreateGuest(u) \/ CreateRegistered(u, n) \/ PromoteGuest(u, n)
  PROVE  UsersTypeOK'
  BY DEF UsersTypeOK, UserRow, CreateGuest, CreateRegistered, PromoteGuest, Opt

\* Insert keeps the credential store well-typed.
LEMMA InsertType ==
  ASSUME CredentialsTypeOK, UNCHANGED tx, NEW c \in Rows, NEW u \in Opt(Users),
         NEW k \in Opt(CredentialIDs), NEW h \in Opt(SessionIDs), NEW n \in SignCounts,
         Insert(c, u, k, h, n)
  PROVE  CredentialsTypeOK'
  BY DEF CredentialsTypeOK, CredentialRow, Insert, Opt

\* So does UpdateAfterAssertion.
LEMMA UpdateType ==
  ASSUME CredentialsTypeOK, UNCHANGED tx, NEW c, NEW n \in SignCounts,
         UpdateAfterAssertion(c, n)
  PROVE  CredentialsTypeOK'
  BY DEF CredentialsTypeOK, CredentialRow, UpdateAfterAssertion

\* So does every statement of SoftDelete.
LEMMA SoftDeleteType ==
  ASSUME CredentialsTypeOK, NEW t \in Requests, NEW c \in Opt(Rows),
         \/ SoftDeleteBegin(t, c)
         \/ SoftDeleteGoOn(t)
         \/ SoftDeleteEnd(t)
         \/ tx' = [tx EXCEPT ![t] = NoTx] /\ UNCHANGED credentials
  PROVE  CredentialsTypeOK'
<1> DEFINE Phases == {"none", "waiting", "locked", "counted", "updated"}
           Tx == [phase : Phases, row : Opt(Rows)]
<1>1. tx \in [Requests -> Tx] /\ credentials \in [Rows -> CredentialRow]
  BY DEF CredentialsTypeOK
<1>2. NoTx \in Tx
  BY DEF NoTx, Opt
<1>3. CASE SoftDeleteBegin(t, c)
  BY <1>1, <1>3 DEF CredentialsTypeOK, SoftDeleteBegin
<1>4. CASE SoftDeleteGoOn(t)
  BY <1>1, <1>4 DEF CredentialsTypeOK, SoftDeleteGoOn, SoftDeleteLock, SoftDeleteCount,
                    SoftDeleteUpdate
<1>5. CASE SoftDeleteNotFound(t) \/ SoftDeleteLast(t)
           \/ (tx' = [tx EXCEPT ![t] = NoTx] /\ UNCHANGED credentials)
  BY <1>1, <1>2, <1>5 DEF CredentialsTypeOK, SoftDeleteNotFound, SoftDeleteLast
<1>6. CASE SoftDeleteCommit(t)
  BY <1>1, <1>2, <1>6 DEF CredentialsTypeOK, SoftDeleteCommit, CredentialRow
<1> QED BY <1>3, <1>4, <1>5, <1>6 DEF SoftDeleteEnd

\* Every Redis command keeps its keyspace well-typed; a challenge that was
\* taken held a payload.
LEMMA RedisType ==
  ASSUME RedisTypeOK
  PROVE  /\ \A s \in SessionIDs : challenges[s].payload \in Payload
         /\ \A s \in SessionIDs : Take(s) /\ UNCHANGED <<sessions, guests>> => RedisTypeOK'
         /\ \A s \in SessionIDs, p \in Payload :
                ChallengeSave(s, p) /\ UNCHANGED <<sessions, guests>> => RedisTypeOK'
         /\ \A t \in SessionTokens, u \in Opt(Users) :
                SessionCreate(t, u) /\ UNCHANGED <<challenges, guests>> => RedisTypeOK'
         /\ \A t \in SessionTokens :
                SessionDelete(t) /\ UNCHANGED <<challenges, guests>> => RedisTypeOK'
         /\ \A g \in GuestTokens, u \in Opt(Users) :
                GuestCreate(g, u) /\ UNCHANGED <<challenges, sessions>> => RedisTypeOK'
         /\ \A g \in Opt(GuestTokens) :
                GuestDelete(g) /\ UNCHANGED <<challenges, sessions>> => RedisTypeOK'
<1> USE DEF RedisTypeOK
<1>1. \A s \in SessionIDs : challenges[s].payload \in Payload
  BY DEF ChallengeKey
<1>2. \A s \in SessionIDs : Take(s) /\ UNCHANGED <<sessions, guests>> => RedisTypeOK'
  BY DEF Take, ChallengeKey
<1>3. \A s \in SessionIDs, p \in Payload :
          ChallengeSave(s, p) /\ UNCHANGED <<sessions, guests>> => RedisTypeOK'
  BY DEF ChallengeSave, ChallengeKey
<1>4. \A t \in SessionTokens, u \in Opt(Users) :
          SessionCreate(t, u) /\ UNCHANGED <<challenges, guests>> => RedisTypeOK'
  BY DEF SessionCreate, TokenKey
<1>5. \A t \in SessionTokens :
          SessionDelete(t) /\ UNCHANGED <<challenges, guests>> => RedisTypeOK'
  BY DEF SessionDelete, TokenKey
<1>6. \A g \in GuestTokens, u \in Opt(Users) :
          GuestCreate(g, u) /\ UNCHANGED <<challenges, sessions>> => RedisTypeOK'
  BY DEF GuestCreate, TokenKey
<1>7. \A g \in Opt(GuestTokens) :
          GuestDelete(g) /\ UNCHANGED <<challenges, sessions>> => RedisTypeOK'
  BY DEF GuestDelete, TokenKey
<1> QED BY <1>1, <1>2, <1>3, <1>4, <1>5, <1>6, <1>7

\* What an unchanged store leaves as it was.
LEMMA FrameType ==
  ASSUME TypeOK
  PROVE  /\ UNCHANGED users => UsersTypeOK'
         /\ UNCHANGED <<credentials, tx>> => CredentialsTypeOK'
         /\ UNCHANGED <<challenges, sessions, guests>> => RedisTypeOK'
  BY DEF TypeOK, UsersTypeOK, CredentialsTypeOK, RedisTypeOK

\* The fields of a request in flight.
LEMMA FieldType ==
  ASSUME RequestsTypeOK, NEW r \in Requests
  PROVE  /\ req[r] \in RequestState
         /\ req[r].name \in Opt(Names) /\ req[r].sid \in Opt(SessionIDs)
         /\ req[r].key \in Opt(CredentialIDs) /\ req[r].count \in SignCounts
         /\ req[r].user \in Opt(Users) /\ req[r].row \in Opt(Rows)
         /\ req[r].guest \in Opt(GuestTokens)
  BY DEF RequestsTypeOK, RequestState

------------------------------------------------------------------------------
(* Handler steps.                                                            *)

\* A request that arrives.
LEMMA ArriveType ==
  ASSUME TypeOK, NEW r \in Requests, Arrive(r)
  PROVE  TypeOK'
<1> USE PcType, IdleType, FrameType DEF TypeOK, Opt, postgres, redis
<1>s. \A x \in RequestState : req' = [req EXCEPT ![r] = x] => RequestsTypeOK'
  BY SlotType
<1>u. UNCHANGED req => RequestsTypeOK'
  BY SlotType
<1>t. ASSUME NEW s \in SessionIDs, Take(s), UNCHANGED <<sessions, guests>>
      PROVE  RedisTypeOK'
  BY <1>t, RedisType
<1>p. \A s \in SessionIDs : challenges[s].payload \in Payload
  BY RedisType
<1>1. CASE \E n \in Names : BeginRegister(r, n)
  <2>1. PICK n \in Names : BeginRegister(r, n)
    BY <1>1
  <2>2. [Idle EXCEPT !.pc = "reg_save", !.name = n] \in RequestState
    BY DEF RequestState
  <2> QED BY <2>1, <2>2, <1>s DEF BeginRegister
<1>2. CASE \E s \in SessionIDs, k \in CredentialIDs, n \in SignCounts :
              CompleteRegister(r, s, k, n)
  <2>1. PICK s \in SessionIDs, k \in CredentialIDs, n \in SignCounts :
              CompleteRegister(r, s, k, n)
    BY <1>2
  <2>2. [Idle EXCEPT !.pc = "reg_create", !.sid = s, !.key = k, !.count = n,
                     !.name = challenges[s].payload.username] \in RequestState
    BY <1>p DEF RequestState, Payload
  <2>3. RequestsTypeOK'
    BY <2>1, <2>2, <1>s, <1>u DEF CompleteRegister
  <2> QED BY <2>1, <2>3, <1>t DEF CompleteRegister
<1>3. CASE \E s \in SessionIDs, k \in CredentialIDs, n \in SignCounts, g \in Opt(IssuedGuests) :
              CompleteLogin(r, s, k, n, g)
  <2>1. PICK s \in SessionIDs, k \in CredentialIDs, n \in SignCounts, g \in Opt(IssuedGuests) :
              CompleteLogin(r, s, k, n, g)
    BY <1>3
  <2>2. [Idle EXCEPT !.pc = "login_resolve", !.sid = s, !.key = k, !.count = n,
                     !.guest = g] \in RequestState
    BY DEF RequestState, IssuedGuests
  <2>3. RequestsTypeOK'
    BY <2>1, <2>2, <1>s, <1>u DEF CompleteLogin
  <2> QED BY <2>1, <2>3, <1>t DEF CompleteLogin
<1>4. CASE \E g \in Opt(IssuedGuests) : Guest(r, g)
  <2>1. PICK g \in Opt(IssuedGuests) : Guest(r, g)
    BY <1>4
  <2>2. /\ [Idle EXCEPT !.pc = "guest_create"] \in RequestState
        /\ g # Nil => [Idle EXCEPT !.pc = "guest_get", !.user = guests[g].user] \in RequestState
    BY DEF RequestState, IssuedGuests, RedisTypeOK, TokenKey
  <2> QED BY <2>1, <2>2, <1>s DEF Guest
<1>5. CASE \E g \in IssuedGuests, n \in Names : BeginPromote(r, g, n)
  <2>1. PICK g \in IssuedGuests, n \in Names : BeginPromote(r, g, n)
    BY <1>5
  <2>2. [Idle EXCEPT !.pc = "prom_get", !.name = n, !.user = guests[g].user] \in RequestState
    BY DEF RequestState, IssuedGuests, RedisTypeOK, TokenKey
  <2> QED BY <2>1, <2>2, <1>s DEF BeginPromote
<1>6. CASE \E s \in SessionIDs, k \in CredentialIDs, n \in SignCounts, g \in Opt(IssuedGuests) :
              CompletePromote(r, s, k, n, g)
  <2>1. PICK s \in SessionIDs, k \in CredentialIDs, n \in SignCounts, g \in Opt(IssuedGuests) :
              CompletePromote(r, s, k, n, g)
    BY <1>6
  <2>2. [Idle EXCEPT !.pc = "prom_promote", !.sid = s, !.key = k, !.count = n, !.guest = g,
                     !.name = challenges[s].payload.username,
                     !.user = challenges[s].payload.promoteUser] \in RequestState
    BY <1>p DEF RequestState, Payload, IssuedGuests
  <2>3. RequestsTypeOK'
    BY <2>1, <2>2, <1>s, <1>u DEF CompletePromote
  <2> QED BY <2>1, <2>3, <1>t DEF CompletePromote
<1>7. CASE \E t \in IssuedSessions, c \in Rows : DeleteCredential(r, t, c)
  <2>1. PICK t \in IssuedSessions, c \in Rows : DeleteCredential(r, t, c)
    BY <1>7
  <2>2. [Idle EXCEPT !.pc = "del_list", !.user = sessions[t].user, !.row = c] \in RequestState
    BY DEF RequestState, IssuedSessions, RedisTypeOK, TokenKey
  <2> QED BY <2>1, <2>2, <1>s DEF DeleteCredential
<1> QED BY <1>1, <1>2, <1>3, <1>4, <1>5, <1>6, <1>7 DEF Arrive

\* The two inserts of a ceremony's credential.
LEMMA InsertCredentialType ==
  ASSUME TypeOK, NEW r \in Requests, InsertCredential(r), UNCHANGED tx
  PROVE  CredentialsTypeOK'
  BY FieldType, InsertType DEF TypeOK, InsertCredential

\* The two creations of a session.
LEMMA IssueSessionType ==
  ASSUME TypeOK, NEW r \in Requests, IssueSession(r)
  PROVE  TypeOK'
<1>1. RequestsTypeOK'
  BY SlotType, PcType DEF TypeOK, IssueSession
<1>2. RedisTypeOK'
  BY FieldType, RedisType DEF TypeOK, IssueSession
<1> QED BY <1>1, <1>2, FrameType DEF TypeOK, IssueSession, postgres

\* A ceremony saved by a begin handler.
LEMMA SaveType ==
  ASSUME TypeOK, NEW s \in SessionIDs, NEW kind \in {"register", "promote", "login"},
         NEW n \in Opt(Names), NEW u \in Opt(Users),
         ChallengeSave(s, [kind |-> kind, username |-> n, promoteUser |-> u]),
         UNCHANGED <<sessions, guests>>
  PROVE  RedisTypeOK'
<1>1. [kind |-> kind, username |-> n, promoteUser |-> u] \in Payload
  BY DEF Payload
<1> QED BY <1>1, RedisType DEF TypeOK

\* The steps of the registration handlers.
LEMMA RegisterType ==
  ASSUME TypeOK, NEW r \in Requests, RegisterStep(r)
  PROVE  TypeOK'
<1> USE PcType, FrameType DEF TypeOK, postgres, redis
<1>1. CASE BeginRegisterSave(r)
  <2>1. RedisTypeOK'
    BY <1>1, FieldType, SaveType DEF BeginRegisterSave, Opt
  <2> QED BY <1>1, <2>1, SlotType DEF BeginRegisterSave
<1>2. CASE CompleteRegisterCreate(r)
  <2>1. PICK u \in Users : /\ CreateRegistered(u, req[r].name)
                           /\ req' = [req EXCEPT ![r].pc = "reg_insert", ![r].user = u]
    BY <1>2 DEF CompleteRegisterCreate
  <2>2. UsersTypeOK'
    BY <2>1, FieldType, UsersType DEF Opt
  <2>3. RequestsTypeOK'
    BY <2>1 DEF RequestsTypeOK, RequestState, Opt
  <2> QED BY <1>2, <2>2, <2>3 DEF CompleteRegisterCreate
<1>3. CASE CompleteRegisterTaken(r)
  BY <1>3, SlotType DEF CompleteRegisterTaken
<1>4. CASE CompleteRegisterInsert(r)
  BY <1>4, SlotType, InsertCredentialType DEF CompleteRegisterInsert
<1>5. CASE CompleteRegisterExists(r)
  BY <1>5, SlotType DEF CompleteRegisterExists
<1> QED BY <1>1, <1>2, <1>3, <1>4, <1>5 DEF RegisterStep

\* The steps of CompleteLogin.
LEMMA LoginType ==
  ASSUME TypeOK, NEW r \in Requests, LoginStep(r)
  PROVE  TypeOK'
<1> USE PcType, FrameType DEF TypeOK, postgres, redis
<1>1. CASE CompleteLoginResolve(r)
  <2>1. CASE Respond(r)
    BY <1>1, <2>1, SlotType DEF CompleteLoginResolve
  <2>2. CASE ~Respond(r)
    <3>1. PICK c \in Rows : \E n \in LibSignCounts(credentials[c].sign_count, req[r].count) :
              req' = [req EXCEPT ![r].pc = "login_update", ![r].row = c,
                                 ![r].user = credentials[c].user, ![r].count = n]
      BY <1>1, <2>2 DEF CompleteLoginResolve
    <3>2. PICK n \in LibSignCounts(credentials[c].sign_count, req[r].count) :
              req' = [req EXCEPT ![r].pc = "login_update", ![r].row = c,
                                 ![r].user = credentials[c].user, ![r].count = n]
      BY <3>1
    <3>3. credentials[c].user \in Opt(Users) /\ n \in SignCounts
      BY FieldType DEF CredentialsTypeOK, CredentialRow, LibSignCounts
    <3> DEFINE x == [req[r] EXCEPT !.pc = "login_update", !.row = c,
                                   !.user = credentials[c].user, !.count = n]
    <3>4. x \in RequestState
      BY <3>3, FieldType DEF RequestState, Opt
    <3>5. req' = [req EXCEPT ![r] = x]
      BY <3>2
    <3>6. RequestsTypeOK'
      BY <3>4, <3>5, SlotType
    <3> QED BY <1>1, <3>6 DEF CompleteLoginResolve
  <2> QED BY <2>1, <2>2
<1>2. CASE CompleteLoginUpdate(r)
  <2>1. CredentialsTypeOK'
    BY <1>2, FieldType, UpdateType DEF CompleteLoginUpdate
  <2> QED BY <1>2, <2>1, SlotType DEF CompleteLoginUpdate
<1>3. CASE CompleteLoginGone(r)
  BY <1>3, SlotType DEF CompleteLoginGone
<1>4. CASE CompleteLoginSession(r)
  BY <1>4, IssueSessionType DEF CompleteLoginSession
<1>5. CASE DropGuest(r)
  <2>1. RedisTypeOK'
    BY <1>5, FieldType, RedisType DEF DropGuest
  <2> QED BY <1>5, <2>1, SlotType DEF DropGuest
<1> QED BY <1>1, <1>2, <1>3, <1>4, <1>5 DEF LoginStep

\* The steps of Guest.
LEMMA GuestType ==
  ASSUME TypeOK, NEW r \in Requests, GuestStep(r)
  PROVE  TypeOK'
<1> USE PcType, FrameType DEF TypeOK, postgres, redis
<1>1. CASE GuestGet(r)
  <2>1. [Idle EXCEPT !.pc = "guest_create"] \in RequestState
    BY IdleType DEF RequestState
  <2> QED BY <1>1, <2>1, SlotType DEF GuestGet
<1>2. CASE GuestCreateUser(r)
  <2>1. PICK u \in Users : /\ CreateGuest(u)
                           /\ req' = [req EXCEPT ![r].pc = "guest_token", ![r].user = u]
    BY <1>2 DEF GuestCreateUser
  <2>2. UsersTypeOK'
    BY <2>1, FieldType, UsersType DEF Opt
  <2>3. RequestsTypeOK'
    BY <2>1 DEF RequestsTypeOK, RequestState, Opt
  <2> QED BY <1>2, <2>2, <2>3 DEF GuestCreateUser
<1>3. CASE GuestMintToken(r)
  <2>1. RedisTypeOK'
    BY <1>3, FieldType, RedisType DEF GuestMintToken
  <2> QED BY <1>3, <2>1, SlotType DEF GuestMintToken
<1> QED BY <1>1, <1>2, <1>3 DEF GuestStep

\* The steps of the promotion handlers.
LEMMA PromoteType ==
  ASSUME TypeOK, NEW r \in Requests, PromoteStep(r)
  PROVE  TypeOK'
<1> USE PcType, FrameType DEF TypeOK, postgres, redis
<1>1. CASE BeginPromoteGet(r)
  BY <1>1, SlotType DEF BeginPromoteGet
<1>2. CASE BeginPromoteSave(r)
  <2>1. RedisTypeOK'
    BY <1>2, FieldType, SaveType DEF BeginPromoteSave
  <2> QED BY <1>2, <2>1, SlotType DEF BeginPromoteSave
<1>3. CASE CompletePromotePromote(r)
  <2>1. UsersTypeOK'
    BY <1>3, FieldType, UsersType DEF CompletePromotePromote
  <2> QED BY <1>3, <2>1, SlotType DEF CompletePromotePromote
<1>4. CASE CompletePromoteRefused(r)
  BY <1>4, SlotType DEF CompletePromoteRefused
<1>5. CASE CompletePromoteInsert(r)
  BY <1>5, SlotType, InsertCredentialType DEF CompletePromoteInsert
<1>6. CASE CompletePromoteExists(r)
  BY <1>6, SlotType DEF CompletePromoteExists
<1>7. CASE CompletePromoteSession(r)
  BY <1>7, IssueSessionType DEF CompletePromoteSession
<1> QED BY <1>1, <1>2, <1>3, <1>4, <1>5, <1>6, <1>7 DEF PromoteStep

\* The steps of DeleteCredential.
LEMMA DeleteType ==
  ASSUME TypeOK, NEW r \in Requests, DeleteStep(r)
  PROVE  TypeOK'
<1> USE PcType, FrameType DEF TypeOK, postgres, redis
<1>1. CASE DeleteCredentialOwned(r)
  <2>1. CredentialsTypeOK'
    BY <1>1, FieldType, SoftDeleteType DEF DeleteCredentialOwned
  <2> QED BY <1>1, <2>1, SlotType DEF DeleteCredentialOwned
<1>2. CASE DeleteCredentialNotOwned(r)
  BY <1>2, SlotType DEF DeleteCredentialNotOwned
<1>3. CASE DeleteCredentialStep(r)
  <2>1. CredentialsTypeOK'
    BY <1>3, FieldType, SoftDeleteType DEF DeleteCredentialStep
  <2> QED BY <1>3, <2>1, SlotType DEF DeleteCredentialStep
<1>4. CASE DeleteCredentialEnd(r)
  <2>1. CredentialsTypeOK'
    BY <1>4, FieldType, SoftDeleteType DEF DeleteCredentialEnd
  <2> QED BY <1>4, <2>1, SlotType DEF DeleteCredentialEnd
<1> QED BY <1>1, <1>2, <1>3, <1>4 DEF DeleteStep

\* A request that ends early.
LEMMA FailType ==
  ASSUME TypeOK, NEW r \in Requests, Fail(r) \/ Exhausted(r)
  PROVE  TypeOK'
<1> USE FrameType DEF TypeOK, postgres, redis
<1>1. CASE Fail(r)
  <2>1. CredentialsTypeOK'
    BY <1>1, SoftDeleteType DEF Fail, Opt
  <2> QED BY <1>1, <2>1, SlotType DEF Fail
<1>2. CASE Exhausted(r)
  BY <1>2, SlotType DEF Exhausted
<1> QED BY <1>1, <1>2

\* The steps that belong to no request slot.
LEMMA SlotlessType ==
  ASSUME TypeOK, BeginLogin \/ (\E t \in IssuedSessions : Logout(t)) \/ ExpireKey
  PROVE  TypeOK'
<1> USE FrameType DEF TypeOK, postgres, redis
<1>1. CASE BeginLogin
  <2>1. NoPayload \in Payload
    BY DEF NoPayload, Payload, Opt
  <2>2. RedisTypeOK'
    BY <1>1, <2>1, RedisType DEF BeginLogin
  <2> QED BY <1>1, <2>2 DEF BeginLogin, RequestsTypeOK
<1>2. CASE \E t \in IssuedSessions : Logout(t)
  <2>1. RedisTypeOK'
    BY <1>2, RedisType DEF Logout, IssuedSessions
  <2> QED BY <1>2, <2>1 DEF Logout, RequestsTypeOK
<1>3. CASE ExpireKey
  <2>1. RedisTypeOK'
    BY <1>3, RedisType DEF ExpireKey, Expire, Opt
  <2> QED BY <1>3, <2>1 DEF ExpireKey, RequestsTypeOK
<1> QED BY <1>1, <1>2, <1>3

------------------------------------------------------------------------------
\* The empty server is well-typed.
LEMMA InitType == Init => TypeOK
<1> SUFFICES ASSUME Init PROVE TypeOK
  OBVIOUS
<1>1. UsersTypeOK
  BY DEF Init, UsersInit, UsersTypeOK, UserRow, NoUserRow, Opt
<1>2. CredentialsTypeOK
  BY SignCountAssumption
  DEF Init, CredentialsInit, CredentialsTypeOK, CredentialRow, NoCredentialRow, NoTx, Opt,
      SignCounts
<1>3. RedisTypeOK
  BY DEF Init, RedisInit, RedisTypeOK, ChallengeKey, TokenKey, Payload, NoPayload, Opt
<1>4. RequestsTypeOK
  BY IdleType DEF Init, RequestsInit, RequestsTypeOK
<1> QED BY <1>1, <1>2, <1>3, <1>4 DEF TypeOK

\* No step of the service leaves TypeOK.
LEMMA NextType == TypeOK /\ [Next]_vars => TypeOK'
<1> SUFFICES ASSUME TypeOK, [Next]_vars PROVE TypeOK'
  OBVIOUS
<1>1. CASE Next
  BY <1>1, ArriveType, RegisterType, LoginType, GuestType, PromoteType, DeleteType,
     FailType, SlotlessType
  DEF Next, Step
<1>2. CASE UNCHANGED vars
  BY <1>2, FrameType DEF TypeOK, RequestsTypeOK, vars
<1> QED BY <1>1, <1>2

\* In every behaviour of the service the tables, the keyspaces and the requests
\* in flight hold only what their types allow, faults and races included.
THEOREM TypeCorrect == Spec => []TypeOK
<1>1. Init => TypeOK
  BY InitType
<1>2. TypeOK /\ [Next]_vars => TypeOK'
  BY NextType
<1> QED BY <1>1, <1>2, PTL DEF Spec

------------------------------------------------------------------------------
(* The kinds of step.                                                        *)

QuietChallenges ==
    \A s \in SessionIDs : challenges[s].status = "gone" => challenges'[s].status = "gone"

QuietCredentials ==
    \A c \in Rows : /\ credentials'[c].status = "absent" <=> credentials[c].status = "absent"
                    /\ credentials'[c].user = credentials[c].user
                    /\ credentials'[c].handle = credentials[c].handle

QuietUsers ==
    \A u \in Users : \/ users'[u] = users[u]
                     \/ users[u].status = "absent" /\ users'[u].status = "guest"

QuietRequests ==
    \A r \in Requests : /\ req'[r].pc \in CompletingPcs => req'[r] = req[r]
                        /\ req'[r].sid \in {req[r].sid, Nil}

Quiet == QuietChallenges /\ QuietCredentials /\ QuietUsers /\ QuietRequests

\* A ceremony taken out of the store by a request that goes on with it.
Takes(r) ==
    \E s \in SessionIDs :
        /\ Take(s)
        /\ req'[r].sid = s
        /\ req'[r].pc \notin InsertingPcs
        /\ \A q \in Requests \ {r} : req'[q] = req[q]
        /\ UNCHANGED <<users, credentials>>

\* An account that the request's ceremony makes, or promotes a guest to.
Claims(r) ==
    /\ \/ CreateRegistered(req'[r].user, req[r].name) /\ req'[r].user \in Users
       \/ /\ PromoteGuest(req'[r].user, req[r].name)
          /\ req'[r].user = req[r].user
          /\ req[r].pc = "prom_promote"
    /\ req[r].pc \in CompletingPcs \ InsertingPcs
    /\ req'[r].pc \in InsertingPcs
    /\ req'[r].sid = req[r].sid
    /\ \A q \in Requests \ {r} : req'[q] = req[q]
    /\ UNCHANGED <<credentials, challenges>>

\* The credential that the request's ceremony adds.
Adds(r) ==
    /\ InsertCredential(r)
    /\ req[r].pc \in InsertingPcs
    /\ req'[r].pc \notin CompletingPcs
    /\ req'[r].sid \in {req[r].sid, Nil}
    /\ \A q \in Requests \ {r} : req'[q] = req[q]
    /\ UNCHANGED <<users, challenges>>

\* What one slot's change leaves quiet: an answer, a move or a start to a point
\* that holds no ceremony.
LEMMA QuietSlot ==
  ASSUME TypeOK, NEW r \in Requests
  PROVE  /\ Respond(r) => QuietRequests
         /\ \A pc \in Pcs \ CompletingPcs : Goto(r, pc) => QuietRequests
         /\ \A x \in RequestState :
                /\ x.pc \notin CompletingPcs
                /\ x.sid = Nil
                /\ req' = [req EXCEPT ![r] = x]
                => QuietRequests
         /\ UNCHANGED req => QuietRequests
<1>1. Respond(r) => QuietRequests
  BY DEF TypeOK, RequestsTypeOK, Respond, QuietRequests, Idle, CompletingPcs
<1>2. \A pc \in Pcs \ CompletingPcs : Goto(r, pc) => QuietRequests
  BY DEF TypeOK, RequestsTypeOK, RequestState, Goto, QuietRequests
<1>3. \A x \in RequestState :
          x.pc \notin CompletingPcs /\ x.sid = Nil /\ req' = [req EXCEPT ![r] = x]
              => QuietRequests
  BY DEF TypeOK, RequestsTypeOK, QuietRequests
<1> QED BY <1>1, <1>2, <1>3 DEF QuietRequests

\* The stores' operations that are quiet.
LEMMA QuietStores ==
  ASSUME TypeOK, LockInv
  PROVE  /\ UNCHANGED users => QuietUsers
         /\ \A u \in Users : CreateGuest(u) => QuietUsers
         /\ UNCHANGED credentials => QuietCredentials
         /\ \A c, n : UpdateAfterAssertion(c, n) => QuietCredentials
         /\ \A t \in Requests : SoftDeleteGoOn(t) \/ SoftDeleteEnd(t) => QuietCredentials
         /\ UNCHANGED challenges => QuietChallenges
         /\ \A s \in SessionIDs : Take(s) => QuietChallenges
         /\ \A s \in SessionIDs, p \in Payload : ChallengeSave(s, p) => QuietChallenges
<1>1. UNCHANGED users => QuietUsers
  BY DEF QuietUsers
<1>2. \A u \in Users : CreateGuest(u) => QuietUsers
  BY DEF TypeOK, UsersTypeOK, CreateGuest, QuietUsers
<1>3. UNCHANGED credentials => QuietCredentials
  BY DEF QuietCredentials
<1>4. \A c, n : UpdateAfterAssertion(c, n) => QuietCredentials
  BY DEF TypeOK, CredentialsTypeOK, CredentialRow, UpdateAfterAssertion, QuietCredentials
<1>5. ASSUME NEW t \in Requests, SoftDeleteGoOn(t) \/ SoftDeleteEnd(t)
      PROVE  QuietCredentials
  <2>1. CASE SoftDeleteCommit(t)
    BY <2>1 DEF TypeOK, CredentialsTypeOK, CredentialRow, SoftDeleteCommit, LockInv, Exists,
                QuietCredentials
  <2>2. CASE ~SoftDeleteCommit(t)
    BY <1>3, <1>5, <2>2
    DEF SoftDeleteGoOn, SoftDeleteEnd, SoftDeleteLock, SoftDeleteCount, SoftDeleteUpdate,
        SoftDeleteNotFound, SoftDeleteLast
  <2> QED BY <2>1, <2>2
<1>6. UNCHANGED challenges => QuietChallenges
  BY DEF QuietChallenges
<1>7. \A s \in SessionIDs : Take(s) => QuietChallenges
  BY DEF TypeOK, RedisTypeOK, ChallengeKey, Take, QuietChallenges
<1>8. \A s \in SessionIDs, p \in Payload : ChallengeSave(s, p) => QuietChallenges
  BY DEF TypeOK, RedisTypeOK, ChallengeKey, ChallengeSave, QuietChallenges
<1> QED BY <1>1, <1>2, <1>3, <1>4, <1>5, <1>6, <1>7, <1>8

\* An arriving request is quiet, or takes a ceremony and goes on with it.
LEMMA QuietArrive ==
  ASSUME TypeOK, LockInv, NEW r \in Requests, Arrive(r)
  PROVE  Quiet \/ Takes(r)
<1> USE PcType, IdleType, QuietStores DEF Quiet, postgres, redis
<1>c. {"reg_save", "guest_get", "guest_create", "prom_get", "del_list"}
          \cap CompletingPcs = {}
  BY DEF CompletingPcs
<1>i. Idle.sid = Nil
  BY DEF Idle
<1>s. ASSUME NEW x \in RequestState, x.pc \notin CompletingPcs, x.sid = Nil,
             req' = [req EXCEPT ![r] = x]
      PROVE  QuietRequests
  BY <1>s, QuietSlot
<1>u. UNCHANGED req => QuietRequests
  BY QuietSlot
<1>1. CASE \E n \in Names : BeginRegister(r, n)
  <2>1. PICK n \in Names : BeginRegister(r, n)
    BY <1>1
  <2> DEFINE x == [Idle EXCEPT !.pc = "reg_save", !.name = n]
  <2>2. x \in RequestState /\ x.pc \notin CompletingPcs /\ x.sid = Nil
    BY <1>c, <1>i DEF RequestState, Opt
  <2> QED BY <2>1, <2>2, <1>s DEF BeginRegister
<1>2. CASE \E s \in SessionIDs, k \in CredentialIDs, n \in SignCounts :
              CompleteRegister(r, s, k, n)
  <2>1. PICK s \in SessionIDs, k \in CredentialIDs, n \in SignCounts :
              CompleteRegister(r, s, k, n)
    BY <1>2
  <2>2. CASE UNCHANGED req
    BY <2>1, <2>2, <1>u DEF CompleteRegister
  <2>3. CASE ~UNCHANGED req
    <3> DEFINE x == [Idle EXCEPT !.pc = "reg_create", !.sid = s, !.key = k, !.count = n,
                                 !.name = challenges[s].payload.username]
    <3>1. req' = [req EXCEPT ![r] = x]
      BY <2>1, <2>3 DEF CompleteRegister
    <3>2. x.pc = "reg_create" /\ x.sid = s
      BY DEF RequestState
    <3>3. x.pc \in CompletingPcs \ InsertingPcs
      BY <3>2 DEF CompletingPcs, InsertingPcs
    <3> HIDE DEF x
    <3>4. req'[r] = x /\ \A q \in Requests \ {r} : req'[q] = req[q]
      BY <3>1 DEF TypeOK, RequestsTypeOK
    <3> QED BY <2>1, <3>2, <3>3, <3>4 DEF CompleteRegister, Takes
  <2> QED BY <2>2, <2>3
<1>3. CASE \E s \in SessionIDs, k \in CredentialIDs, n \in SignCounts, g \in Opt(IssuedGuests) :
              CompleteLogin(r, s, k, n, g)
  <2>1. PICK s \in SessionIDs, k \in CredentialIDs, n \in SignCounts, g \in Opt(IssuedGuests) :
              CompleteLogin(r, s, k, n, g)
    BY <1>3
  <2>2. CASE UNCHANGED req
    BY <2>1, <2>2, <1>u DEF CompleteLogin
  <2>3. CASE ~UNCHANGED req
    <3> DEFINE x == [Idle EXCEPT !.pc = "login_resolve", !.sid = s, !.key = k, !.count = n,
                                 !.guest = g]
    <3>1. req' = [req EXCEPT ![r] = x]
      BY <2>1, <2>3 DEF CompleteLogin
    <3>2. x.pc = "login_resolve" /\ x.sid = s
      BY DEF RequestState
    <3>3. x.pc \notin InsertingPcs
      BY <3>2 DEF InsertingPcs
    <3> HIDE DEF x
    <3>4. req'[r] = x /\ \A q \in Requests \ {r} : req'[q] = req[q]
      BY <3>1 DEF TypeOK, RequestsTypeOK
    <3> QED BY <2>1, <3>2, <3>3, <3>4 DEF CompleteLogin, Takes
  <2> QED BY <2>2, <2>3
<1>4. CASE \E g \in Opt(IssuedGuests) : Guest(r, g)
  <2>1. PICK g \in Opt(IssuedGuests) : Guest(r, g)
    BY <1>4
  <2> DEFINE x == [Idle EXCEPT !.pc = "guest_create"]
             y == [Idle EXCEPT !.pc = "guest_get", !.user = guests[g].user]
  <2>2. x \in RequestState /\ x.pc \notin CompletingPcs /\ x.sid = Nil
    BY <1>c, <1>i DEF RequestState
  <2>3. g # Nil => y \in RequestState /\ y.pc \notin CompletingPcs /\ y.sid = Nil
    BY <1>c, <1>i DEF RequestState, IssuedGuests, Opt, TypeOK, RedisTypeOK, TokenKey
  <2> QED BY <2>1, <2>2, <2>3, <1>s DEF Guest
<1>5. CASE \E g \in IssuedGuests, n \in Names : BeginPromote(r, g, n)
  <2>1. PICK g \in IssuedGuests, n \in Names : BeginPromote(r, g, n)
    BY <1>5
  <2> DEFINE x == [Idle EXCEPT !.pc = "prom_get", !.name = n, !.user = guests[g].user]
  <2>2. x \in RequestState /\ x.pc \notin CompletingPcs /\ x.sid = Nil
    BY <1>c, <1>i DEF RequestState, IssuedGuests, Opt, TypeOK, RedisTypeOK, TokenKey
  <2> QED BY <2>1, <2>2, <1>s DEF BeginPromote
<1>6. CASE \E s \in SessionIDs, k \in CredentialIDs, n \in SignCounts, g \in Opt(IssuedGuests) :
              CompletePromote(r, s, k, n, g)
  <2>1. PICK s \in SessionIDs, k \in CredentialIDs, n \in SignCounts, g \in Opt(IssuedGuests) :
              CompletePromote(r, s, k, n, g)
    BY <1>6
  <2>2. CASE UNCHANGED req
    BY <2>1, <2>2, <1>u DEF CompletePromote
  <2>3. CASE ~UNCHANGED req
    <3> DEFINE x == [Idle EXCEPT !.pc = "prom_promote", !.sid = s, !.key = k, !.count = n,
                                 !.guest = g, !.name = challenges[s].payload.username,
                                 !.user = challenges[s].payload.promoteUser]
    <3>1. req' = [req EXCEPT ![r] = x]
      BY <2>1, <2>3 DEF CompletePromote
    <3>2. x.pc = "prom_promote" /\ x.sid = s
      BY DEF RequestState
    <3>3. x.pc \in CompletingPcs \ InsertingPcs
      BY <3>2 DEF CompletingPcs, InsertingPcs
    <3> HIDE DEF x
    <3>4. req'[r] = x /\ \A q \in Requests \ {r} : req'[q] = req[q]
      BY <3>1 DEF TypeOK, RequestsTypeOK
    <3> QED BY <2>1, <3>2, <3>3, <3>4 DEF CompletePromote, Takes
  <2> QED BY <2>2, <2>3
<1>7. CASE \E t \in IssuedSessions, c \in Rows : DeleteCredential(r, t, c)
  <2>1. PICK t \in IssuedSessions, c \in Rows : DeleteCredential(r, t, c)
    BY <1>7
  <2> DEFINE x == [Idle EXCEPT !.pc = "del_list", !.user = sessions[t].user, !.row = c]
  <2>2. x \in RequestState /\ x.pc \notin CompletingPcs /\ x.sid = Nil
    BY <1>c, <1>i DEF RequestState, IssuedSessions, Opt, TypeOK, RedisTypeOK, TokenKey
  <2> QED BY <2>1, <2>2, <1>s DEF DeleteCredential
<1> QED BY <1>1, <1>2, <1>3, <1>4, <1>5, <1>6, <1>7 DEF Arrive

\* The steps that make, promote or equip an account are as Claims and Adds say.
LEMMA LoudSteps ==
  ASSUME TypeOK, NEW r \in Requests
  PROVE  /\ CompleteRegisterCreate(r) => Claims(r)
         /\ CompletePromotePromote(r) => Claims(r)
         /\ CompleteRegisterInsert(r) \/ CompletePromoteInsert(r) => Adds(r)
<1> USE DEF redis
<1>1. ASSUME CompleteRegisterCreate(r) PROVE Claims(r)
  <2>1. PICK u \in Users : /\ CreateRegistered(u, req[r].name)
                           /\ req' = [req EXCEPT ![r].pc = "reg_insert", ![r].user = u]
    BY <1>1 DEF CompleteRegisterCreate
  <2>2. /\ req'[r].pc = "reg_insert" /\ req'[r].sid = req[r].sid /\ req'[r].user = u
        /\ \A q \in Requests \ {r} : req'[q] = req[q]
    BY <2>1 DEF TypeOK, RequestsTypeOK, RequestState
  <2>3. /\ req[r].pc \in CompletingPcs \ InsertingPcs
        /\ req'[r].pc \in InsertingPcs
    BY <1>1, <2>2 DEF CompleteRegisterCreate, At, CompletingPcs, InsertingPcs
  <2>4. UNCHANGED <<credentials, challenges>>
    BY <1>1 DEF CompleteRegisterCreate
  <2> QED BY <2>1, <2>2, <2>3, <2>4 DEF Claims
<1>2. ASSUME CompletePromotePromote(r) PROVE Claims(r)
  <2>1. /\ req'[r].pc = "prom_insert" /\ req'[r].sid = req[r].sid /\ req'[r].user = req[r].user
        /\ \A q \in Requests \ {r} : req'[q] = req[q]
    BY <1>2 DEF CompletePromotePromote, Goto, TypeOK, RequestsTypeOK, RequestState
  <2>2. /\ req[r].pc \in CompletingPcs \ InsertingPcs /\ req[r].pc = "prom_promote"
        /\ req'[r].pc \in InsertingPcs
    BY <1>2, <2>1 DEF CompletePromotePromote, At, CompletingPcs, InsertingPcs
  <2>3. PromoteGuest(req[r].user, req[r].name) /\ UNCHANGED <<credentials, challenges>>
    BY <1>2 DEF CompletePromotePromote
  <2> QED BY <2>1, <2>2, <2>3 DEF Claims
<1>3. ASSUME CompleteRegisterInsert(r) \/ CompletePromoteInsert(r) PROVE Adds(r)
  <2>1. /\ req'[r].pc \in {"idle", "prom_session"}
        /\ req'[r].sid \in {req[r].sid, Nil}
        /\ \A q \in Requests \ {r} : req'[q] = req[q]
    BY <1>3
    DEF CompleteRegisterInsert, CompletePromoteInsert, Respond, Goto, Idle, TypeOK,
        RequestsTypeOK, RequestState
  <2>2. req[r].pc \in InsertingPcs /\ req'[r].pc \notin CompletingPcs
    BY <1>3, <2>1
    DEF CompleteRegisterInsert, CompletePromoteInsert, At, CompletingPcs, InsertingPcs
  <2> QED BY <1>3, <2>1, <2>2 DEF Adds, CompleteRegisterInsert, CompletePromoteInsert
<1> QED BY <1>1, <1>2, <1>3

\* Every other step of a request in flight is quiet.
LEMMA QuietStep ==
  ASSUME TypeOK, LockInv, NEW r \in Requests, Step(r) \/ Fail(r)
  PROVE  Quiet \/ Claims(r) \/ Adds(r)
<1> USE QuietStores DEF Quiet, postgres, redis
<1>c. {"login_update", "login_session", "drop_guest", "guest_create", "guest_token",
       "prom_save", "prom_session", "del_soft"} \subseteq Pcs \ CompletingPcs
  BY DEF Pcs, CompletingPcs
<1>r. Respond(r) => QuietRequests
  BY QuietSlot
<1>g. \A pc \in Pcs \ CompletingPcs : Goto(r, pc) => QuietRequests
  BY QuietSlot
<1>i. Idle.sid = Nil
  BY DEF Idle
<1>x. ASSUME NEW x \in RequestState, x.pc \notin CompletingPcs, x.sid = Nil,
             req' = [req EXCEPT ![r] = x]
      PROVE  QuietRequests
  BY <1>x, QuietSlot
<1>p. ASSUME NEW kind \in {"register", "promote"}, NEW n \in Opt(Names), NEW u \in Opt(Users)
      PROVE  [kind |-> kind, username |-> n, promoteUser |-> u] \in Payload
  BY DEF Payload
<1>1. CASE RegisterStep(r)
  <2>1. CASE BeginRegisterSave(r)
    <3>1. QuietChallenges
      BY <2>1, <1>p, FieldType DEF BeginRegisterSave, TypeOK, Opt
    <3> QED BY <2>1, <3>1, <1>r DEF BeginRegisterSave
  <2>2. CASE CompleteRegisterTaken(r) \/ CompleteRegisterExists(r)
    BY <2>2, <1>r DEF CompleteRegisterTaken, CompleteRegisterExists
  <2> QED BY <1>1, <2>1, <2>2, LoudSteps DEF RegisterStep
<1>2. CASE LoginStep(r)
  <2>1. CASE CompleteLoginResolve(r)
    <3>1. CASE Respond(r)
      BY <2>1, <3>1, <1>r DEF CompleteLoginResolve
    <3>2. CASE ~Respond(r)
      <4>1. \E c, u, n : req' = [req EXCEPT ![r].pc = "login_update", ![r].row = c,
                                             ![r].user = u, ![r].count = n]
        BY <2>1, <3>2 DEF CompleteLoginResolve
      <4>2. /\ req'[r].pc = "login_update" /\ req'[r].sid = req[r].sid
            /\ \A q \in Requests \ {r} : req'[q] = req[q]
        BY <4>1 DEF TypeOK, RequestsTypeOK, RequestState
      <4>3. QuietRequests
        BY <4>2, <1>c DEF QuietRequests
      <4> QED BY <2>1, <4>3 DEF CompleteLoginResolve
    <3> QED BY <3>1, <3>2
  <2>2. CASE CompleteLoginUpdate(r)
    BY <2>2, <1>c, <1>g DEF CompleteLoginUpdate
  <2>3. CASE CompleteLoginGone(r)
    BY <2>3, <1>r DEF CompleteLoginGone
  <2>4. CASE CompleteLoginSession(r)
    BY <2>4, <1>c, <1>g, <1>r DEF CompleteLoginSession, IssueSession
  <2>5. CASE DropGuest(r)
    BY <2>5, <1>r DEF DropGuest
  <2> QED BY <1>2, <2>1, <2>2, <2>3, <2>4, <2>5 DEF LoginStep
<1>3. CASE GuestStep(r)
  <2>1. CASE GuestGet(r)
    <3> DEFINE x == [Idle EXCEPT !.pc = "guest_create"]
    <3>1. x \in RequestState /\ x.pc \notin CompletingPcs /\ x.sid = Nil
      BY IdleType, <1>c, <1>i DEF RequestState
    <3> QED BY <2>1, <3>1, <1>r, <1>x DEF GuestGet
  <2>2. CASE GuestCreateUser(r)
    <3>1. /\ req'[r].pc = "guest_token" /\ req'[r].sid = req[r].sid
          /\ \A q \in Requests \ {r} : req'[q] = req[q]
      BY <2>2 DEF GuestCreateUser, TypeOK, RequestsTypeOK, RequestState
    <3>2. QuietRequests
      BY <3>1, <1>c DEF QuietRequests
    <3> QED BY <2>2, <3>2 DEF GuestCreateUser
  <2>3. CASE GuestMintToken(r)
    BY <2>3, <1>r DEF GuestMintToken
  <2> QED BY <1>3, <2>1, <2>2, <2>3 DEF GuestStep
<1>4. CASE PromoteStep(r)
  <2>1. CASE BeginPromoteGet(r)
    BY <2>1, <1>c, <1>g, <1>r DEF BeginPromoteGet
  <2>2. CASE BeginPromoteSave(r)
    <3>1. QuietChallenges
      BY <2>2, <1>p, FieldType DEF BeginPromoteSave, TypeOK
    <3> QED BY <2>2, <3>1, <1>r DEF BeginPromoteSave
  <2>3. CASE CompletePromoteRefused(r) \/ CompletePromoteExists(r)
    BY <2>3, <1>r DEF CompletePromoteRefused, CompletePromoteExists
  <2>4. CASE CompletePromoteSession(r)
    BY <2>4, <1>c, <1>g, <1>r DEF CompletePromoteSession, IssueSession
  <2> QED BY <1>4, <2>1, <2>2, <2>3, <2>4, LoudSteps DEF PromoteStep
<1>5. CASE DeleteStep(r)
  <2>1. CASE DeleteCredentialOwned(r)
    BY <2>1, <1>c, <1>g DEF DeleteCredentialOwned, SoftDeleteBegin
  <2>2. CASE DeleteCredentialNotOwned(r)
    BY <2>2, <1>r DEF DeleteCredentialNotOwned
  <2>3. CASE DeleteCredentialStep(r)
    BY <2>3, QuietSlot DEF DeleteCredentialStep
  <2>4. CASE DeleteCredentialEnd(r)
    BY <2>4, <1>r DEF DeleteCredentialEnd
  <2> QED BY <1>5, <2>1, <2>2, <2>3, <2>4 DEF DeleteStep
<1>6. CASE Exhausted(r) \/ Fail(r)
  BY <1>6, <1>r DEF Exhausted, Fail
<1> QED BY <1>1, <1>2, <1>3, <1>4, <1>5, <1>6 DEF Step

\* Quiet, or one of the three kinds of step that matter.
LEMMA QuietOrNot ==
  ASSUME TypeOK, LockInv, [Next]_vars
  PROVE  \/ Quiet
         \/ \E r \in Requests : Takes(r) \/ Claims(r) \/ Adds(r)
<1> USE QuietStores DEF Quiet, postgres, redis
<1>1. CASE \E r \in Requests : Arrive(r) \/ Step(r) \/ Fail(r)
  BY <1>1, QuietArrive, QuietStep
<1>2. CASE BeginLogin
  <2>1. NoPayload \in Payload
    BY DEF NoPayload, Payload, Opt
  <2>2. QuietChallenges
    BY <1>2, <2>1 DEF BeginLogin
  <2> QED BY <1>2, <2>2 DEF BeginLogin, QuietRequests
<1>3. CASE \E t \in IssuedSessions : Logout(t)
  BY <1>3 DEF Logout, QuietRequests
<1>4. CASE ExpireKey
  BY <1>4 DEF ExpireKey, Expire, QuietRequests
<1>5. CASE UNCHANGED vars
  BY <1>5 DEF vars, QuietRequests
<1> QED BY <1>1, <1>2, <1>3, <1>4, <1>5 DEF Next

------------------------------------------------------------------------------
(* Row locks.                                                                *)

\* Only DeleteCredential and Fail touch the transactions.
LEMMA TxSteps ==
  ASSUME [Next]_vars
  PROVE  \/ UNCHANGED tx
         \/ \E t \in Requests :
                \/ \E c \in Rows : SoftDeleteBegin(t, c)
                \/ SoftDeleteGoOn(t)
                \/ SoftDeleteEnd(t)
                \/ tx' = [tx EXCEPT ![t] = NoTx]
<1> USE DEF postgres
<1>1. CASE \E r \in Requests : Arrive(r)
  BY <1>1 DEF Arrive, BeginRegister, CompleteRegister, CompleteLogin, Guest, BeginPromote,
              CompletePromote, DeleteCredential
<1>2. CASE \E r \in Requests : Step(r)
  <2>1. PICK r \in Requests : Step(r)
    BY <1>2
  <2>2. CASE RegisterStep(r)
    BY <2>2 DEF RegisterStep, BeginRegisterSave, CompleteRegisterCreate, CompleteRegisterTaken,
                CompleteRegisterInsert, CompleteRegisterExists
  <2>3. CASE LoginStep(r)
    BY <2>3 DEF LoginStep, CompleteLoginResolve, CompleteLoginUpdate, CompleteLoginGone,
                CompleteLoginSession, IssueSession, DropGuest
  <2>4. CASE GuestStep(r)
    BY <2>4 DEF GuestStep, GuestGet, GuestCreateUser, GuestMintToken
  <2>5. CASE PromoteStep(r)
    BY <2>5 DEF PromoteStep, BeginPromoteGet, BeginPromoteSave, CompletePromotePromote,
                CompletePromoteRefused, CompletePromoteInsert, CompletePromoteExists,
                CompletePromoteSession, IssueSession
  <2>6. CASE DeleteStep(r)
    BY <2>6 DEF DeleteStep, DeleteCredentialOwned, DeleteCredentialNotOwned,
                DeleteCredentialStep, DeleteCredentialEnd, LiveOf
  <2>7. CASE Exhausted(r)
    BY <2>7 DEF Exhausted
  <2> QED BY <2>1, <2>2, <2>3, <2>4, <2>5, <2>6, <2>7 DEF Step
<1>3. CASE \E r \in Requests : Fail(r)
  BY <1>3 DEF Fail
<1>4. CASE BeginLogin \/ (\E t \in IssuedSessions : Logout(t)) \/ ExpireKey \/ UNCHANGED vars
  BY <1>4 DEF BeginLogin, Logout, ExpireKey, vars
<1> QED BY <1>1, <1>2, <1>3, <1>4 DEF Next

\* Rows are inserted and never removed.
LEMMA RowsStay ==
  ASSUME TypeOK, LockInv, [Next]_vars
  PROVE  \A c \in Rows : Exists(c) => Exists(c)'
<1>1. CASE Quiet
  BY <1>1 DEF Quiet, QuietCredentials, Exists
<1>2. CASE \E r \in Requests : Takes(r) \/ Claims(r)
  BY <1>2 DEF Takes, Claims, Exists
<1>3. CASE \E r \in Requests : Adds(r)
  BY <1>3 DEF Adds, InsertCredential, Insert, Exists, TypeOK, CredentialsTypeOK, CredentialRow
<1> QED BY <1>1, <1>2, <1>3, QuietOrNot

\* A row lock is only ever taken on a live row.
LEMMA LockNext == TypeOK /\ LockInv /\ [Next]_vars => LockInv'
<1> SUFFICES ASSUME TypeOK, LockInv, [Next]_vars PROVE LockInv'
  OBVIOUS
<1>1. \A c \in Rows : Exists(c) => Exists(c)'
  BY RowsStay
<1>2. CASE UNCHANGED tx
  BY <1>1, <1>2 DEF LockInv
<1>3. CASE \E t \in Requests : \E c \in Rows : SoftDeleteBegin(t, c)
  <2>1. PICK t \in Requests, c \in Rows : tx' = [tx EXCEPT ![t] = [phase |-> "waiting", row |-> c]]
    BY <1>3 DEF SoftDeleteBegin
  <2>2. /\ tx'[t] = [phase |-> "waiting", row |-> c]
        /\ \A q \in Requests \ {t} : tx'[q] = tx[q]
    BY <2>1 DEF TypeOK, CredentialsTypeOK
  <2> QED BY <2>2, <1>1 DEF LockInv
<1>4. CASE \E t \in Requests : tx' = [tx EXCEPT ![t] = NoTx] \/ SoftDeleteEnd(t)
  <2>1. PICK t \in Requests : tx' = [tx EXCEPT ![t] = NoTx]
    BY <1>4 DEF SoftDeleteEnd, SoftDeleteNotFound, SoftDeleteLast, SoftDeleteCommit
  <2>2. /\ tx'[t].phase = "none"
        /\ \A q \in Requests \ {t} : tx'[q] = tx[q]
    BY <2>1 DEF NoTx, TypeOK, CredentialsTypeOK
  <2> QED BY <2>2, <1>1 DEF LockInv
<1>5. CASE \E t \in Requests : SoftDeleteGoOn(t)
  <2>1. PICK t \in Requests : SoftDeleteGoOn(t)
    BY <1>5
  <2>2. tx[t].row \in Rows /\ Exists(tx[t].row)
    BY <2>1 DEF SoftDeleteGoOn, SoftDeleteLock, SoftDeleteCount, SoftDeleteUpdate, LockInv,
                Live, Exists
  <2>3. \E ph : tx' = [tx EXCEPT ![t].phase = ph]
    BY <2>1 DEF SoftDeleteGoOn, SoftDeleteLock, SoftDeleteCount, SoftDeleteUpdate
  <2> QED BY <1>1, <2>2, <2>3 DEF LockInv, TypeOK, CredentialsTypeOK
<1> QED BY <1>2, <1>3, <1>4, <1>5, TxSteps

------------------------------------------------------------------------------
(* Usernames.                                                                *)

\* Two accounts never come to share a username: the index is checked in the
\* same statement that sets the name.
LEMMA UsernameNext ==
  TypeOK /\ LockInv /\ RegisteredUsernameUnique /\ [Next]_vars => RegisteredUsernameUnique'
<1> SUFFICES ASSUME TypeOK, LockInv, RegisteredUsernameUnique, [Next]_vars
             PROVE  RegisteredUsernameUnique'
  OBVIOUS
<1>1. CASE Quiet
  BY <1>1 DEF Quiet, QuietUsers, RegisteredUsernameUnique, Registered
<1>2. CASE \E r \in Requests : Takes(r) \/ Adds(r)
  BY <1>2 DEF Takes, Adds, RegisteredUsernameUnique, Registered
<1>3. CASE \E r \in Requests : Claims(r)
  <2>1. PICK u, n : CreateRegistered(u, n) \/ PromoteGuest(u, n)
    BY <1>3 DEF Claims
  <2>2. /\ \A v \in Users : Registered(v) => users[v].username # n
        /\ \A v \in Users \ {u} : users'[v] = users[v]
        /\ u \in Users => users'[u].username = n
    BY <2>1 DEF CreateRegistered, PromoteGuest, UsernameTaken, TypeOK, UsersTypeOK
  <2> QED BY <2>2 DEF RegisteredUsernameUnique, Registered
<1> QED BY <1>1, <1>2, <1>3, QuietOrNot

------------------------------------------------------------------------------
(* Ceremonies.                                                               *)

\* A ceremony is held by at most one request, and by none once a credential
\* came out of it.
LEMMA CeremonyNext == TypeOK /\ LockInv /\ CeremonyInv /\ [Next]_vars => CeremonyInv'
<1> SUFFICES ASSUME TypeOK, LockInv, CeremonyInv, [Next]_vars PROVE CeremonyInv'
  OBVIOUS
<1> USE DEF CeremonyInv, CeremonyIsOneShot, Completing, Exists
<1>t. \A r \in Requests : req[r].sid # Nil => req[r].sid \in SessionIDs
  BY DEF TypeOK, RequestsTypeOK, RequestState, Opt
<1>1. CASE Quiet
  BY <1>1, <1>t DEF Quiet, QuietChallenges, QuietCredentials, QuietRequests
<1>2. CASE \E r \in Requests : Takes(r)
  <2>1. PICK r \in Requests : Takes(r)
    BY <1>2
  <2>2. PICK s \in SessionIDs : /\ Take(s)
                                /\ req'[r].sid = s
                                /\ \A q \in Requests \ {r} : req'[q] = req[q]
                                /\ UNCHANGED credentials
    BY <2>1 DEF Takes
  <2>3. /\ challenges[s].status = "stored" /\ challenges'[s].status = "gone"
        /\ \A z \in SessionIDs : challenges[z].status = "gone" => challenges'[z].status = "gone"
    BY <2>2 DEF Take, TypeOK, RedisTypeOK, ChallengeKey
  <2>4. /\ \A q \in Requests : req[q].sid # s
        /\ \A c \in Rows : Exists(c) => credentials[c].handle # s
    BY <2>3, NilAssumption, <1>t
  <2> QED BY <2>2, <2>3, <2>4, <1>t
<1>3. CASE \E r \in Requests : Claims(r)
  <2>1. PICK r \in Requests : Claims(r)
    BY <1>3
  <2>2. /\ UNCHANGED <<credentials, challenges>>
        /\ \A q \in Requests : req'[q].sid = req[q].sid
        /\ \A q \in Requests : req'[q].pc \in CompletingPcs => req[q].pc \in CompletingPcs
    BY <2>1 DEF Claims
  <2> QED BY <2>2
<1>4. CASE \E r \in Requests : Adds(r)
  <2>1. PICK r \in Requests : Adds(r)
    BY <1>4
  <2>2. PICK c \in Rows : Insert(c, req[r].user, req[r].key, req[r].sid, req[r].count)
    BY <2>1 DEF Adds, InsertCredential
  <2>3. /\ ~Exists(c)
        /\ credentials'[c].handle = req[r].sid
        /\ \A d \in Rows \ {c} : credentials'[d] = credentials[d]
    BY <2>2 DEF Insert, TypeOK, CredentialsTypeOK
  <2>4. /\ Completing(r)
        /\ UNCHANGED challenges
        /\ req'[r].pc \notin CompletingPcs
        /\ req'[r].sid \in {req[r].sid, Nil}
        /\ \A q \in Requests \ {r} : req'[q] = req[q]
    BY <2>1 DEF Adds, CompletingPcs, InsertingPcs
  <2>5. req[r].sid \in SessionIDs /\ req[r].sid # Nil
    BY <2>4, NilAssumption
  <2> QED BY <2>3, <2>4, <2>5
<1> QED BY <1>1, <1>2, <1>3, <1>4, QuietOrNot

------------------------------------------------------------------------------
(* Guests.                                                                   *)

\* What a step must leave alone for GuestInv: it moves no request to a point
\* that works on a guest ...
GuestFree == \A r \in Requests : req'[r].pc \in GuestPcs => req'[r] = req[r]

\* ... and stores no promote ceremony.
PayloadsKept ==
    \A s \in SessionIDs : \/ challenges'[s].payload = challenges[s].payload
                          \/ challenges'[s].payload.kind # "promote"

\* The ways in which a slot changes that are GuestFree.
LEMMA GuestFreeSlot ==
  ASSUME TypeOK, NEW r \in Requests
  PROVE  /\ Respond(r) => GuestFree
         /\ \A pc \in Pcs \ GuestPcs : Goto(r, pc) => GuestFree
         /\ \A x \in RequestState :
                x.pc \notin GuestPcs /\ req' = [req EXCEPT ![r] = x] => GuestFree
         /\ UNCHANGED req => GuestFree
<1>1. Respond(r) => GuestFree
  BY DEF TypeOK, RequestsTypeOK, Respond, GuestFree, Idle, GuestPcs
<1>2. \A pc \in Pcs \ GuestPcs : Goto(r, pc) => GuestFree
  BY DEF TypeOK, RequestsTypeOK, RequestState, Goto, GuestFree
<1>3. \A x \in RequestState :
          x.pc \notin GuestPcs /\ req' = [req EXCEPT ![r] = x] => GuestFree
  BY DEF TypeOK, RequestsTypeOK, GuestFree
<1> QED BY <1>1, <1>2, <1>3 DEF GuestFree

\* A step that frees no guest, keeps the payloads and leaves the guest tokens
\* with users preserves GuestInv.
LEMMA GuestFrame ==
  ASSUME TypeOK, GuestInv, GuestFree, PayloadsKept,
         \A g \in GuestTokens : guests'[g].user = guests[g].user
                                /\ (guests'[g].status = "unissued" <=> guests[g].status = "unissued")
  PROVE  GuestInv'
  BY DEF GuestInv, GuestFree, PayloadsKept

\* Redis commands that do so.
LEMMA PayloadSteps ==
  ASSUME TypeOK
  PROVE  /\ UNCHANGED challenges => PayloadsKept
         /\ \A s \in SessionIDs : Take(s) => PayloadsKept
         /\ \A s \in SessionIDs : \A n, u :
                ChallengeSave(s, [kind |-> "register", username |-> n, promoteUser |-> u])
                    => PayloadsKept
         /\ \A s \in SessionIDs : ChallengeSave(s, NoPayload) => PayloadsKept
         /\ \A g : GuestDelete(g) =>
                \A x \in GuestTokens :
                    /\ guests'[x].user = guests[x].user
                    /\ guests'[x].status = "unissued" <=> guests[x].status = "unissued"
<1> USE DEF TypeOK, RedisTypeOK, PayloadsKept
<1>1. \A s \in SessionIDs : Take(s) => PayloadsKept
  BY DEF ChallengeKey, Take
<1>2. \A s \in SessionIDs : \A n, u :
          ChallengeSave(s, [kind |-> "register", username |-> n, promoteUser |-> u])
              => PayloadsKept
  BY DEF ChallengeKey, ChallengeSave
<1>3. \A s \in SessionIDs : ChallengeSave(s, NoPayload) => PayloadsKept
  BY DEF ChallengeKey, ChallengeSave, NoPayload
<1>4. \A g : GuestDelete(g) =>
          \A x \in GuestTokens :
              /\ guests'[x].user = guests[x].user
              /\ guests'[x].status = "unissued" <=> guests[x].status = "unissued"
  BY DEF TokenKey, GuestDelete
<1> QED BY <1>1, <1>2, <1>3, <1>4

\* Arrivals: the two that start to work on a guest got it from a guest token
\* and from a promote ceremony.
LEMMA GuestArrive ==
  ASSUME TypeOK, GuestInv, NEW r \in Requests, Arrive(r)
  PROVE  GuestInv'
<1> USE PcType, IdleType, GuestFrame, PayloadSteps DEF postgres, redis
<1>c. {"reg_save", "reg_create", "login_resolve", "guest_get", "guest_create", "del_list"}
          \cap GuestPcs = {}
  BY DEF GuestPcs
<1>s. ASSUME NEW x \in RequestState, x.pc \notin GuestPcs, req' = [req EXCEPT ![r] = x]
      PROVE  GuestFree
  BY <1>s, GuestFreeSlot
<1>u. UNCHANGED req => GuestFree
  BY GuestFreeSlot
<1>n. ASSUME NEW x \in RequestState, x.user \in Users, req' = [req EXCEPT ![r] = x],
             PayloadsKept, UNCHANGED guests
      PROVE  GuestInv'
  BY <1>n DEF GuestInv, PayloadsKept, TypeOK, RequestsTypeOK
<1>1. CASE \E n \in Names : BeginRegister(r, n)
  <2>1. PICK n \in Names : BeginRegister(r, n)
    BY <1>1
  <2> DEFINE x == [Idle EXCEPT !.pc = "reg_save", !.name = n]
  <2>2. x \in RequestState /\ x.pc \notin GuestPcs
    BY <1>c DEF RequestState, Opt
  <2> QED BY <2>1, <2>2, <1>s DEF BeginRegister
<1>2. CASE \E s \in SessionIDs, k \in CredentialIDs, n \in SignCounts :
              CompleteRegister(r, s, k, n)
  <2>1. PICK s \in SessionIDs, k \in CredentialIDs, n \in SignCounts :
              CompleteRegister(r, s, k, n)
    BY <1>2
  <2> DEFINE x == [Idle EXCEPT !.pc = "reg_create", !.sid = s, !.key = k, !.count = n,
                               !.name = challenges[s].payload.username]
  <2>2. x \in RequestState /\ x.pc \notin GuestPcs
    BY <1>c, RedisType DEF RequestState, Opt, Payload, TypeOK
  <2>3. GuestFree
    BY <2>1, <2>2, <1>s, <1>u DEF CompleteRegister
  <2> QED BY <2>1, <2>3 DEF CompleteRegister
<1>3. CASE \E s \in SessionIDs, k \in CredentialIDs, n \in SignCounts, g \in Opt(IssuedGuests) :
              CompleteLogin(r, s, k, n, g)
  <2>1. PICK s \in SessionIDs, k \in CredentialIDs, n \in SignCounts, g \in Opt(IssuedGuests) :
              CompleteLogin(r, s, k, n, g)
    BY <1>3
  <2> DEFINE x == [Idle EXCEPT !.pc = "login_resolve", !.sid = s, !.key = k, !.count = n,
                               !.guest = g]
  <2>2. x \in RequestState /\ x.pc \notin GuestPcs
    BY <1>c DEF RequestState, Opt, IssuedGuests
  <2>3. GuestFree
    BY <2>1, <2>2, <1>s, <1>u DEF CompleteLogin
  <2> QED BY <2>1, <2>3 DEF CompleteLogin
<1>4. CASE \E g \in Opt(IssuedGuests) : Guest(r, g)
  <2>1. PICK g \in Opt(IssuedGuests) : Guest(r, g)
    BY <1>4
  <2> DEFINE x == [Idle EXCEPT !.pc = "guest_create"]
             y == [Idle EXCEPT !.pc = "guest_get", !.user = guests[g].user]
  <2>2. x \in RequestState /\ x.pc \notin GuestPcs
    BY <1>c DEF RequestState
  <2>3. g # Nil => y \in RequestState /\ y.pc \notin GuestPcs
    BY <1>c DEF RequestState, IssuedGuests, Opt, TypeOK, RedisTypeOK, TokenKey
  <2>4. GuestFree
    BY <2>1, <2>2, <2>3, <1>s DEF Guest
  <2> QED BY <2>1, <2>4 DEF Guest
<1>5. CASE \E g \in IssuedGuests, n \in Names : BeginPromote(r, g, n)
  <2>1. PICK g \in IssuedGuests, n \in Names : BeginPromote(r, g, n)
    BY <1>5
  <2> DEFINE x == [Idle EXCEPT !.pc = "prom_get", !.name = n, !.user = guests[g].user]
  <2>2. guests[g].user \in Users
    BY DEF IssuedGuests, GuestInv
  <2>3. x \in RequestState /\ x.user \in Users
    BY <2>2 DEF RequestState, Opt
  <2>4. req' = [req EXCEPT ![r] = x] /\ UNCHANGED <<challenges, guests>>
    BY <2>1 DEF BeginPromote
  <2> HIDE DEF x
  <2> QED BY <2>3, <2>4, <1>n
<1>6. CASE \E s \in SessionIDs, k \in CredentialIDs, n \in SignCounts, g \in Opt(IssuedGuests) :
              CompletePromote(r, s, k, n, g)
  <2>1. PICK s \in SessionIDs, k \in CredentialIDs, n \in SignCounts, g \in Opt(IssuedGuests) :
              CompletePromote(r, s, k, n, g)
    BY <1>6
  <2>2. PayloadsKept /\ UNCHANGED guests
    BY <2>1 DEF CompletePromote
  <2>3. CASE UNCHANGED req
    BY <2>2, <2>3, <1>u
  <2>4. CASE ~UNCHANGED req
    <3> DEFINE x == [Idle EXCEPT !.pc = "prom_promote", !.sid = s, !.key = k, !.count = n,
                                 !.guest = g, !.name = challenges[s].payload.username,
                                 !.user = challenges[s].payload.promoteUser]
    <3>1. req' = [req EXCEPT ![r] = x] /\ challenges[s].payload.kind = "promote"
      BY <2>1, <2>4 DEF CompletePromote, AcceptsPromotion
    <3>2. challenges[s].payload.promoteUser \in Users
      BY <3>1 DEF GuestInv
    <3>3. x \in RequestState /\ x.user \in Users
      BY <3>2, RedisType DEF RequestState, Opt, Payload, TypeOK, IssuedGuests
    <3> HIDE DEF x
    <3> QED BY <2>2, <3>1, <3>3, <1>n
  <2> QED BY <2>3, <2>4
<1>7. CASE \E t \in IssuedSessions, c \in Rows : DeleteCredential(r, t, c)
  <2>1. PICK t \in IssuedSessions, c \in Rows : DeleteCredential(r, t, c)
    BY <1>7
  <2> DEFINE x == [Idle EXCEPT !.pc = "del_list", !.user = sessions[t].user, !.row = c]
  <2>2. x \in RequestState /\ x.pc \notin GuestPcs
    BY <1>c DEF RequestState, IssuedSessions, Opt, TypeOK, RedisTypeOK, TokenKey
  <2> QED BY <2>1, <2>2, <1>s DEF DeleteCredential
<1> QED BY <1>1, <1>2, <1>3, <1>4, <1>5, <1>6, <1>7 DEF Arrive

\* Steps of requests in flight.
LEMMA GuestStepInv ==
  ASSUME TypeOK, GuestInv, NEW r \in Requests, Step(r) \/ Fail(r)
  PROVE  GuestInv'
<1> USE GuestFrame, PayloadSteps DEF postgres, redis
<1>c. {"reg_insert", "login_update", "login_session", "drop_guest", "guest_create",
       "prom_insert", "prom_session", "del_soft"} \subseteq Pcs \ GuestPcs
  BY DEF Pcs, GuestPcs
<1>r. Respond(r) => GuestFree
  BY GuestFreeSlot
<1>g. \A pc \in Pcs \ GuestPcs : Goto(r, pc) => GuestFree
  BY GuestFreeSlot
<1>o. ASSUME req'[r].pc \notin GuestPcs, \A q \in Requests \ {r} : req'[q] = req[q]
      PROVE  GuestFree
  BY <1>o DEF GuestFree
<1>1. CASE RegisterStep(r)
  <2>1. CASE BeginRegisterSave(r)
    <3>1. GuestFree /\ PayloadsKept
      BY <2>1, <1>r DEF BeginRegisterSave
    <3> QED BY <2>1, <3>1 DEF BeginRegisterSave
  <2>2. CASE CompleteRegisterCreate(r)
    <3>1. req'[r].pc = "reg_insert" /\ \A q \in Requests \ {r} : req'[q] = req[q]
      BY <2>2 DEF CompleteRegisterCreate, TypeOK, RequestsTypeOK, RequestState
    <3> QED BY <2>2, <3>1, <1>c, <1>o DEF CompleteRegisterCreate
  <2>3. CASE CompleteRegisterTaken(r) \/ CompleteRegisterExists(r) \/ CompleteRegisterInsert(r)
    BY <2>3, <1>r DEF CompleteRegisterTaken, CompleteRegisterExists, CompleteRegisterInsert
  <2> QED BY <1>1, <2>1, <2>2, <2>3 DEF RegisterStep
<1>2. CASE LoginStep(r)
  <2>1. CASE CompleteLoginResolve(r)
    <3>1. CASE Respond(r)
      BY <2>1, <3>1, <1>r DEF CompleteLoginResolve
    <3>2. CASE ~Respond(r)
      <4>1. PICK c \in Rows : \E n \in LibSignCounts(credentials[c].sign_count, req[r].count) :
                req' = [req EXCEPT ![r].pc = "login_update", ![r].row = c,
                                   ![r].user = credentials[c].user, ![r].count = n]
        BY <2>1, <3>2 DEF CompleteLoginResolve
      <4>2. req'[r].pc = "login_update" /\ \A q \in Requests \ {r} : req'[q] = req[q]
        BY <4>1 DEF TypeOK, RequestsTypeOK, RequestState
      <4> QED BY <2>1, <4>2, <1>c, <1>o DEF CompleteLoginResolve
    <3> QED BY <3>1, <3>2
  <2>2. CASE CompleteLoginUpdate(r) \/ CompleteLoginGone(r)
    BY <2>2, <1>c, <1>g, <1>r DEF CompleteLoginUpdate, CompleteLoginGone
  <2>3. CASE CompleteLoginSession(r)
    BY <2>3, <1>c, <1>g, <1>r DEF CompleteLoginSession, IssueSession
  <2>4. CASE DropGuest(r)
    BY <2>4, <1>r DEF DropGuest
  <2> QED BY <1>2, <2>1, <2>2, <2>3, <2>4 DEF LoginStep
<1>3. CASE GuestStep(r)
  <2>1. CASE GuestGet(r)
    <3> DEFINE x == [Idle EXCEPT !.pc = "guest_create"]
    <3>1. x \in RequestState /\ x.pc \notin GuestPcs
      BY IdleType, <1>c DEF RequestState
    <3>2. GuestFree
      BY <2>1, <3>1, <1>r, GuestFreeSlot DEF GuestGet
    <3> QED BY <2>1, <3>2 DEF GuestGet
  <2>2. CASE GuestCreateUser(r)
    <3>1. req'[r].user \in Users /\ \A q \in Requests \ {r} : req'[q] = req[q]
      BY <2>2 DEF GuestCreateUser, TypeOK, RequestsTypeOK, RequestState
    <3> QED BY <2>2, <3>1 DEF GuestCreateUser, GuestInv
  <2>3. CASE GuestMintToken(r)
    <3>1. PICK g \in GuestTokens : GuestCreate(g, req[r].user)
      BY <2>3 DEF GuestMintToken
    <3>2. req[r].user \in Users
      BY <2>3 DEF GuestMintToken, At, GuestInv, GuestPcs
    <3>3. /\ guests'[g].user = req[r].user
          /\ \A x \in GuestTokens \ {g} : guests'[x] = guests[x]
      BY <3>1 DEF GuestCreate, TypeOK, RedisTypeOK
    <3>4. GuestFree /\ UNCHANGED challenges
      BY <2>3, <1>r DEF GuestMintToken
    <3> QED BY <3>2, <3>3, <3>4 DEF GuestInv, GuestFree
  <2> QED BY <1>3, <2>1, <2>2, <2>3 DEF GuestStep
<1>4. CASE PromoteStep(r)
  <2>1. CASE BeginPromoteGet(r)
    <3>1. CASE Respond(r)
      BY <2>1, <3>1, <1>r DEF BeginPromoteGet
    <3>2. CASE ~Respond(r)
      <4>1. req[r].user \in Users /\ UNCHANGED <<challenges, guests>>
        BY <2>1 DEF BeginPromoteGet, At, GuestInv, GuestPcs
      <4>2. req'[r].user = req[r].user /\ \A q \in Requests \ {r} : req'[q] = req[q]
        BY <2>1, <3>2 DEF BeginPromoteGet, Goto, TypeOK, RequestsTypeOK, RequestState
      <4> QED BY <4>1, <4>2 DEF GuestInv
    <3> QED BY <3>1, <3>2
  <2>2. CASE BeginPromoteSave(r)
    <3>1. PICK s \in SessionIDs :
              ChallengeSave(s, [kind |-> "promote", username |-> req[r].name,
                                promoteUser |-> req[r].user])
      BY <2>2 DEF BeginPromoteSave
    <3>2. req[r].user \in Users
      BY <2>2 DEF BeginPromoteSave, At, GuestInv, GuestPcs
    <3>3. /\ challenges'[s].payload.promoteUser = req[r].user
          /\ \A x \in SessionIDs \ {s} : challenges'[x] = challenges[x]
      BY <3>1 DEF ChallengeSave, TypeOK, RedisTypeOK
    <3>4. GuestFree /\ UNCHANGED guests
      BY <2>2, <1>r DEF BeginPromoteSave
    <3> QED BY <3>2, <3>3, <3>4 DEF GuestInv, GuestFree
  <2>3. CASE CompletePromotePromote(r) \/ CompletePromoteInsert(r)
    BY <2>3, <1>c, <1>g DEF CompletePromotePromote, CompletePromoteInsert
  <2>4. CASE CompletePromoteRefused(r) \/ CompletePromoteExists(r)
    BY <2>4, <1>r DEF CompletePromoteRefused, CompletePromoteExists
  <2>5. CASE CompletePromoteSession(r)
    BY <2>5, <1>c, <1>g, <1>r DEF CompletePromoteSession, IssueSession
  <2> QED BY <1>4, <2>1, <2>2, <2>3, <2>4, <2>5 DEF PromoteStep
<1>5. CASE DeleteStep(r)
  <2>1. CASE DeleteCredentialOwned(r)
    BY <2>1, <1>c, <1>g DEF DeleteCredentialOwned
  <2>2. CASE DeleteCredentialNotOwned(r) \/ DeleteCredentialEnd(r)
    BY <2>2, <1>r DEF DeleteCredentialNotOwned, DeleteCredentialEnd
  <2>3. CASE DeleteCredentialStep(r)
    BY <2>3, GuestFreeSlot DEF DeleteCredentialStep
  <2> QED BY <1>5, <2>1, <2>2, <2>3 DEF DeleteStep
<1>6. CASE Exhausted(r) \/ Fail(r)
  BY <1>6, <1>r DEF Exhausted, Fail
<1> QED BY <1>1, <1>2, <1>3, <1>4, <1>5, <1>6 DEF Step

\* A guest a request works on stays known to the user store.
LEMMA GuestNext == TypeOK /\ GuestInv /\ [Next]_vars => GuestInv'
<1> SUFFICES ASSUME TypeOK, GuestInv, [Next]_vars PROVE GuestInv'
  OBVIOUS
<1> USE GuestFrame, PayloadSteps DEF postgres, redis
<1>1. CASE \E r \in Requests : Arrive(r) \/ Step(r) \/ Fail(r)
  BY <1>1, GuestArrive, GuestStepInv
<1>2. CASE BeginLogin
  <2>1. GuestFree /\ PayloadsKept
    BY <1>2 DEF BeginLogin, GuestFree
  <2> QED BY <1>2, <2>1 DEF BeginLogin
<1>3. CASE \E t \in IssuedSessions : Logout(t)
  BY <1>3 DEF Logout, GuestFree
<1>4. CASE ExpireKey
  <2>1. GuestFree /\ PayloadsKept
    BY <1>4 DEF ExpireKey, Expire, GuestFree
  <2> QED BY <1>4, <2>1 DEF ExpireKey, Expire
<1>5. CASE UNCHANGED vars
  BY <1>5 DEF vars, GuestFree
<1> QED BY <1>1, <1>2, <1>3, <1>4, <1>5 DEF Next

------------------------------------------------------------------------------
(* Accounts.                                                                 *)

\* An account is equipped by the one request that made or promoted it.
LEMMA AccountNext ==
  TypeOK /\ LockInv /\ GuestInv /\ AccountInv /\ [Next]_vars => AccountInv'
<1> SUFFICES ASSUME TypeOK, LockInv, GuestInv, AccountInv, [Next]_vars PROVE AccountInv'
  OBVIOUS
<1> USE DEF AccountInv, OnePasskeyPerAccount, Inserting, Exists, Registered
<1>1. CASE Quiet
  <2>1. \A r \in Requests : Inserting(r)' => Inserting(r) /\ req'[r] = req[r]
    BY <1>1 DEF Quiet, QuietRequests, InsertingPcs, CompletingPcs
  <2>2. \A u \in Users : Registered(u) => Registered(u)'
    BY <1>1 DEF Quiet, QuietUsers
  <2> QED BY <1>1, <2>1, <2>2 DEF Quiet, QuietCredentials
<1>2. CASE \E r \in Requests : Takes(r)
  <2>1. PICK r \in Requests : Takes(r)
    BY <1>2
  <2>2. /\ UNCHANGED <<users, credentials>>
        /\ \A q \in Requests : Inserting(q)' => req'[q] = req[q]
    BY <2>1 DEF Takes
  <2> QED BY <2>2
<1>3. CASE \E r \in Requests : Claims(r)
  <2>1. PICK r \in Requests : Claims(r)
    BY <1>3
  <2>2. PICK u : u = req'[r].user
    OBVIOUS
  <2>3. u \in Users /\ (CreateRegistered(u, req[r].name) \/ PromoteGuest(u, req[r].name))
    BY <2>1, <2>2 DEF Claims, GuestInv, GuestPcs
  <2>4. /\ ~Registered(u)
        /\ users'[u].status \in {"registered", "promoted"}
        /\ \A v \in Users \ {u} : users'[v] = users[v]
    BY <2>3 DEF CreateRegistered, PromoteGuest, IsGuest, TypeOK, UsersTypeOK
  <2>5. /\ UNCHANGED credentials
        /\ \A q \in Requests \ {r} : req'[q] = req[q]
    BY <2>1 DEF Claims
  <2>6. /\ \A q \in Requests \ {r} : Inserting(q) => req[q].user # u
        /\ \A c \in Rows : Exists(c) => credentials[c].user # u
    BY <2>4
  <2>7. \A v \in Users : Registered(v) => Registered(v)'
    BY <2>4
  <2> QED BY <2>2, <2>3, <2>4, <2>5, <2>6, <2>7
<1>4. CASE \E r \in Requests : Adds(r)
  <2>1. PICK r \in Requests : Adds(r)
    BY <1>4
  <2>2. PICK c \in Rows : Insert(c, req[r].user, req[r].key, req[r].sid, req[r].count)
    BY <2>1 DEF Adds, InsertCredential
  <2>3. /\ ~Exists(c)
        /\ credentials'[c].user = req[r].user
        /\ \A d \in Rows \ {c} : credentials'[d] = credentials[d]
    BY <2>2 DEF Insert, TypeOK, CredentialsTypeOK
  <2>4. /\ Inserting(r)
        /\ UNCHANGED users
        /\ req'[r].pc \notin InsertingPcs
        /\ \A q \in Requests \ {r} : req'[q] = req[q]
    BY <2>1 DEF Adds, CompletingPcs, InsertingPcs
  <2> QED BY <2>3, <2>4
<1> QED BY <1>1, <1>2, <1>3, <1>4, QuietOrNot

------------------------------------------------------------------------------
(* The theorems.                                                             *)

\* The empty server satisfies every invariant.
LEMMA InitInv ==
  Init => LockInv /\ RegisteredUsernameUnique /\ CeremonyInv /\ GuestInv /\ AccountInv
<1> SUFFICES ASSUME Init
             PROVE  LockInv /\ RegisteredUsernameUnique /\ CeremonyInv /\ GuestInv /\ AccountInv
  OBVIOUS
<1>1. \A r \in Requests : tx[r].phase = "none" /\ req[r].pc = "idle" /\ req[r].sid = Nil
  BY DEF Init, CredentialsInit, NoTx, RequestsInit, Idle
<1>2. \A c \in Rows : ~Exists(c)
  BY DEF Init, CredentialsInit, NoCredentialRow, Exists
<1>3. \A u \in Users : ~Registered(u)
  BY DEF Init, UsersInit, NoUserRow, Registered
<1>4. /\ \A g \in GuestTokens : guests[g].status = "unissued"
      /\ \A s \in SessionIDs : challenges[s].payload.kind = "login"
  BY DEF Init, RedisInit, NoPayload
<1>5. LockInv
  BY <1>1 DEF LockInv
<1>6. RegisteredUsernameUnique
  BY <1>3 DEF RegisteredUsernameUnique
<1>7. CeremonyInv
  BY <1>1, <1>2 DEF CeremonyInv, CeremonyIsOneShot, Completing, CompletingPcs, Exists
<1>8. GuestInv
  BY <1>1, <1>4 DEF GuestInv, GuestPcs
<1>9. AccountInv
  BY <1>1, <1>2 DEF AccountInv, OnePasskeyPerAccount, Inserting, InsertingPcs, Exists
<1> QED BY <1>5, <1>6, <1>7, <1>8, <1>9

\* Row locks are held on inserted rows only, in every behaviour.
LEMMA LockCorrect == Spec => []LockInv
  BY InitInv, LockNext, TypeCorrect, PTL DEF Spec

\* No two registered accounts ever share a username, however many registrations
\* and promotions race for it.
THEOREM UsernamesAreUnique == Spec => []RegisteredUsernameUnique
  BY InitInv, UsernameNext, TypeCorrect, LockCorrect, PTL DEF Spec

\* What requests know about their ceremonies holds in every behaviour.
LEMMA CeremonyCorrect == Spec => []CeremonyInv
  BY InitInv, CeremonyNext, TypeCorrect, LockCorrect, PTL DEF Spec

\* No ceremony ever serves two requests or yields two credentials, however often
\* and however concurrently its session id is presented.
THEOREM CeremoniesAreOneShot == Spec => []CeremonyIsOneShot
<1>1. CeremonyInv => CeremonyIsOneShot
  BY DEF CeremonyInv
<1> QED BY <1>1, CeremonyCorrect, PTL

\* The guests that requests, tokens and ceremonies name exist, in every behaviour.
LEMMA GuestCorrect == Spec => []GuestInv
  BY InitInv, GuestNext, TypeCorrect, PTL DEF Spec

\* So does what they know about the accounts they equip.
LEMMA AccountCorrect == Spec => []AccountInv
  BY InitInv, AccountNext, TypeCorrect, LockCorrect, GuestCorrect, PTL DEF Spec

\* No account ever gets a second credential, so through the service's routes
\* the last-credential guard refuses every DELETE.
THEOREM AccountsHaveOnePasskey == Spec => []OnePasskeyPerAccount
<1>1. AccountInv => OnePasskeyPerAccount
  BY DEF AccountInv
<1> QED BY <1>1, AccountCorrect, PTL
=============================================================================
