---------------------------- MODULE HandlerState ----------------------------
(***************************************************************************)
(* What a request in flight remembers. net/http runs every request in a    *)
(* goroutine of its own, so a handler is interleaved with the others       *)
(* between any two of its store calls; req[r] holds where request slot r   *)
(* stands (the next store call) and the local variables it needs later.    *)
(*                                                                         *)
(* A handler's first store call is part of the action that starts it, each *)
(* later call is an action of its own, and the local work between two      *)
(* calls goes with the first of them. A request that is refused before it  *)
(* changed anything leaves no trace, so such refusals are not actions.     *)
(***************************************************************************)
EXTENDS UserStore, CredentialStore, RedisStores

VARIABLE req

postgres == <<users, credentials, tx>>
redis == <<challenges, sessions, guests>>

Pcs ==
    {"idle",
     "reg_save", "reg_create", "reg_insert",
     "login_resolve", "login_update", "login_session",
     "guest_get", "guest_create", "guest_token",
     "prom_get", "prom_save", "prom_promote", "prom_insert", "prom_session",
     "drop_guest",
     "del_list", "del_soft"}

RequestState ==
    [pc    : Pcs,
     name  : Opt(Names),           \* the chosen username
     sid   : Opt(SessionIDs),      \* the ceremony that was taken
     key   : Opt(CredentialIDs),   \* the credential the client presented
     count : SignCounts,           \* its sign counter
     user  : Opt(Users),
     row   : Opt(Rows),            \* the credential row resolved or named
     guest : Opt(GuestTokens)]     \* the guest cookie

Idle ==
    [pc |-> "idle", name |-> Nil, sid |-> Nil, key |-> Nil, count |-> 0,
     user |-> Nil, row |-> Nil, guest |-> Nil]

RequestsTypeOK == req \in [Requests -> RequestState]

RequestsInit == req = [r \in Requests |-> Idle]

At(r, pc) == req[r].pc = pc

Goto(r, pc) == req' = [req EXCEPT ![r].pc = pc]

\* The handler writes its response and returns.
Respond(r) == req' = [req EXCEPT ![r] = Idle]

\* A store call fails, the request's context is cancelled (client gone,
\* 30-second timeout) or the process dies: the request ends where it is, and
\* a transaction it has open is rolled back. A call that took effect but whose
\* answer was lost is that call followed by this step.
Fail(r) ==
    /\ ~At(r, "idle")
    /\ Respond(r)
    /\ tx' = [tx EXCEPT ![r] = NoTx]
    /\ UNCHANGED <<users, credentials, redis>>

\* What Fail does when the bound on an identifier is reached: newSessionID,
\* newToken or an INSERT reports an error. Only the bounds make this certain.
Exhausted(r) ==
    /\ \/ /\ req[r].pc \in {"reg_save", "prom_save"}
          /\ \A s \in SessionIDs : challenges[s].status # "unissued"
       \/ /\ req[r].pc \in {"reg_create", "guest_create"}
          /\ \A u \in Users : users[u].status # "absent"
       \/ /\ req[r].pc \in {"reg_insert", "prom_insert"}
          /\ \A c \in Rows : credentials[c].status # "absent"
       \/ /\ req[r].pc \in {"login_session", "prom_session"}
          /\ \A t \in SessionTokens : sessions[t].status # "unissued"
       \/ /\ req[r].pc = "guest_token"
          /\ \A g \in GuestTokens : guests[g].status # "unissued"
    /\ Respond(r)
    /\ UNCHANGED <<postgres, redis>>
=============================================================================
