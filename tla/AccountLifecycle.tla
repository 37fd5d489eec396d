-------------------------- MODULE AccountLifecycle --------------------------
(***************************************************************************)
(* What the service promises about accounts, without requests, ceremonies  *)
(* or stores. An account is born a guest or claims a username at once; a   *)
(* guest may claim one later; a claimed account becomes active when it     *)
(* gets its passkey and stays active for good, under the same username.    *)
(* Only active accounts are logged in to.                                  *)
(***************************************************************************)
CONSTANTS Users, Names, SessionTokens, Nil

VARIABLES
    account,    \* the stage each account is in
    username,   \* the name it claimed
    holder      \* whom each session token was issued to, and whether it works

NewToken == [user |-> Nil, open |-> FALSE]

LifecycleInit ==
    /\ account = [u \in Users |-> "none"]
    /\ username = [u \in Users |-> Nil]
    /\ holder = [t \in SessionTokens |-> NewToken]

BecomeGuest(u) ==
    /\ account[u] = "none"
    /\ account' = [account EXCEPT ![u] = "guest"]
    /\ UNCHANGED <<username, holder>>

Claim(u, n) ==
    /\ account[u] \in {"none", "guest"}
    /\ \A v \in Users : username[v] # n
    /\ account' = [account EXCEPT ![u] = "claimed"]
    /\ username' = [username EXCEPT ![u] = n]
    /\ UNCHANGED holder

Activate(u) ==
    /\ account[u] = "claimed"
    /\ account' = [account EXCEPT ![u] = "active"]
    /\ UNCHANGED <<username, holder>>

LogIn(t, u) ==
    /\ holder[t] = NewToken
    /\ account[u] = "active"
    /\ holder' = [holder EXCEPT ![t] = [user |-> u, open |-> TRUE]]
    /\ UNCHANGED <<account, username>>

LogOut(t) ==
    /\ holder[t].open
    /\ holder' = [holder EXCEPT ![t].open = FALSE]
    /\ UNCHANGED <<account, username>>

LifecycleNext ==
    \/ \E u \in Users : BecomeGuest(u) \/ Activate(u)
    \/ \E u \in Users, n \in Names : Claim(u, n)
    \/ \E t \in SessionTokens, u \in Users : LogIn(t, u)
    \/ \E t \in SessionTokens : LogOut(t)

LifecycleSpec == LifecycleInit /\ [][LifecycleNext]_<<account, username, holder>>
=============================================================================
