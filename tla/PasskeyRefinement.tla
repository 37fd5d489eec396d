------------------------- MODULE PasskeyRefinement -------------------------
(***************************************************************************)
(* The service implements AccountLifecycle: what an account is, read off   *)
(* the two tables, and a session off its Redis key.                        *)
(***************************************************************************)
EXTENDS PasskeyService

AccountOf(u) ==
    CASE users[u].status = "absent"             -> "none"
      [] IsGuest(u)                             -> "guest"
      [] Registered(u) /\ LiveOf(u) = {}        -> "claimed"
      [] Registered(u) /\ LiveOf(u) # {}        -> "active"

accountBar == [u \in Users |-> AccountOf(u)]

usernameBar == [u \in Users |-> users[u].username]

holderBar ==
    [t \in SessionTokens |->
        [user |-> sessions[t].user, open |-> sessions[t].status = "stored"]]

Lifecycle == INSTANCE AccountLifecycle WITH
    account <- accountBar, username <- usernameBar, holder <- holderBar

\* Whatever requests run at once, fail half-way or repeat, accounts only move
\* forward through their life cycle: no username changes hands, no account
\* loses its last passkey, no session is opened for one without a passkey.
ImplementsLifecycle == Lifecycle!LifecycleSpec
=============================================================================
