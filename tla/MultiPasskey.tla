---------------------------- MODULE MultiPasskey ----------------------------
(***************************************************************************)
(* The service with accounts that own several passkeys. No route adds a    *)
(* second passkey yet, but the credential store, DELETE and the handler    *)
(* tests are written for such accounts; as the tests do, the environment   *)
(* inserts the further credentials through CredentialStore.Insert. Only    *)
(* here can a DELETE succeed, and race the log-ins of the same credential. *)
(***************************************************************************)
EXTENDS PasskeyService

\* handle stands for a ceremony of its own; it is not one of SessionIDs.
AddCredential ==
    /\ \E c \in Rows, u \in Users, k \in CredentialIDs :
           Registered(u) /\ LiveOf(u) # {} /\ Insert(c, u, k, Nil, 0)
    /\ UNCHANGED <<users, tx, redis, req>>

MultiNext == Next \/ AddCredential

MultiSpec == Init /\ [][MultiNext]_vars

\* A goroutine that can run runs, and a row lock is granted in arrival order
\* (strong fairness). No request has to arrive, no key to expire, nothing to
\* fail.
MultiFairSpec == MultiSpec /\ \A r \in Requests : SF_vars(Step(r))
=============================================================================
