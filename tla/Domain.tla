------------------------------- MODULE Domain -------------------------------
(***************************************************************************)
(* The identifiers and row types shared by every store and handler: the    *)
(* domain package (User, Credential) as the two tables of                  *)
(* 000001_init.up.sql hold it.                                             *)
(*                                                                         *)
(* Random identifiers (UUIDs, session ids, tokens) are drawn without       *)
(* replacement from the finite sets below, so each set is also the bound   *)
(* on how many of that kind a behaviour may create.                        *)
(***************************************************************************)
EXTENDS Naturals, FiniteSets

CONSTANTS
    Users,           \* users.id: bound on user rows ever created
    Names,           \* usernames a client may ask for
    Rows,            \* credentials.id: bound on credential rows ever created
    CredentialIDs,   \* WebAuthn credential ids, one per authenticator key pair
    SessionIDs,      \* challenge keys: bound on ceremonies ever begun
    SessionTokens,   \* session tokens: bound on log-ins
    GuestTokens,     \* guest tokens: bound on guests that got their cookie
    Requests,        \* request slots: bound on requests in flight at once
    MaxSignCount,    \* bound on the authenticator's 32-bit sign counter
    Nil              \* "no value"

ASSUME NilAssumption ==
    Nil \notin Users \cup Names \cup Rows \cup CredentialIDs \cup SessionIDs
               \cup SessionTokens \cup GuestTokens

ASSUME SignCountAssumption == MaxSignCount \in Nat

Opt(S) == S \cup {Nil}

SignCounts == 0 .. MaxSignCount

\* A row of users. "absent" is an id nobody has drawn yet; "guest" is
\* is_guest = TRUE; "registered" and "promoted" are is_guest = FALSE with
\* promoted_at NULL and set. A guest's placeholder name is left out (Nil): no
\* query looks at it.
UserRow ==
    [status   : {"absent", "guest", "registered", "promoted"},
     username : Opt(Names)]

NoUserRow == [status |-> "absent", username |-> Nil]

\* A row of credentials. "live" is deleted_at NULL, "deleted" is deleted_at
\* set. credential_id stands for the key pair (credential id and public key).
\* handle is webauthn_user_handle: BeginRegistration draws it together with
\* the session id of the ceremony, so the session id names it.
CredentialRow ==
    [status        : {"absent", "live", "deleted"},
     user          : Opt(Users),
     credential_id : Opt(CredentialIDs),
     handle        : Opt(SessionIDs),
     sign_count    : SignCounts,
     name          : Opt(Names)]

NoCredentialRow ==
    [status |-> "absent", user |-> Nil, credential_id |-> Nil,
     handle |-> Nil, sign_count |-> 0, name |-> Nil]
=============================================================================
