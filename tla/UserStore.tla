------------------------------ MODULE UserStore ------------------------------
(***************************************************************************)
(* internal/store/postgres/user.go: the users table. Every method is one   *)
(* autocommitted SQL statement, so one atomic step. Rows are never         *)
(* deleted: no method does it.                                             *)
(***************************************************************************)
EXTENDS Domain

VARIABLE users

UsersTypeOK == users \in [Users -> UserRow]

UsersInit == users = [u \in Users |-> NoUserRow]

Registered(u) == users[u].status \in {"registered", "promoted"}

IsGuest(u) == users[u].status = "guest"

\* What GetByUsername finds, and what the partial unique index
\* users_username_unique_registered (WHERE is_guest = FALSE) rejects.
UsernameTaken(n) == \E u \in Users : Registered(u) /\ users[u].username = n

CreateGuest(u) ==
    /\ users[u].status = "absent"
    /\ users' = [users EXCEPT ![u] = [status |-> "guest", username |-> Nil]]

\* A registration that forgets the unique index.
CreateRegisteredUnchecked(u, n) ==
    /\ users[u].status = "absent"
    /\ users' = [users EXCEPT ![u] = [status |-> "registered", username |-> n]]

CreateRegistered(u, n) ==
    /\ users[u].status = "absent"
    /\ ~UsernameTaken(n)
    /\ users' = [users EXCEPT ![u] = [status |-> "registered", username |-> n]]

\* A promotion without the WHERE ... AND is_guest = TRUE.
PromoteAnyRow(u, n) ==
    /\ users[u].status # "absent"
    /\ \A v \in Users \ {u} : ~(Registered(v) /\ users[v].username = n)
    /\ users' = [users EXCEPT ![u] = [status |-> "promoted", username |-> n]]

\* UPDATE ... WHERE id = u AND is_guest = TRUE; the same index applies.
PromoteGuest(u, n) ==
    /\ IsGuest(u)
    /\ ~UsernameTaken(n)
    /\ users' = [users EXCEPT ![u] = [status |-> "promoted", username |-> n]]
=============================================================================
