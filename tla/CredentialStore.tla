--------------------------- MODULE CredentialStore ---------------------------
(***************************************************************************)
(* internal/store/postgres/credential.go: the credentials table. Insert,   *)
(* UpdateAfterAssertion and Rename are single autocommitted statements.    *)
(* SoftDelete is an explicit transaction of four statements at Postgres'   *)
(* default READ COMMITTED level; tx holds how far each caller's            *)
(* transaction is. Its SELECT ... FOR UPDATE locks one row, the row to be  *)
(* deleted, until commit or rollback; its uncommitted deleted_at is seen   *)
(* by nobody else.                                                         *)
(***************************************************************************)
EXTENDS Domain

VARIABLES
    credentials,   \* the committed rows
    tx             \* per request, its SoftDelete transaction

CredentialsTypeOK ==
    /\ credentials \in [Rows -> CredentialRow]
    /\ tx \in [Requests ->
                  [phase : {"none", "waiting", "locked", "counted", "updated"},
                   row   : Opt(Rows)]]

NoTx == [phase |-> "none", row |-> Nil]

CredentialsInit ==
    /\ credentials = [c \in Rows |-> NoCredentialRow]
    /\ tx = [t \in Requests |-> NoTx]

Live(c) == credentials[c].status = "live"

Holds(t, c) ==
    /\ tx[t].phase \in {"locked", "counted", "updated"}
    /\ tx[t].row = c

\* An UPDATE waits for the transaction that holds the row, then re-reads it.
Unlocked(c) == \A t \in Requests : ~Holds(t, c)

\* ListByUserID.
LiveOf(u) == {c \in Rows : Live(c) /\ credentials[c].user = u}

LiveCount(u) == Cardinality(LiveOf(u))

\* The live row that collides with credential id k, if any: what
\* GetByCredentialID finds and credentials_credential_id_unique_live rejects.
CredentialIDTaken(k) == \E c \in Rows : Live(c) /\ credentials[c].credential_id = k

\* The unique-index check waits for a transaction that has already written
\* deleted_at on the colliding row, but not for one that only locked it.
InsertMustWait(k) ==
    \E t \in Requests : /\ tx[t].phase = "updated"
                        /\ credentials[tx[t].row].credential_id = k

\* An insert that forgets the unique index.
InsertUnchecked(c, u, k, h, n) ==
    /\ credentials[c].status = "absent"
    /\ credentials' = [credentials EXCEPT ![c] =
           [status |-> "live", user |-> u, credential_id |-> k, handle |-> h,
            sign_count |-> n, name |-> Nil]]

Insert(c, u, k, h, n) ==
    /\ credentials[c].status = "absent"
    /\ ~InsertMustWait(k)
    /\ ~CredentialIDTaken(k)
    /\ credentials' = [credentials EXCEPT ![c] =
           [status |-> "live", user |-> u, credential_id |-> k, handle |-> h,
            sign_count |-> n, name |-> Nil]]

\* An update by id that forgets AND deleted_at IS NULL.
UpdateAnyRow(c, n) ==
    /\ credentials[c].status # "absent"
    /\ Unlocked(c)
    /\ credentials' = [credentials EXCEPT ![c].sign_count = n]

\* An update that counts the assertion a second time.
UpdateCountsTwice(c, n) ==
    /\ Live(c)
    /\ Unlocked(c)
    /\ credentials' = [credentials EXCEPT ![c].sign_count = n + 1]

UpdateAfterAssertion(c, n) ==
    /\ Live(c)
    /\ Unlocked(c)
    /\ credentials' = [credentials EXCEPT ![c].sign_count = n]

Rename(c, label) ==
    /\ Live(c)
    /\ Unlocked(c)
    /\ credentials' = [credentials EXCEPT ![c].name = label]

------------------------------------------------------------------------------
(* SoftDelete, statement by statement, run by request t.                     *)

SoftDeleteBegin(t, c) ==
    /\ tx[t].phase = "none"
    /\ tx' = [tx EXCEPT ![t] = [phase |-> "waiting", row |-> c]]
    /\ UNCHANGED credentials

\* A row read without FOR UPDATE.
SoftDeleteReadUnlocked(t) ==
    /\ tx[t].phase = "waiting"
    /\ Live(tx[t].row)
    /\ tx' = [tx EXCEPT ![t].phase = "locked"]
    /\ UNCHANGED credentials

\* SELECT user_id ... WHERE id AND deleted_at IS NULL FOR UPDATE.
SoftDeleteLock(t) ==
    /\ tx[t].phase = "waiting"
    /\ Unlocked(tx[t].row)
    /\ Live(tx[t].row)
    /\ tx' = [tx EXCEPT ![t].phase = "locked"]
    /\ UNCHANGED credentials

\* The same statement finding no row: ErrCredentialNotFound, rolled back.
SoftDeleteNotFound(t) ==
    /\ tx[t].phase = "waiting"
    /\ Unlocked(tx[t].row)
    /\ ~Live(tx[t].row)
    /\ tx' = [tx EXCEPT ![t] = NoTx]
    /\ UNCHANGED credentials

\* SELECT COUNT(*), off by one.
SoftDeleteCountOffByOne(t) ==
    /\ tx[t].phase = "locked"
    /\ LiveCount(credentials[tx[t].row].user) >= 1
    /\ tx' = [tx EXCEPT ![t].phase = "counted"]
    /\ UNCHANGED credentials

\* SELECT COUNT(*) of the owner's live rows, more than one: go on.
SoftDeleteCount(t) ==
    /\ tx[t].phase = "locked"
    /\ LiveCount(credentials[tx[t].row].user) > 1
    /\ tx' = [tx EXCEPT ![t].phase = "counted"]
    /\ UNCHANGED credentials

\* ErrLastCredential returned without the deferred rollback.
SoftDeleteLastNoRollback(t) ==
    /\ tx[t].phase = "locked"
    /\ LiveCount(credentials[tx[t].row].user) <= 1
    /\ UNCHANGED <<credentials, tx>>

\* liveCount <= 1: ErrLastCredential, rolled back.
SoftDeleteLast(t) ==
    /\ tx[t].phase = "locked"
    /\ LiveCount(credentials[tx[t].row].user) <= 1
    /\ tx' = [tx EXCEPT ![t] = NoTx]
    /\ UNCHANGED credentials

\* UPDATE credentials SET deleted_at = now(), not yet committed.
SoftDeleteUpdate(t) ==
    /\ tx[t].phase = "counted"
    /\ tx' = [tx EXCEPT ![t].phase = "updated"]
    /\ UNCHANGED credentials

SoftDeleteCommit(t) ==
    /\ tx[t].phase = "updated"
    /\ credentials' = [credentials EXCEPT ![tx[t].row].status = "deleted"]
    /\ tx' = [tx EXCEPT ![t] = NoTx]

\* The deferred tx.Rollback after a failed statement or a dropped connection.
SoftDeleteRollback(t) ==
    /\ tx[t].phase # "none"
    /\ tx' = [tx EXCEPT ![t] = NoTx]
    /\ UNCHANGED credentials

\* The statements that end a transaction without a fault...
SoftDeleteEnd(t) ==
    \/ SoftDeleteNotFound(t)
    \/ SoftDeleteLast(t)
    \/ SoftDeleteCommit(t)

\* ... and those after which it goes on.
SoftDeleteGoOn(t) ==
    \/ SoftDeleteLock(t)
    \/ SoftDeleteCount(t)
    \/ SoftDeleteUpdate(t)
=============================================================================
