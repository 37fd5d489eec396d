------------------------ MODULE CredentialStoreSpec ------------------------
(***************************************************************************)
(* The credential store on its own, as a library: callers insert, update,  *)
(* rename and soft-delete rows in any order and at the same time, and an   *)
(* account may own any number of credentials. This is the setting in which *)
(* the comments on SoftDelete make their promises.                         *)
(***************************************************************************)
EXTENDS CredentialStore

storeVars == <<credentials, tx>>

StoreInit == CredentialsInit

CallInsert ==
    \E c \in Rows, u \in Users, k \in CredentialIDs, h \in SessionIDs, n \in SignCounts :
        Insert(c, u, k, h, n) /\ UNCHANGED tx

CallUpdate ==
    \E c \in Rows, n \in SignCounts : UpdateAfterAssertion(c, n) /\ UNCHANGED tx

CallRename ==
    \E c \in Rows, label \in Names : Rename(c, label) /\ UNCHANGED tx

\* SoftDelete may be called with the id of any row ever inserted.
CallSoftDelete ==
    \E t \in Requests, c \in Rows :
        /\ credentials[c].status # "absent"
        /\ SoftDeleteBegin(t, c)

SoftDeleteStep(t) == SoftDeleteGoOn(t) \/ SoftDeleteEnd(t)

StoreNext ==
    \/ CallInsert
    \/ CallUpdate
    \/ CallRename
    \/ CallSoftDelete
    \/ \E t \in Requests : SoftDeleteStep(t)
    \/ \E t \in Requests : SoftDeleteRollback(t)

StoreSpec == StoreInit /\ [][StoreNext]_storeVars

\* A transaction that can run runs; a row lock is granted in arrival order,
\* so one that keeps becoming free is granted in the end (SF). Faults and new
\* calls need not happen.
StoreFairSpec == StoreSpec /\ \A t \in Requests : SF_storeVars(SoftDeleteStep(t))

------------------------------------------------------------------------------
\* No two live rows carry one credential id, although an insert may race a
\* transaction that is deleting the row it collides with (credential.go
\* Insert, index credentials_credential_id_unique_live).
LiveCredentialIdUnique ==
    \A c, d \in Rows :
        Live(c) /\ Live(d) /\ credentials[c].credential_id = credentials[d].credential_id
            => c = d

\* A row that a SoftDelete holds is live, and nobody else holds it: two
\* concurrent deletes of one credential cannot both count it and both commit
\* (SELECT ... FOR UPDATE, credential.go SoftDelete).
LockedRowIsLive ==
    \A t \in Requests, c \in Rows :
        Holds(t, c) => /\ Live(c)
                       /\ \A s \in Requests \ {t} : ~Holds(s, c)

\* Once a SoftDelete has committed, nothing writes its row again: not a log-in
\* that resolved the credential before the commit and updates it after
\* (UpdateAfterAssertion's AND deleted_at IS NULL), nor a rename, nor a second
\* delete that was called before and locks it after.
DeletedCredentialsStay ==
    [][\A c \in Rows : credentials[c].status = "deleted"
            => credentials'[c] = credentials[c]]_storeVars

\* No step takes away the last live credential of an account that had one:
\* "two concurrent deletes cannot both succeed" (credential.go SoftDelete).
LastCredentialGuard ==
    [][\A u \in Users : LiveOf(u) # {} => LiveOf(u)' # {}]_storeVars

\* Every SoftDelete that starts comes to an end: no row lock is held for ever
\* and no two deletes wait on each other.
SoftDeleteEnds ==
    \A t \in Requests : tx[t].phase # "none" ~> tx[t].phase = "none"
=============================================================================
