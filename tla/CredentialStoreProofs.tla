------------------------ MODULE CredentialStoreProofs ------------------------
(***************************************************************************)
(* The credential store for any number of rows and of SoftDelete           *)
(* transactions: its types, the unique index and the row locks.            *)
(***************************************************************************)
EXTENDS CredentialStoreSpec, TLAPS

Phase == {"none", "waiting", "locked", "counted", "updated"}
Tx == [phase : Phase, row : Opt(Rows)]

\* A transaction under way works on a row. It is needed beside the two properties
\* for a commit to be known to write a row of the table.
TxHasRow == \A t \in Requests : tx[t].phase # "none" => tx[t].row \in Rows

StoreInv == CredentialsTypeOK /\ TxHasRow /\ LiveCredentialIdUnique /\ LockedRowIsLive

\* The empty rows have their types.
LEMMA EmptyTypes == NoCredentialRow \in CredentialRow /\ NoTx \in Tx
  BY SignCountAssumption DEF NoCredentialRow, CredentialRow, NoTx, Tx, Phase, Opt, SignCounts

\* The empty table.
LEMMA InitStore == StoreInit => StoreInv
<1> SUFFICES ASSUME StoreInit PROVE StoreInv
  OBVIOUS
<1>1. CredentialsTypeOK
  BY EmptyTypes DEF StoreInit, CredentialsInit, CredentialsTypeOK, Tx, Phase
<1>2. \A t \in Requests : tx[t].phase = "none"
  BY DEF StoreInit, CredentialsInit, NoTx
<1>3. \A c \in Rows : ~Live(c)
  BY DEF StoreInit, CredentialsInit, NoCredentialRow, Live
<1> QED BY <1>1, <1>2, <1>3 DEF StoreInv, TxHasRow, LiveCredentialIdUnique, LockedRowIsLive, Holds

\* Insert adds a row that collides with none and that nobody holds.
LEMMA InsertStore ==
  ASSUME StoreInv, UNCHANGED tx, NEW c \in Rows, NEW u \in Users, NEW k \in CredentialIDs,
         NEW h \in SessionIDs, NEW n \in SignCounts, Insert(c, u, k, h, n)
  PROVE  StoreInv'
<1> USE DEF StoreInv
<1>1. CredentialsTypeOK'
  BY DEF CredentialsTypeOK, CredentialRow, Insert, Opt
<1>2. /\ \A d \in Rows : d # c => credentials'[d] = credentials[d]
      /\ credentials'[c].status = "live" /\ credentials'[c].credential_id = k
  BY DEF CredentialsTypeOK, Insert
<1>3. LiveCredentialIdUnique'
  BY <1>2 DEF LiveCredentialIdUnique, Insert, CredentialIDTaken, Live
<1>4. TxHasRow' /\ LockedRowIsLive'
  BY <1>2 DEF TxHasRow, LockedRowIsLive, Holds, Live
<1> QED BY <1>1, <1>3, <1>4

\* An update of a counter or a label changes neither which rows are live nor
\* their credential ids.
LEMMA UpdateStore ==
  ASSUME StoreInv, UNCHANGED tx, NEW c \in Rows,
         \/ \E n \in SignCounts : UpdateAfterAssertion(c, n)
         \/ \E label \in Names : Rename(c, label)
  PROVE  StoreInv'
<1> USE DEF StoreInv
<1>1. CredentialsTypeOK'
  BY DEF CredentialsTypeOK, CredentialRow, UpdateAfterAssertion, Rename, Opt
<1>2. \A d \in Rows : /\ credentials'[d].status = credentials[d].status
                      /\ credentials'[d].credential_id = credentials[d].credential_id
  BY DEF CredentialsTypeOK, CredentialRow, UpdateAfterAssertion, Rename
<1>3. LiveCredentialIdUnique' /\ TxHasRow' /\ LockedRowIsLive'
  BY <1>2 DEF LiveCredentialIdUnique, TxHasRow, LockedRowIsLive, Holds, Live
<1> QED BY <1>1, <1>3

\* A statement of SoftDelete that does not commit changes one transaction.
LEMMA StatementStore ==
  ASSUME StoreInv, NEW t \in Requests,
         \/ \E c \in Rows : SoftDeleteBegin(t, c)
         \/ SoftDeleteGoOn(t) \/ SoftDeleteNotFound(t) \/ SoftDeleteLast(t)
         \/ SoftDeleteRollback(t)
  PROVE  StoreInv'
<1> USE EmptyTypes DEF StoreInv
<1>1. UNCHANGED credentials
  BY DEF SoftDeleteBegin, SoftDeleteGoOn, SoftDeleteLock, SoftDeleteCount, SoftDeleteUpdate,
         SoftDeleteNotFound, SoftDeleteLast, SoftDeleteRollback
<1>2. PICK x \in Tx : tx' = [tx EXCEPT ![t] = x]
  BY DEF SoftDeleteBegin, SoftDeleteGoOn, SoftDeleteLock, SoftDeleteCount, SoftDeleteUpdate,
         SoftDeleteNotFound, SoftDeleteLast, SoftDeleteRollback, CredentialsTypeOK, Tx, Phase, Opt
<1>3. tx \in [Requests -> Tx] /\ tx' \in [Requests -> Tx]
  BY <1>2 DEF CredentialsTypeOK, Tx, Phase
<1>4. CredentialsTypeOK'
  BY <1>1, <1>3 DEF CredentialsTypeOK, Tx, Phase
<1>5. \A s \in Requests : s # t => tx'[s] = tx[s]
  BY <1>2, <1>3
<1>6. tx'[t].phase # "none" => tx'[t].row \in Rows
  BY <1>3 DEF SoftDeleteBegin, SoftDeleteGoOn, SoftDeleteLock, SoftDeleteCount, SoftDeleteUpdate,
              SoftDeleteNotFound, SoftDeleteLast, SoftDeleteRollback, NoTx, TxHasRow, Tx
<1>7. \A c \in Rows : Holds(t, c)' => Holds(t, c) \/ (Unlocked(c) /\ Live(c))
  BY <1>3 DEF SoftDeleteBegin, SoftDeleteGoOn, SoftDeleteLock, SoftDeleteCount, SoftDeleteUpdate,
              SoftDeleteNotFound, SoftDeleteLast, SoftDeleteRollback, NoTx, Holds, Tx
<1>8. TxHasRow'
  BY <1>5, <1>6 DEF TxHasRow
<1>9. LockedRowIsLive'
  BY <1>1, <1>5, <1>7 DEF LockedRowIsLive, Holds, Unlocked, Live
<1>10. LiveCredentialIdUnique'
  BY <1>1 DEF LiveCredentialIdUnique, Live
<1> QED BY <1>4, <1>8, <1>9, <1>10

\* A commit deletes the row that only its transaction holds.
LEMMA CommitStore ==
  ASSUME StoreInv, NEW t \in Requests, SoftDeleteCommit(t)
  PROVE  StoreInv'
<1> USE EmptyTypes DEF StoreInv
<1>1. tx[t].row \in Rows /\ tx[t].phase = "updated"
  BY DEF SoftDeleteCommit, TxHasRow
<1>2. CredentialsTypeOK'
  BY <1>1 DEF SoftDeleteCommit, CredentialsTypeOK, CredentialRow, Tx, Phase
<1>3. /\ tx'[t].phase = "none"
      /\ \A s \in Requests : s # t => tx'[s] = tx[s]
      /\ \A c \in Rows : c # tx[t].row => credentials'[c] = credentials[c]
      /\ credentials'[tx[t].row].status = "deleted"
  BY <1>1 DEF SoftDeleteCommit, CredentialsTypeOK, NoTx
<1>4. LiveCredentialIdUnique'
  BY <1>1, <1>3 DEF LiveCredentialIdUnique, Live
<1>5. TxHasRow'
  BY <1>3 DEF TxHasRow
<1>6. LockedRowIsLive'
  BY <1>1, <1>3 DEF LockedRowIsLive, Holds, Live
<1> QED BY <1>2, <1>4, <1>5, <1>6

\* The store's invariant holds in every behaviour.
THEOREM StoreInvariant == StoreSpec => []StoreInv
<1>1. StoreInv /\ [StoreNext]_storeVars => StoreInv'
  <2> SUFFICES ASSUME StoreInv, [StoreNext]_storeVars PROVE StoreInv'
    OBVIOUS
  <2>1. CASE UNCHANGED storeVars
    BY <2>1 DEF storeVars, StoreInv, CredentialsTypeOK, TxHasRow, LiveCredentialIdUnique,
                LockedRowIsLive, Holds, Live
  <2>2. CASE CallInsert
    BY <2>2, InsertStore DEF CallInsert
  <2>3. CASE CallUpdate \/ CallRename
    BY <2>3, UpdateStore DEF CallUpdate, CallRename
  <2>4. CASE CallSoftDelete
    BY <2>4, StatementStore DEF CallSoftDelete
  <2>5. ASSUME NEW t \in Requests, SoftDeleteStep(t) \/ SoftDeleteRollback(t) PROVE StoreInv'
    BY <2>5, StatementStore, CommitStore DEF SoftDeleteStep, SoftDeleteEnd
  <2> QED BY <2>1, <2>2, <2>3, <2>4, <2>5 DEF StoreNext
<1> QED BY InitStore, <1>1, PTL DEF StoreSpec

------------------------------------------------------------------------------
\* The table and its transactions are well typed.
THEOREM StoreTypeCorrect == StoreSpec => []CredentialsTypeOK
<1>1. StoreInv => CredentialsTypeOK
  BY DEF StoreInv
<1> QED BY <1>1, StoreInvariant, PTL

\* No two live rows ever carry one credential id, however inserts race deletes.
THEOREM LiveCredentialIdUniqueHolds == StoreSpec => []LiveCredentialIdUnique
<1>1. StoreInv => LiveCredentialIdUnique
  BY DEF StoreInv
<1> QED BY <1>1, StoreInvariant, PTL

\* Of any number of concurrent deletes of a credential one holds its row, and the
\* row is live until that one commits.
THEOREM LockedRowIsLiveHolds == StoreSpec => []LockedRowIsLive
<1>1. StoreInv => LockedRowIsLive
  BY DEF StoreInv
<1> QED BY <1>1, StoreInvariant, PTL

\* A row whose deletion was committed is never written again: every statement that
\* writes asks for a row that is live, or absent, or held by its transaction.
THEOREM DeletedCredentialsStayHolds == StoreSpec => DeletedCredentialsStay
<1> DEFINE Frozen == \A c \in Rows : credentials[c].status = "deleted"
                                       => credentials'[c] = credentials[c]
<1>1. StoreInv /\ [StoreNext]_storeVars => [Frozen]_storeVars
  <2> SUFFICES ASSUME StoreInv, StoreNext, NEW c \in Rows, credentials[c].status = "deleted"
               PROVE  credentials'[c] = credentials[c]
    OBVIOUS
  <2> USE DEF StoreInv
  <2>1. CASE CallInsert
    BY <2>1 DEF CallInsert, Insert, CredentialsTypeOK
  <2>2. CASE CallUpdate \/ CallRename
    BY <2>2 DEF CallUpdate, CallRename, UpdateAfterAssertion, Rename, Live, CredentialsTypeOK
  <2>3. ASSUME NEW t \in Requests, SoftDeleteCommit(t) PROVE credentials'[c] = credentials[c]
    <3>1. Live(tx[t].row) /\ tx[t].row \in Rows
      BY <2>3 DEF SoftDeleteCommit, TxHasRow, LockedRowIsLive, Holds
    <3> QED BY <2>3, <3>1 DEF SoftDeleteCommit, Live, CredentialsTypeOK
  <2>4. CASE CallSoftDelete \/ \E t \in Requests : SoftDeleteStep(t) \/ SoftDeleteRollback(t)
    BY <2>3, <2>4 DEF CallSoftDelete, SoftDeleteBegin, SoftDeleteStep, SoftDeleteGoOn,
         SoftDeleteEnd, SoftDeleteLock, SoftDeleteCount, SoftDeleteUpdate, SoftDeleteNotFound,
         SoftDeleteLast, SoftDeleteRollback
  <2> QED BY <2>1, <2>2, <2>4 DEF StoreNext
<1> QED BY <1>1, StoreInvariant, PTL DEF StoreSpec, DeletedCredentialsStay
=============================================================================
