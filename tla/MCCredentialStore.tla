------------------------- MODULE MCCredentialStore -------------------------
(* Instances of CredentialStoreSpec for TLC.                                 *)
EXTENDS CredentialStoreSpec, TLC

\* Rows, credential ids and transactions are interchangeable.
StoreSymmetry == Permutations(Rows) \cup Permutations(CredentialIDs) \cup Permutations(Requests)
=============================================================================
