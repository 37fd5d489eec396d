-------------------------- MODULE MCPasskeyService --------------------------
(* Instances of PasskeyService for TLC.                                      *)
EXTENDS PasskeyRefinement, PasskeyInvariants, TLC

\* Identifiers of one kind are interchangeable: they are only compared.
Symmetry ==
    Permutations(Users) \cup Permutations(Names) \cup Permutations(Rows)
    \cup Permutations(CredentialIDs) \cup Permutations(SessionIDs)
    \cup Permutations(SessionTokens) \cup Permutations(GuestTokens)
    \cup Permutations(Requests)
=============================================================================
