--------------------------- MODULE MCBrowserClient ---------------------------
(* Symmetry for the runs of BrowserClient.                                  *)
EXTENDS BrowserClient, TLC

Symmetry ==
    Permutations(Users) \cup Permutations(Names) \cup Permutations(SessionTokens)
    \cup Permutations(GuestTokens) \cup Permutations(Requests)
=============================================================================
