-------------------------- MODULE SoftAuthenticator --------------------------
(***************************************************************************)
(* internal/testutil/webauthntest/authenticator.go: the passkey the tests  *)
(* register and log in with, shared by concurrent callers. What it signs   *)
(* is left out but for the sign counter in the authenticator data.         *)
(***************************************************************************)
EXTENDS Integers

CONSTANTS
    Callers,    \* goroutines that use the authenticator
    MaxCount    \* the highest value of the counter (32 bits in the code)

ASSUME MaxCountAssumption == MaxCount \in Nat

VARIABLES
    signCount,   \* the atomic counter
    wrapped,     \* it has been past its highest value, for the property
    pc,          \* where each caller stands
    got,         \* the counter in the response it got last; -1 for none
    floor        \* the highest counter handed out when its call began

vars == <<signCount, wrapped, pc, got, floor>>

TypeOK ==
    /\ signCount \in 0 .. MaxCount
    /\ wrapped \in BOOLEAN
    /\ pc \in [Callers -> {"idle", "begun", "added"}]
    /\ got \in [Callers -> -1 .. MaxCount]
    /\ floor \in [Callers -> 0 .. MaxCount]

\* New.
Init ==
    /\ signCount = 0
    /\ wrapped = FALSE
    /\ pc = [t \in Callers |-> "idle"]
    /\ got = [t \in Callers |-> -1]
    /\ floor = [t \in Callers |-> 0]

\* The counters handed out so far, and the highest of them.
HandedOut == {0} \cup {n \in 0 .. MaxCount : \E t \in Callers : got[t] = n \/ floor[t] = n}

IsHighest(n) == \A m \in HandedOut : m <= n

\* Authenticate begins: the client data.
Authenticate(t) ==
    /\ pc[t] = "idle"
    /\ pc' = [pc EXCEPT ![t] = "begun"]
    /\ got' = [got EXCEPT ![t] = -1]
    /\ \E n \in HandedOut : IsHighest(n) /\ floor' = [floor EXCEPT ![t] = n]
    /\ UNCHANGED <<signCount, wrapped>>

\* signCount.Add(1) of an atomic.Uint32.
AuthenticateAdd(t) ==
    /\ pc[t] = "begun"
    /\ signCount' = (signCount + 1) % (MaxCount + 1)
    /\ wrapped' = (wrapped \/ signCount = MaxCount)
    /\ pc' = [pc EXCEPT ![t] = "added"]
    /\ UNCHANGED <<got, floor>>

\* An Authenticate that builds its data from the counter before the increment.
AuthenticateBuildOld(t) ==
    /\ pc[t] = "added"
    /\ got' = [got EXCEPT ![t] = signCount - 1]
    /\ pc' = [pc EXCEPT ![t] = "idle"]
    /\ UNCHANGED <<signCount, wrapped, floor>>

\* buildAuthData loads the counter again; the rest only signs what it read.
AuthenticateBuild(t) ==
    /\ pc[t] = "added"
    /\ got' = [got EXCEPT ![t] = signCount]
    /\ pc' = [pc EXCEPT ![t] = "idle"]
    /\ UNCHANGED <<signCount, wrapped, floor>>

\* Encoding the client data, the response or the signature fails.
AuthenticateFails(t) ==
    /\ pc[t] # "idle"
    /\ pc' = [pc EXCEPT ![t] = "idle"]
    /\ UNCHANGED <<signCount, wrapped, got, floor>>

Next == \E t \in Callers :
    Authenticate(t) \/ AuthenticateAdd(t) \/ AuthenticateBuild(t) \/ AuthenticateFails(t)

Spec == Init /\ [][Next]_vars

------------------------------------------------------------------------------
\* An assertion made after another was returned carries a higher counter, and
\* so a higher one than any the server can have stored when it was asked for,
\* however many callers share the authenticator, until its 32 bits are used up.
\* ("a strictly monotonic value on each call", authenticator.go:122, is more than
\* that: two calls under way at the same time may both add and then both load,
\* and carry the same counter.)
CountExceedsStored == ~wrapped => \A t \in Callers : got[t] # -1 => got[t] > floor[t]
=============================================================================
