----------------------- MODULE SoftAuthenticatorProofs -----------------------
(***************************************************************************)
(* The shared authenticator for any number of callers and any width of its *)
(* counter. Until it wraps, the counter bounds everything handed out so    *)
(* far, and a caller that has added 1 has pushed it past what was handed   *)
(* out when its call began; the others can only push it further.           *)
(***************************************************************************)
EXTENDS SoftAuthenticator, TLAPS

CountInv ==
    ~wrapped => \A t \in Callers :
        /\ floor[t] <= signCount
        /\ got[t] <= signCount
        /\ pc[t] = "added" => floor[t] < signCount

AuthenticatorInv == TypeOK /\ CountInv /\ CountExceedsStored

\* Nothing was handed out above a counter that has not wrapped.
LEMMA HandedOutBounded ==
  ASSUME TypeOK, CountInv, NEW n \in HandedOut
  PROVE  n \in 0 .. MaxCount /\ (~wrapped => n <= signCount)
<1>1. n = 0 \/ (n \in 0 .. MaxCount /\ \E t \in Callers : got[t] = n \/ floor[t] = n)
  BY DEF HandedOut
<1>2. n \in 0 .. MaxCount
  BY <1>1, MaxCountAssumption
<1>3. signCount \in 0 .. MaxCount
  BY DEF TypeOK
<1>4. ASSUME ~wrapped PROVE n <= signCount
  <2>1. \A t \in Callers : floor[t] <= signCount /\ got[t] <= signCount
    BY <1>4 DEF CountInv
  <2> QED BY <1>1, <1>3, <2>1, MaxCountAssumption
<1> QED BY <1>2, <1>4

\* New.
LEMMA AuthenticatorInit == Init => AuthenticatorInv
<1> SUFFICES ASSUME Init PROVE AuthenticatorInv
  OBVIOUS
<1>0. /\ wrapped \in BOOLEAN
      /\ signCount = 0 /\ pc = [t \in Callers |-> "idle"]
      /\ got = [t \in Callers |-> -1] /\ floor = [t \in Callers |-> 0]
  BY DEF Init
<1>1. TypeOK
  BY <1>0, MaxCountAssumption DEF TypeOK
<1>2. CountInv
  <2>1. \A t \in Callers : floor[t] = 0 /\ got[t] = -1 /\ pc[t] = "idle"
    BY <1>0
  <2>2. signCount = 0 /\ 0 <= 0 /\ -1 <= 0
    BY <1>0
  <2>3. \A t \in Callers : floor[t] <= signCount /\ got[t] <= signCount
    BY <2>1, <2>2
  <2>4. \A t \in Callers : pc[t] # "added"
    BY <2>1
  <2> QED BY <2>3, <2>4 DEF CountInv
<1>3. CountExceedsStored
  BY <1>0 DEF CountExceedsStored
<1> QED BY <1>1, <1>2, <1>3 DEF AuthenticatorInv

\* One step per action of a caller.
LEMMA AuthenticatorNext == AuthenticatorInv /\ [Next]_vars => AuthenticatorInv'
<1> SUFFICES ASSUME AuthenticatorInv, [Next]_vars PROVE AuthenticatorInv'
  OBVIOUS
<1> USE MaxCountAssumption DEF AuthenticatorInv
<1>1. ASSUME NEW t \in Callers, Authenticate(t) PROVE AuthenticatorInv'
  <2>1. PICK n \in HandedOut : floor' = [floor EXCEPT ![t] = n]
    BY <1>1 DEF Authenticate
  <2>2. n \in 0 .. MaxCount /\ (~wrapped => n <= signCount)
    BY HandedOutBounded
  <2>3. /\ pc' = [pc EXCEPT ![t] = "begun"] /\ got' = [got EXCEPT ![t] = -1]
        /\ UNCHANGED <<signCount, wrapped>>
    BY <1>1 DEF Authenticate
  <2> QED BY <2>1, <2>2, <2>3 DEF TypeOK, CountInv, CountExceedsStored
<1>2. ASSUME NEW t \in Callers, AuthenticateAdd(t) PROVE AuthenticatorInv'
  <2>1. /\ signCount' = (signCount + 1) % (MaxCount + 1)
        /\ wrapped' = (wrapped \/ signCount = MaxCount)
        /\ pc' = [pc EXCEPT ![t] = "added"] /\ UNCHANGED <<got, floor>>
    BY <1>2 DEF AuthenticateAdd
  <2>2. TypeOK'
    <3>1. (signCount + 1) % (MaxCount + 1) \in 0 .. MaxCount
      BY DEF TypeOK
    <3>2. wrapped' \in BOOLEAN
      BY <2>1
    <3> QED BY <2>1, <3>1, <3>2 DEF TypeOK
  <2>3. ~wrapped' => ~wrapped /\ signCount < MaxCount
    <3>1. ~wrapped' => ~wrapped /\ signCount # MaxCount
      BY <2>1
    <3>2. signCount \in 0 .. MaxCount
      BY DEF TypeOK
    <3> QED BY <3>1, <3>2
  <2>4. ~wrapped' => signCount' = signCount + 1
    BY <2>1, <2>3 DEF TypeOK
  <2>5. CountInv' /\ CountExceedsStored'
    BY <2>1, <2>3, <2>4 DEF TypeOK, CountInv, CountExceedsStored
  <2> QED BY <2>2, <2>5
<1>3. ASSUME NEW t \in Callers, AuthenticateBuild(t) PROVE AuthenticatorInv'
  BY <1>3 DEF AuthenticateBuild, TypeOK, CountInv, CountExceedsStored
<1>4. ASSUME NEW t \in Callers, AuthenticateFails(t) PROVE AuthenticatorInv'
  BY <1>4 DEF AuthenticateFails, TypeOK, CountInv, CountExceedsStored
<1>5. CASE UNCHANGED vars
  BY <1>5 DEF vars, TypeOK, CountInv, CountExceedsStored
<1> QED BY <1>1, <1>2, <1>3, <1>4, <1>5 DEF Next

\* In every reachable state a counter that has not wrapped bounds what was handed out.
THEOREM AuthenticatorInvariant == Spec => []AuthenticatorInv
  BY AuthenticatorInit, AuthenticatorNext, PTL DEF Spec

\* Authenticate hands out a counter above every one that was handed out before
\* the call began, however many goroutines share the authenticator, until the
\* counter wraps.
THEOREM CountsExceedStored == Spec => []CountExceedsStored
<1>1. AuthenticatorInv => CountExceedsStored
  BY DEF AuthenticatorInv
<1> QED BY <1>1, AuthenticatorInvariant, PTL
=============================================================================
