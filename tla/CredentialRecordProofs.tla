------------------------ MODULE CredentialRecordProofs ------------------------
(***************************************************************************)
(* CredentialRecord for any number of overlapping log-ins: the row stays   *)
(* within the attestation policy, and what it says about backup never      *)
(* changes without a warning, nor is its counter reset without one.        *)
(***************************************************************************)
EXTENDS CredentialRecord, TLAPS

\* As long as nothing was warned about, every log-in under way carries the flags
\* the row was inserted with, and so does the row.
Unwarned ==
    "backup flags changed" \notin warned =>
        /\ stage = "stored" => row.flags = first.flags
        /\ \A r \in Requests : login[r].pc = "update" => login[r].flags = first.flags

\* As long as no reset was warned about, a credential registered with a counter
\* has one, in the row and in every log-in under way.
Counting ==
    "counter reset" \notin warned /\ first.sign_count > 0 =>
        /\ stage = "stored" => row.sign_count > 0
        /\ \A r \in Requests : login[r].pc = "update" => login[r].sign_count > 0

\* A log-in finds a row.
Ordered == \A r \in Requests : login[r].pc = "update" => stage = "stored"

\* A credential that got past the policy is within it.
Admitted ==
    /\ stage \in {"create", "insert"} => checkAttestationPolicy(cred)
    /\ stage = "stored" => checkAttestationPolicy(row)

RecordInv == TypeOK /\ Unwarned /\ Counting /\ Ordered /\ Admitted

\* Go's zero values are values of their types.
LEMMA ZeroValues == NoCredential \in Credential /\ NoLogin \in Login /\ NoFlags \in Flags
<1>1. NoFlags \in Flags
  BY DEF NoFlags, Flags
<1>2. 0 \in SignCounts
  BY MaxSignCountAssumption DEF SignCounts
<1> QED BY <1>1, <1>2 DEF NoCredential, Credential, NoLogin, Login, AAGUIDs

\* What the library returns is a counter.
LEMMA LibSignCountsType ==
  ASSUME NEW stored \in SignCounts, NEW asserted \in SignCounts
  PROVE  LibSignCounts(stored, asserted) \subseteq SignCounts
BY DEF LibSignCounts

\* Flags that differ from those read, and a reset, are warned about; every
\* warning is known.
LEMMA AnomaliesMean ==
  ASSUME NEW stored, NEW count, NEW aaguid, NEW flags
  PROVE  LET w == recordCounterAnomalies(stored, count, aaguid, flags)
         IN  /\ w \in SUBSET Anomalies
             /\ "backup flags changed" \notin w => stored.flags = flags
             /\ "counter reset" \notin w => ~(stored.sign_count > 0 /\ count = 0)
BY DEF recordCounterAnomalies, Anomalies

\* Before the registration there is nothing.
LEMMA InitRecord == Init => RecordInv
<1> SUFFICES ASSUME Init PROVE RecordInv
  OBVIOUS
<1> USE DEF Init
<1>1. TypeOK
  BY ZeroValues DEF TypeOK
<1>2. \A r \in Requests : login[r].pc = "idle"
  BY DEF NoLogin
<1> QED BY <1>1, <1>2 DEF RecordInv, Unwarned, Counting, Ordered, Admitted

\* The registration applies the policy and inserts the row that first remembers.
LEMMA RegisterRecord ==
  ASSUME RecordInv, CreateCredential \/ CreateUser \/ InsertCredential \/ RegisterFails
  PROVE  RecordInv'
<1> USE ZeroValues DEF RecordInv, TypeOK, Unwarned, Counting, Ordered, Admitted
<1>1. CASE CreateCredential
  BY <1>1 DEF CreateCredential
<1>2. CASE CreateUser
  BY <1>2 DEF CreateUser
<1>3. CASE InsertCredential
  <2>1. cred.flags \in Flags
    BY DEF Credential
  <2> QED BY <1>3, <2>1 DEF InsertCredential
<1>4. CASE RegisterFails
  BY <1>4 DEF RegisterFails
<1> QED BY <1>1, <1>2, <1>3, <1>4

\* A log-in carries what it read, or warns.
LEMMA ResolveRecord ==
  ASSUME RecordInv, NEW r \in Requests, ResolveLogin(r)
  PROVE  RecordInv'
<1> USE DEF RecordInv
<1>1. PICK asserted \in SignCounts, flags \in Flags, aaguid \in AAGUIDs :
           \E count \in LibSignCounts(row.sign_count, asserted) :
               LET w == recordCounterAnomalies(row, count, aaguid, flags)
               IN  /\ login' = [login EXCEPT ![r] =
                          [pc |-> "update", sign_count |-> count, flags |-> flags]]
                   /\ warned' = warned \cup w
  BY DEF ResolveLogin
<1>2. PICK count \in LibSignCounts(row.sign_count, asserted) :
           LET w == recordCounterAnomalies(row, count, aaguid, flags)
           IN  /\ login' = [login EXCEPT ![r] =
                      [pc |-> "update", sign_count |-> count, flags |-> flags]]
               /\ warned' = warned \cup w
  BY <1>1
<1> DEFINE w == recordCounterAnomalies(row, count, aaguid, flags)
           l == [pc |-> "update", sign_count |-> count, flags |-> flags]
<1>3. /\ w \in SUBSET Anomalies
      /\ "backup flags changed" \notin w => row.flags = flags
      /\ "counter reset" \notin w => ~(row.sign_count > 0 /\ count = 0)
  BY AnomaliesMean
<1>4. row.sign_count \in SignCounts /\ count \in SignCounts
  <2>1. row.sign_count \in SignCounts
    BY DEF TypeOK, Credential
  <2> QED BY <2>1, LibSignCountsType
<1>5. l \in Login /\ l.pc = "update" /\ l.flags = flags /\ l.sign_count = count
  BY <1>4 DEF Login
<1>6. login' = [login EXCEPT ![r] = l] /\ warned' = warned \cup w
  BY <1>2
<1>7. stage = "stored" /\ UNCHANGED <<stage, cred, row, first>>
  BY DEF ResolveLogin
<1> HIDE DEF w, l
<1>8. login' \in [Requests -> Login] /\ login'[r] = l /\ \A q \in Requests : q # r => login'[q] = login[q]
  BY <1>5, <1>6 DEF TypeOK
<1>9. TypeOK'
  BY <1>3, <1>6, <1>7, <1>8 DEF TypeOK
<1>10. Unwarned'
  BY <1>3, <1>5, <1>6, <1>7, <1>8 DEF Unwarned
<1>11. Counting'
  <2>1. count = 0 \/ count > 0
    BY <1>4, MaxSignCountAssumption DEF SignCounts
  <2>2. "counter reset" \notin w /\ row.sign_count > 0 => count > 0
    BY <1>3, <2>1
  <2> QED BY <2>2, <1>5, <1>6, <1>7, <1>8 DEF Counting
<1>12. Ordered' /\ Admitted'
  BY <1>7 DEF Ordered, Admitted
<1> QED BY <1>9, <1>10, <1>11, <1>12

\* A log-in that ends gives the row its own flags, or leaves it alone.
LEMMA UpdateRecord ==
  ASSUME RecordInv, NEW r \in Requests, UpdateAfterAssertion(r) \/ LoginFails(r)
  PROVE  RecordInv'
<1> USE DEF RecordInv
<1>1. /\ login[r].pc = "update" /\ stage = "stored"
      /\ login' = [login EXCEPT ![r] = NoLogin]
      /\ UNCHANGED <<stage, cred, warned, first>>
  BY DEF UpdateAfterAssertion, LoginFails, Ordered
<1>2. login' \in [Requests -> Login] /\ login'[r].pc = "idle" /\ \A q \in Requests : q # r => login'[q] = login[q]
  BY <1>1, ZeroValues DEF TypeOK, NoLogin
<1>3. login[r].sign_count \in SignCounts /\ login[r].flags \in Flags
  BY DEF TypeOK, Login
<1>4. /\ row' \in Credential /\ row'.format = row.format /\ row'.type = row.type
      /\ row'.flags = row.flags \/ row'.flags = login[r].flags
      /\ row'.sign_count = row.sign_count \/ row'.sign_count = login[r].sign_count
  BY <1>3 DEF UpdateAfterAssertion, LoginFails, TypeOK, Credential
<1>5. TypeOK'
  BY <1>1, <1>2, <1>4 DEF TypeOK
<1>6. Unwarned' /\ Counting'
  BY <1>1, <1>2, <1>4 DEF Unwarned, Counting
<1>7. Ordered' /\ Admitted'
  BY <1>1, <1>2, <1>4 DEF Ordered, Admitted, checkAttestationPolicy
<1> QED BY <1>5, <1>6, <1>7

\* Every reachable state satisfies the inductive invariant.
THEOREM RecordInvariant == Spec => []RecordInv
<1>1. RecordInv /\ [Next]_vars => RecordInv'
  <2> SUFFICES ASSUME RecordInv, [Next]_vars PROVE RecordInv'
    OBVIOUS
  <2>1. CASE UNCHANGED vars
    BY <2>1 DEF vars, RecordInv, TypeOK, Unwarned, Counting, Ordered, Admitted
  <2>2. CASE Next
    BY <2>2, RegisterRecord, ResolveRecord, UpdateRecord DEF Next
  <2> QED BY <2>1, <2>2
<1> QED BY InitRecord, <1>1, PTL DEF Spec

------------------------------------------------------------------------------
\* The record of a credential is well typed.
THEOREM RecordTypeCorrect == Spec => []TypeOK
<1>1. RecordInv => TypeOK
  BY DEF RecordInv
<1> QED BY <1>1, RecordInvariant, PTL

\* An account's credential passed both axes of the attestation policy.
THEOREM AccountPassedPolicyHolds == Spec => []AccountPassedPolicy
<1>1. RecordInv => AccountPassedPolicy
  BY DEF RecordInv, Admitted, AccountPassedPolicy, checkAttestationPolicy,
         IsAcceptedAttestation, IsAcceptedAttestationType
<1> QED BY <1>1, RecordInvariant, PTL

\* The backup flags of a row never differ from those of its registration unless
\* a warning was logged, however many log-ins overlap.
THEOREM NoSilentDriftHolds == Spec => []NoSilentDrift
<1>1. RecordInv => NoSilentDrift
  BY DEF RecordInv, Unwarned, NoSilentDrift
<1> QED BY <1>1, RecordInvariant, PTL

\* The counter of a credential registered with one never stands at zero unless a
\* reset was warned about, however many log-ins overlap.
THEOREM NoSilentResetHolds == Spec => []NoSilentReset
<1>1. RecordInv => NoSilentReset
  <2>1. ~(0 > 0)
    OBVIOUS
  <2> QED BY <2>1, Zenon DEF RecordInv, Counting, NoSilentReset
<1> QED BY <1>1, RecordInvariant, PTL
=============================================================================
