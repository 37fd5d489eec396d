--------------------------- MODULE CredentialRecord ---------------------------
(***************************************************************************)
(* What one credential row records about its authenticator, from the       *)
(* attestation that created it (webauthn/service.go CreateCredential with  *)
(* the policy of attestation.go, auth.go domainCredentialFromLib) through  *)
(* the log-ins that update it (auth.go CompleteLogin from the resolver on, *)
(* recordCounterAnomalies).                                                *)
(*                                                                         *)
(* Ceremonies, accounts and sessions are PasskeyService's; here are the    *)
(* columns it leaves out. A log-in is two steps, because the row it is     *)
(* compared with is read before the library's verdict and written after.   *)
(* There is one registration; one that fails after the user row was        *)
(* created has taken the username and leaves nothing to do.                *)
(***************************************************************************)
EXTENDS Naturals

CONSTANTS
    Requests,          \* log-ins with this credential in flight at once
    MaxSignCount,      \* bound on the 32-bit sign counter
    Formats,           \* attestation formats the library may report
    AttestationTypes,  \* attestation types the library may report
    Models             \* well-formed AAGUIDs

ASSUME MaxSignCountAssumption == MaxSignCount \in Nat

VARIABLES
    stage,     \* how far the registration has come
    cred,      \* the credential it got from the library
    row,       \* the credential row, once the stage is "stored"
    login,     \* the log-ins under way
    warned,    \* every kind of warning logged so far
    first      \* the row as it was inserted, for the properties

vars == <<stage, cred, row, login, warned, first>>

SignCounts == 0 .. MaxSignCount

\* len(AAGUID) = 0 is "absent"; a slice of a wrong length is "malformed".
AAGUIDs == Models \cup {"absent", "malformed"}

Flags == [be : BOOLEAN, bs : BOOLEAN]

Credential ==
    [format : Formats \cup {""}, type : AttestationTypes \cup {""}, aaguid : AAGUIDs,
     sign_count : SignCounts, flags : Flags]

\* Go's zero values.
NoFlags == [be |-> FALSE, bs |-> FALSE]
NoCredential ==
    [format |-> "", type |-> "", aaguid |-> "absent", sign_count |-> 0, flags |-> NoFlags]

Anomalies == {"counter reset", "aaguid mismatch", "backup flags changed"}

Login == [pc : {"idle", "update"}, sign_count : SignCounts, flags : Flags]
NoLogin == [pc |-> "idle", sign_count |-> 0, flags |-> NoFlags]

\* The user row exists from the stage "insert" on; "ghost" is a registration that
\* failed after that.
TypeOK ==
    /\ stage \in {"none", "create", "insert", "ghost", "stored"}
    /\ cred \in Credential
    /\ row \in Credential
    /\ login \in [Requests -> Login]
    /\ warned \subseteq Anomalies
    /\ first \in Credential

Init ==
    /\ stage = "none"
    /\ cred = NoCredential
    /\ row = NoCredential
    /\ login = [r \in Requests |-> NoLogin]
    /\ warned = {}
    /\ first = NoCredential

------------------------------------------------------------------------------
(* The attestation policy.                                                   *)

AcceptedAttestationFormats ==
    {"none", "packed", "tpm", "android-key", "android-safetynet", "fido-u2f", "apple"}

IsAcceptedAttestation(format) ==
    (IF format = "" THEN "none" ELSE format) \in AcceptedAttestationFormats

AcceptedAttestationTypes ==
    {"none", "basic_full", "basic_surrogate", "attca", "anonca", "ecdaa"}

IsAcceptedAttestationType(t) ==
    (IF t = "" THEN "none" ELSE t) \in AcceptedAttestationTypes

\* A policy that forgets its second axis.
CheckFormatOnly(c) == IsAcceptedAttestation(c.format)

\* Either refusal ends the request; only the format's has an error code of its
\* own ("attestation_rejected").
checkAttestationPolicy(c) ==
    /\ IsAcceptedAttestation(c.format)
    /\ IsAcceptedAttestationType(c.type)

------------------------------------------------------------------------------
(* Registration.                                                             *)

\* CreateCredential accepts what the library verified; a refused attestation
\* changes nothing.
CreateCredential ==
    /\ stage = "none"
    /\ cred' \in Credential
    /\ checkAttestationPolicy(cred')
    /\ stage' = "create"
    /\ UNCHANGED <<row, login, warned, first>>

\* users.CreateRegistered.
CreateUser ==
    /\ stage = "create"
    /\ stage' = "insert"
    /\ UNCHANGED <<cred, row, login, warned, first>>

\* domainCredentialFromLib and the insert. Every column is the library's word:
\* an empty format or type stays empty.
InsertCredential ==
    /\ stage = "insert"
    /\ cred.aaguid # "malformed"
    /\ stage' = "stored"
    /\ row' = cred
    /\ first' = cred
    /\ cred' = NoCredential
    /\ UNCHANGED <<login, warned>>

\* An error exit: a store call fails, or uuid.FromBytes does.
RegisterFails ==
    /\ stage \in {"create", "insert"}
    /\ stage' = IF stage = "create" THEN "none" ELSE "ghost"
    /\ cred' = NoCredential
    /\ UNCHANGED <<row, login, warned, first>>

------------------------------------------------------------------------------
(* Log-in.                                                                   *)

\* The counters the library may return for an accepted assertion, as in
\* AuthHandler: the asserted one if it is not below the stored one, or zero;
\* else it may keep the stored. (go-webauthn itself keeps the stored counter when
\* zero is asserted; recordCounterAnomalies is written for a library that does
\* not, and it is held to that here.)
LibSignCounts(stored, asserted) == {n \in {stored, asserted} : n >= stored \/ n = 0}

\* Compares backup eligibility and forgets the backup state.
AnomaliesIgnoreState(stored, count, aaguid, flags) ==
    {a \in Anomalies :
        CASE a = "counter reset" -> stored.sign_count > 0 /\ count = 0
          [] a = "aaguid mismatch" -> aaguid \in Models /\ stored.aaguid \in Models /\ stored.aaguid # aaguid
          [] OTHER -> stored.flags.be # flags.be}

\* Takes a stored counter of one for a credential without a counter.
AnomaliesResetOffByOne(stored, count, aaguid, flags) ==
    {a \in Anomalies :
        CASE a = "counter reset" -> stored.sign_count > 1 /\ count = 0
          [] a = "aaguid mismatch" -> aaguid \in Models /\ stored.aaguid \in Models /\ stored.aaguid # aaguid
          [] OTHER -> stored.flags # flags}

\* The warnings recordCounterAnomalies logs for an assertion against the row
\* that the resolver read.
recordCounterAnomalies(stored, count, aaguid, flags) ==
    {a \in Anomalies :
        CASE a = "counter reset" -> stored.sign_count > 0 /\ count = 0
          [] a = "aaguid mismatch" -> aaguid \in Models /\ stored.aaguid \in Models /\ stored.aaguid # aaguid
          [] OTHER -> stored.flags # flags}

\* The resolver's GetByCredentialID, ValidateLogin on what libCredentialFromDomain
\* makes of it, and the warnings. A failed log-in changes nothing here.
ResolveLogin(r) ==
    /\ stage = "stored"
    /\ login[r].pc = "idle"
    /\ \E asserted \in SignCounts, flags \in Flags, aaguid \in AAGUIDs :
       \E count \in LibSignCounts(row.sign_count, asserted) :
           LET w == recordCounterAnomalies(row, count, aaguid, flags)
           IN  /\ login' = [login EXCEPT ![r] =
                      [pc |-> "update", sign_count |-> count, flags |-> flags]]
               /\ warned' = warned \cup w
    /\ UNCHANGED <<stage, cred, row, first>>

\* An update that adds the counters up.
UpdateAddsUp(r) ==
    /\ login[r].pc = "update"
    /\ row' = [row EXCEPT !.sign_count = @ + login[r].sign_count, !.flags = login[r].flags]
    /\ login' = [login EXCEPT ![r] = NoLogin]
    /\ UNCHANGED <<stage, cred, warned, first>>

\* UpdateAfterAssertion.
UpdateAfterAssertion(r) ==
    /\ login[r].pc = "update"
    /\ row' = [row EXCEPT !.sign_count = login[r].sign_count, !.flags = login[r].flags]
    /\ login' = [login EXCEPT ![r] = NoLogin]
    /\ UNCHANGED <<stage, cred, warned, first>>

\* The update fails; the warnings are out.
LoginFails(r) ==
    /\ login[r].pc = "update"
    /\ login' = [login EXCEPT ![r] = NoLogin]
    /\ UNCHANGED <<stage, cred, row, warned, first>>

Next ==
    \/ CreateCredential \/ CreateUser \/ InsertCredential \/ RegisterFails
    \/ \E r \in Requests : ResolveLogin(r) \/ UpdateAfterAssertion(r) \/ LoginFails(r)

Spec == Init /\ [][Next]_vars

------------------------------------------------------------------------------
\* No account comes out of an attestation the policy refuses, on either axis:
\* the policy is applied before the user row is created, and what the row says
\* for an audit is within it.
AccountPassedPolicy ==
    LET InPolicy(c) == /\ c.format \in AcceptedAttestationFormats \cup {""}
                       /\ c.type \in AcceptedAttestationTypes \cup {""}
    IN  /\ stage = "insert" => InPolicy(cred)
        /\ stage = "stored" => InPolicy(row)

\* A credential does not drift silently: once its row says something else about
\* backup than at registration, a warning has been logged, whatever log-ins
\* overlapped. (recordCounterAnomalies compares with a row that may be stale,
\* but the first assertion that differs meets the flags of the registration. A
\* row that goes back and forth after that may do so unwarned: a log-in that
\* read it before the change writes its own flags and saw no difference.)
NoSilentDrift ==
    stage = "stored" /\ row.flags # first.flags => "backup flags changed" \in warned

\* Nor does it lose its counter silently: a credential that was registered with
\* one and stands at zero has been warned about ("counter reset (`stored > 0`,
\* `new == 0`)", README), whatever log-ins overlapped.
NoSilentReset ==
    stage = "stored" /\ first.sign_count > 0 /\ row.sign_count = 0 => "counter reset" \in warned
=============================================================================
