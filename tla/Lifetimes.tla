------------------------------ MODULE Lifetimes ------------------------------
(***************************************************************************)
(* internal/config and the lifetimes main.go makes of it: the TTL of a     *)
(* Redis key against the Max-Age of its cookie, and the TTL of a challenge *)
(* against the timeout the WebAuthn library enforces.                      *)
(*                                                                         *)
(* Time passes in ticks. A lifetime is what is left of it, counted down by *)
(* Tick, so that no clock is needed; what is over is counted on for a      *)
(* while, as far as a property looks.                                      *)
(***************************************************************************)
EXTENDS Integers, Sequences

CONSTANTS
    TicksPerSecond,   \* resolution of the clock
    Durations,        \* what a TTL variable may parse to, in ticks
    MaxDelay,         \* bound on a response's way to the browser, in ticks
    RequestTimeout    \* how long a handler's store calls may go on, in ticks

ASSUME TicksAssumption == TicksPerSecond \in Nat \ {0}
ASSUME DurationsAssumption == Durations \subseteq Int
ASSUME DelayAssumption == MaxDelay \in Nat
ASSUME RequestAssumption == RequestTimeout \in Nat

VARIABLES
    env,       \* the environment variables Load reads
    cfg,       \* the TTLs of a loaded configuration
    phase,     \* how far start-up came
    token,     \* a session and a guest token: the key and the cookie
    ceremony   \* one ceremony: the library's session data and its key

vars == <<env, cfg, phase, token, ceremony>>

------------------------------------------------------------------------------
(* config.Load.                                                              *)

Settings == {"HTTP_ADDR", "DATABASE_URL", "REDIS_URL", "RP_ID", "RP_DISPLAY_NAME"}

TTLs == {"SESSION_TTL", "CHALLENGE_TTL", "GUEST_TTL"}

\* set: the settings that are not empty. origins: the parts of RP_ORIGINS
\* between commas. ttl: <<>> is a value that is empty or no Go duration.
\* wellFormed: RP_ID and the origins are such as the library takes.
Envs ==
    [set     : SUBSET Settings,
     origins : {<<>>, <<"blank">>, <<"origin">>, <<"blank", "origin">>},
     ttl     : [TTLs -> {<<>>} \cup {<<d>> : d \in Durations}],
     wellFormed : BOOLEAN]

\* A parseDuration that lets zero through.
AcceptsDurationZero(raw) == raw # <<>> /\ raw[1] >= 0

\* parseDuration returns no error.
AcceptsDuration(raw) == raw # <<>> /\ raw[1] > 0

SplitAndTrim(parts) == SelectSeq(parts, LAMBDA p : p # "blank")

\* The variables Load objects to; it reports the first and returns.
Faults(e) ==
    {t \in TTLs : ~AcceptsDuration(e.ttl[t])}
    \cup (Settings \ e.set)
    \cup (IF Len(SplitAndTrim(e.origins)) = 0 THEN {"RP_ORIGINS"} ELSE {})

\* NewService tests its Config again, for the four errors of its own.
ServiceFaults(e) ==
    ({"RP_ID", "RP_DISPLAY_NAME"} \ e.set)
    \cup (IF SplitAndTrim(e.origins) = <<>> THEN {"RP_ORIGINS"} ELSE {})
    \cup (IF cfg["CHALLENGE_TTL"] <= 0 THEN {"CeremonyTimeout"} ELSE {})

\* gowebauthn.New has rules for RP_ID and the origins that neither Load nor
\* NewService knows.
LibraryAccepts(e) == e.wellFormed

Load ==
    /\ phase = "env"
    /\ \/ /\ Faults(env) = {}
          /\ cfg' = [t \in TTLs |-> env.ttl[t][1]]
          /\ phase' = "loaded"
       \/ /\ Faults(env) # {}
          /\ phase' = "refused"
          /\ UNCHANGED cfg
    /\ UNCHANGED <<env, token, ceremony>>

NewService ==
    /\ phase = "loaded"
    /\ phase' = IF ServiceFaults(env) = {} /\ LibraryAccepts(env)
                  THEN "serving" ELSE "service_refused"
    /\ UNCHANGED <<env, cfg, token, ceremony>>

------------------------------------------------------------------------------
(* Tokens. A lifetime of Gone or less is over and forgotten.                 *)

Gone == -(MaxDelay + 1)

TokenTTL == [session |-> "SESSION_TTL", guest |-> "GUEST_TTL"]

Kinds == DOMAIN TokenTTL

\* cookie: "way" is on its way, "held" has a Max-Age, "sticky" has none and
\* goes when the browser is closed, "lapsed" has passed its Max-Age.
NoToken == [key |-> Gone, cookie |-> "none", way |-> 0, left |-> 0]

\* A Max-Age one second short, and one that is rounded up.
MaxAgeShort(k) == (cfg[TokenTTL[k]] \div TicksPerSecond) - 1

MaxAgeRoundedUp(k) == (cfg[TokenTTL[k]] + TicksPerSecond - 1) \div TicksPerSecond

\* int(cfg.SessionTTL.Seconds()), int(cfg.GuestTTL.Seconds()).
MaxAge(k) == cfg[TokenTTL[k]] \div TicksPerSecond

\* Create writes the key with its TTL and the response sets out.
Issue(k) ==
    /\ phase = "serving"
    /\ token[k].cookie # "way"
    /\ token' = [token EXCEPT ![k] =
           [key |-> cfg[TokenTTL[k]], cookie |-> "way", way |-> 0, left |-> 0]]
    /\ UNCHANGED <<env, cfg, phase, ceremony>>

\* The browser gets the cookie. net/http leaves a MaxAge of 0 out.
SetCookie(k) ==
    /\ token[k].cookie = "way"
    /\ token' = [token EXCEPT ![k].cookie = IF MaxAge(k) = 0 THEN "sticky" ELSE "held",
                              ![k].left = MaxAge(k) * TicksPerSecond]
    /\ UNCHANGED <<env, cfg, phase, ceremony>>

\* Delete and a cookie with MaxAge -1.
ClearCookie(k) ==
    /\ token[k].cookie \in {"held", "sticky"}
    /\ token' = [token EXCEPT ![k] = NoToken]
    /\ UNCHANGED <<env, cfg, phase, ceremony>>

\* The response is lost, or the browser is closed.
LoseCookie(k) ==
    /\ token[k].cookie \in {"way", "sticky"}
    /\ token' = [token EXCEPT ![k].cookie = "none"]
    /\ UNCHANGED <<env, cfg, phase, ceremony>>

------------------------------------------------------------------------------
(* Ceremonies.                                                               *)

NoCeremony == [state |-> "none", age |-> 0, key |-> 0]

\* BeginRegistration or BeginDiscoverableLogin stamps the session data.
Begin ==
    /\ phase = "serving"
    /\ ceremony.state \in {"none", "accepted", "expired"}
    /\ ceremony' = [state |-> "begun", age |-> 0, key |-> 0]
    /\ UNCHANGED <<env, cfg, phase, token>>

\* A challenge store made with another TTL than the library's timeout.
SaveSessionTTL ==
    /\ ceremony.state = "begun"
    /\ ceremony.age <= RequestTimeout
    /\ ceremony' = [ceremony EXCEPT !.state = "saved", !.key = cfg["SESSION_TTL"]]
    /\ UNCHANGED <<env, cfg, phase, token>>

\* A Save that is not given the request's context.
SaveDetached ==
    /\ ceremony.state = "begun"
    /\ ceremony' = [ceremony EXCEPT !.state = "saved", !.key = cfg["CHALLENGE_TTL"]]
    /\ UNCHANGED <<env, cfg, phase, token>>

\* challenges.Save with the context of the request, which chimw.Timeout ends.
Save ==
    /\ ceremony.state = "begun"
    /\ ceremony.age <= RequestTimeout
    /\ ceremony' = [ceremony EXCEPT !.state = "saved", !.key = cfg["CHALLENGE_TTL"]]
    /\ UNCHANGED <<env, cfg, phase, token>>

\* Redis does not answer, or the context is over: 500 and no challenge.
SaveFails ==
    /\ ceremony.state = "begun"
    /\ ceremony' = NoCeremony
    /\ UNCHANGED <<env, cfg, phase, token>>

\* GETDEL finds the key, or it has expired.
TakeChallenge ==
    /\ ceremony.state = "saved"
    /\ ceremony' = [ceremony EXCEPT !.state = IF ceremony.key >= 0 THEN "taken" ELSE "expired"]
    /\ UNCHANGED <<env, cfg, phase, token>>

\* Timeouts.Registration and Timeouts.Login are enforced.
Validate ==
    /\ ceremony.state = "taken"
    /\ ceremony' = [ceremony EXCEPT !.state =
           IF ceremony.age <= cfg["CHALLENGE_TTL"] THEN "accepted" ELSE "expired"]
    /\ UNCHANGED <<env, cfg, phase, token>>

------------------------------------------------------------------------------
Elapse(t) ==
    LET left == IF t.left > Gone THEN t.left - 1 ELSE t.left
    IN  [key    |-> IF t.key > Gone THEN t.key - 1 ELSE t.key,
         cookie |-> IF t.cookie = "held" /\ left < 0 THEN "lapsed" ELSE t.cookie,
         way    |-> IF t.cookie = "way" THEN t.way + 1 ELSE t.way,
         left   |-> left]

Pending == ceremony.state \in {"begun", "saved", "taken"}

\* An age above this is as good as any other.
MaxAgeCounted == cfg["CHALLENGE_TTL"] + RequestTimeout

\* One tick. A response is not under way for longer than MaxDelay.
Tick ==
    /\ phase = "serving"
    /\ \A k \in Kinds : token[k].cookie = "way" => token[k].way < MaxDelay
    /\ token' = [k \in Kinds |-> Elapse(token[k])]
    /\ ceremony' = [ceremony EXCEPT !.age = IF Pending /\ @ <= MaxAgeCounted THEN @ + 1 ELSE @,
                                    !.key = IF @ >= 0 THEN @ - 1 ELSE @]
    /\ UNCHANGED <<env, cfg, phase>>

Init ==
    /\ env \in Envs
    /\ cfg = [t \in TTLs |-> 0]
    /\ phase = "env"
    /\ token = [k \in Kinds |-> NoToken]
    /\ ceremony = NoCeremony

TokenNext ==
    \E k \in Kinds : Issue(k) \/ SetCookie(k) \/ ClearCookie(k) \/ LoseCookie(k)

CeremonyNext == Begin \/ Save \/ SaveFails \/ TakeChallenge \/ Validate

Next == Load \/ NewService \/ TokenNext \/ CeremonyNext \/ Tick

Spec == Init /\ [][Next]_vars

------------------------------------------------------------------------------
\* What Load accepts and NewService still refuses, the library refuses: the two
\* packages agree on every setting they both look at, and none of the four
\* ErrConfig errors of NewService can be met from main.go. (An RP_ID the library
\* finds malformed does fail a start-up after the stores are open.)
LateRefusalIsTheLibrarys == phase = "service_refused" => ServiceFaults(env) = {}

\* A browser never presents a token that expired longer ago than its response
\* took to arrive: "SessionMaxAge is how long the issued session cookie lives"
\* (auth.go AuthDeps), and it is made of the TTL of the key. For a TTL below a
\* second nothing is promised: Max-Age is 0 then, and the cookie "sticky".
CookieDiesWithKey ==
    \A k \in Kinds : token[k].cookie = "held" => token[k].key >= -MaxDelay

\* When a cookie passes its Max-Age, its key has less than a second left:
\* rounding the TTL down to seconds costs no more than that.
KeyDiesWithCookie ==
    \A k \in Kinds : token[k].cookie = "lapsed" => token[k].key < TicksPerSecond

\* A challenge is in Redis for no longer than its TTL and the time the begin call
\* may take, counted from when the library stamped it: CeremonyTimeout "Should
\* match the challenge TTL" (options.go Config), and a slow Save does not start
\* the key's time long after the library's.
ChallengesDoNotLinger ==
    ceremony.state = "saved" /\ ceremony.key >= 0
        => ceremony.age <= cfg["CHALLENGE_TTL"] + RequestTimeout

\* A ceremony is refused as expired only after CHALLENGE_TTL: the key does not go
\* before the library's own timeout.
NoEarlyExpiry == ceremony.state = "expired" => ceremony.age > cfg["CHALLENGE_TTL"]
=============================================================================
