--------------------------- MODULE LifetimesProofs ---------------------------
(***************************************************************************)
(* The lifetimes of keys, cookies and ceremonies, for every clock          *)
(* resolution, every set of durations and every delay. What a property     *)
(* says about the end of a lifetime follows from what relates the two      *)
(* countdowns all along: both run at the same speed, so their distance     *)
(* stays what it was when the cookie arrived, or the key was saved.        *)
(***************************************************************************)
EXTENDS Lifetimes, TLAPS

\* A token: the ticks its key and its cookie have left, and how long the cookie
\* has been on its way.
TokenState ==
    [key : Int, cookie : {"none", "way", "held", "sticky", "lapsed"}, way : Int, left : Int]

\* A ceremony: how long ago its session data was stamped, and what its key has
\* left.
CeremonyState ==
    [state : {"none", "begun", "saved", "taken", "accepted", "expired"}, age : Int, key : Int]

\* Ticks are integers, negative ones included: a key may be long overdue.
TypeOK ==
    /\ env \in Envs
    /\ cfg \in [TTLs -> Int]
    /\ phase \in {"env", "loaded", "refused", "serving", "service_refused"}
    /\ token \in [Kinds -> TokenState]
    /\ ceremony \in CeremonyState

\* A configuration that was loaded has no fault, and NewService finds none of its
\* own; nothing is issued or begun before the server serves, so cfg is fixed from
\* then on.
ConfigInv ==
    /\ phase \in {"loaded", "serving"} => Faults(env) = {} /\ \A t \in TTLs : cfg[t] > 0
    /\ LateRefusalIsTheLibrarys
    /\ phase # "serving" => /\ \A k \in Kinds : token[k].cookie = "none"
                            /\ ceremony.state = "none"

\* On its way a cookie is as old as its key; the two then expire MaxDelay ticks
\* early to less than a second late of each other.
TokenInv ==
    \A k \in Kinds :
        /\ token[k].cookie = "way" => /\ token[k].way \in 0 .. MaxDelay
                                      /\ token[k].key + token[k].way = cfg[TokenTTL[k]]
        /\ token[k].cookie = "held" => /\ token[k].left >= 0
                                       /\ token[k].left - MaxDelay <= token[k].key
                                       /\ token[k].key < token[k].left + TicksPerSecond
        /\ token[k].cookie = "lapsed" => token[k].key < TicksPerSecond

\* The key was saved after the session data was stamped, and no later than
\* RequestTimeout: it is not the first to run out, nor much later than the other.
CeremonyInv ==
    /\ ceremony.age >= 0
    /\ ceremony.state = "saved" => \/ ceremony.age + ceremony.key >= cfg["CHALLENGE_TTL"]
                                   \/ ceremony.age > cfg["CHALLENGE_TTL"]
    /\ ceremony.state = "saved" /\ ceremony.key >= 0
           => ceremony.age + ceremony.key <= cfg["CHALLENGE_TTL"] + RequestTimeout
    /\ NoEarlyExpiry

LifetimeInv == TypeOK /\ ConfigInv /\ TokenInv /\ CeremonyInv

\* Rounding a duration down to seconds takes less than a second off it.
LEMMA WholeSeconds ==
  ASSUME NEW d \in Int, NEW n \in Nat \ {0}
  PROVE  /\ d \div n \in Int
         /\ (d \div n) * n <= d
         /\ d < (d \div n) * n + n
  OBVIOUS

\* And leaves nothing negative of one that is not.
LEMMA NotNegative ==
  ASSUME NEW d \in Nat, NEW n \in Nat \ {0}
  PROVE  (d \div n) * n >= 0
  OBVIOUS

\* Each kind of token has a TTL of the configuration.
LEMMA TokenTTLType == \A k \in Kinds : TokenTTL[k] \in TTLs
<1>1. Kinds = {"session", "guest"}
  BY DEF Kinds, TokenTTL
<1>2. TokenTTL["session"] = "SESSION_TTL" /\ TokenTTL["guest"] = "GUEST_TTL"
  BY DEF TokenTTL
<1> QED BY <1>1, <1>2 DEF TTLs

\* A TTL the environment gives is an integer if it parses.
LEMMA EnvTTLType ==
  ASSUME NEW e \in Envs, NEW t \in TTLs, AcceptsDuration(e.ttl[t])
  PROVE  e.ttl[t][1] \in Int /\ e.ttl[t][1] > 0
  BY DurationsAssumption DEF Envs, AcceptsDuration

------------------------------------------------------------------------------
(* Type correctness.                                                         *)

\* Init is well-typed.
LEMMA InitType == Init => TypeOK
<1>1. Gone \in Int
  BY DelayAssumption DEF Gone
<1>2. NoToken \in TokenState /\ NoCeremony \in CeremonyState
  BY <1>1 DEF NoToken, TokenState, NoCeremony, CeremonyState
<1> QED BY <1>2 DEF Init, TypeOK

\* Every step keeps the types.
LEMMA NextType == TypeOK /\ [Next]_vars => TypeOK'
<1> SUFFICES ASSUME TypeOK, [Next]_vars PROVE TypeOK'
  OBVIOUS
<1>g. Gone \in Int /\ NoToken \in TokenState
  BY DelayAssumption DEF Gone, NoToken, TokenState
<1>m. \A k \in Kinds : /\ cfg[TokenTTL[k]] \in Int
                       /\ MaxAge(k) * TicksPerSecond \in Int
  BY TokenTTLType, WholeSeconds, TicksAssumption DEF TypeOK, MaxAge
<1>1. CASE Load
  <2>1. CASE Faults(env) = {}
    <3>1. \A t \in TTLs : env.ttl[t][1] \in Int
      BY <2>1, EnvTTLType DEF Faults, TypeOK
    <3> QED BY <1>1, <2>1, <3>1 DEF Load, TypeOK
  <2>2. CASE Faults(env) # {}
    BY <1>1, <2>2 DEF Load, TypeOK
  <2> QED BY <2>1, <2>2
<1>2. CASE NewService
  BY <1>2 DEF NewService, TypeOK
<1>3. CASE TokenNext
  <2>1. PICK k \in Kinds : Issue(k) \/ SetCookie(k) \/ ClearCookie(k) \/ LoseCookie(k)
    BY <1>3 DEF TokenNext
  <2>2. token \in [Kinds -> TokenState]
    BY DEF TypeOK
  <2>3. token' \in [Kinds -> TokenState]
    <3>1. CASE Issue(k)
      BY <3>1, <2>2, <1>m DEF Issue, TokenState
    <3>2. CASE SetCookie(k)
      <4>1. PICK c \in {"sticky", "held"}, n \in Int :
                token' = [token EXCEPT ![k].cookie = c, ![k].left = n]
        BY <3>2, <1>m DEF SetCookie
      <4> QED BY <4>1, <2>2 DEF TokenState
    <3>3. CASE ClearCookie(k)
      BY <3>3, <2>2, <1>g DEF ClearCookie
    <3>4. CASE LoseCookie(k)
      BY <3>4, <2>2 DEF LoseCookie, TokenState
    <3> QED BY <2>1, <3>1, <3>2, <3>3, <3>4
  <2> QED BY <2>1, <2>3 DEF Issue, SetCookie, ClearCookie, LoseCookie, TypeOK
<1>4. CASE CeremonyNext
  <2>1. cfg["CHALLENGE_TTL"] \in Int
    BY DEF TypeOK, TTLs
  <2>2. ceremony' \in CeremonyState
    <3>t. ceremony \in CeremonyState
      BY DEF TypeOK
    <3>1. CASE Begin
      BY <3>1 DEF Begin, CeremonyState
    <3>2. CASE Save
      BY <3>2, <3>t, <2>1 DEF Save, CeremonyState
    <3>3. CASE SaveFails
      BY <3>3 DEF SaveFails, NoCeremony, CeremonyState
    <3>4. CASE TakeChallenge \/ Validate
      <4>1. PICK x \in {"taken", "accepted", "expired"} : ceremony' = [ceremony EXCEPT !.state = x]
        BY <3>4 DEF TakeChallenge, Validate
      <4> QED BY <4>1, <3>t DEF CeremonyState
    <3> QED BY <1>4, <3>1, <3>2, <3>3, <3>4 DEF CeremonyNext
  <2> QED BY <1>4, <2>2
          DEF CeremonyNext, Begin, Save, SaveFails, TakeChallenge, Validate, TypeOK
<1>5. CASE Tick
  <2>1. token' \in [Kinds -> TokenState]
    BY <1>5, <1>g DEF Tick, Elapse, TokenState, TypeOK
  <2>2. ceremony' \in CeremonyState
    <3>t. ceremony \in CeremonyState
      BY DEF TypeOK
    <3> DEFINE a == IF Pending /\ ceremony.age <= MaxAgeCounted
                      THEN ceremony.age + 1 ELSE ceremony.age
               b == IF ceremony.key >= 0 THEN ceremony.key - 1 ELSE ceremony.key
    <3>1. a \in Int /\ b \in Int
      BY <3>t DEF CeremonyState
    <3>2. ceremony' = [ceremony EXCEPT !.age = a, !.key = b]
      BY <1>5 DEF Tick
    <3> HIDE DEF a, b
    <3> QED BY <3>1, <3>2, <3>t DEF CeremonyState
  <2> QED BY <1>5, <2>1, <2>2 DEF Tick, TypeOK
<1>6. CASE UNCHANGED vars
  BY <1>6 DEF vars, TypeOK
<1> QED BY <1>1, <1>2, <1>3, <1>4, <1>5, <1>6 DEF Next

------------------------------------------------------------------------------
(* Configuration.                                                            *)

\* NewService finds no fault in what Load accepted, and nothing is issued before.
LEMMA ConfigNext == TypeOK /\ ConfigInv /\ [Next]_vars => ConfigInv'
<1> SUFFICES ASSUME TypeOK, ConfigInv, [Next]_vars PROVE ConfigInv'
  OBVIOUS
<1>1. CASE Load
  <2>1. CASE Faults(env) = {}
    <3>1. \A t \in TTLs : env.ttl[t][1] \in Int /\ env.ttl[t][1] > 0
      BY <2>1, EnvTTLType DEF Faults, TypeOK
    <3>2. /\ phase' = "loaded" /\ cfg' = [t \in TTLs |-> env.ttl[t][1]]
          /\ phase = "env" /\ UNCHANGED <<env, token, ceremony>>
      BY <1>1, <2>1 DEF Load
    <3>3. Faults(env)' = {}
      BY <2>1, <3>2 DEF Faults
    <3> QED BY <3>1, <3>2, <3>3 DEF ConfigInv, LateRefusalIsTheLibrarys
  <2>2. CASE Faults(env) # {}
    BY <1>1, <2>2 DEF Load, ConfigInv, LateRefusalIsTheLibrarys
  <2> QED BY <2>1, <2>2
<1>2. CASE NewService
  <2>1. Faults(env) = {} /\ cfg["CHALLENGE_TTL"] > 0 /\ cfg["CHALLENGE_TTL"] \in Int
    BY <1>2 DEF NewService, ConfigInv, TTLs, TypeOK
  <2>2. ServiceFaults(env) = {}
    <3>1. Settings \subseteq env.set /\ Len(SplitAndTrim(env.origins)) # 0
      BY <2>1 DEF Faults
    <3>2. SplitAndTrim(env.origins) # <<>>
      BY <3>1
    <3> QED BY <2>1, <3>1, <3>2 DEF ServiceFaults, Settings
  <2>3. /\ phase = "loaded" /\ phase' \in {"serving", "service_refused"}
        /\ UNCHANGED <<env, cfg, token, ceremony>>
    BY <1>2 DEF NewService
  <2>4. Faults(env)' = {} /\ ServiceFaults(env)' = {}
    BY <2>1, <2>2, <2>3 DEF Faults, ServiceFaults
  <2> QED BY <2>3, <2>4 DEF ConfigInv, LateRefusalIsTheLibrarys
<1>3. CASE TokenNext
  <2>1. phase = "serving"
    BY <1>3 DEF TokenNext, Issue, SetCookie, ClearCookie, LoseCookie, ConfigInv
  <2>2. UNCHANGED <<env, cfg, phase>>
    BY <1>3 DEF TokenNext, Issue, SetCookie, ClearCookie, LoseCookie
  <2> QED BY <2>1, <2>2 DEF ConfigInv, LateRefusalIsTheLibrarys, Faults
<1>4. CASE CeremonyNext
  <2>1. phase = "serving"
    BY <1>4 DEF CeremonyNext, Begin, Save, SaveFails, TakeChallenge, Validate, ConfigInv
  <2>2. UNCHANGED <<env, cfg, phase>>
    BY <1>4 DEF CeremonyNext, Begin, Save, SaveFails, TakeChallenge, Validate
  <2> QED BY <2>1, <2>2 DEF ConfigInv, LateRefusalIsTheLibrarys, Faults
<1>5. CASE Tick
  BY <1>5 DEF Tick, ConfigInv, LateRefusalIsTheLibrarys, Faults
<1>6. CASE UNCHANGED vars
  BY <1>6 DEF vars, ConfigInv, LateRefusalIsTheLibrarys, ServiceFaults, Faults
<1> QED BY <1>1, <1>2, <1>3, <1>4, <1>5, <1>6 DEF Next

------------------------------------------------------------------------------
(* Tokens.                                                                   *)

\* The TTLs are positive once the server serves.
LEMMA ServingTTL ==
  ASSUME TypeOK, ConfigInv, phase = "serving"
  PROVE  \A k \in Kinds : cfg[TokenTTL[k]] \in Nat \ {0}
<1>1. \A t \in TTLs : cfg[t] \in Int /\ cfg[t] > 0
  BY DEF TypeOK, ConfigInv
<1> QED BY <1>1, TokenTTLType

\* What TokenInv says of one token, given the TTL of its kind.
TokenOk(x, ttl) ==
    /\ x.cookie = "way" => x.way \in 0 .. MaxDelay /\ x.key + x.way = ttl
    /\ x.cookie = "held" => /\ x.left >= 0
                            /\ x.left - MaxDelay <= x.key
                            /\ x.key < x.left + TicksPerSecond
    /\ x.cookie = "lapsed" => x.key < TicksPerSecond

\* The key and the cookie of a token run at the same speed.
LEMMA ElapseOk ==
  ASSUME NEW x \in TokenState, NEW ttl \in Nat \ {0}, TokenOk(x, ttl),
         x.cookie = "way" => x.way < MaxDelay
  PROVE  TokenOk(Elapse(x), ttl)
<1> DEFINE left == IF x.left > Gone THEN x.left - 1 ELSE x.left
           key  == IF x.key > Gone THEN x.key - 1 ELSE x.key
           way  == IF x.cookie = "way" THEN x.way + 1 ELSE x.way
           cookie == IF x.cookie = "held" /\ left < 0 THEN "lapsed" ELSE x.cookie
<1>t. /\ x.left \in Int /\ x.key \in Int /\ x.way \in Int
      /\ MaxDelay \in Nat /\ TicksPerSecond \in Nat \ {0} /\ Gone = -(MaxDelay + 1)
  BY DelayAssumption, TicksAssumption DEF TokenState, Gone
<1>1. Elapse(x) = [key |-> key, cookie |-> cookie, way |-> way, left |-> left]
  BY DEF Elapse
<1>2. ASSUME cookie = "way" PROVE way \in 0 .. MaxDelay /\ key + way = ttl
  BY <1>2, <1>t DEF TokenOk
<1>3. ASSUME cookie = "held"
      PROVE  left >= 0 /\ left - MaxDelay <= key /\ key < left + TicksPerSecond
  BY <1>3, <1>t DEF TokenOk
<1>4. ASSUME cookie = "lapsed" PROVE key < TicksPerSecond
  BY <1>4, <1>t DEF TokenOk
<1> HIDE DEF left, key, way, cookie
<1> QED BY <1>1, <1>2, <1>3, <1>4 DEF TokenOk

\* Every step keeps the countdowns of a key and its cookie in line.
LEMMA TokenInvNext == TypeOK /\ ConfigInv /\ TokenInv /\ [Next]_vars => TokenInv'
<1> SUFFICES ASSUME TypeOK, ConfigInv, TokenInv, [Next]_vars PROVE TokenInv'
  OBVIOUS
<1>t. /\ token \in [Kinds -> TokenState] /\ MaxDelay \in Nat
      /\ TicksPerSecond \in Nat \ {0}
  BY DelayAssumption, TicksAssumption DEF TypeOK
<1>o. \A k \in Kinds : TokenOk(token[k], cfg[TokenTTL[k]])
  BY DEF TokenInv, TokenOk
<1>n. (\A k \in Kinds : TokenOk(token'[k], cfg'[TokenTTL[k]])) => TokenInv'
  BY DEF TokenInv, TokenOk
<1>1. CASE Load
  <2>1. \A k \in Kinds : token'[k].cookie = "none"
    BY <1>1 DEF Load, ConfigInv
  <2> QED BY <2>1 DEF TokenInv
<1>2. CASE UNCHANGED <<cfg, token>>
  BY <1>2, <1>o, <1>n
<1>3. CASE TokenNext
  <2>1. PICK k \in Kinds : Issue(k) \/ SetCookie(k) \/ ClearCookie(k) \/ LoseCookie(k)
    BY <1>3 DEF TokenNext
  <2>2. phase = "serving" /\ UNCHANGED cfg
    BY <2>1 DEF Issue, SetCookie, ClearCookie, LoseCookie, ConfigInv
  <2>3. PICK d \in Nat \ {0} : d = cfg[TokenTTL[k]]
    BY <2>2, ServingTTL
  <2>4. \A q \in Kinds \ {k} : token'[q] = token[q]
    BY <2>1, <1>t DEF Issue, SetCookie, ClearCookie, LoseCookie
  <2> SUFFICES TokenOk(token'[k], d)
    BY <2>2, <2>3, <2>4, <1>o, <1>n
  <2>5. CASE Issue(k)
    <3>1. token'[k] = [key |-> d, cookie |-> "way", way |-> 0, left |-> 0]
      BY <2>5, <2>3, <1>t DEF Issue
    <3> QED BY <3>1, <1>t DEF TokenOk
  <2>6. CASE SetCookie(k)
    <3>1. MaxAge(k) = d \div TicksPerSecond
      BY <2>3 DEF MaxAge
    <3>2. PICK n \in Nat : /\ n = MaxAge(k) * TicksPerSecond
                           /\ n <= d /\ d < n + TicksPerSecond
      <4>1. /\ d \div TicksPerSecond \in Int
            /\ (d \div TicksPerSecond) * TicksPerSecond <= d
            /\ d < (d \div TicksPerSecond) * TicksPerSecond + TicksPerSecond
        BY <1>t, WholeSeconds
      <4>2. (d \div TicksPerSecond) * TicksPerSecond >= 0
        BY <1>t, NotNegative
      <4>3. (d \div TicksPerSecond) * TicksPerSecond \in Nat
        BY <4>1, <4>2, <1>t
      <4> QED BY <3>1, <4>1, <4>3
    <3>3. /\ token'[k].cookie \in {"held", "sticky"}
          /\ token'[k].left = n /\ token'[k].key = token[k].key
      <4>1. PICK c \in {"sticky", "held"} :
                token' = [token EXCEPT ![k].cookie = c, ![k].left = n]
        BY <2>6, <3>2 DEF SetCookie
      <4> QED BY <4>1, <1>t DEF TokenState
    <3>4. token[k].way \in 0 .. MaxDelay /\ token[k].key + token[k].way = d
      BY <2>6, <2>3, <1>o DEF SetCookie, TokenOk
    <3>5. token[k].key \in Int
      BY <1>t DEF TokenState
    <3>6. n - MaxDelay <= token[k].key /\ token[k].key < n + TicksPerSecond
      BY <3>2, <3>4, <3>5, <1>t
    <3> QED BY <3>2, <3>3, <3>6 DEF TokenOk
  <2>7. CASE ClearCookie(k)
    BY <2>7, <1>t DEF ClearCookie, NoToken, TokenOk
  <2>8. CASE LoseCookie(k)
    <3>1. token'[k].cookie = "none"
      BY <2>8, <1>t DEF LoseCookie, TokenState
    <3> QED BY <3>1 DEF TokenOk
  <2> QED BY <2>1, <2>5, <2>6, <2>7, <2>8
<1>4. CASE Tick
  <2>1. phase = "serving" /\ UNCHANGED cfg
    BY <1>4 DEF Tick
  <2> SUFFICES ASSUME NEW k \in Kinds PROVE TokenOk(token'[k], cfg[TokenTTL[k]])
    BY <2>1, <1>n
  <2>2. token'[k] = Elapse(token[k]) /\ (token[k].cookie = "way" => token[k].way < MaxDelay)
    BY <1>4 DEF Tick
  <2> QED BY <2>1, <2>2, <1>t, <1>o, ElapseOk, ServingTTL
<1> QED BY <1>1, <1>2, <1>3, <1>4
        DEF Next, NewService, CeremonyNext, Begin, Save, SaveFails, TakeChallenge, Validate, vars

------------------------------------------------------------------------------
(* Ceremonies.                                                               *)

\* The key of a ceremony does not run out before the library's timeout, nor more
\* than RequestTimeout after it.
LEMMA CeremonyInvNext == TypeOK /\ ConfigInv /\ CeremonyInv /\ [Next]_vars => CeremonyInv'
<1> SUFFICES ASSUME TypeOK, ConfigInv, CeremonyInv, [Next]_vars PROVE CeremonyInv'
  OBVIOUS
<1> USE RequestAssumption DEF CeremonyInv, NoEarlyExpiry
<1>t. ceremony \in CeremonyState /\ ceremony.age \in Int /\ ceremony.key \in Int
  BY DEF TypeOK, CeremonyState
<1>c. cfg["CHALLENGE_TTL"] \in Int
  BY DEF TypeOK, TTLs
<1>1. CASE Load
  BY <1>1 DEF Load, ConfigInv
<1>2. CASE UNCHANGED <<cfg, ceremony>>
  BY <1>2
<1>3. CASE Begin
  BY <1>3 DEF Begin
<1>4. CASE Save
  <2>1. /\ ceremony'.state = "saved" /\ ceremony'.age = ceremony.age
        /\ ceremony'.key = cfg["CHALLENGE_TTL"] /\ UNCHANGED cfg
        /\ ceremony.age <= RequestTimeout
    BY <1>4, <1>t DEF Save, CeremonyState
  <2> QED BY <2>1, <1>t, <1>c
<1>5. CASE TakeChallenge
  <2>1. /\ ceremony'.state = IF ceremony.key >= 0 THEN "taken" ELSE "expired"
        /\ ceremony'.age = ceremony.age /\ ceremony.state = "saved" /\ UNCHANGED cfg
    BY <1>5, <1>t DEF TakeChallenge, CeremonyState
  <2> QED BY <2>1, <1>t, <1>c
<1>6. CASE Validate
  <2>1. /\ ceremony'.state = IF ceremony.age <= cfg["CHALLENGE_TTL"] THEN "accepted" ELSE "expired"
        /\ ceremony'.age = ceremony.age /\ UNCHANGED cfg
    BY <1>6, <1>t DEF Validate, CeremonyState
  <2> QED BY <2>1, <1>t, <1>c
<1>7. CASE SaveFails
  BY <1>7 DEF SaveFails, NoCeremony
<1>8. CASE Tick
  <2>1. UNCHANGED cfg
    BY <1>8 DEF Tick
  <2>2. /\ ceremony'.state = ceremony.state
        /\ ceremony'.age = IF Pending /\ ceremony.age <= MaxAgeCounted
                              THEN ceremony.age + 1 ELSE ceremony.age
        /\ ceremony'.key = IF ceremony.key >= 0 THEN ceremony.key - 1 ELSE ceremony.key
    BY <1>8, <1>t DEF Tick, CeremonyState
  <2> QED BY <2>1, <2>2, <1>t, <1>c DEF Pending, MaxAgeCounted
<1> QED BY <1>1, <1>2, <1>3, <1>4, <1>5, <1>6, <1>7, <1>8
        DEF Next, NewService, TokenNext, Issue, SetCookie, ClearCookie, LoseCookie,
            CeremonyNext, vars

------------------------------------------------------------------------------
(* The theorems.                                                             *)

\* Start-up satisfies the invariant, and every step keeps it.
THEOREM LifetimesInvariant == Spec => []LifetimeInv
<1>1. Init => ConfigInv /\ TokenInv /\ CeremonyInv
  BY DEF Init, ConfigInv, TokenInv, CeremonyInv, NoToken, NoCeremony, NoEarlyExpiry,
         LateRefusalIsTheLibrarys
<1>2. TypeOK /\ ConfigInv /\ TokenInv /\ CeremonyInv /\ [Next]_vars
          => TypeOK' /\ ConfigInv' /\ TokenInv' /\ CeremonyInv'
  BY NextType, ConfigNext, TokenInvNext, CeremonyInvNext
<1>3. TypeOK /\ ConfigInv /\ TokenInv /\ CeremonyInv <=> LifetimeInv
  BY DEF LifetimeInv
<1> QED BY <1>1, <1>2, <1>3, InitType, PTL DEF Spec

\* NewService's own tests refuse nothing that Load accepted, whatever the
\* environment: what is refused late is refused by the library.
THEOREM LateRefusalsAreTheLibrarys == Spec => []LateRefusalIsTheLibrarys
<1>1. LifetimeInv => LateRefusalIsTheLibrarys
  BY DEF LifetimeInv, ConfigInv
<1> QED BY <1>1, LifetimesInvariant, PTL

\* A browser never presents a token that expired longer ago than MaxDelay.
THEOREM CookiesDieWithKeys == Spec => []CookieDiesWithKey
<1>1. LifetimeInv => CookieDiesWithKey
  <2> SUFFICES ASSUME LifetimeInv, NEW k \in Kinds, token[k].cookie = "held"
               PROVE  token[k].key >= -MaxDelay
    BY DEF CookieDiesWithKey
  <2>1. token[k].left >= 0 /\ token[k].left - MaxDelay <= token[k].key
    BY DEF LifetimeInv, TokenInv
  <2>2. token[k].left \in Int /\ token[k].key \in Int
    BY DEF LifetimeInv, TypeOK, TokenState
  <2> QED BY <2>1, <2>2, DelayAssumption
<1> QED BY <1>1, LifetimesInvariant, PTL

\* A cookie outlived by its key is outlived by less than a second.
THEOREM KeysDieWithCookies == Spec => []KeyDiesWithCookie
<1>1. LifetimeInv => KeyDiesWithCookie
  BY DEF LifetimeInv, TokenInv, KeyDiesWithCookie
<1> QED BY <1>1, LifetimesInvariant, PTL

\* The key of a challenge outlives the library's timeout by no more than the
\* time a request may take, whenever Save reaches Redis.
THEOREM ChallengesNeverLinger == Spec => []ChallengesDoNotLinger
<1>1. LifetimeInv => ChallengesDoNotLinger
  <2> SUFFICES ASSUME LifetimeInv, ceremony.state = "saved", ceremony.key >= 0
               PROVE  ceremony.age <= cfg["CHALLENGE_TTL"] + RequestTimeout
    BY DEF ChallengesDoNotLinger
  <2>1. ceremony.age + ceremony.key <= cfg["CHALLENGE_TTL"] + RequestTimeout
    BY DEF LifetimeInv, CeremonyInv
  <2>2. ceremony.age \in Int /\ ceremony.key \in Int /\ cfg["CHALLENGE_TTL"] \in Int
    BY DEF LifetimeInv, TypeOK, CeremonyState, TTLs
  <2> QED BY <2>1, <2>2, RequestAssumption
<1> QED BY <1>1, LifetimesInvariant, PTL

\* No ceremony is refused as expired before CHALLENGE_TTL is over.
THEOREM CeremoniesDoNotExpireEarly == Spec => []NoEarlyExpiry
<1>1. LifetimeInv => NoEarlyExpiry
  BY DEF LifetimeInv, CeremonyInv
<1> QED BY <1>1, LifetimesInvariant, PTL
=============================================================================
