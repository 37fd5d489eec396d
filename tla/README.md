# A TLA+ model of go-passkey-auth

go-passkey-auth is a WebAuthn (passkey) authentication service: a Go HTTP server
over PostgreSQL (users, credentials) and Redis (challenges, sessions, guest
tokens). Its handlers are short, but each of them is a chain of store calls with no
common transaction, and net/http runs any number of them at once. What can go wrong
is therefore in the gaps: between a check and the write that relies on it, between
two writes that belong together, between two requests that use the same ceremony,
cookie, username or credential.

The project models the server at that grain. One step is one store call (for the one
explicit SQL transaction, one statement); a request may be interleaved with others,
fail or be cancelled between any two of its calls. Around this core stand models of the
process that runs the handlers, of the clocks they live by, of the browser that calls
them, and of what a credential row remembers. Paths below are relative to `src/`.

## 1. The system

| Part | State | Operations |
|---|---|---|
| `internal/domain` | the row types `User`, `Credential`, sentinel errors | none |
| `internal/store/postgres/user.go` | table `users` | CreateGuest, CreateRegistered, PromoteGuest, GetByID, GetByUsername; one statement each |
| `internal/store/postgres/credential.go` | table `credentials` (soft-deleted rows stay) | Insert, UpdateAfterAssertion, Rename, GetByCredentialID, ListByUserID; SoftDelete is a READ COMMITTED transaction of four statements |
| `migrations/000001_init.up.sql` | partial unique indexes on registered usernames and on live credential ids | applied at start-up |
| `internal/store/redis` | keys `challenge:`, `session:`, `guest:` with TTLs | Save, Take (GETDEL); Create, Get, Delete |
| `internal/api/handler/auth.go` | local variables of the request | register, login and promote (begin/complete), logout, guest |
| `internal/api/handler/user.go`, `middleware/session.go` | the user id in the request context | Me, ListCredentials, DeleteCredential behind RequireSession |
| `internal/api/router.go` | none | routes, recovery, 30-second timeout |
| `internal/webauthn` | none | wraps go-webauthn; attestation policy |
| `cmd/server/main.go`, `internal/config` | process, configuration | start-up, migrations, shutdown |
| `handler/health.go`, `cookie.go`, `response.go`, `middleware/logger.go` | none | pings, cookies, JSON, log lines |
| `internal/api/static/index.html` | a browser page | drives the routes |

How they interact. A *ceremony* is begun by one request, which stores a payload under
a random session id, and completed by another, which takes the payload out again
(GETDEL) and hands it with the client's answer to the library.
`/register/complete` then creates the user row and inserts the credential;
`/promote/complete` turns a guest row into a registered one, inserts the credential
and opens a session; `/login/complete` resolves the credential, stores its new sign
counter and opens a session. The three flows share one challenge keyspace; guests and
sessions are bearer tokens in cookies.

What is hard here, and what makes it correct:

* check and write apart (username at begin, ownership before delete, counter before
  update): `RegisteredUsernameUnique`, `DeleteTouchesOwnCredential`,
  `SignCountNeverRegresses`;
* two writes without a transaction (user row, credential row, session):
  `NoGhostAccount`, `SessionHolderCanLogIn`;
* the same session id, guest or credential used by several requests at once:
  `CeremonyIsOneShot`, `OnePasskeyPerAccount`, `DeletedCredentialsStay`;
* completing one flow's ceremony with another flow's handler:
  `CeremonyMatchesAccount`;
* row locks and the delete guard: `LockedRowIsLive`, `LiveCredentialIdUnique`,
  `LastCredentialGuard`, and that nobody waits for ever: `SoftDeleteEnds`,
  `EveryRequestEnds`;
* a process that stops while requests run, crashes in a migration, or fails half-way
  through start-up: `CleanExitCutsNobody`, `NoStatementCutOff`, `ServesOnCurrentSchema`,
  `ReturnClosesStores`, `SignalEndsProcess`; two pings that are not simultaneous:
  `ReadyMeansUsable`;
* two clocks for one thing (key and cookie, challenge key and library timeout):
  `CookieDiesWithKey`, `KeyDiesWithCookie`, `ChallengesDoNotLinger`, `NoEarlyExpiry`; two
  validations of one setting: `LateRefusalIsTheLibrarys`;
* a browser whose cookies change while calls are out, and whose answers get lost:
  `GuestIdempotent`, `GuestIdempotentInTurn`, `LogoutSticks`, `PasskeyEndsGuestCookie`,
  `GuestReplyNamesAGuest`, `PageMatchesSession`;
* an audit trail made from a row that may be stale: `NoSilentDrift`,
  `NoSilentReset`; a policy before the first write: `AccountPassedPolicy`.

PROJECT.json lists these hazards at their lines.

## 2. The modules

| Module | Models |
|---|---|
| `Domain` | identifiers as constants, the two row types |
| `UserStore` | `postgres/user.go` |
| `CredentialStore` | `postgres/credential.go`, with the row lock of SoftDelete |
| `RedisStores` | `redis/challenge.go`, `session.go`, `guest.go`, expiry |
| `HandlerState` | requests in flight: `req[r].pc` is the next store call, the other fields are the handler's local variables |
| `AuthHandler` | `handler/auth.go` |
| `UserHandler` | `handler/user.go` behind RequireSession |
| `PasskeyService` | the composition: routes, `Next`, `Spec`, the properties |
| `CredentialStoreSpec` | the credential store alone, under arbitrary concurrent callers |
| `MultiPasskey` | the service with accounts that own several passkeys, and its fairness |
| `AccountLifecycle`, `PasskeyRefinement` | what the service promises about accounts, and that it does |
| `PasskeyInvariants` | the inductive invariant |
| `ServerLifecycle` | `cmd/server/main.go` from `config.Load` to `os.Exit` and the next start, `handler/health.go`, `postgres.NewPool`, `redis.NewClient` |
| `Lifetimes` | `internal/config`, the checks of `webauthn/options.go`, and the lifetimes `main.go` makes of the TTLs |
| `BrowserClient` | a browser: cookie jar, `static/index.html`, and the handlers' answers as it sees them (`cookie.go`, `response.go`) |
| `CredentialRecord` | `webauthn/attestation.go` and `service.go`, `domainCredentialFromLib`, `recordCounterAnomalies`, `UpdateAfterAssertion`: the columns the service model leaves out |
| `SoftAuthenticator` | `testutil/webauthntest/authenticator.go` |
| `PasskeyProofs`, `AccountProofs`, `CredentialStoreProofs`, `ServerLifecycleProofs`, `LifetimesProofs`, `BrowserClientProofs`, `CredentialRecordProofs`, `SoftAuthenticatorProofs` | theorems |
| `MC*` | symmetry sets for the runs |

State and actions. `users`, `credentials`, `challenges`, `sessions`, `guests` are the
tables and keyspaces; `tx[r]` is the SoftDelete transaction of request `r`. An action
named `CompleteRegisterInsert(r)` is the Insert call of CompleteRegister in request
`r`, with the local work that follows it; its sibling `CompleteRegisterExists` is the
same call returning ErrCredentialExists. `Arrive(r)` starts a request with any
ceremony, cookie, credential and counter: clients are not trusted to follow a
protocol. A request that is refused before it changed anything leaves the state as
it was and is not an action.

Choices a reader should know:

* **Rows and keys keep their past.** A deleted credential, a taken challenge and an
  expired session stay in the model with a status, as the database keeps deleted
  rows; for Redis only properties look at them.
* **Random identifiers** are drawn without replacement: UUIDs and 256-bit tokens do
  not collide. When a set runs out the drawing call fails (`Exhausted`), which for the
  server is one more store error.
* **Failure.** `Fail(r)` ends a request anywhere: a store error, a client that went
  away, the timeout, a crash of the process. A call that took effect and whose answer
  was lost is the call followed by `Fail`. An open transaction is rolled back. Error
  returns that go on instead of ending the request (Guest's lookup) are alternatives
  of their actions.
* **READ COMMITTED.** `SoftDeleteLock` waits for whoever holds the row and re-reads
  it; `SoftDeleteCount` sees committed rows only; a deleted_at that is not committed
  is seen by nobody, but an insert with the same credential id waits for it
  (`InsertMustWait`). The transaction counts its own row as live, as the code does:
  the count comes before the update.
* **No clock** in the service and the process: a key may expire and a deadline may pass
  at any moment, which covers every TTL. `Lifetimes`, whose questions are about
  durations, counts ticks.
* **The library** (go-webauthn, not part of the repository) is three operators here and
  `LibraryAccepts` in Lifetimes.
  `LibCreates` says that a registration response is accepted only against session
  data made by BeginRegistration: a login session lists no acceptable algorithms.
  `LibAsserts` says that a discoverable login is refused for session data that names
  a user. `LibSignCounts` is the set of counters that may come back: never one below the
  stored counter, except zero. The library's own `UpdateCounter` keeps the stored
  counter when zero is asserted; `recordCounterAnomalies` has a branch for a library that
  does not, and the wider set is there to hold the code to it (`NoSilentReset`). The
  library may in addition refuse anything at any time. Signatures, origins and
  challenges are part of "accepted".
* **A credential id stands for its key pair**; a client may present any. `handle`, the
  random user handle of a ceremony, is named by its session id, since both are drawn
  for one ceremony.
* **Left out of the rows** of the service: display names, AAGUID, transports, attestation
  and backup columns, timestamps. No query and no branch that writes depends on them.
  AAGUID, attestation and backup columns are the subject of `CredentialRecord`.

The models around the core abstract it in turn:

* **ServerLifecycle.** `main` is the line of `run()`; `client` the two store clients;
  `schema` is `schema_migrations`, the one thing that survives a restart. A request
  reads its body, calls stores in any order and number and responds; PasskeyService
  knows the calls. `pool.Close` waits for the connections in use, `redisClient.Close`
  does not. `cut` (requests that lost a store or died with the process) and `seen`
  (stores that could be used while a request ran) are written for the properties only.
  golang-migrate, net/http and the clients are external: a dirty version is refused;
  `Shutdown` waits for the requests and returns its context's error.
* **Lifetimes.** Remaining lifetimes are counted down, so no absolute time is needed.
  `MaxAge` is the code's integer conversion; net/http leaves a MaxAge of 0 out of the
  header, and the cookie then goes with the browser window (`"sticky"`). `NewService`
  refuses for its own four errors (`ServiceFaults`) or because `gowebauthn.New` does
  (`LibraryAccepts`): RP_ID and origins have rules that config does not know, so that an
  environment `Load` accepted may still end the start-up after the stores are open.
  `Save` runs under the request's context, which `chimw.Timeout` ends after
  `RequestTimeout`.
* **BrowserClient.** A handler is one step, with its partial failures as alternatives,
  except CompletePromote: its row, its key, and its session with the guest token are three
  steps, between which other calls of the browser are answered, and after each of which it
  may stop (a credential that is unusable or exists already is no fault, a session that
  cannot be created is one of the store). Every call carries the cookies the jar holds when
  it is sent; an answer may arrive late or not at all. When `fetch` has thrown, the page is
  done with the call and the server need not be: a `lost` registration or promotion may be
  handled later, at any of its steps. (A log-in, a logout or a guest call that is handled
  late makes a token nobody gets or deletes one, and keys may go at any time; it has no
  step of its own.) A response that changes neither jar nor page and is followed by no call
  ends its function in the handler's own step (`Ends`), and the DELETE of a passkey is part
  of the click before its `refreshMe`. A key expires and leaves its cookie
  (`ExpireToken`); a cookie lapses after its key or, its Max-Age being rounded down,
  shortly before it (`LapseCookie`). `faults` remembers which kinds of trouble occurred:
  `"overlap"` (a function started while another was under way), `"lost"` (a message),
  `"store"` (a failed store call), `"early"` (a cookie that lapsed before its key);
  `MaxFaultKinds` bounds how many kinds one behaviour mixes, and each property says which
  it withstands. `PageAfter` and `NextCall` say what each async function of the page does
  with an answer, `refreshMe` included.
* **CredentialRecord.** One registration, then log-ins in two steps: the row is read,
  the library answers and the warnings are logged (`ResolveLogin`), the row is written
  (`UpdateAfterAssertion`). The library may report any flags, AAGUID and format; which
  counters it returns is `LibSignCounts`, as in AuthHandler.
* **SoftAuthenticator.** `signCount.Add` and the later `Load` are two steps. The counter
  wraps, as the code's 32 bits do, at a small `MaxCount`; `wrapped` remembers that it did.
  `floor` remembers, for the property, the highest counter handed out when a call began.

## 3. The runs

Bounds: U users, N names, C credential rows, K credential ids, S ceremonies, T session
tokens, G guest tokens, R requests (transactions) at once, M the highest sign count.

| Run | U N C K S T G R M | Checks | Result |
|---|---|---|---|
| `store_concurrent` | 1 1 3 2 1 1 1 2 1 | `CredentialsTypeOK`, `LiveCredentialIdUnique`, `LockedRowIsLive`, `DeletedCredentialsStay`, `SoftDeleteEnds` | holds |
| `store_write_skew` | 2 1 2 2 1 1 1 2 0 | `LastCredentialGuard` | **violated** |
| `service_races` | 2 2 2 2 3 1 1 2 0 | the safety properties of the service, `IInv`, `ImplementsLifecycle` | holds |
| `multi_passkey` | 1 1 2 2 3 1 0 2 0 | `EveryRequestEnds` | holds |
| `sign_count_race` | 1 1 1 1 3 1 0 2 2 | `SignCountNeverRegresses` | **violated** |
| `ghost_account` | 2 2 1 1 2 1 0 1 0 | `NoGhostAccount` | **violated** |

The other models:

| Run | Bounds | Checks | Result |
|---|---|---|---|
| `server_lifecycle` | 2 requests | `TypeOK`, `ServesOnCurrentSchema`, `CleanExitCutsNobody`, `ReturnClosesStores`, `ReadyMeansUsable`, `NoStatementCutOff`, `SignalEndsProcess` | holds |
| `lifetimes` | half-second ticks, TTLs 0, 0.5, 1, 2.5 s, delay and request timeout 0.5 s | `LateRefusalIsTheLibrarys`, `KeyDiesWithCookie`, `CookieDiesWithKey`, `ChallengesDoNotLinger`, `NoEarlyExpiry` | holds |
| `browser` | 2 users, 2 of each token, 2 functions of the page, 1 kind of fault | `TypeOK`, `GuestIdempotentInTurn`, `PageMatchesSession`, `LogoutSticks`, `PasskeyEndsGuestCookie`, `GuestReplyNamesAGuest` | holds |
| `guest_double_click` | the same | `GuestIdempotent` | **violated** |
| `credential_record` | 2 log-ins at once, counter to 2, formats and types in and out of the policy, 2 models | `TypeOK`, `AccountPassedPolicy`, `NoSilentDrift`, `NoSilentReset` | holds |
| `authenticator` | 3 callers, counter to 5, then wrapping | `CountExceedsStored` | holds |

Why the bounds are enough to be interesting. Every property is broken by two actors:
two requests at once, over two accounts that can compete for a name or share a
credential id. Three ceremonies allow a registration and a log-in beside a promotion,
or two promotions of one guest; the third row of `store_concurrent` leaves one credential
to a bystander, or a new row to the id of one that is being deleted. Owners
matter to the store only in the count of the delete guard, which `service_races`
meets with two of them.
`M = 0` in `service_races` leaves counters to `sign_count_race`; one session token is
enough for a DELETE to race the log-in or promotion that opened it. Two requests are
enough for a shutdown that finds one in a statement and one still reading its body; a
restart is always possible, so crashes may follow one another without a bound. The TTLs
of `lifetimes` lie on both sides of a whole second and of each other, and one is zero, as
`Load` may meet it. In `browser` a behaviour has one kind of trouble, as often as it
likes, so that what each property withstands can be told apart.

Deadlock is checked everywhere but in two models. A configuration that `Load` refuses
ends the program (`Lifetimes`), and `CredentialRecord` has one registration: when it
fails after the user row was created, nothing is left to do. In the others calls,
expiries or restarts are always possible.

What the violations show.

1. `store_write_skew`: two SoftDelete calls for two credentials of one account lock
   their own rows, both count two, both commit. The account has no credential left.
   `credential.go:142-143` and the repository's README line 133 say this cannot
   happen. No route can create a second credential today (`OnePasskeyPerAccount` is
   a theorem), so the service does not reach it yet; the store, its tests and the
   documentation are written for accounts that have several.
2. `sign_count_race`: two log-ins with one credential read the same stored counter;
   the one with the smaller new counter writes last, and the stored counter goes
   back. `auth.go:880-881` and README line 117 leave this to the library, which sees
   only the value read earlier.
3. `ghost_account`: CompleteRegister and CompletePromote commit the user row first and
   the credential in a second statement. A failure between them, or a credential id
   that exists already, leaves a registered username without a credential, which
   `auth.go:103-105` rules out. Nobody can log in to it and nobody can register it again.
4. `guest_double_click`: two clicks before the first answer send two requests without a
   cookie; each makes a guest, and the first guest's token is forgotten by the browser
   and lives on in Redis. `auth.go:612-614` and README line 78 call the route
   idempotent. `GuestIdempotentInTurn` shows that it is, one call at a time.

Limits of what holds. These the models contain and the properties leave open, each with
a word in its comment:

* `LogoutSticks` is about the browser: a failed Delete is logged and answered with 204 and
  a cleared cookie, and the session lives on in Redis until its TTL, for whoever else has
  the token. What the code does guarantee then, and the property says, is that this browser
  never presents it again. Calls that were sent before the logout was answered may still
  carry it.
* `PasskeyEndsGuestCookie` leaves open a promotion that stops between the row and the
  credential (`credential_exists`, a failed insert): the guest cookie then resolves to a
  registered user without a passkey until it expires, the account of `NoGhostAccount`.
  While a promotion is between its insert and its `guests.Delete`, the cookie resolves to
  somebody who has just got a passkey.
* `LateRefusalIsTheLibrarys` does not say that a loaded configuration starts: an RP_ID or
  origin that only `gowebauthn.New` finds malformed ends `run()` with the stores open
  (`ReturnClosesStores` is about what happens to them).
* `PageMatchesSession` is about functions of the page one after the other: two under way
  at once may leave the profile of one over the passkeys of the other.
* `CookieDiesWithKey` speaks of TTLs of a second and more: `int(cfg.SessionTTL.Seconds())`
  is 0 below that, net/http leaves the attribute out, and the cookie stays until the
  browser is closed.
* `CountExceedsStored` orders calls that follow one another: two concurrent calls of the
  test authenticator may both add and then both load, and sign the same counter. It ends
  when the counter has wrapped.
* `NoSilentDrift` and `NoSilentReset` promise at least one warning, not one per change: a
  log-in that read the row before another's update writes its own flags back, and its
  comparison saw no difference.

`multi_passkey` adds credentials from outside, as the handler tests do through the
store, because only then does a DELETE commit.

**Fairness.** `StoreFairSpec` and `MultiFairSpec` assume strong fairness of each
transaction's and each request's next store call: the Go scheduler runs every runnable
goroutine, PostgreSQL grants a row lock in the order of arrival, and each store call
returns. Strong rather than weak, because a waiting lock request is disabled whenever
another transaction holds the row. Nothing has to arrive, expire or fail: requests end
without the help of the timeout. `ServerLifecycle`'s `FairSpec` assumes weak fairness of
the main goroutine once it waits for a signal (this includes that the 10-second timer of
Shutdown fires), and of the return of a store call and a ping, which run under a context
with a deadline. A client need not send its body and a handler need not respond:
`SignalEndsProcess` holds in spite of them.

**Refinement.** `AccountLifecycle` knows accounts (none, guest, claimed, active),
usernames and session holders. `PasskeyRefinement` reads them off the two tables and
the session keys; `ImplementsLifecycle` says that every step of the service is a step
of the life cycle or a stutter, so that no account ever moves back, no username changes
hands, and no session is opened for an account without a passkey.

Each property has a mutant in PROJECT.json, a version of one definition with a
plausible slip (a missing index, GET for GETDEL, no FOR UPDATE, an off-by-one in the
guard, a lost rollback), under which TLC reports the property violated.

## 4. The proofs

For all values of the constants, from these assumptions: `Nil` is none of the
identifiers, and no token is one of the words `"keep"` and `"clear"` (both are choices of
the model, not of the code); `MaxSignCount` and `MaxCount` are natural numbers; a second
has at least one tick, durations are integers, and delay and request timeout are natural
numbers.
`ServerLifecycle` needs none. Every invariant, action property and refinement that a
passing run checks is stated by a theorem; what the runs alone show is liveness.

| Module | Theorem | Statement |
|---|---|---|
| `PasskeyProofs` | `TypeCorrect` | `Spec => []TypeOK` |
| | `UsernamesAreUnique` | `Spec => []RegisteredUsernameUnique` |
| | `CeremoniesAreOneShot` | `Spec => []CeremonyIsOneShot` |
| | `AccountsHaveOnePasskey` | `Spec => []OnePasskeyPerAccount` |
| `AccountProofs` | `InvariantHolds` | `Spec => []IInv` |
| | `FlowsNeverCross` | `Spec => []CeremonyMatchesAccount` |
| | `DeletesStayWithTheirOwner` | `Spec => []DeleteTouchesOwnCredential` |
| | `SessionHoldersCanLogIn` | `Spec => []SessionHolderCanLogIn` |
| | `ServiceImplementsLifecycle` | `Spec => ImplementsLifecycle`, the refinement |
| `CredentialStoreProofs` | `StoreTypeCorrect` | `StoreSpec => []CredentialsTypeOK` |
| | `LiveCredentialIdUniqueHolds` | `StoreSpec => []LiveCredentialIdUnique` |
| | `LockedRowIsLiveHolds` | `StoreSpec => []LockedRowIsLive` |
| | `DeletedCredentialsStayHolds` | `StoreSpec => DeletedCredentialsStay`, an action property |
| `ServerLifecycleProofs` | `LifecycleTypeCorrect` | `Spec => []TypeOK` |
| | `ServesOnCurrentSchemaHolds`, `CleanExitCutsNobodyHolds`, `ReturnClosesStoresHolds`, `ReadyMeansUsableHolds` | `Spec => []P` for the property each is named after |
| | `NoStatementCutOffHolds` | `Spec => NoStatementCutOff`, an action property |
| `CredentialRecordProofs` | `RecordTypeCorrect` | `Spec => []TypeOK` |
| | `AccountPassedPolicyHolds`, `NoSilentDriftHolds`, `NoSilentResetHolds` | `Spec => []P` likewise |
| `LifetimesProofs` | `LateRefusalsAreTheLibrarys` | `Spec => []LateRefusalIsTheLibrarys` |
| | `CookiesDieWithKeys`, `KeysDieWithCookies` | `Spec => []CookieDiesWithKey`, `Spec => []KeyDiesWithCookie` |
| | `ChallengesNeverLinger`, `CeremoniesDoNotExpireEarly` | `Spec => []ChallengesDoNotLinger`, `Spec => []NoEarlyExpiry` |
| `BrowserClientProofs` | `BrowserTypes` | `Spec => []TypeOK` |
| | `LogoutsStick` | `Spec => []LogoutSticks` |
| | `GuestRepliesNameGuests` | `Spec => []GuestReplyNamesAGuest` |
| | `PasskeysEndGuestCookies` | `Spec => []PasskeyEndsGuestCookie` |
| | `OneGuestAtATime` | `Spec => []GuestIdempotentInTurn` |
| | `PagesMatchSessions` | `Spec => []PageMatchesSession` |
| `SoftAuthenticatorProofs` | `CountsExceedStored` | `Spec => []CountExceedsStored` |

**The service.** The properties speak of the stores, but a request that took a ceremony
and has not inserted its credential yet carries a right in its local variables; two
requests with the same right would break the property one step later. `IInv` in
`PasskeyInvariants` says who has which right:

* `LockInv`: a row that a transaction holds was inserted (so a commit never conjures a
  row into existence);
* `CeremonyInv`: the ceremony of any request that completes one is gone from the store
  and no other request's (`CeremonyIsOneShot` itself), and while the credential is still
  to be inserted, no credential came out of it;
* `GuestInv`: a user named by a guest token, a promote payload or a promotion in flight
  exists in the user store;
* `AccountInv`: the account such a request has made or promoted is registered, has no
  credential, and is no other request's;
* `NameInv`: a name a request asks for is a username, and an account that claimed none has
  none;
* `FlowInv`: what a completing request remembers is what the begin handler of its own
  ceremony stored, and the account it has made or promoted carries that name;
* `DeleteInv`: no DELETE gets past the count, since no account has two credentials, so no
  credential of the service is ever deleted; and a DELETE works on the row, of the user,
  that its ownership check saw;
* `SessionInv`: a request that is about to open a session, and every session opened, is
  for a registered account with a live credential.

`service_races` checks `IInv` before it is proved. The proofs sort the steps into those
that take a ceremony, claim an account, add a credential, and the *quiet* rest
(`QuietOrNot`), so that each invariant is argued for four kinds of step instead of
some thirty actions. Usernames need no such help: the index is checked in the statement
that sets the name.

The last four parts, in `AccountProofs`, compare what a request read with what the tables
hold some steps of others later. The argument is one of rely and guarantee. `Kept` is what
every step guarantees to all requests: a taken ceremony keeps its payload, a registered
account its row, a credential its owner, its ceremony and its life. `KeptByAll` proves it
once for all actions. `SlotSteps` then lists the few steps that take a request to a point
where it relies on more, and each of those establishes what it relies on.

**The refinement.** The three parts of the mapping are `accountBar`, `usernameBar` and
`holderBar`. One lemma per step of `AccountLifecycle` (`BecomeGuestRefined`,
`ClaimRefined`, `ActivateRefined`, `LogInRefined`, `LogOutRefined`) shows that the handler
step behind it changes one account's stage and nobody else's; all others leave the three
as they are. `IInv` is needed throughout: that an insert finds its account claimed and
without a credential is `AccountInv`, that a session is opened for an active account is
`SessionInv`, that no active account falls back is `DeleteInv`.

**The credential store.** Uniqueness of live ids and exclusiveness of row locks are
inductive together with the types and `TxHasRow`, that a transaction under way works on
a row: a commit then writes a row it holds, and an insert sees every row that is live to
anybody. `DeletedCredentialsStay` follows: the row of a commit is held, so it is live.

**The process.** No property of the process follows from itself; what carries them is a
table of what is open where. `Phases` gives schema, clients and return value for each
point of `run()`; `Sockets` says where the server may accept; `Drained` where requests may
run and may have been cut off, in particular that after a Shutdown that returned nil
there are none while the deferred closes run; `Pings` what a readiness request has seen
by each of its steps.

**The record.** `NoSilentDrift` needs `Unwarned`: as long as no warning was logged, not
only the row but every log-in that has read it and has not written yet carries the flags
of the registration. `NoSilentReset` needs `Counting`, its twin for the counter.
`Admitted` carries the policy from the library's verdict through the steps in which the
account exists and its row does not.

**The lifetimes.** The properties speak of the end of a lifetime; what makes them true is
the distance between two countdowns all along. `TokenInv` says that a cookie on its way is
as old as its key, and that afterwards the two are apart by at most `MaxDelay` one way and
less than a second the other: the one step that changes the distance is the arrival, which
rounds the TTL down (`WholeSeconds`, the lemma on integer division). `CeremonyInv` says that
the key, saved after the session data was stamped and before the request's time was over, is
neither the first to run out nor more than `RequestTimeout` later than the other.
`ConfigInv` carries `Load`'s verdict to `NewService`, whose own checks then find nothing.

**The browser.** The handlers change the stores and leave jar and page alone, the page does
the opposite, and time and the network only take away. The proofs first establish a
contract for each: `Handled` (which cookies an answer may set, which rows and keys come with
it, which user its body names), `Browsed` (which cookies the next request carries, what
becomes of the page), `Faded` (keys and cookies that go, calls the page gives up). The parts
of `BrowserInv` are then argued from the three contracts, without the actions.
`PasskeyEndsGuestCookie` is the one that is not obvious: a promotion deletes the token its
*second* half carries, which need not be that of the guest the *first* half resolved, when
another guest's cookie came in between. It holds because each guest token is set by one
response only: `PromotionInv` says that the promoted guest's own token has been delivered,
and is either the one the request carries or out of the jar for good; `CookieInv` that a
token whose user has a passkey is out of the jar and not on its way, unless the promotion
that gave the passkey has still to drop just this token (`Finishing`). `LogoutsStick` needs
`SessionInv`: a session token is set by one response only, so that one logged out cannot
arrive again from a call that overlapped the logout. `OneGuestAtATime` needs `AliveInv`, that
the one guest alive is the jar's or on its way into it, and `TurnInv`, that the request
carries what the jar still holds; `PagesMatchSessions` needs `PageInv`, which follows
`refreshMe` through its two calls. TLC checked `BrowserInv` and `LifetimeInv` on the bounds
of their runs before they were proved.

**The authenticator.** The counter bounds all it handed out, and a caller that has added 1
has pushed it past what was handed out when its call began, as long as it has not wrapped.

Liveness (`SoftDeleteEnds`, `EveryRequestEnds`, `SignalEndsProcess`) stays with TLC: the
prover handles neither fairness nor ENABLED. So does the existence of a highest counter in
`SoftAuthenticator` (that `Authenticate` is enabled), which is an induction over data.

## 5. Not modelled

* The request logger (`middleware/logger.go`): it writes log lines and nothing reads them.
* JSON, base64 and CBOR, in the handlers, the page and the test authenticator; the
  wording and the codes of error responses.
* HttpOnly, Secure and SameSite of the cookies: attributes without state.
* The library's cryptography: origins, challenges and signatures are part of "accepted".
* `FinishRegistration`, which no handler calls, and the down migration, which the server
  never runs.

## 6. Plan

Every component but the request logger is modelled, and every safety property of the
runs is proved. What is left: theorems that reach beyond the properties of the runs, such
as that the credential store's own specification is implemented by the service's
transactions; and shorter proofs where two contracts repeat one another.
