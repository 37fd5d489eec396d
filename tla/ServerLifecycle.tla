--------------------------- MODULE ServerLifecycle ---------------------------
(***************************************************************************)
(* cmd/server/main.go: one server process from config.Load to os.Exit and  *)
(* its next start, with the requests net/http runs for it and the two      *)
(* store clients they share.                                               *)
(*                                                                         *)
(* A request is what matters to a shutdown: it reads its body, makes store *)
(* calls in any order and number, and responds (AuthHandler has the calls  *)
(* themselves), or it is GET /health/ready with its two pings. There is no *)
(* clock: a deadline may pass at any moment, and the request's 30 seconds  *)
(* and the shutdown's 10 are both among the behaviours.                    *)
(***************************************************************************)
EXTENDS Naturals

CONSTANT Requests   \* request slots: bound on requests in flight at once

Stores == {"postgres", "redis"}

VARIABLES
    main,        \* where run() stands
    client,      \* the store clients: pgxpool.Pool and redis.Client
    schema,      \* schema_migrations, which outlives the process
    server,      \* the http.Server and the goroutine that serves
    serverErr,   \* an error waits in the channel
    stop,        \* a signal waits in the channel
    exit,        \* how the process ended, or what run() is about to return
    req,         \* what each request is doing
    up,          \* the stores that can be reached
    ready,       \* the last answer of /health/ready on a slot
    seen,        \* the stores that could be used while that request ran
    cut          \* the requests that lost a store or died with the process

process == <<main, client, schema, server, serverErr, stop, exit>>
requests == <<req, ready, seen, cut>>
vars == <<main, client, schema, server, serverErr, stop, exit, req, up, ready, seen, cut>>

StartUp == {"load", "migrate", "migrating", "pool", "redis", "service", "notify"}

TypeOK ==
    /\ main \in StartUp \cup {"select", "shutdown", "drain", "close_redis", "close_pool",
                              "await_pool", "exited"}
    /\ client \in [Stores -> {"none", "open", "closed"}]
    /\ schema \in {"empty", "dirty", "current"}
    /\ server \in {"off", "starting", "on", "closed"}
    /\ serverErr \in BOOLEAN
    /\ stop \in BOOLEAN
    /\ exit \in {"none", "ok", "error", "killed"}
    /\ req \in [Requests -> {"none", "body", "run", "postgres", "redis",
                             "ready_postgres", "ready_redis", "ready_down"}]
    /\ up \in SUBSET Stores
    /\ ready \in [Requests -> {"none", "ok", "degraded"}]
    /\ seen \in [Requests -> SUBSET Stores]
    /\ cut \in SUBSET Requests

\* A process that has not run yet.
Fresh(s) ==
    /\ main = "load"
    /\ client = [c \in Stores |-> "none"]
    /\ schema = s
    /\ server = "off"
    /\ serverErr = FALSE
    /\ stop = FALSE
    /\ exit = "none"
    /\ req = [r \in Requests |-> "none"]
    /\ ready = [r \in Requests |-> "none"]
    /\ seen = [r \in Requests |-> {}]
    /\ cut = {}

Init == Fresh("empty") /\ up \in SUBSET Stores

InFlight == {r \in Requests : req[r] # "none"}

Usable(c) == c \in up /\ client[c] = "open"

------------------------------------------------------------------------------
(* Start-up. An error returns from run(), which runs the deferred closes of  *)
(* what is open so far.                                                      *)

\* run() returns err: on to the deferred calls, last deferred first.
ReturnError ==
    /\ exit' = "error"
    /\ main' = IF client["redis"] = "open" THEN "close_redis"
               ELSE IF client["postgres"] = "open" THEN "close_pool" ELSE "exited"

\* config.Load.
Load ==
    /\ main = "load"
    /\ \/ main' = "migrate" /\ UNCHANGED exit
       \/ ReturnError
    /\ UNCHANGED <<client, schema, server, serverErr, stop, requests, up>>

\* applyMigrations whose error run() drops.
MigrateIgnoreError ==
    /\ main = "migrate"
    /\ main' = "pool"
    /\ UNCHANGED <<client, schema, server, serverErr, stop, exit, requests, up>>

\* applyMigrations up to mig.Up, which finds nothing to do (ErrNoChange),
\* refuses a dirty version, or marks the version dirty and runs the file.
Migrate ==
    /\ main = "migrate"
    /\ \/ "postgres" \in up /\ schema = "current" /\ main' = "pool" /\ UNCHANGED <<schema, exit>>
       \/ "postgres" \in up /\ schema = "empty" /\ main' = "migrating" /\ schema' = "dirty" /\ UNCHANGED exit
       \/ ReturnError /\ UNCHANGED schema
    /\ UNCHANGED <<client, server, serverErr, stop, requests, up>>

\* The file has run and the version is clean, or the connection was lost.
MigrateDone ==
    /\ main = "migrating"
    /\ \/ main' = "pool" /\ schema' = "current" /\ UNCHANGED exit
       \/ ReturnError /\ UNCHANGED schema
    /\ UNCHANGED <<client, server, serverErr, stop, requests, up>>

\* NewPool: opens the pool and pings it; closes it again when the ping fails.
NewPool ==
    /\ main = "pool"
    /\ \/ /\ "postgres" \in up
          /\ client' = [client EXCEPT !["postgres"] = "open"]
          /\ main' = "redis"
          /\ UNCHANGED exit
       \/ /\ client' = [client EXCEPT !["postgres"] = "closed"]
          /\ ReturnError
    /\ UNCHANGED <<schema, server, serverErr, stop, requests, up>>

\* A NewClient that leaves the client open when the ping fails.
NewClientLeak ==
    /\ main = "redis"
    /\ client' = [client EXCEPT !["redis"] = "open"]
    /\ \/ "redis" \in up /\ main' = "service" /\ UNCHANGED exit
       \/ ReturnError
    /\ UNCHANGED <<schema, server, serverErr, stop, requests, up>>

\* NewClient, the same for Redis. The deferred pool.Close is in place by now.
NewClient ==
    /\ main = "redis"
    /\ \/ /\ "redis" \in up
          /\ client' = [client EXCEPT !["redis"] = "open"]
          /\ main' = "service"
          /\ UNCHANGED exit
       \/ /\ client' = [client EXCEPT !["redis"] = "closed"]
          /\ ReturnError
    /\ UNCHANGED <<schema, server, serverErr, stop, requests, up>>

\* NewService, the handlers and the router, then go srv.ListenAndServe.
NewServer ==
    /\ main = "service"
    /\ \/ main' = "notify" /\ server' = "starting" /\ UNCHANGED exit
       \/ ReturnError /\ UNCHANGED server
    /\ UNCHANGED <<client, schema, serverErr, stop, requests, up>>

\* signal.Notify, the last call before the select.
Notify ==
    /\ main = "notify"
    /\ main' = "select"
    /\ UNCHANGED <<client, schema, server, serverErr, stop, exit, requests, up>>

------------------------------------------------------------------------------
(* The serving goroutine.                                                    *)

\* ListenAndServe binds, or finds the address in use. (Once Shutdown has begun it
\* returns ErrServerClosed at once: ShutdownBegin.)
Listen ==
    /\ server = "starting"
    /\ main # "exited"
    /\ \/ server' = "on" /\ UNCHANGED serverErr
       \/ server' = "closed" /\ serverErr' = TRUE
    /\ UNCHANGED <<main, client, schema, stop, exit, requests, up>>

\* Accept fails for good: the requests in flight go on.
AcceptFails ==
    /\ server = "on"
    /\ main # "exited"
    /\ server' = "closed"
    /\ serverErr' = TRUE
    /\ UNCHANGED <<main, client, schema, stop, exit, requests, up>>

------------------------------------------------------------------------------
(* Shutdown.                                                                 *)

\* A Shutdown that closes the stores before it waits for the requests.
SelectStopCloseFirst ==
    /\ main = "select"
    /\ stop
    /\ main' = "close_redis"
    /\ exit' = "ok"
    /\ UNCHANGED <<client, schema, server, serverErr, stop, requests, up>>

\* case <-stop. When both channels are ready the select picks either.
SelectStop ==
    /\ main = "select"
    /\ stop
    /\ main' = "shutdown"
    /\ stop' = FALSE
    /\ UNCHANGED <<client, schema, server, serverErr, exit, requests, up>>

\* case err := <-serverErr. There is no Shutdown on this path. (A closed channel
\* without an error would mean that somebody called Shutdown; nobody has.)
SelectError ==
    /\ main = "select"
    /\ serverErr
    /\ ReturnError
    /\ UNCHANGED <<client, schema, server, serverErr, stop, requests, up>>

\* srv.Shutdown closes the listener and then waits for the connections.
ShutdownBegin ==
    /\ main = "shutdown"
    /\ main' = "drain"
    /\ server' = "closed"
    /\ UNCHANGED <<client, schema, serverErr, stop, exit, requests, up>>

ShutdownDone ==
    /\ main = "drain"
    /\ InFlight = {}
    /\ main' = "close_redis"
    /\ exit' = "ok"
    /\ UNCHANGED <<client, schema, server, serverErr, stop, requests, up>>

\* A Shutdown without a deadline.
ShutdownWaits ==
    /\ main = "drain"
    /\ InFlight = {}
    /\ ReturnError
    /\ UNCHANGED <<client, schema, server, serverErr, stop, requests, up>>

\* The 10 seconds are over: Shutdown returns the context's error and leaves
\* the requests that still run alone.
ShutdownDeadline ==
    /\ main = "drain"
    /\ ReturnError
    /\ UNCHANGED <<client, schema, server, serverErr, stop, requests, up>>

\* redisClient.Close: a command under way loses its connection.
CloseRedis ==
    /\ main = "close_redis"
    /\ client' = [client EXCEPT !["redis"] = "closed"]
    /\ req' = [r \in Requests |-> CASE req[r] = "redis" -> "run"
                                    [] req[r] = "ready_redis" -> "ready_down"
                                    [] OTHER -> req[r]]
    /\ cut' = cut \cup {r \in Requests : req[r] \in {"redis", "ready_redis"}}
    /\ main' = "close_pool"
    /\ UNCHANGED <<schema, server, serverErr, stop, exit, up, ready, seen>>

\* A pool.Close that does not wait for the connections in use.
ClosePoolAtOnce ==
    /\ main = "close_pool"
    /\ client' = [client EXCEPT !["postgres"] = "closed"]
    /\ main' = "exited"
    /\ cut' = cut \cup InFlight
    /\ req' = [r \in Requests |-> "none"]
    /\ UNCHANGED <<schema, server, serverErr, stop, exit, up, ready, seen>>

\* pool.Close: no connection is handed out any more.
ClosePool ==
    /\ main = "close_pool"
    /\ client' = [client EXCEPT !["postgres"] = "closed"]
    /\ main' = "await_pool"
    /\ UNCHANGED <<schema, server, serverErr, stop, exit, requests, up>>

\* pool.Close returns when every connection is back; then main returns or calls
\* os.Exit(1), and the requests that still run are gone.
Exit ==
    /\ main = "await_pool"
    /\ \A r \in Requests : req[r] \notin {"postgres", "ready_postgres"}
    /\ main' = "exited"
    /\ cut' = cut \cup InFlight
    /\ req' = [r \in Requests |-> "none"]
    /\ UNCHANGED <<client, schema, server, serverErr, stop, exit, up, ready, seen>>

------------------------------------------------------------------------------
(* Signals, the stores and the next start.                                   *)

Die ==
    /\ main' = "exited"
    /\ exit' = "killed"
    /\ cut' = cut \cup InFlight
    /\ req' = [r \in Requests |-> "none"]
    /\ UNCHANGED <<client, schema, server, serverErr, stop, up, ready, seen>>

\* SIGTERM or SIGINT. Before signal.Notify it has its default effect; after it
\* the signal goes to the channel, which holds one and drops the rest.
Signal ==
    \/ main \in StartUp /\ Die
    \/ /\ main \notin StartUp \cup {"exited"}
       /\ stop' = TRUE
       /\ UNCHANGED <<main, client, schema, server, serverErr, exit, requests, up>>

\* SIGKILL, or the machine fails.
Kill == main # "exited" /\ Die

\* A store goes away or comes back.
Toggle(c) ==
    /\ up' = IF c \in up THEN up \ {c} ELSE up \cup {c}
    /\ seen' = [r \in Requests |-> IF c \notin up /\ client[c] = "open" /\ req[r] # "none"
                                   THEN seen[r] \cup {c} ELSE seen[r]]
    /\ UNCHANGED <<process, req, ready, cut>>

\* Somebody starts the server again; only the database remembers.
Restart ==
    /\ main = "exited"
    /\ main' = "load"
    /\ client' = [c \in Stores |-> "none"]
    /\ server' = "off"
    /\ serverErr' = FALSE
    /\ stop' = FALSE
    /\ exit' = "none"
    /\ ready' = [r \in Requests |-> "none"]
    /\ seen' = [r \in Requests |-> {}]
    /\ cut' = {}
    /\ UNCHANGED <<schema, req, up>>

------------------------------------------------------------------------------
(* Requests.                                                                 *)

To(r, s) == req' = [req EXCEPT ![r] = s]

\* A request is accepted; /health/ready has no body and pings Postgres first.
Accept(r) ==
    /\ server = "on"
    /\ main # "exited"
    /\ req[r] = "none"
    /\ To(r, "body") \/ To(r, "ready_postgres")
    /\ seen' = [seen EXCEPT ![r] = {c \in Stores : Usable(c)}]
    /\ ready' = [ready EXCEPT ![r] = "none"]
    /\ UNCHANGED <<process, up, cut>>

\* The client finishes sending its body. It may take for ever: the server sets
\* a limit for the header only.
ReadBody(r) ==
    /\ req[r] = "body"
    /\ To(r, "run")
    /\ UNCHANGED <<process, up, ready, seen, cut>>

\* A handler calls a store; a closed client refuses.
CallStore(r, c) ==
    /\ req[r] = "run"
    /\ \/ client[c] = "open" /\ To(r, c) /\ UNCHANGED cut
       \/ client[c] # "open" /\ cut' = cut \cup {r} /\ UNCHANGED req
    /\ UNCHANGED <<process, up, ready, seen>>

\* The call returns, with a result or with an error.
CallReturns(r) ==
    /\ req[r] \in Stores
    /\ To(r, "run")
    /\ UNCHANGED <<process, up, ready, seen, cut>>

Respond(r) ==
    /\ req[r] \in {"body", "run"}
    /\ To(r, "none")
    /\ UNCHANGED <<process, up, ready, seen, cut>>

\* What a ping may report: "ok" only from a store that can be used; the
\* 2-second timeout may strike even then.
PingStatusOf(c) == IF Usable(c) THEN {"ok", "down"} ELSE {"down"}

\* A Ready whose second ping decides alone.
ReadyPostgresForgets(r) ==
    /\ req[r] = "ready_postgres"
    /\ To(r, "ready_redis")
    /\ UNCHANGED <<process, up, ready, seen, cut>>

\* The first ping of Ready.
ReadyPostgres(r) ==
    /\ req[r] = "ready_postgres"
    /\ \E s \in PingStatusOf("postgres") :
           To(r, IF s = "ok" THEN "ready_redis" ELSE "ready_down")
    /\ UNCHANGED <<process, up, ready, seen, cut>>

\* A Ready that answers with the status of the second ping.
ReadyRedisRaw(r) ==
    /\ req[r] \in {"ready_redis", "ready_down"}
    /\ To(r, "none")
    /\ \E s \in PingStatusOf("redis") : ready' = [ready EXCEPT ![r] = s]
    /\ UNCHANGED <<process, up, seen, cut>>

\* The second, and the response.
ReadyRedis(r) ==
    /\ req[r] \in {"ready_redis", "ready_down"}
    /\ To(r, "none")
    /\ \E s \in PingStatusOf("redis") :
           ready' = [ready EXCEPT ![r] = IF req[r] = "ready_redis" /\ s = "ok"
                                         THEN "ok" ELSE "degraded"]
    /\ UNCHANGED <<process, up, seen, cut>>

------------------------------------------------------------------------------
Start == Load \/ Migrate \/ MigrateDone \/ NewPool \/ NewClient \/ NewServer \/ Notify

Serve == Listen \/ AcceptFails

Stopping ==
    SelectStop \/ SelectError \/ ShutdownBegin \/ ShutdownDone \/ ShutdownDeadline
    \/ CloseRedis \/ ClosePool \/ Exit

RequestStep(r) ==
    \/ Accept(r) \/ ReadBody(r) \/ Respond(r) \/ CallReturns(r)
    \/ \E c \in Stores : CallStore(r, c)
    \/ ReadyPostgres(r) \/ ReadyRedis(r)

Next ==
    \/ Start \/ Serve \/ Stopping
    \/ Signal \/ Kill \/ Restart
    \/ \E c \in Stores : Toggle(c)
    \/ \E r \in Requests : RequestStep(r)

Spec == Init /\ [][Next]_vars

\* The main goroutine runs, and a store call or a ping returns (each is under a
\* context with a deadline). A client need not send its body, a handler need
\* not respond, and nothing has to arrive.
FairSpec ==
    /\ Spec
    /\ WF_vars(Stopping)
    /\ \A r \in Requests : WF_vars(CallReturns(r)) /\ WF_vars(ReadyPostgres(r))

------------------------------------------------------------------------------
\* Requests are only accepted by a process whose schema is complete and whose
\* store clients were opened: a migration that was cut off, and a start-up that
\* failed half-way, never serve, on this start or a later one.
ServesOnCurrentSchema ==
    server = "on" /\ main # "exited" =>
        schema = "current" /\ \A c \in Stores : client[c] # "none"

\* Exit code 0 means that every request this process accepted ran to its end
\* with both stores open: run() waits for the requests before its deferred
\* closes run, and gives up only with an error.
CleanExitCutsNobody == main = "exited" /\ exit = "ok" => cut = {}

\* Whichever way run() returns, the clients it opened are closed: "the caller
\* owns the client and must call Close on shutdown" (redis.go NewClient).
ReturnClosesStores ==
    main = "exited" /\ exit # "killed" => \A c \in Stores : client[c] # "open"

\* A 200 of /health/ready means that each store could be used at some moment
\* while the request ran, whatever came and went between the two pings.
ReadyMeansUsable == \A r \in Requests : ready[r] = "ok" => seen[r] = Stores

\* A process that is not killed never ends in the middle of a statement: even
\* after the deadline pool.Close waits for the connections in use.
NoStatementCutOff ==
    [][main # "exited" /\ main' = "exited" /\ exit' # "killed"
         => \A r \in Requests : req[r] # "postgres"]_vars

\* A signal ends the process, even if a client never finishes its request.
SignalEndsProcess == stop ~> main = "exited"
=============================================================================
