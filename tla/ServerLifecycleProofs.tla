------------------------ MODULE ServerLifecycleProofs ------------------------
(***************************************************************************)
(* ServerLifecycle for any number of requests. Phases says what is open at *)
(* each point of run(); the other parts follow the requests through it.    *)
(***************************************************************************)
EXTENDS ServerLifecycle, TLAPS

BeforeServer == {"load", "migrate", "migrating", "pool", "redis", "service"}
Closing == {"close_redis", "close_pool", "await_pool"}

\* The schema, the clients and the return value at each point of run().
Phases ==
    /\ main \notin {"load", "migrate", "migrating", "exited"} => schema = "current"
    /\ main \in {"load", "migrate", "migrating", "pool"} =>
           client["postgres"] = "none" /\ client["redis"] = "none"
    /\ main = "redis" => client["postgres"] = "open" /\ client["redis"] = "none"
    /\ main \in {"service", "notify", "select", "shutdown", "drain", "close_redis"} =>
           client["postgres"] = "open" /\ client["redis"] = "open"
    /\ main = "close_pool" => client["postgres"] = "open" /\ client["redis"] = "closed"
    /\ main = "await_pool" => client["postgres"] = "closed" /\ client["redis"] = "closed"
    /\ main = "exited" /\ exit # "killed" =>
           client["postgres"] # "open" /\ client["redis"] # "open"
    /\ main \notin Closing \cup {"exited"} => exit = "none"

\* The server's socket at each point of run().
Sockets ==
    /\ main \in BeforeServer => server = "off"
    /\ main = "drain" => server = "closed"
    /\ main \in Closing /\ exit = "ok" => server = "closed"

\* Nothing runs before the server does, nor after the process; nothing has been
\* cut off until the stores are closed, and a clean return found nothing running.
Drained ==
    /\ main \in BeforeServer \cup {"exited"} => \A r \in Requests : req[r] = "none"
    /\ main \in Closing /\ exit = "ok" => \A r \in Requests : req[r] = "none"
    /\ main \notin Closing \cup {"exited"} => cut = {}
    /\ exit = "ok" => cut = {}

\* What the slots of /health/ready have seen.
Pings ==
    \A r \in Requests :
        /\ req[r] # "none" => \A c \in Stores : Usable(c) => c \in seen[r]
        /\ req[r] = "ready_redis" => "postgres" \in seen[r]
        /\ ready[r] = "ok" => seen[r] = Stores

IInv == TypeOK /\ Phases /\ Sockets /\ Drained /\ Pings

\* The process starts with nothing open and nothing running.
LEMMA InitIInv == Init => IInv
BY DEF Init, Fresh, IInv, TypeOK, Phases, Sockets, Drained, Pings, Usable, Stores, StartUp,
       BeforeServer, Closing

USE DEF StartUp, Stores, BeforeServer, Closing, process, requests

\* Start-up opens the stores one by one while nothing runs.
LEMMA StartIInv == IInv /\ Start => IInv'
<1> SUFFICES ASSUME IInv, Start PROVE IInv'
  OBVIOUS
<1> USE DEF IInv, TypeOK, Phases, Sockets, Drained, Pings, Usable
<1>1. CASE Load
  BY <1>1 DEF Load, ReturnError
<1>2. CASE Migrate
  BY <1>2 DEF Migrate, ReturnError
<1>3. CASE MigrateDone
  BY <1>3 DEF MigrateDone, ReturnError
<1>4. CASE NewPool
  BY <1>4 DEF NewPool, ReturnError
<1>5. CASE NewClient
  BY <1>5 DEF NewClient, ReturnError
<1>6. CASE NewServer
  BY <1>6 DEF NewServer, ReturnError
<1>7. CASE Notify
  BY <1>7 DEF Notify
<1> QED BY <1>1, <1>2, <1>3, <1>4, <1>5, <1>6, <1>7 DEF Start

\* The serving goroutine touches the socket only.
LEMMA ServeIInv == IInv /\ Serve => IInv'
<1> SUFFICES ASSUME IInv, Serve PROVE IInv'
  OBVIOUS
<1> USE DEF IInv
<1>1. UNCHANGED <<main, client, schema, stop, exit, requests, up>>
  BY DEF Serve, Listen, AcceptFails
<1>2. server' \in {"on", "closed"} /\ serverErr' \in BOOLEAN /\ server \in {"starting", "on"} /\ main # "exited"
  BY DEF Serve, Listen, AcceptFails, TypeOK
<1>3. TypeOK'
  BY <1>1, <1>2 DEF TypeOK
<1>4. Phases'
  BY <1>1 DEF Phases
<1>5. Sockets'
  BY <1>1, <1>2 DEF Sockets
<1>6. Drained' /\ Pings'
  BY <1>1 DEF Drained, Pings, Usable
<1> QED BY <1>3, <1>4, <1>5, <1>6

\* The select, Shutdown and the deferred closes.
LEMMA StoppingIInv == IInv /\ Stopping => IInv'
<1> SUFFICES ASSUME IInv, Stopping PROVE IInv'
  OBVIOUS
<1> USE DEF IInv, TypeOK, Phases, Sockets, Drained, Pings, Usable, InFlight
<1>1. CASE SelectStop
  <2>1. /\ main = "select" /\ main' = "shutdown" /\ stop' \in BOOLEAN
        /\ UNCHANGED <<client, schema, server, serverErr, exit, requests, up>>
    BY <1>1 DEF SelectStop
  <2> QED BY <2>1
<1>2. CASE SelectError
  BY <1>2 DEF SelectError, ReturnError
<1>3. CASE ShutdownBegin
  BY <1>3 DEF ShutdownBegin
<1>4. CASE ShutdownDone
  BY <1>4 DEF ShutdownDone
<1>5. CASE ShutdownDeadline
  BY <1>5 DEF ShutdownDeadline, ReturnError
<1>6. CASE CloseRedis
  BY <1>6 DEF CloseRedis
<1>7. CASE ClosePool
  BY <1>7 DEF ClosePool
<1>8. CASE Exit
  BY <1>8 DEF Exit
<1> QED BY <1>1, <1>2, <1>3, <1>4, <1>5, <1>6, <1>7, <1>8 DEF Stopping

\* Signals, a new start, and the stores coming and going.
LEMMA OutsideIInv == IInv /\ (Signal \/ Kill \/ Restart \/ \E c \in Stores : Toggle(c)) => IInv'
<1> SUFFICES ASSUME IInv, Signal \/ Kill \/ Restart \/ \E c \in Stores : Toggle(c) PROVE IInv'
  OBVIOUS
<1> USE DEF IInv, TypeOK, Phases, Sockets, Drained, Pings, Usable, InFlight
<1>1. CASE Signal
  <2>1. CASE Die
    BY <2>1 DEF Die
  <2>2. CASE ~Die
    <3>1. stop' \in BOOLEAN /\ UNCHANGED <<main, client, schema, server, serverErr, exit, requests, up>>
      BY <1>1, <2>2 DEF Signal
    <3> QED BY <3>1
  <2> QED BY <2>1, <2>2
<1>2. CASE Kill
  BY <1>2 DEF Kill, Die
<1>3. CASE Restart
  BY <1>3 DEF Restart
<1>4. ASSUME NEW c \in Stores, Toggle(c) PROVE IInv'
  BY <1>4 DEF Toggle
<1> QED BY <1>1, <1>2, <1>3, <1>4

\* One request.
LEMMA RequestIInv == ASSUME IInv, NEW r \in Requests, RequestStep(r) PROVE IInv'
<1> USE DEF IInv, TypeOK, Phases, Sockets, Drained, Pings, Usable, To
<1>1. CASE Accept(r)
  BY <1>1 DEF Accept
<1>2. CASE ReadBody(r)
  BY <1>2 DEF ReadBody
<1>3. CASE Respond(r)
  BY <1>3 DEF Respond
<1>4. CASE CallReturns(r)
  BY <1>4 DEF CallReturns
<1>5. ASSUME NEW c \in Stores, CallStore(r, c) PROVE IInv'
  BY <1>5 DEF CallStore
<1>6. CASE ReadyPostgres(r)
  BY <1>6 DEF ReadyPostgres, PingStatusOf
<1>7. CASE ReadyRedis(r)
  BY <1>7 DEF ReadyRedis, PingStatusOf
<1> QED BY <1>1, <1>2, <1>3, <1>4, <1>5, <1>6, <1>7 DEF RequestStep

\* The invariant is inductive.
LEMMA NextIInv == IInv /\ [Next]_vars => IInv'
<1> SUFFICES ASSUME IInv, [Next]_vars PROVE IInv'
  OBVIOUS
<1>1. CASE UNCHANGED vars
  BY <1>1 DEF vars, IInv, TypeOK, Phases, Sockets, Drained, Pings, Usable
<1>2. CASE Next
  BY <1>2, StartIInv, ServeIInv, StoppingIInv, OutsideIInv, RequestIInv DEF Next
<1> QED BY <1>1, <1>2

\* Every reachable state satisfies the inductive invariant.
THEOREM LifecycleInvariant == Spec => []IInv
BY InitIInv, NextIInv, PTL DEF Spec

------------------------------------------------------------------------------
\* The state of a server process, its clients and its requests is well typed.
THEOREM LifecycleTypeCorrect == Spec => []TypeOK
<1>1. IInv => TypeOK
  BY DEF IInv
<1> QED BY <1>1, LifecycleInvariant, PTL

\* No process accepts requests on a schema that is not complete, or without its
\* store clients, whichever start this is.
THEOREM ServesOnCurrentSchemaHolds == Spec => []ServesOnCurrentSchema
<1>1. IInv => ServesOnCurrentSchema
  BY DEF IInv, TypeOK, Phases, Sockets, ServesOnCurrentSchema
<1> QED BY <1>1, LifecycleInvariant, PTL

\* Exit code 0 is honest: no accepted request was cut off.
THEOREM CleanExitCutsNobodyHolds == Spec => []CleanExitCutsNobody
<1>1. IInv => CleanExitCutsNobody
  BY DEF IInv, Drained, CleanExitCutsNobody
<1> QED BY <1>1, LifecycleInvariant, PTL

\* Every return of run() has closed what it opened.
THEOREM ReturnClosesStoresHolds == Spec => []ReturnClosesStores
<1>1. IInv => ReturnClosesStores
  BY DEF IInv, Phases, ReturnClosesStores
<1> QED BY <1>1, LifecycleInvariant, PTL

\* A 200 of /health/ready vouches for both stores.
THEOREM ReadyMeansUsableHolds == Spec => []ReadyMeansUsable
<1>1. IInv => ReadyMeansUsable
  BY DEF IInv, Pings, ReadyMeansUsable
<1> QED BY <1>1, LifecycleInvariant, PTL

\* A process that is not killed ends between statements.
THEOREM NoStatementCutOffHolds == Spec => NoStatementCutOff
<1> DEFINE Uncut == main # "exited" /\ main' = "exited" /\ exit' # "killed"
                      => \A r \in Requests : req[r] # "postgres"
<1>1. IInv /\ [Next]_vars => [Uncut]_vars
  <2> SUFFICES ASSUME IInv, Next, main # "exited", main' = "exited", exit' # "killed",
                      NEW r \in Requests
               PROVE  req[r] # "postgres"
    BY DEF vars
  <2>1. CASE Exit
    BY <2>1 DEF Exit
  <2>2. CASE Load \/ Migrate \/ MigrateDone \/ NewPool
    BY <2>2 DEF Load, Migrate, MigrateDone, NewPool, IInv, Drained
  <2>3. CASE NewClient \/ NewServer \/ SelectError \/ ShutdownDeadline
    BY <2>3 DEF NewClient, NewServer, SelectError, ShutdownDeadline, ReturnError, IInv, Phases
  <2>4. CASE Notify \/ Serve \/ SelectStop \/ ShutdownBegin \/ ShutdownDone \/ CloseRedis \/ ClosePool
    BY <2>4 DEF Notify, Serve, Listen, AcceptFails, SelectStop, ShutdownBegin, ShutdownDone,
                CloseRedis, ClosePool
  <2>5. CASE Signal \/ Kill \/ Restart \/ \E c \in Stores : Toggle(c)
    BY <2>5 DEF Signal, Kill, Die, Restart, Toggle
  <2>6. CASE \E q \in Requests : RequestStep(q)
    BY <2>6 DEF RequestStep, Accept, ReadBody, Respond, CallReturns, CallStore, ReadyPostgres, ReadyRedis
  <2> QED BY <2>1, <2>2, <2>3, <2>4, <2>5, <2>6 DEF Next, Start, Stopping
<1>2. Spec => [][Uncut]_vars
  BY <1>1, LifecycleInvariant, PTL DEF Spec
<1> QED BY <1>2 DEF NoStatementCutOff
=============================================================================
