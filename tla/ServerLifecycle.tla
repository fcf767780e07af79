--------------------------- MODULE ServerLifecycle ---------------------------
(***************************************************************************)
(* run of cmd/server/main.go: it connects to the stores within one budget  *)
(* of ten seconds, chooses the event bus, wires what the stores allow,     *)
(* serves, and on a signal lets srv.Shutdown wait 30 s for the requests    *)
(* before the deferred calls close bus, Redis and PostgreSQL, in that      *)
(* order.  Requests run in goroutines of their own, which outlive          *)
(* everything but the process.                                             *)
(*                                                                         *)
(* A request is a use case that writes one row and publishes one event, or *)
(* GET /health/ready.  The in-process bus is the abstract one of           *)
(* EventDelivery, which InProcessBus implements; of the Kafka bus only     *)
(* matters that the producer takes an event, fails or has been closed.     *)
(***************************************************************************)
EXTENDS Naturals, Sequences

CONSTANTS
    Writes,        \* requests that write and publish
    Probes,        \* requests for /health/ready
    Topics,        \* topics that buildDependencies subscribes to
    Log,           \* the handler it subscribes
    Capacity,      \* of the in-process bus
    MaxPublishes,  \* bound: events, as many as there are Writes
    KafkaEnabled,  \* cfg.Kafka.Enabled
    Signals        \* whether a signal may come

Requests == Writes \cup Probes

ASSUME LifecycleAssumption ==
    /\ Writes \cap Probes = {}
    /\ Capacity \in Nat \ {0} /\ MaxPublishes \in Nat
    /\ KafkaEnabled \in BOOLEAN /\ Signals \in BOOLEAN

VARIABLES
    main,      \* where run is
    way,       \* how it came to its deferred calls
    budget,    \* the startup context has not expired
    reach,     \* the servers that can be reached now
    db, redis, \* not used, connected, closed
    kind,      \* the bus in use
    routes,    \* the handlers of the API exist
    listening, \* the listener accepts connections
    signalled,
    pc,        \* where each request is
    committed, \* history: the requests whose row is committed
    outcome,   \* history: what became of the event of a request
    event,     \* history: its number on the in-process bus
    answer,    \* history: the status the client got
    subs, pending, sent, received, open  \* the event bus

busVars  == <<subs, pending, sent, received, open>>
mainVars == <<main, way, budget, reach, db, redis, kind, routes, listening, signalled>>
reqVars  == <<pc, committed, outcome, event, answer>>
vars     == <<mainVars, reqVars, busVars>>

Bus == INSTANCE EventDelivery WITH Handlers <- {Log}, MaxSubs <- 1

Servers == {"postgres", "redis"}
Stores  == {"none", "open", "closed"}

\* Places of run: startup, the select, srv.Shutdown, the deferred calls.
Startup == {"postgres", "redis", "bus", "wire"}
Closing == {"closeBus", "drain", "closeRedis", "closeDB"}

TypeOK ==
    /\ main \in Startup \cup {"select", "shutdown", "exited"} \cup Closing
    /\ way \in {"none", "graceful", "forced", "serverErr", "killed"}
    /\ budget \in BOOLEAN
    /\ reach \subseteq Servers
    /\ db \in Stores /\ redis \in Stores
    /\ kind \in {"none", "inprocess", "kafka"}
    /\ routes \in BOOLEAN /\ listening \in BOOLEAN /\ signalled \in BOOLEAN
    /\ pc \in [Requests -> {"none", "begun", "query", "publish", "answer", "done"}]
    /\ committed \subseteq Writes
    /\ outcome \in [Requests -> {"none", "unknown", "queued", "dropped", "panicked",
                                 "sent", "lost"}]
    /\ event \in [Requests -> Nat]
    /\ answer \in [Requests -> {0, 200, 404, 500, 503}]
    /\ open \in BOOLEAN

Init ==
    /\ main = "postgres"
    /\ way = "none"
    /\ budget = TRUE
    /\ reach \in SUBSET Servers
    /\ db = "none" /\ redis = "none"
    /\ kind = "none"
    /\ routes = FALSE /\ listening = FALSE /\ signalled = FALSE
    /\ pc = [r \in Requests |-> "none"]
    /\ committed = {}
    /\ outcome = [r \in Requests |-> "none"]
    /\ event = [r \in Requests |-> 0]
    /\ answer = [r \in Requests |-> 0]
    /\ Bus!Init

-----------------------------------------------------------------------------
(* Startup *)

\* A connection attempt within the startup context: it fails if the server is
\* not there or the context has expired, and may use the context up.
Connect(server, store) ==
    \/ /\ server \in reach /\ budget
       /\ store' = "open"
       /\ UNCHANGED budget
    \/ /\ server \notin reach \/ ~budget
       /\ budget' \in {FALSE, budget}
       /\ UNCHANGED store

\* NewPostgresPool; without it the server runs without database.
ConnectPostgres ==
    /\ main = "postgres"
    /\ Connect("postgres", db)
    /\ main' = "redis"
    /\ UNCHANGED <<way, reach, redis, kind, routes, listening, signalled, reqVars, busVars>>

\* NewRedisClient, in what is left of the same ten seconds.
ConnectRedis ==
    /\ main = "redis"
    /\ Connect("redis", redis)
    /\ main' = "bus"
    /\ UNCHANGED <<way, reach, db, kind, routes, listening, signalled, reqVars, busVars>>

\* initEventBus: Kafka if it is enabled and EnsureTopics (which does not look at
\* the context) reaches a broker and its controller, else in process.
InitEventBus ==
    /\ main = "bus"
    /\ kind' \in {"inprocess"} \cup (IF KafkaEnabled THEN {"kafka"} ELSE {})
    /\ main' = "wire"
    /\ UNCHANGED <<way, budget, reach, db, redis, routes, listening, signalled, reqVars, busVars>>

\* buildDependencies, with a database: one of its calls of Subscribe.
Subscribe(t) ==
    /\ main = "wire"
    /\ db = "open"
    /\ Bus!Subscribe(t, Log)
    /\ UNCHANGED <<mainVars, reqVars>>

\* Mutant: the server listens while the handlers are being subscribed.
Listen_Early ==
    /\ main = "wire"
    /\ routes' = (db = "open")
    /\ listening' = TRUE
    /\ main' = "select"
    /\ UNCHANGED <<way, budget, reach, db, redis, kind, signalled, reqVars, busVars>>

\* buildDependencies is through, router.New makes the routes it got handlers
\* for, and ListenAndServe runs in a goroutine.
Listen ==
    /\ main = "wire"
    /\ db = "open" => \A t \in Topics : subs[t] # <<>>
    /\ routes' = (db = "open")
    /\ listening' = TRUE
    /\ main' = "select"
    /\ UNCHANGED <<way, budget, reach, db, redis, kind, signalled, reqVars, busVars>>

-----------------------------------------------------------------------------
(* The end *)

\* A signal before signal.Notify ends the process at once; later ones are kept
\* in the channel, and a second one changes nothing.
Signal ==
    /\ Signals /\ ~signalled /\ main # "exited"
    /\ signalled' = TRUE
    /\ IF main \in Startup THEN main' = "exited" /\ way' = "killed"
                           ELSE UNCHANGED <<main, way>>
    /\ UNCHANGED <<budget, reach, db, redis, kind, routes, listening, reqVars, busVars>>

\* ListenAndServe fails, to bind or later; requests that it accepted go on.
ServerErr ==
    /\ main = "select"
    /\ main' = "closeBus" /\ way' = "serverErr"
    /\ listening' = FALSE
    /\ UNCHANGED <<budget, reach, db, redis, kind, routes, signalled, reqVars, busVars>>

\* The other case of the select; srv.Shutdown closes the listener first.
BeginShutdown ==
    /\ main = "select" /\ signalled
    /\ main' = "shutdown"
    /\ listening' = FALSE
    /\ UNCHANGED <<way, budget, reach, db, redis, kind, routes, signalled, reqVars, busVars>>

Idle == \A r \in Requests : pc[r] \in {"none", "done"}

\* Mutant: Shutdown does not wait for the requests.
ShutdownDone_NoWait ==
    /\ main = "shutdown"
    /\ main' = "closeBus" /\ way' = "graceful"
    /\ UNCHANGED <<budget, reach, db, redis, kind, routes, listening, signalled, reqVars, busVars>>

\* All connections are idle.
ShutdownDone ==
    /\ main = "shutdown" /\ Idle
    /\ main' = "closeBus" /\ way' = "graceful"
    /\ UNCHANGED <<budget, reach, db, redis, kind, routes, listening, signalled, reqVars, busVars>>

\* Mutant: Shutdown gets a context without a time limit.
ShutdownTimesOut_NoLimit ==
    /\ main = "shutdown" /\ ~Idle
    /\ UNCHANGED vars

\* 30 seconds are over: srv.Close takes the connections away from the requests
\* and cancels their contexts; the goroutines go on.
ShutdownTimesOut ==
    /\ main = "shutdown" /\ ~Idle
    /\ main' = "closeBus" /\ way' = "forced"
    /\ UNCHANGED <<budget, reach, db, redis, kind, routes, listening, signalled, reqVars, busVars>>

\* Mutant: the bus's Close does not wait for the goroutine that dispatches.
CloseBus_NoDrain ==
    /\ main = "closeBus"
    /\ open' = FALSE
    /\ main' = "closeRedis"
    /\ UNCHANGED <<way, budget, reach, db, redis, kind, routes, listening, signalled, reqVars,
                   subs, pending, sent, received>>

\* eventBus.Close, first part: the channel, or consumer and producer of Kafka.
CloseBus ==
    /\ main = "closeBus"
    /\ Bus!Close
    /\ main' = IF kind = "inprocess" THEN "drain" ELSE "closeRedis"
    /\ UNCHANGED <<way, budget, reach, db, redis, kind, routes, listening, signalled, reqVars>>

\* eventBus.Close, second part: everything queued has been handled.
Drained ==
    /\ main = "drain"
    /\ pending = <<>>
    /\ main' = "closeRedis"
    /\ UNCHANGED <<way, budget, reach, db, redis, kind, routes, listening, signalled, reqVars, busVars>>

\* The handlers log what the bus gives them, while the process lives.
Dispatch ==
    /\ main # "exited"
    /\ Bus!Deliver
    /\ UNCHANGED <<mainVars, reqVars>>

CloseRedis ==
    /\ main = "closeRedis"
    /\ redis' = IF redis = "open" THEN "closed" ELSE redis
    /\ main' = "closeDB"
    /\ UNCHANGED <<way, budget, reach, db, kind, routes, listening, signalled, reqVars, busVars>>

\* db.Close refuses further queries ...
CloseDB ==
    /\ main = "closeDB" /\ db = "open"
    /\ db' = "closed"
    /\ UNCHANGED <<main, way, budget, reach, redis, kind, routes, listening, signalled, reqVars, busVars>>

\* ... and waits for the connections that are in use; then run returns, main
\* calls os.Exit if it got an error, and the process is gone.
Exit ==
    /\ main = "closeDB" /\ db # "open"
    /\ \A r \in Requests : pc[r] # "query"
    /\ main' = "exited"
    /\ UNCHANGED <<way, budget, reach, db, redis, kind, routes, listening, signalled, reqVars, busVars>>

-----------------------------------------------------------------------------
(* Requests *)

Goes(r, from, to) == main # "exited" /\ pc[r] = from /\ pc' = [pc EXCEPT ![r] = to]

Answered(r, from, status) ==
    Goes(r, from, "done") /\ answer' = [answer EXCEPT ![r] = status]

Accept(r) ==
    /\ listening
    /\ Goes(r, "none", "begun")
    /\ UNCHANGED <<mainVars, committed, outcome, event, answer, busVars>>

\* Without a database the router has only the health endpoints and its 404s.
NoRoute(r) ==
    /\ r \in Writes /\ ~routes
    /\ Answered(r, "begun", 404)
    /\ UNCHANGED <<mainVars, committed, outcome, event, busVars>>

\* The handler takes a connection from the pool, or cannot.
Acquire(r) ==
    /\ r \in Writes /\ routes
    /\ IF db = "open" /\ "postgres" \in reach
       THEN Goes(r, "begun", "query") /\ UNCHANGED answer
       ELSE Answered(r, "begun", 500)
    /\ UNCHANGED <<mainVars, committed, outcome, event, busVars>>

\* The statement is executed or not; if its answer is lost nobody knows.
Query(r) ==
    /\ \/ /\ Goes(r, "query", "publish")
          /\ committed' = committed \cup {r}
          /\ UNCHANGED <<answer, outcome>>
       \/ /\ Answered(r, "query", 500)
          /\ committed' \in {committed, committed \cup {r}}
          /\ outcome' = [outcome EXCEPT ![r] = "unknown"]
    /\ UNCHANGED <<mainVars, event, busVars>>

\* Publish on the in-process bus: queued, or dropped because it is full.
PublishInProcess(r) ==
    /\ kind = "inprocess" /\ open
    /\ Goes(r, "publish", "answer")
    /\ \/ /\ \E t \in Topics : Bus!Accept(t)
          /\ outcome' = [outcome EXCEPT ![r] = "queued"]
          /\ event' = [event EXCEPT ![r] = sent + 1]
       \/ /\ Bus!Refuse
          /\ outcome' = [outcome EXCEPT ![r] = "dropped"]
          /\ UNCHANGED event
    /\ UNCHANGED <<mainVars, committed, answer>>

\* ... on the closed channel: Recoverer makes a 500 of the panic.
PublishPanics(r) ==
    /\ kind = "inprocess" /\ ~open
    /\ Answered(r, "publish", 500)
    /\ outcome' = [outcome EXCEPT ![r] = "panicked"]
    /\ UNCHANGED <<mainVars, committed, event, busVars>>

\* ... on the Kafka bus: the use case ignores the error of a producer that
\* fails or is closed.
PublishKafka(r) ==
    /\ kind = "kafka"
    /\ Goes(r, "publish", "answer")
    /\ \/ open /\ outcome' = [outcome EXCEPT ![r] = "sent"]
       \/ outcome' = [outcome EXCEPT ![r] = "lost"]
    /\ UNCHANGED <<mainVars, committed, event, answer, busVars>>

Respond(r) ==
    /\ Answered(r, "answer", 200)
    /\ UNCHANGED <<mainVars, committed, outcome, event, busVars>>

\* Readiness: a store that was not there at startup is not looked at.
Healthy(server, store) == store = "none" \/ (store = "open" /\ server \in reach)

Readiness(r) ==
    /\ r \in Probes
    /\ Answered(r, "begun",
           IF Healthy("postgres", db) /\ Healthy("redis", redis) THEN 200 ELSE 503)
    /\ UNCHANGED <<mainVars, committed, outcome, event, busVars>>

\* A server goes down or comes back.
Outage ==
    /\ main # "exited"
    /\ \E s \in Servers : reach' = IF s \in reach THEN reach \ {s} ELSE reach \cup {s}
    /\ UNCHANGED <<main, way, budget, db, redis, kind, routes, listening, signalled,
                   reqVars, busVars>>

-----------------------------------------------------------------------------

Boot == ConnectPostgres \/ ConnectRedis \/ InitEventBus \/ (\E t \in Topics : Subscribe(t)) \/ Listen

Stop ==
    \/ BeginShutdown \/ ShutdownDone \/ ShutdownTimesOut
    \/ CloseBus \/ Drained \/ CloseRedis \/ CloseDB \/ Exit

RequestStep(r) ==
    \/ Accept(r) \/ NoRoute(r) \/ Acquire(r) \/ Query(r) \/ PublishInProcess(r)
    \/ PublishPanics(r) \/ PublishKafka(r) \/ Respond(r) \/ Readiness(r)

Exited == main = "exited" /\ UNCHANGED vars

Next ==
    \/ Boot \/ Stop \/ Signal \/ ServerErr \/ Dispatch \/ Outage
    \/ \E r \in Requests : RequestStep(r)
    \/ Exited

\* The goroutine of run and the one that dispatches are scheduled, and a
\* statement that holds a connection ends (its context is cancelled or the
\* database answers).  No other step of a request has to come.
Fairness ==
    /\ WF_vars(Boot) /\ WF_vars(Stop) /\ WF_vars(Dispatch)
    /\ \A r \in Requests : WF_vars(Query(r))

Spec == Init /\ [][Next]_vars /\ Fairness

-----------------------------------------------------------------------------
(* Properties *)

\* After "server stopped gracefully" no request is left half-way: each one that
\* was accepted has been answered, none had its event refused by a closed bus,
\* and what the in-process bus accepted has reached the handler that
\* buildDependencies subscribed.
GracefulIsClean ==
    main = "exited" /\ way = "graceful" =>
        \A r \in Requests :
            /\ pc[r] \in {"none", "done"}
            /\ outcome[r] # "panicked"
            /\ outcome[r] = "queued" => received[event[r]] = <<Log>>

\* However run ends, and as long as a deferred Close of a store is still to
\* come: the handlers are done with every event that was accepted.  Nothing is
\* queued once the bus has been closed.
EventsBeforeStores ==
    main \in {"closeRedis", "closeDB"} \/ (main = "exited" /\ way # "killed") =>
        /\ pending = <<>>
        /\ \A r \in Requests : outcome[r] = "queued" => received[event[r]] = <<Log>>

\* main.go 140-143.  A client is told 500 although its row was committed only if
\* the answer of the database was lost or run had given up waiting.
NoFalseFailure ==
    \A r \in committed :
        answer[r] = 500 =>
            outcome[r] = "unknown" \/ (outcome[r] = "panicked" /\ way \in {"forced", "serverErr"})

\* A signal ends the process, whatever the requests do.
ExitsAfterSignal == signalled ~> main = "exited"
=============================================================================
