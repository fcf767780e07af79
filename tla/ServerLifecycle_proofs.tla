----------------------- MODULE ServerLifecycle_proofs -----------------------
(***************************************************************************)
(* Theorems about ServerLifecycle: what holds of requests and events when  *)
(* run has returned, for any number of requests and any order of outages,  *)
(* signals and time limits.                                                *)
(***************************************************************************)
EXTENDS ServerLifecycle, TLAPS

(***************************************************************************)
(* The inductive invariant.                                                *)
(***************************************************************************)

\* The bus, to which buildDependencies subscribes one handler per topic.
BusTypeOK ==
    /\ subs \in [Topics -> {<<>>, <<Log>>}]
    /\ pending \in Seq(Bus!Envelope)
    /\ sent \in Nat
    /\ received \in [Bus!Ids -> {<<>>, <<Log>>}]

Serving == Startup \cup {"select", "shutdown"}

\* All stores but Redis and PostgreSQL are done with.
BusDone == main \in {"closeRedis", "closeDB"} \/ (main = "exited" /\ way # "killed")

\* Where run is tells how it came there, and whether listener and bus are open.
MainInv ==
    /\ main \in Serving => way = "none"
    /\ main \in Closing => way \in {"graceful", "forced", "serverErr"}
    /\ main # "select" => ~listening
    /\ main \in Serving \cup {"closeBus"} => open
    /\ main = "drain" => ~open

\* A request is accepted after the wiring, and is at an end if Shutdown waited
\* for it.
FlightInv ==
    /\ main \in Startup => \A r \in Requests : pc[r] = "none"
    /\ way = "graceful" => \A r \in Requests : pc[r] \in {"none", "done"}

\* Its row is committed by its statement, its answer comes last, and a closed
\* bus can only refuse it when nobody waits for it.
RequestInv ==
    \A r \in Requests :
        /\ pc[r] # "done" => answer[r] = 0
        /\ pc[r] \in {"none", "begun", "query"} => r \notin committed
        /\ pc[r] \in {"query", "publish", "answer"} => routes /\ r \in Writes
        /\ outcome[r] = "panicked" => way \in {"forced", "serverErr"}

\* The routes exist when all handlers are subscribed, and only then events.
WiredInv ==
    /\ routes => main \notin Startup /\ \A t \in Topics : subs[t] = <<Log>>
    /\ pending # <<>> => routes /\ kind = "inprocess"

Waiting == {pending[i].id : i \in DOMAIN pending}

\* A queued event waits or has been handled; none waits for a closed store.
QueueInv ==
    /\ \A r \in Requests : outcome[r] = "queued" =>
         event[r] \in Waiting \/ received[event[r]] = <<Log>>
    /\ BusDone => pending = <<>> /\ ~open

IInv == /\ TypeOK
        /\ BusTypeOK
        /\ MainInv
        /\ FlightInv
        /\ RequestInv
        /\ WiredInv
        /\ QueueInv
        /\ NoFalseFailure

-----------------------------------------------------------------------------
(* Initially *)

LEMMA InitIInv == Init => IInv
<1> SUFFICES ASSUME Init PROVE IInv
  OBVIOUS
<1>1. /\ subs = [t \in Topics |-> <<>>] /\ pending = <<>> /\ sent = 0
      /\ received = [i \in Bus!Ids |-> <<>>] /\ open = TRUE
  BY DEF Init, Bus!Init, Bus!Ids
<1>2. BusTypeOK
  BY <1>1 DEF BusTypeOK
<1>3. TypeOK
  BY <1>1 DEF Init, TypeOK, Startup, Stores, Servers
<1>4. MainInv /\ FlightInv /\ RequestInv
  BY <1>1 DEF Init, MainInv, FlightInv, RequestInv, Serving, Startup, Closing
<1>5. WiredInv /\ QueueInv /\ NoFalseFailure
  BY <1>1 DEF Init, WiredInv, QueueInv, BusDone, NoFalseFailure
<1>6. QED
  BY <1>2, <1>3, <1>4, <1>5 DEF IInv

-----------------------------------------------------------------------------
(* Steps of run *)

\* A step that only moves run on, and what must hold of where it gets to.
LEMMA MoveOn ==
  ASSUME IInv, TypeOK', MainInv', UNCHANGED <<reqVars, busVars>>,
         routes' = routes \/ (routes' => main' \notin Startup /\ \A t \in Topics : subs[t] = <<Log>>),
         routes => routes', pending # <<>> => kind' = kind,
         main' \in Startup => main \in Startup,
         way' = "graceful" => way = "graceful" \/ Idle,
         way \in {"forced", "serverErr"} => way' = way,
         BusDone' => pending = <<>> /\ ~open
  PROVE  IInv'
<1>1. /\ TypeOK /\ BusTypeOK /\ MainInv /\ FlightInv /\ RequestInv /\ WiredInv /\ QueueInv
      /\ NoFalseFailure
  BY DEF IInv
<1>2. UNCHANGED <<pc, committed, outcome, event, answer, subs, pending, sent, received, open>>
  BY DEF reqVars, busVars
<1>3. BusTypeOK'
  BY <1>1, <1>2 DEF BusTypeOK
<1>4. FlightInv' /\ RequestInv'
  BY <1>1, <1>2 DEF FlightInv, RequestInv, Idle
<1>5. WiredInv'
  BY <1>1, <1>2 DEF WiredInv
<1>6. QueueInv'
  BY <1>1, <1>2 DEF QueueInv, Waiting
<1>7. NoFalseFailure'
  BY <1>1, <1>2 DEF NoFalseFailure
<1>8. QED
  BY <1>1, <1>3, <1>4, <1>5, <1>6, <1>7 DEF IInv
\* Startup.
LEMMA BootInv ==
  ASSUME IInv, ConnectPostgres \/ ConnectRedis \/ InitEventBus \/ Listen
  PROVE  IInv'
<1>0. TypeOK /\ BusTypeOK /\ MainInv /\ WiredInv
  BY DEF IInv
<1>1. CASE ConnectPostgres \/ ConnectRedis
  <2>1. main \in Startup /\ main' \in Startup /\ UNCHANGED <<reqVars, busVars, way, listening, routes, kind>>
    BY <1>1 DEF ConnectPostgres, ConnectRedis, Startup
  <2>2. TypeOK'
    <3>1. db' \in Stores /\ redis' \in Stores
      <4>1. /\ db' \in {db, "open"}
            /\ redis' \in {redis, "open"}
        BY <1>1 DEF ConnectPostgres, ConnectRedis, Connect
      <4>2. QED
        BY <1>0, <4>1 DEF TypeOK, Stores
    <3>2. UNCHANGED <<reach, signalled>>
      BY <1>1 DEF ConnectPostgres, ConnectRedis
    <3>3. budget' \in BOOLEAN
      <4>1. budget' = budget \/ budget' \in {FALSE, budget}
        BY <1>1, Zenon DEF ConnectPostgres, ConnectRedis, Connect
      <4>2. QED
        BY <1>0, <4>1, Zenon DEF TypeOK
    <3>4. QED
      BY <1>0, <2>1, <3>1, <3>2, <3>3 DEF TypeOK, reqVars, busVars
  <2>3. MainInv' /\ way' = "none" /\ ~BusDone'
    BY <1>0, <2>1 DEF MainInv, Serving, Startup, Closing, BusDone, busVars
  <2>4. QED
    BY <2>1, <2>2, <2>3, MoveOn
<1>2. CASE InitEventBus
  <2>1. main = "bus" /\ main' = "wire" /\ UNCHANGED <<reqVars, busVars, way, listening, routes>>
    BY <1>2 DEF InitEventBus
  <2>2. TypeOK'
    BY <1>0, <1>2, <2>1 DEF InitEventBus, TypeOK, reqVars, busVars, Startup
  <2>3. MainInv' /\ way' = "none" /\ ~BusDone'
    BY <1>0, <2>1 DEF MainInv, Serving, Startup, Closing, BusDone, busVars
  <2>4. pending = <<>>
    BY <1>0, <2>1 DEF WiredInv, Startup
  <2>5. main' \in Startup /\ main \in Startup
    BY <2>1 DEF Startup
  <2>6. QED
    BY <2>1, <2>2, <2>3, <2>4, <2>5, MoveOn
<1>3. CASE Listen
  <2>1. /\ main = "wire" /\ main' = "select" /\ UNCHANGED <<reqVars, busVars, way, kind>>
        /\ routes' = (db = "open")
        /\ db = "open" => \A t \in Topics : subs[t] # <<>>
    BY <1>3 DEF Listen
  <2>2. TypeOK'
    BY <1>0, <1>3, <2>1 DEF Listen, TypeOK, reqVars, busVars
  <2>3. MainInv' /\ way' = "none" /\ ~BusDone'
    BY <1>0, <2>1 DEF MainInv, Serving, Startup, Closing, BusDone, busVars
  <2>4. routes' => \A t \in Topics : subs[t] = <<Log>>
    BY <1>0, <2>1 DEF BusTypeOK
  <2>5. ~routes /\ main' \notin Startup
    BY <1>0, <2>1 DEF WiredInv, Startup
  <2>6. QED
    BY <2>1, <2>2, <2>3, <2>4, <2>5, MoveOn
<1>4. QED
  BY <1>1, <1>2, <1>3

\* buildDependencies subscribes before anything can be queued.
LEMMA SubscribeInv ==
  ASSUME IInv, NEW t \in Topics, Subscribe(t)
  PROVE  IInv'
<1>0. /\ TypeOK /\ BusTypeOK /\ MainInv /\ FlightInv /\ RequestInv /\ WiredInv /\ QueueInv
      /\ NoFalseFailure
  BY DEF IInv
<1>1. /\ main = "wire" /\ UNCHANGED <<mainVars, reqVars, pending, sent, received, open>>
      /\ Len(subs[t]) < 1 /\ subs' = [subs EXCEPT ![t] = Append(@, Log)]
  BY DEF Subscribe, Bus!Subscribe
<1>2. UNCHANGED <<main, way, budget, reach, db, redis, kind, routes, listening, signalled,
                  pc, committed, outcome, event, answer>>
  BY <1>1 DEF mainVars, reqVars
<1>3. subs' = [subs EXCEPT ![t] = <<Log>>]
  <2>1. subs[t] \in {<<>>, <<Log>>} /\ Len(<<Log>>) = 1
    BY <1>0 DEF BusTypeOK
  <2>2. subs[t] = <<>>
    BY <1>1, <2>1
  <2>3. Append(<<>>, Log) = <<Log>>
    OBVIOUS
  <2>4. QED
    BY <1>1, <2>2, <2>3
<1>4. BusTypeOK'
  BY <1>0, <1>1, <1>3 DEF BusTypeOK
<1>5. TypeOK'
  BY <1>0, <1>1, <1>2 DEF TypeOK
<1>6. MainInv' /\ FlightInv' /\ RequestInv' /\ NoFalseFailure'
  BY <1>0, <1>1, <1>2 DEF MainInv, FlightInv, RequestInv, NoFalseFailure
<1>7. ~routes
  BY <1>0, <1>1 DEF WiredInv, Startup
<1>8. WiredInv' /\ QueueInv'
  BY <1>0, <1>1, <1>2, <1>7 DEF WiredInv, QueueInv, Waiting, BusDone
<1>9. QED
  BY <1>4, <1>5, <1>6, <1>8 DEF IInv

\* Signals, the end of serving, and outages.
LEMMA EndInv ==
  ASSUME IInv, Signal \/ ServerErr \/ BeginShutdown \/ ShutdownDone \/ ShutdownTimesOut \/ Outage
  PROVE  IInv'
<1>0. TypeOK /\ MainInv /\ QueueInv
  BY DEF IInv
<1>1. UNCHANGED <<reqVars, busVars, routes, kind>>
  BY DEF Signal, ServerErr, BeginShutdown, ShutdownDone, ShutdownTimesOut, Outage
<1>2. TypeOK'
  <2>1. reach' \subseteq Servers
    BY <1>0 DEF Signal, ServerErr, BeginShutdown, ShutdownDone, ShutdownTimesOut, Outage, TypeOK
  <2>2. /\ main' \in Startup \cup {"select", "shutdown", "exited"} \cup Closing
        /\ way' \in {"none", "graceful", "forced", "serverErr", "killed"}
    BY <1>0 DEF Signal, ServerErr, BeginShutdown, ShutdownDone, ShutdownTimesOut, Outage, TypeOK,
                Startup, Closing
  <2>3. /\ UNCHANGED <<budget, db, redis>>
        /\ listening' \in BOOLEAN /\ signalled' \in BOOLEAN
    BY <1>0 DEF Signal, ServerErr, BeginShutdown, ShutdownDone, ShutdownTimesOut, Outage, TypeOK
  <2>4. QED
    BY <1>0, <1>1, <2>1, <2>2, <2>3 DEF TypeOK, reqVars, busVars
<1>3. open' = open
  BY <1>1 DEF busVars
<1>4. MainInv'
  BY <1>0, <1>3 DEF Signal, ServerErr, BeginShutdown, ShutdownDone, ShutdownTimesOut, Outage,
                    MainInv, Serving, Startup, Closing
<1>5. /\ main' \in Startup => main \in Startup
      /\ way' = "graceful" => way = "graceful" \/ Idle
      /\ way \in {"forced", "serverErr"} => way' = way
      /\ BusDone' => BusDone
  BY <1>0 DEF Signal, ServerErr, BeginShutdown, ShutdownDone, ShutdownTimesOut, Outage,
              MainInv, Serving, Startup, Closing, BusDone
<1>6. BusDone' => pending = <<>> /\ ~open
  BY <1>0, <1>5 DEF QueueInv
<1>7. QED
  BY <1>1, <1>2, <1>4, <1>5, <1>6, MoveOn

\* The deferred calls after the bus has been closed.
LEMMA StoresInv ==
  ASSUME IInv, Drained \/ CloseRedis \/ CloseDB \/ Exit
  PROVE  IInv'
<1>0. TypeOK /\ MainInv /\ QueueInv
  BY DEF IInv
<1>1. UNCHANGED <<reqVars, busVars, routes, kind, way, listening>>
  BY DEF Drained, CloseRedis, CloseDB, Exit
<1>2. TypeOK'
  BY <1>0, <1>1 DEF Drained, CloseRedis, CloseDB, Exit, TypeOK, Closing, Stores, reqVars, busVars
<1>3. main \in {"drain", "closeRedis", "closeDB"} /\ main' \in {"closeRedis", "closeDB", "exited"}
  BY DEF Drained, CloseRedis, CloseDB, Exit
<1>4. open' = open
  BY <1>1 DEF busVars
<1>5. MainInv' /\ main' \notin Startup
  BY <1>0, <1>1, <1>3, <1>4 DEF MainInv, Serving, Startup, Closing
<1>6. pending = <<>> /\ ~open
  BY <1>0, <1>3 DEF Drained, CloseRedis, CloseDB, Exit, MainInv, QueueInv, BusDone
<1>7. QED
  BY <1>1, <1>2, <1>5, <1>6, MoveOn
\* eventBus.Close: with Kafka, or none, nothing is queued here.
LEMMA CloseBusInv ==
  ASSUME IInv, CloseBus
  PROVE  IInv'
<1>0. /\ TypeOK /\ BusTypeOK /\ MainInv /\ FlightInv /\ RequestInv /\ WiredInv /\ QueueInv
      /\ NoFalseFailure
  BY DEF IInv
<1>1. /\ main = "closeBus" /\ main' = IF kind = "inprocess" THEN "drain" ELSE "closeRedis"
      /\ open' = FALSE
      /\ UNCHANGED <<way, budget, reach, db, redis, kind, routes, listening, signalled,
                    pc, committed, outcome, event, answer, subs, pending, sent, received>>
  BY DEF CloseBus, Bus!Close, reqVars
<1>2. TypeOK' /\ BusTypeOK'
  <2>1. main' \in Closing
    BY <1>1 DEF Closing
  <2>2. TypeOK'
    BY <1>0, <1>1, <2>1, ZenonT(60) DEF TypeOK
  <2>3. BusTypeOK'
    BY <1>0, <1>1 DEF BusTypeOK
  <2>4. QED
    BY <2>2, <2>3
<1>3. MainInv' /\ FlightInv' /\ RequestInv' /\ NoFalseFailure'
  BY <1>0, <1>1 DEF MainInv, FlightInv, RequestInv, NoFalseFailure, Serving, Startup, Closing
<1>4. WiredInv'
  BY <1>0, <1>1 DEF WiredInv, Startup
<1>5. QueueInv'
  BY <1>0, <1>1 DEF QueueInv, WiredInv, Waiting, BusDone
<1>6. QED
  BY <1>2, <1>3, <1>4, <1>5 DEF IInv

\* An element of a sequence is its head or in its tail.
LEMMA HeadOrTail ==
  ASSUME NEW S, NEW s \in Seq(S), s # <<>>
  PROVE  /\ Head(s) \in S /\ Tail(s) \in Seq(S)
         /\ \A i \in DOMAIN s : s[i] = Head(s) \/ \E j \in DOMAIN Tail(s) : Tail(s)[j] = s[i]
<1>1. Head(s) \in S /\ Tail(s) \in Seq(S)
  OBVIOUS
<1>2. ASSUME NEW i \in DOMAIN s, i # 1
      PROVE  i - 1 \in DOMAIN Tail(s) /\ Tail(s)[i - 1] = s[i]
  BY <1>2
<1>3. s[1] = Head(s)
  OBVIOUS
<1>4. QED
  BY <1>1, <1>2, <1>3

\* The handlers get the oldest event.
LEMMA DispatchInv ==
  ASSUME IInv, Dispatch
  PROVE  IInv'
<1> DEFINE id == Head(pending).id
<1>0. /\ TypeOK /\ BusTypeOK /\ MainInv /\ FlightInv /\ RequestInv /\ WiredInv /\ QueueInv
      /\ NoFalseFailure
  BY DEF IInv
<1>1. /\ main # "exited" /\ pending # <<>> /\ UNCHANGED <<mainVars, reqVars, subs, sent, open>>
      /\ received' = [received EXCEPT ![id] = subs[Head(pending).topic]]
      /\ pending' = Tail(pending)
  BY DEF Dispatch, Bus!Deliver
<1>2. UNCHANGED <<main, way, budget, reach, db, redis, kind, routes, listening, signalled,
                  pc, committed, outcome, event, answer>>
  BY <1>1 DEF mainVars, reqVars
<1>3. /\ id \in Bus!Ids /\ Head(pending).topic \in Topics /\ pending' \in Seq(Bus!Envelope)
      /\ \A i \in DOMAIN pending :
           pending[i] = Head(pending) \/ \E j \in DOMAIN pending' : pending'[j] = pending[i]
  <2>1. pending \in Seq(Bus!Envelope) /\ pending # <<>>
    BY <1>0, <1>1 DEF BusTypeOK
  <2>2. /\ Head(pending) \in Bus!Envelope /\ Tail(pending) \in Seq(Bus!Envelope)
        /\ \A i \in DOMAIN pending :
             pending[i] = Head(pending)
             \/ \E j \in DOMAIN Tail(pending) : Tail(pending)[j] = pending[i]
    BY <2>1, HeadOrTail
  <2>3. QED
    BY <1>1, <2>2 DEF Bus!Envelope
<1>4. subs[Head(pending).topic] = <<Log>>
  BY <1>0, <1>1, <1>3 DEF WiredInv
<1> HIDE DEF id
<1>5. /\ received' \in [Bus!Ids -> {<<>>, <<Log>>}]
      /\ received'[id] = <<Log>>
      /\ \A i : received[i] = <<Log>> /\ i \in Bus!Ids => received'[i] = <<Log>>
  BY <1>0, <1>1, <1>3, <1>4 DEF BusTypeOK
<1>6. TypeOK' /\ BusTypeOK'
  BY <1>0, <1>1, <1>2, <1>3, <1>5 DEF TypeOK, BusTypeOK
<1>7. MainInv' /\ FlightInv' /\ RequestInv' /\ NoFalseFailure'
  BY <1>0, <1>1, <1>2 DEF MainInv, FlightInv, RequestInv, NoFalseFailure
<1>8. WiredInv'
  BY <1>0, <1>1, <1>2 DEF WiredInv
<1>9. QueueInv'
  <2>1. ~BusDone'
    BY <1>0, <1>1, <1>2 DEF QueueInv, BusDone
  <2>2. ASSUME NEW r \in Requests, outcome[r] = "queued"
        PROVE  event[r] \in Waiting' \/ received'[event[r]] = <<Log>>
    <3>1. CASE event[r] \in Waiting
      <4>1. PICK i \in DOMAIN pending : event[r] = pending[i].id
        BY <3>1 DEF Waiting
      <4>2. QED
        BY <1>3, <1>5, <4>1 DEF Waiting, id
    <3>2. CASE received[event[r]] = <<Log>>
      BY <1>0, <1>1, <1>5, <3>2 DEF BusTypeOK
    <3>3. QED
      BY <1>0, <2>2, <3>1, <3>2 DEF QueueInv
  <2>3. QED
    BY <1>2, <2>1, <2>2 DEF QueueInv
<1>10. QED
  BY <1>6, <1>7, <1>8, <1>9 DEF IInv
-----------------------------------------------------------------------------
(* Steps of requests *)

\* A step of one request: what must hold of it afterwards, and of the bus if it
\* has published.
LEMMA RequestMoves ==
  ASSUME IInv, NEW r \in Requests, NEW to, UNCHANGED <<mainVars, subs, received, open>>,
         pc' = [pc EXCEPT ![r] = to], main \notin Startup, way # "graceful",
         TypeOK', BusTypeOK',
         \A q \in Requests \ {r} : /\ answer'[q] = answer[q] /\ outcome'[q] = outcome[q]
                                   /\ event'[q] = event[q] /\ (q \in committed' <=> q \in committed),
         to # "done" => answer'[r] = 0,
         to \in {"none", "begun", "query"} => r \notin committed',
         to \in {"query", "publish", "answer"} => routes /\ r \in Writes,
         outcome'[r] = "panicked" => way \in {"forced", "serverErr"},
         outcome'[r] = "queued" => event'[r] \in Waiting' \/ received[event'[r]] = <<Log>>,
         r \in committed' /\ answer'[r] = 500 => outcome'[r] \in {"unknown", "panicked"},
         Waiting \subseteq Waiting',
         pending' # <<>> => routes /\ kind = "inprocess",
         BusDone => pending' = <<>>
  PROVE  IInv'
<1>0. /\ TypeOK /\ BusTypeOK /\ MainInv /\ FlightInv /\ RequestInv /\ WiredInv /\ QueueInv
      /\ NoFalseFailure
  BY DEF IInv
<1>1. UNCHANGED <<main, way, kind, routes, listening>> /\ open' = open
  BY DEF mainVars
<1>2. pc'[r] = to /\ \A q \in Requests \ {r} : pc'[q] = pc[q]
  BY <1>0 DEF TypeOK
<1>3. MainInv'
  BY <1>0, <1>1 DEF MainInv
<1>4. FlightInv'
  BY <1>1 DEF FlightInv
<1>5. RequestInv'
  BY <1>0, <1>1, <1>2 DEF RequestInv
<1>6. WiredInv'
  BY <1>0, <1>1 DEF WiredInv
<1>7. BusDone' <=> BusDone
  BY <1>1 DEF BusDone
<1>8. QueueInv'
  BY <1>0, <1>7 DEF QueueInv
<1>9. NoFalseFailure'
  <2>1. ASSUME NEW q \in committed', answer'[q] = 500
        PROVE  \/ outcome'[q] = "unknown"
               \/ outcome'[q] = "panicked" /\ way' \in {"forced", "serverErr"}
    <3>1. q \in Requests
      BY DEF TypeOK, Requests
    <3>2. CASE q = r
      BY <1>1, <2>1, <3>2
    <3>3. CASE q # r
      BY <1>0, <1>1, <2>1, <3>1, <3>3 DEF NoFalseFailure
    <3>4. QED
      BY <3>2, <3>3
  <2>2. QED
    BY <2>1 DEF NoFalseFailure
<1>10. QED
  BY <1>3, <1>4, <1>5, <1>6, <1>8, <1>9 DEF IInv

\* A request in flight is none that startup or a graceful end knows.
LEMMA InFlight ==
  ASSUME IInv, NEW r \in Requests, pc[r] \notin {"none", "done"}
  PROVE  main \notin Startup /\ way # "graceful" /\ answer[r] = 0
BY DEF IInv, FlightInv, RequestInv

\* A step of one request with no event.
LEMMA QuietMove ==
  ASSUME IInv, NEW r \in Requests, NEW from, NEW to, Goes(r, from, to),
         UNCHANGED <<mainVars, busVars>>,
         to \in {"begun", "query", "publish", "answer", "done"}, main \notin Startup, way # "graceful",
         committed' \subseteq Writes,
         outcome' \in {outcome, [outcome EXCEPT ![r] = "unknown"], [outcome EXCEPT ![r] = "sent"],
                       [outcome EXCEPT ![r] = "lost"]},
         event' = event,
         \/ answer' = answer /\ from # "done"
         \/ to = "done" /\ answer' \in {[answer EXCEPT ![r] = 200], [answer EXCEPT ![r] = 404],
                                     [answer EXCEPT ![r] = 500], [answer EXCEPT ![r] = 503]},
         \A q \in Requests \ {r} : q \in committed' <=> q \in committed,
         to \in {"begun", "query"} => r \notin committed',
         to \in {"query", "publish", "answer"} => routes /\ r \in Writes,
         r \in committed' /\ answer'[r] = 500 => outcome'[r] \in {"unknown", "panicked"}
  PROVE  IInv'
<1>0. TypeOK /\ BusTypeOK /\ RequestInv /\ WiredInv /\ QueueInv
  BY DEF IInv
<1>1. /\ UNCHANGED <<main, way, budget, reach, db, redis, kind, routes, listening, signalled>>
      /\ UNCHANGED <<subs, pending, sent, received, open>>
      /\ pc[r] = from /\ pc' = [pc EXCEPT ![r] = to]
  BY DEF mainVars, busVars, Goes
<1>2. TypeOK'
  <2>1. answer' \in [Requests -> {0, 200, 404, 500, 503}]
    BY <1>0 DEF TypeOK
  <2>2. outcome' \in [Requests -> {"none", "unknown", "queued", "dropped", "panicked", "sent", "lost"}]
    BY <1>0 DEF TypeOK
  <2>3. pc' \in [Requests -> {"none", "begun", "query", "publish", "answer", "done"}]
    BY <1>0, <1>1 DEF TypeOK
  <2>4. QED
    BY <1>0, <1>1, <2>1, <2>2, <2>3 DEF TypeOK
<1>3. BusTypeOK' /\ Waiting' = Waiting
  BY <1>0, <1>1 DEF BusTypeOK, Waiting
<1>4. \A q \in Requests \ {r} : answer'[q] = answer[q] /\ outcome'[q] = outcome[q]
  BY <1>0 DEF TypeOK
<1>5. to # "done" => answer'[r] = 0
  BY <1>0, <1>1 DEF RequestInv
<1>6. outcome'[r] \in {outcome[r], "unknown", "sent", "lost"}
  BY <1>0 DEF TypeOK
<1>7. /\ outcome'[r] = "panicked" => way \in {"forced", "serverErr"}
      /\ outcome'[r] = "queued" => event'[r] \in Waiting' \/ received[event'[r]] = <<Log>>
  BY <1>0, <1>3, <1>6 DEF RequestInv, QueueInv
<1>8. /\ pending' # <<>> => routes /\ kind = "inprocess"
      /\ BusDone => pending' = <<>>
  BY <1>0, <1>1 DEF WiredInv, QueueInv
<1>9. /\ \A q \in Requests \ {r} : /\ answer'[q] = answer[q] /\ outcome'[q] = outcome[q]
                                   /\ event'[q] = event[q] /\ (q \in committed' <=> q \in committed)
      /\ to \in {"none", "begun", "query"} => r \notin committed'
      /\ Waiting \subseteq Waiting'
  BY <1>3, <1>4
<1>10. UNCHANGED <<mainVars, subs, received, open>>
  BY <1>1
<1>11. QED
  BY <1>1, <1>2, <1>3, <1>5, <1>7, <1>8, <1>9, <1>10, RequestMoves
LEMMA QueryInv ==
  ASSUME IInv, NEW r \in Requests, Query(r)
  PROVE  IInv'
<1>0. TypeOK /\ RequestInv
  BY DEF IInv
<1>1. pc[r] = "query" /\ UNCHANGED <<mainVars, event, busVars>>
  BY DEF Query, Answered, Goes
<1>2. /\ main \notin Startup /\ way # "graceful" /\ answer[r] = 0
      /\ routes /\ r \in Writes
  BY <1>0, <1>1, InFlight DEF RequestInv
<1>3. CASE /\ Goes(r, "query", "publish")
           /\ committed' = committed \cup {r}
           /\ UNCHANGED <<answer, outcome>>
  <2>1. committed' \subseteq Writes /\ \A q \in Requests \ {r} : q \in committed' <=> q \in committed
    BY <1>0, <1>2, <1>3 DEF TypeOK
  <2>2. answer'[r] # 500
    BY <1>2, <1>3
  <2>3. QED
    BY <1>1, <1>2, <1>3, <2>1, <2>2, QuietMove
<1>4. CASE /\ Answered(r, "query", 500)
           /\ committed' \in {committed, committed \cup {r}}
           /\ outcome' = [outcome EXCEPT ![r] = "unknown"]
  <2>1. committed' \subseteq Writes /\ \A q \in Requests \ {r} : q \in committed' <=> q \in committed
    BY <1>0, <1>2, <1>4 DEF TypeOK
  <2>2. outcome'[r] = "unknown"
    BY <1>0, <1>4 DEF TypeOK
  <2>3. Goes(r, "query", "done") /\ answer' = [answer EXCEPT ![r] = 500]
    BY <1>4 DEF Answered
  <2>4. QED
    BY <1>1, <1>2, <1>4, <2>1, <2>2, <2>3, QuietMove
<1>5. QED
  BY <1>3, <1>4 DEF Query

\* The steps before the query, the answer, the Kafka bus, and the probes.
LEMMA PlainInv ==
  ASSUME IInv, NEW r \in Requests,
         Accept(r) \/ NoRoute(r) \/ Acquire(r) \/ PublishKafka(r) \/ Respond(r) \/ Readiness(r)
  PROVE  IInv'
<1>0. TypeOK /\ RequestInv /\ MainInv /\ committed' = committed /\ event' = event
      /\ UNCHANGED <<mainVars, busVars>>
  BY DEF IInv, Accept, NoRoute, Acquire, PublishKafka, Respond, Readiness, Answered
<1>1. committed' \subseteq Writes /\ \A q \in Requests \ {r} : q \in committed' <=> q \in committed
  BY <1>0 DEF TypeOK
<1>2. CASE Accept(r)
  <2>1. main \notin Startup /\ way # "graceful"
    BY <1>0, <1>2 DEF Accept, MainInv, Serving, Startup
  <2>2. r \notin committed /\ answer[r] = 0
    BY <1>0, <1>2 DEF Accept, Goes, RequestInv
  <2>3. QED
    BY <1>0, <1>1, <1>2, <2>1, <2>2, QuietMove DEF Accept
<1>3. CASE NoRoute(r) \/ Acquire(r) \/ Readiness(r)
  <2>1. pc[r] = "begun"
    BY <1>3 DEF NoRoute, Acquire, Readiness, Answered, Goes
  <2>2. main \notin Startup /\ way # "graceful" /\ answer[r] = 0 /\ r \notin committed
    BY <1>0, <2>1, InFlight DEF RequestInv
  <2>3. CASE Goes(r, "begun", "query") /\ UNCHANGED answer /\ r \in Writes /\ routes /\ outcome' = outcome
    BY <1>0, <1>1, <2>2, <2>3, QuietMove
  <2>4. ASSUME NEW status \in {200, 404, 500, 503}, Answered(r, "begun", status), outcome' = outcome
        PROVE  IInv'
    <3>1. Goes(r, "begun", "done") /\ answer' = [answer EXCEPT ![r] = status]
      BY <2>4 DEF Answered
    <3>2. UNCHANGED <<mainVars, busVars>> /\ event' = event /\ r \notin committed'
      BY <1>0, <2>2
    <3>3. outcome' \in {outcome, [outcome EXCEPT ![r] = "unknown"], [outcome EXCEPT ![r] = "sent"],
                        [outcome EXCEPT ![r] = "lost"]}
      BY <2>4
    <3>4. answer' \in {[answer EXCEPT ![r] = 200], [answer EXCEPT ![r] = 404],
                      [answer EXCEPT ![r] = 500], [answer EXCEPT ![r] = 503]}
      <4>1. CASE status = 200
        BY <3>1, <4>1
      <4>2. CASE status = 404
        BY <3>1, <4>2
      <4>3. CASE status = 500
        BY <3>1, <4>3
      <4>4. CASE status = 503
        BY <3>1, <4>4
      <4>5. QED
        BY <2>4, <4>1, <4>2, <4>3, <4>4
    <3>5. /\ \/ answer' = answer /\ "begun" # "done"
             \/ "done" = "done" /\ answer' \in {[answer EXCEPT ![r] = 200], [answer EXCEPT ![r] = 404],
                                             [answer EXCEPT ![r] = 500], [answer EXCEPT ![r] = 503]}
          /\ "done" \in {"begun", "query", "publish", "answer", "done"}
          /\ "done" \in {"begun", "query"} => r \notin committed'
          /\ "done" \in {"query", "publish", "answer"} => routes /\ r \in Writes
          /\ r \in committed' /\ answer'[r] = 500 => outcome'[r] \in {"unknown", "panicked"}
      BY <3>2, <3>4
    <3>6. QED
      BY <1>1, <2>2, <3>1, <3>2, <3>3, <3>5, QuietMove, ZenonT(60)
  <2>5. QED
    BY <1>3, <2>3, <2>4 DEF NoRoute, Acquire, Readiness
<1>4. CASE PublishKafka(r)
  <2>1. pc[r] = "publish" /\ Goes(r, "publish", "answer") /\ UNCHANGED answer
    BY <1>4 DEF PublishKafka, Goes
  <2>2. main \notin Startup /\ way # "graceful" /\ answer[r] = 0 /\ routes /\ r \in Writes
    BY <1>0, <2>1, InFlight DEF RequestInv
  <2>3. outcome' \in {[outcome EXCEPT ![r] = "sent"], [outcome EXCEPT ![r] = "lost"]}
    BY <1>4 DEF PublishKafka
  <2>4. answer'[r] # 500
    BY <2>1, <2>2
  <2>5. QED
    BY <1>0, <1>1, <2>1, <2>2, <2>3, <2>4, QuietMove
<1>5. CASE Respond(r)
  <2>1. /\ pc[r] = "answer" /\ Goes(r, "answer", "done")
        /\ answer' = [answer EXCEPT ![r] = 200] /\ outcome' = outcome
    BY <1>5 DEF Respond, Answered, Goes
  <2>2. main \notin Startup /\ way # "graceful"
    BY <2>1, InFlight
  <2>3. answer'[r] # 500
    BY <1>0, <2>1 DEF TypeOK
  <2>4. QED
    BY <1>0, <1>1, <2>1, <2>2, <2>3, QuietMove
<1>6. QED
  BY <1>2, <1>3, <1>4, <1>5

\* What an append does to a sequence of envelopes.
LEMMA AppendKeeps ==
  ASSUME NEW S, NEW s \in Seq(S), NEW x \in S
  PROVE  /\ Append(s, x) \in Seq(S)
         /\ \A i \in DOMAIN s : i \in DOMAIN Append(s, x) /\ Append(s, x)[i] = s[i]
         /\ \E i \in DOMAIN Append(s, x) : Append(s, x)[i] = x
<1>1. Len(s) + 1 \in DOMAIN Append(s, x) /\ Append(s, x)[Len(s) + 1] = x
  OBVIOUS
<1>2. QED
  BY <1>1

LEMMA PublishInv ==
  ASSUME IInv, NEW r \in Requests, PublishInProcess(r)
  PROVE  IInv'
<1>0. TypeOK /\ BusTypeOK /\ RequestInv /\ WiredInv /\ QueueInv
  BY DEF IInv
<1>1. /\ kind = "inprocess" /\ open = TRUE /\ main # "exited"
      /\ pc[r] = "publish" /\ pc' = [pc EXCEPT ![r] = "answer"]
      /\ UNCHANGED <<mainVars, committed, answer>>
  BY <1>0 DEF PublishInProcess, Goes, TypeOK
<1>2. main \notin Startup /\ way # "graceful" /\ answer[r] = 0 /\ routes /\ r \in Writes
  BY <1>0, <1>1, InFlight DEF RequestInv
<1>3. ~BusDone
  BY <1>0, <1>1 DEF QueueInv
<1>4. answer'[r] = 0 /\ answer'[r] # 500
  BY <1>1, <1>2
<1>5. pc' \in [Requests -> {"none", "begun", "query", "publish", "answer", "done"}]
  BY <1>0, <1>1 DEF TypeOK
<1>6. UNCHANGED <<main, way, budget, reach, db, redis, kind, routes, listening, signalled>>
  BY <1>1 DEF mainVars
<1>7. ASSUME NEW t \in Topics, Bus!Accept(t),
             outcome' = [outcome EXCEPT ![r] = "queued"],
             event' = [event EXCEPT ![r] = sent + 1]
      PROVE  IInv'
  <2> DEFINE env == [id |-> sent + 1, topic |-> t]
  <2>1. /\ sent < MaxPublishes /\ sent' = sent + 1 /\ pending' = Append(pending, env)
        /\ UNCHANGED <<subs, received, open>>
    BY <1>7 DEF Bus!Accept
  <2>2. env \in Bus!Envelope /\ env.id = sent + 1
    BY <1>0, <2>1, LifecycleAssumption DEF BusTypeOK, Bus!Envelope, Bus!Ids
  <2> HIDE DEF env
  <2>3. /\ pending' \in Seq(Bus!Envelope)
        /\ \A i \in DOMAIN pending : i \in DOMAIN pending' /\ pending'[i] = pending[i]
        /\ \E i \in DOMAIN pending' : pending'[i] = env
    BY <1>0, <2>1, <2>2, AppendKeeps DEF BusTypeOK
  <2>4. BusTypeOK'
    BY <1>0, <2>1, <2>3 DEF BusTypeOK
  <2>5. Waiting \subseteq Waiting' /\ sent + 1 \in Waiting'
    BY <2>2, <2>3 DEF Waiting
  <2>6. TypeOK'
    <3>1. sent + 1 \in Nat
      BY <1>0 DEF BusTypeOK
    <3>2. QED
      BY <1>0, <1>1, <1>5, <1>6, <1>7, <2>1, <3>1 DEF TypeOK
  <2>7. outcome'[r] = "queued" /\ event'[r] = sent + 1
    BY <1>0, <1>7 DEF TypeOK
  <2>8. \A q \in Requests \ {r} : /\ answer'[q] = answer[q] /\ outcome'[q] = outcome[q]
                                  /\ event'[q] = event[q] /\ (q \in committed' <=> q \in committed)
    BY <1>0, <1>1, <1>7 DEF TypeOK
  <2>9. UNCHANGED <<mainVars, subs, received, open>>
    BY <1>1, <2>1
  <2>10. /\ outcome'[r] = "panicked" => way \in {"forced", "serverErr"}
         /\ outcome'[r] = "queued" => event'[r] \in Waiting' \/ received[event'[r]] = <<Log>>
    BY <2>5, <2>7
  <2>11. /\ pending' # <<>> => routes /\ kind = "inprocess"
         /\ BusDone => pending' = <<>>
    BY <1>1, <1>2, <1>3
  <2>12. pc' = [pc EXCEPT ![r] = "answer"] /\ routes /\ r \in Writes
    BY <1>1, <1>2
  <2>13. r \in committed' /\ answer'[r] = 500 => outcome'[r] \in {"unknown", "panicked"}
    BY <1>4
  <2>14. QED
    BY <1>2, <1>4, <2>4, <2>5, <2>6, <2>8, <2>9, <2>10, <2>11, <2>12, <2>13, RequestMoves, ZenonT(60)
<1>8. ASSUME Bus!Refuse, outcome' = [outcome EXCEPT ![r] = "dropped"], UNCHANGED event
      PROVE  IInv'
  <2>1. sent' = sent + 1 /\ UNCHANGED <<subs, pending, received, open>>
    BY <1>8 DEF Bus!Refuse
  <2>2. BusTypeOK' /\ Waiting' = Waiting
    BY <1>0, <2>1 DEF BusTypeOK, Waiting
  <2>3. TypeOK'
    BY <1>0, <1>1, <1>5, <1>6, <1>8, <2>1 DEF TypeOK
  <2>4. outcome'[r] = "dropped"
    BY <1>0, <1>8 DEF TypeOK
  <2>5. \A q \in Requests \ {r} : /\ answer'[q] = answer[q] /\ outcome'[q] = outcome[q]
                                  /\ event'[q] = event[q] /\ (q \in committed' <=> q \in committed)
    BY <1>0, <1>1, <1>8 DEF TypeOK
  <2>6. UNCHANGED <<mainVars, subs, received, open>> /\ Waiting \subseteq Waiting'
    BY <1>1, <2>1, <2>2
  <2>7. QED
    BY <1>1, <1>2, <1>3, <1>4, <2>2, <2>3, <2>4, <2>5, <2>6, RequestMoves
<1>9. QED
  BY <1>7, <1>8 DEF PublishInProcess

\* On a closed bus, which only requests that nobody waited for can meet.
LEMMA PanicInv ==
  ASSUME IInv, NEW r \in Requests, PublishPanics(r)
  PROVE  IInv'
<1>0. TypeOK /\ BusTypeOK /\ RequestInv /\ WiredInv /\ QueueInv /\ MainInv
  BY DEF IInv
<1>1. /\ kind = "inprocess" /\ ~open /\ main # "exited"
      /\ pc[r] = "publish" /\ pc' = [pc EXCEPT ![r] = "done"]
      /\ answer' = [answer EXCEPT ![r] = 500]
      /\ outcome' = [outcome EXCEPT ![r] = "panicked"]
      /\ UNCHANGED <<mainVars, committed, event, busVars>>
  BY DEF PublishPanics, Answered, Goes
<1>2. main \notin Startup /\ way # "graceful"
  BY <1>1, InFlight
<1>3. way \in {"forced", "serverErr"}
  BY <1>0, <1>1, <1>2 DEF MainInv, Serving, Closing, TypeOK
<1>4. /\ UNCHANGED <<main, way, budget, reach, db, redis, kind, routes, listening, signalled>>
      /\ UNCHANGED <<subs, pending, sent, received, open>>
  BY <1>1 DEF mainVars, busVars
<1>5. TypeOK' /\ BusTypeOK' /\ Waiting' = Waiting
  BY <1>0, <1>1, <1>4 DEF TypeOK, BusTypeOK, Waiting
<1>6. outcome'[r] = "panicked"
  BY <1>0, <1>1 DEF TypeOK
<1>7. \A q \in Requests \ {r} : /\ answer'[q] = answer[q] /\ outcome'[q] = outcome[q]
                                /\ event'[q] = event[q] /\ (q \in committed' <=> q \in committed)
  BY <1>0, <1>1 DEF TypeOK
<1>8. /\ pending' # <<>> => routes /\ kind = "inprocess"
      /\ BusDone => pending' = <<>>
  BY <1>0, <1>4 DEF WiredInv, QueueInv
<1>9. UNCHANGED <<mainVars, subs, received, open>> /\ Waiting \subseteq Waiting'
  BY <1>1, <1>4, <1>5
<1>10. QED
  BY <1>1, <1>2, <1>3, <1>5, <1>6, <1>7, <1>8, <1>9, RequestMoves

-----------------------------------------------------------------------------
LEMMA IInvStep == IInv /\ [Next]_vars => IInv'
<1> SUFFICES ASSUME IInv, [Next]_vars PROVE IInv'
  OBVIOUS
<1>1. CASE Boot
  BY <1>1, BootInv, SubscribeInv DEF Boot
<1>2. CASE Stop
  BY <1>2, EndInv, CloseBusInv, StoresInv DEF Stop
<1>3. CASE Signal \/ ServerErr \/ Outage
  BY <1>3, EndInv
<1>4. CASE Dispatch
  BY <1>4, DispatchInv
<1>5. ASSUME NEW r \in Requests, RequestStep(r) PROVE IInv'
  BY <1>5, PlainInv, QueryInv, PublishInv, PanicInv DEF RequestStep
<1>6. CASE UNCHANGED vars
  <2>1. /\ UNCHANGED <<main, way, budget, reach, db, redis, kind, routes, listening, signalled>>
        /\ UNCHANGED <<pc, committed, outcome, event, answer, subs, pending, sent, received, open>>
    BY <1>6 DEF vars, mainVars, reqVars, busVars
  <2>2. TypeOK' /\ BusTypeOK' /\ MainInv' /\ FlightInv'
    BY <2>1 DEF IInv, TypeOK, BusTypeOK, MainInv, FlightInv
  <2>3. RequestInv' /\ WiredInv' /\ QueueInv' /\ NoFalseFailure'
    BY <2>1 DEF IInv, RequestInv, WiredInv, QueueInv, Waiting, BusDone, NoFalseFailure
  <2>4. QED
    BY <2>2, <2>3 DEF IInv
<1>7. QED
  BY <1>1, <1>2, <1>3, <1>4, <1>5, <1>6 DEF Next, Exited

LEMMA Invariant == Spec => []IInv
BY InitIInv, IInvStep, PTL DEF Spec

\* Every variable keeps its type.
THEOREM TypeCorrect == Spec => []TypeOK
<1>1. IInv => TypeOK
  BY DEF IInv
<1>2. QED
  BY <1>1, Invariant, PTL

\* A row that is committed is answered 500 only if the database's answer was
\* lost, or if the bus was closed under a request that run had given up.
THEOREM NoFalseFailureCorrect == Spec => []NoFalseFailure
<1>1. IInv => NoFalseFailure
  BY DEF IInv
<1>2. QED
  BY <1>1, Invariant, PTL

\* When the stores are closed, the handlers are done with every event that the
\* in-process bus accepted.
THEOREM EventsBeforeStoresCorrect == Spec => []EventsBeforeStores
<1>1. IInv => EventsBeforeStores
  BY DEF IInv, QueueInv, BusDone, Waiting, EventsBeforeStores
<1>2. QED
  BY <1>1, Invariant, PTL

\* A graceful end leaves no request half-way, none that met a closed bus, and
\* no event without its handler.
THEOREM GracefulIsCleanCorrect == Spec => []GracefulIsClean
<1>1. IInv => GracefulIsClean
  BY DEF IInv, FlightInv, RequestInv, QueueInv, BusDone, Waiting, GracefulIsClean
<1>2. QED
  BY <1>1, Invariant, PTL
=============================================================================
