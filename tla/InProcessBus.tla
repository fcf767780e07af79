---------------------------- MODULE InProcessBus ----------------------------
(***************************************************************************)
(* internal/shared/events/inprocess.go: the event bus of a single-instance *)
(* deployment.  Request goroutines publish without blocking into a         *)
(* buffered channel; one goroutine (dispatch) receives from it and runs    *)
(* the topic's handlers one after the other; main's deferred Close closes  *)
(* the channel and waits for that goroutine to end.                        *)
(*                                                                         *)
(* Atomicity: a channel operation is one step, and so is the body of a     *)
(* critical section of b.mu (it touches nothing else).  Everything between *)
(* two such points of dispatch can interleave with the other goroutines.   *)
(* Payloads are left out: an event is the number of its Publish call.      *)
(***************************************************************************)
EXTENDS Naturals, Sequences

CONSTANTS Topics,        \* topics events are published on
          Handlers,      \* handler functions a caller may subscribe
          Capacity,      \* bufferSize of the channel
          MaxPublishes,  \* bound: Publish calls of a behaviour
          MaxSubs,       \* bound: subscriptions of one topic
          NoEnvelope     \* dispatch holds no envelope

ASSUME BusAssumption ==
    /\ Capacity \in Nat \ {0}
    /\ MaxPublishes \in Nat
    /\ MaxSubs \in Nat

Ids      == 1..MaxPublishes
Envelope == [id : Ids, topic : Topics]

ASSUME NoEnvelopeAssumption == NoEnvelope \notin Envelope

VARIABLES
    handlers,  \* b.handlers
    ch,        \* b.ch, the buffered channel, oldest envelope first
    closer,    \* the goroutine of Close: not called, blocked on b.done, returned
    dpc,       \* where dispatch is; at "exit" it has closed b.done
    env,       \* the loop variable env
    batch,     \* the local slice handlers read under RLock
    next,      \* index in batch of the handler to run next
    sent,      \* history: Publish calls so far
    outcome,   \* history: what each Publish call did with its event
    owed,      \* history: the topic's subscriptions when event i was queued
    ran        \* history: the handlers that ran for event i, in order

busVars  == <<handlers, ch, closer, dpc, env, batch, next>>
histVars == <<sent, outcome, owed, ran>>
vars     == <<busVars, histVars>>

Outcomes == {"none", "queued", "dropped", "panicked"}

TypeOK ==
    /\ handlers \in [Topics -> Seq(Handlers)]
    /\ ch \in Seq(Envelope)
    /\ Len(ch) <= Capacity
    /\ closer \in {"open", "waiting", "returned"}
    /\ dpc \in {"recv", "rlock", "run", "exit"}
    /\ env \in Envelope \cup {NoEnvelope}
    /\ dpc \in {"rlock", "run"} <=> env # NoEnvelope
    /\ batch \in Seq(Handlers)
    /\ next \in 1..(Len(batch) + 1)
    /\ sent \in 0..MaxPublishes
    /\ outcome \in [Ids -> Outcomes]
    /\ owed \in [Ids -> Seq(Handlers)]
    /\ ran \in [Ids -> Seq(Handlers)]

\* NewInProcessBus: empty handler map, empty channel, dispatch started.
Init ==
    /\ handlers = [t \in Topics |-> <<>>]
    /\ ch = <<>>
    /\ closer = "open"
    /\ dpc = "recv"
    /\ env = NoEnvelope
    /\ batch = <<>>
    /\ next = 1
    /\ sent = 0
    /\ outcome = [i \in Ids |-> "none"]
    /\ owed = [i \in Ids |-> <<>>]
    /\ ran = [i \in Ids |-> <<>>]

-----------------------------------------------------------------------------
(* Callers *)

\* Publish numbers its event and records what became of it.
Record(o) ==
    /\ sent < MaxPublishes
    /\ sent' = sent + 1
    /\ outcome' = [outcome EXCEPT ![sent + 1] = o]

\* The send case of the select: there is room in the buffer.
PublishQueued(t) ==
    /\ closer = "open"
    /\ Len(ch) < Capacity
    /\ Record("queued")
    /\ ch' = Append(ch, [id |-> sent + 1, topic |-> t])
    /\ owed' = [owed EXCEPT ![sent + 1] = handlers[t]]
    /\ UNCHANGED <<handlers, closer, dpc, env, batch, next, ran>>

\* The default case: the buffer is full, the event is dropped and the caller
\* still gets nil.
PublishDropped ==
    /\ closer = "open"
    /\ Len(ch) >= Capacity
    /\ Record("dropped")
    /\ UNCHANGED <<busVars, owed, ran>>

\* A send on the closed channel panics in the caller, full buffer or not.
PublishPanics ==
    /\ closer # "open"
    /\ Record("panicked")
    /\ UNCHANGED <<busVars, owed, ran>>

Subscribe(t, h) ==
    /\ Len(handlers[t]) < MaxSubs
    /\ handlers' = [handlers EXCEPT ![t] = Append(@, h)]
    /\ UNCHANGED <<ch, closer, dpc, env, batch, next, histVars>>

\* Close, first statement.  main calls Close once.
CloseChannel ==
    /\ closer = "open"
    /\ closer' = "waiting"
    /\ UNCHANGED <<handlers, ch, dpc, env, batch, next, histVars>>

\* Close, second statement: <-b.done.
CloseReturns ==
    /\ closer = "waiting"
    /\ dpc = "exit"
    /\ closer' = "returned"
    /\ UNCHANGED <<handlers, ch, dpc, env, batch, next, histVars>>

-----------------------------------------------------------------------------
(* The dispatch goroutine *)

\* Mutant: the newest envelope first.
Receive_Newest ==
    /\ dpc = "recv"
    /\ ch # <<>>
    /\ env' = ch[Len(ch)]
    /\ ch' = SubSeq(ch, 1, Len(ch) - 1)
    /\ dpc' = "rlock"
    /\ UNCHANGED <<handlers, closer, batch, next, histVars>>

\* range b.ch: a closed channel still yields what is buffered in it.
Receive ==
    /\ dpc = "recv"
    /\ ch # <<>>
    /\ env' = Head(ch)
    /\ ch' = Tail(ch)
    /\ dpc' = "rlock"
    /\ UNCHANGED <<handlers, closer, batch, next, histVars>>

\* Mutant: the handlers as they were when the event was published.
ReadHandlers_AtPublish ==
    /\ dpc = "rlock"
    /\ batch' = owed[env.id]
    /\ next' = 1
    /\ dpc' = "run"
    /\ UNCHANGED <<handlers, ch, closer, env, histVars>>

\* RLock; handlers := b.handlers[env.topic]; RUnlock.
ReadHandlers ==
    /\ dpc = "rlock"
    /\ batch' = handlers[env.topic]
    /\ next' = 1
    /\ dpc' = "run"
    /\ UNCHANGED <<handlers, ch, closer, env, histVars>>

\* One iteration of the inner loop; an error of the handler is only logged,
\* so whether it fails changes nothing.
RunHandler ==
    /\ dpc = "run"
    /\ next <= Len(batch)
    /\ ran' = [ran EXCEPT ![env.id] = Append(@, batch[next])]
    /\ next' = next + 1
    /\ UNCHANGED <<handlers, ch, closer, dpc, env, batch, sent, outcome, owed>>

\* Mutant: the loop breaks on the first handler error.
FinishEvent_Breaks ==
    /\ dpc = "run"
    /\ next > Len(batch) \/ next > 1
    /\ dpc' = "recv"
    /\ env' = NoEnvelope
    /\ batch' = <<>>
    /\ next' = 1
    /\ UNCHANGED <<handlers, ch, closer, histVars>>

\* The inner loop ends: back to range b.ch.
FinishEvent ==
    /\ dpc = "run"
    /\ next > Len(batch)
    /\ dpc' = "recv"
    /\ env' = NoEnvelope
    /\ batch' = <<>>
    /\ next' = 1
    /\ UNCHANGED <<handlers, ch, closer, histVars>>

\* Mutant: dispatch leaves as soon as the bus is closed.
DispatchExits_Early ==
    /\ dpc = "recv"
    /\ closer # "open"
    /\ dpc' = "exit"
    /\ UNCHANGED <<handlers, ch, closer, env, batch, next, histVars>>

\* Mutant: a polling loop that never notices the close.
DispatchExits_Polls ==
    /\ dpc = "recv"
    /\ closer # "open"
    /\ ch = <<>>
    /\ UNCHANGED vars

\* The channel is closed and empty: the range ends and b.done is closed.
DispatchExits ==
    /\ dpc = "recv"
    /\ closer # "open"
    /\ ch = <<>>
    /\ dpc' = "exit"
    /\ UNCHANGED <<handlers, ch, closer, env, batch, next, histVars>>

Dispatch == Receive \/ ReadHandlers \/ RunHandler \/ FinishEvent \/ DispatchExits

\* The process has ended: nothing is left to happen.
Stopped == closer = "returned" /\ UNCHANGED vars

Next ==
    \/ \E t \in Topics : PublishQueued(t)
    \/ PublishDropped
    \/ PublishPanics
    \/ \E t \in Topics, h \in Handlers : Subscribe(t, h)
    \/ CloseChannel
    \/ CloseReturns
    \/ Dispatch
    \/ Stopped

\* The runtime schedules the dispatch goroutine and wakes the one blocked in
\* Close; nobody is obliged to publish, to subscribe or to close.
Fairness == WF_vars(Dispatch) /\ WF_vars(CloseReturns)

SafeSpec == Init /\ [][Next]_vars
Spec     == SafeSpec /\ Fairness

-----------------------------------------------------------------------------
(* Properties *)

\* Envelopes accepted but not finished: the one in dispatch, then the buffer.
InFlight == (IF env = NoEnvelope THEN <<>> ELSE <<env>>) \o ch

InFlightIds == {InFlight[k].id : k \in 1..Len(InFlight)}

\* Dispatch has taken event i through all the handlers it is going to.
Finished(i) == outcome[i] = "queued" /\ i \notin InFlightIds

\* s is an initial part of r.
IsInitialPart(s, r) ==
    /\ Len(s) <= Len(r)
    /\ \A k \in 1..Len(s) : s[k] = r[k]

\* Events leave in the order Publish accepted them, whatever goroutine
\* publishes: dispatch and the buffer hold increasing numbers, none of which
\* any later event has overtaken.
FIFO ==
    /\ \A k, l \in 1..Len(InFlight) : k < l => InFlight[k].id < InFlight[l].id
    /\ \A i \in InFlightIds, j \in Ids : j > i => ran[j] = <<>>

\* A finished event ran every handler that was subscribed to its topic when
\* Publish accepted it, in subscription order and once each: a Subscribe that
\* races dispatch can only add handlers at the end.
NoSubscriberMissed ==
    \A i \in Ids : Finished(i) => IsInitialPart(owed[i], ran[i])

\* An event Publish dropped (although it returned nil) or panicked on never
\* reaches a handler.
LostEventsStayLost ==
    \A i \in Ids : outcome[i] # "queued" => ran[i] = <<>>

\* When Close returns, everything accepted before it has been handled: no
\* event is left in the buffer or half-way through its handlers.
CloseDrains ==
    closer = "returned" => \A i \in Ids : outcome[i] = "queued" => Finished(i)

\* No handler runs, and no event is accepted, once Close has returned.
QuietAfterClose ==
    [][closer = "returned" => UNCHANGED <<ran, ch>>]_vars

\* Every accepted event is eventually taken through all its handlers, closed
\* bus or not.
QueuedIsHandled ==
    \A i \in Ids :
        outcome[i] = "queued" ~> (Finished(i) /\ IsInitialPart(owed[i], ran[i]))

\* Close never hangs: dispatch does not wait for anyone but its handlers.
CloseTerminates == closer = "waiting" ~> closer = "returned"

\* The bus keeps the promise of EventDelivery.  An event counts as delivered
\* when dispatch reads the handler map, for that read fixes who gets it.
Undelivered == (IF dpc = "rlock" THEN <<env>> ELSE <<>>) \o ch

Received == IF dpc = "run" THEN [ran EXCEPT ![env.id] = batch] ELSE ran

Delivery == INSTANCE EventDelivery WITH
    subs     <- handlers,
    pending  <- Undelivered,
    received <- Received,
    open     <- closer = "open"

DeliverySpec == Delivery!Spec
=============================================================================
