--------------------------- MODULE EventDelivery ---------------------------
(***************************************************************************)
(* What an in-memory implementation of events.EventBus promises to the     *)
(* code that publishes (bus.go): an accepted event is handed, in the order *)
(* of acceptance and exactly once, to every handler subscribed to its      *)
(* topic at the moment of delivery.  An event may be lost only at the      *)
(* door, when about Capacity events are already waiting, or because the    *)
(* bus has been closed.  How the bus stores, schedules and iterates is     *)
(* left out; InProcessBus implements this specification.                   *)
(***************************************************************************)
EXTENDS Naturals, Sequences

CONSTANTS Topics,        \* topics events are published on
          Handlers,      \* handler functions
          Capacity,      \* events the bus keeps before it may refuse one
          MaxPublishes,  \* bound on the number of Publish calls
          MaxSubs        \* bound on the subscriptions of one topic

Ids      == 1..MaxPublishes
Envelope == [id : Ids, topic : Topics]

VARIABLES subs,      \* [Topics -> Seq(Handlers)]: who is subscribed
          pending,   \* accepted events not delivered yet, oldest first
          sent,      \* number of Publish calls so far
          received,  \* [Ids -> Seq(Handlers)]: who was handed event i, in order
          open       \* FALSE once the bus is closed

vars == <<subs, pending, sent, received, open>>

Init == /\ subs = [t \in Topics |-> <<>>]
        /\ pending = <<>>
        /\ sent = 0
        /\ received = [i \in Ids |-> <<>>]
        /\ open = TRUE

Subscribe(t, h) ==
    /\ Len(subs[t]) < MaxSubs
    /\ subs' = [subs EXCEPT ![t] = Append(@, h)]
    /\ UNCHANGED <<pending, sent, received, open>>

\* One event may already be on its way to the handlers, hence <= Capacity.
Accept(t) ==
    /\ open
    /\ sent < MaxPublishes
    /\ Len(pending) <= Capacity
    /\ sent' = sent + 1
    /\ pending' = Append(pending, [id |-> sent + 1, topic |-> t])
    /\ UNCHANGED <<subs, received, open>>

Refuse ==
    /\ sent < MaxPublishes
    /\ open => Len(pending) >= Capacity
    /\ sent' = sent + 1
    /\ UNCHANGED <<subs, pending, received, open>>

Deliver ==
    /\ pending # <<>>
    /\ received' = [received EXCEPT ![Head(pending).id] = subs[Head(pending).topic]]
    /\ pending' = Tail(pending)
    /\ UNCHANGED <<subs, sent, open>>

Close ==
    /\ open
    /\ open' = FALSE
    /\ UNCHANGED <<subs, pending, sent, received>>

Next == \/ \E t \in Topics, h \in Handlers : Subscribe(t, h)
        \/ \E t \in Topics : Accept(t)
        \/ Refuse
        \/ Deliver
        \/ Close

SafeSpec == Init /\ [][Next]_vars
Spec     == SafeSpec /\ WF_vars(Deliver)
=============================================================================
