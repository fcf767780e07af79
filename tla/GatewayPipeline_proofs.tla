----------------------- MODULE GatewayPipeline_proofs -----------------------
(***************************************************************************)
(* Theorems about EndpointManagement and GatewayPipeline: types, the       *)
(* uniqueness of routes, the truth of events, and what the gateway's       *)
(* answers and the requests that reach the backend have to do with the     *)
(* tables that the use cases change meanwhile.                             *)
(***************************************************************************)
EXTENDS GatewayPipeline, TLAPS

(***************************************************************************)
(* The inductive invariant: the tables and the calls.                      *)
(***************************************************************************)

\* No two rows have the same id.
UniqueId == \A row, other \in endpoints : row.id = other.id => row = other

\* The row that DefineEndpoint is going to insert has an id that no row has.
FreshInv ==
    \A c \in Calls : call[c].at \in {"new", "insert"} =>
        \A row \in endpoints : row.id # c

\* The row that an UPDATE is going to write over has the same route.
UpdateInv ==
    \A c \in Calls : call[c].at = "update" =>
        \E row \in endpoints : /\ row.id = call[c].row.id
                               /\ row.route = call[c].row.route

\* What an event tells of has happened.
Happened(event) ==
    \E row \in past : /\ row.id = event.endpoint
                      /\ event.kind \in Statuses => row.status = event.kind

\* So it is before the event is published, and afterwards.
EventInv ==
    /\ \A c \in Calls : call[c].at = "publish" => Happened(call[c].event)
    /\ \A event \in announced : Happened(event)

MgmtInv == /\ MgmtTypeOK
           /\ UniqueId
           /\ UniqueRoute
           /\ FreshInv
           /\ UpdateInv
           /\ EventInv

(***************************************************************************)
(* The inductive invariant: a request.                                     *)
(***************************************************************************)

\* What the tables say of its route is among what a request has met.
Observed(r) ==
    at[r] \in InFlight =>
        /\ StatusesOf(route[r], endpoints) \subseteq met[r]
        /\ RulesOf(route[r], endpoints, policies) \subseteq rules[r]

\* A request has met nothing, was not counted or served, and has no policy
\* until it gets there.
Before(r) ==
    /\ at[r] = "new" => met[r] = {} /\ r \notin counted /\ r \notin served
    /\ at[r] \in {"new", "lookup", "policy"} => rule[r] = NoRule

\* A request that has been looked up has an endpoint, of its route, which was
\* active.
HasEndpoint(r) ==
    at[r] \in InFlight \ {"lookup"} =>
        /\ "active" \in met[r]
        /\ \E row \in endpoints : row.id = ep[r] /\ row.route = route[r]

\* The policy it then works with was its endpoint's, or was not read.
HasRule(r) ==
    at[r] \in {"permission", "limit", "intercept", "backend"} =>
        rule[r] \in rules[r] \/ (rule[r] = NoRule /\ "policy" \in failed[r])

\* What that policy asks for has been checked when the request is past it.
Checked(r) ==
    /\ at[r] \in {"limit", "intercept", "backend"} =>
         (NeedsPerm(rule[r]) => <<claim[r], rule[r].perm>> \in Granted)
    /\ at[r] \in {"intercept", "backend"} => (NeedsLimit(rule[r]) => r \in counted)
    /\ at[r] = "backend" => valid[r]

\* What the properties say of a request.
ToldTrue(r) ==
    /\ r \in served => "active" \in met[r]
    /\ at[r] = "gone" => "retired" \in met[r]
    /\ (at[r] = "next" /\ met[r] # {}) => "absent" \in met[r] \/ "lookup" \in failed[r]

Enforced(r) ==
    r \in served =>
        /\ valid[r]
        /\ "policy" \in failed[r] \/ \E ru \in rules[r] : Satisfies(r, ru)

CountedPermitted(r) ==
    r \in counted =>
        \E ru \in rules[r] :
            NeedsLimit(ru) /\ (NeedsPerm(ru) => <<claim[r], ru.perm>> \in Granted)

RequestInv(r) == /\ Observed(r)
                 /\ Before(r)
                 /\ HasEndpoint(r)
                 /\ HasRule(r)
                 /\ Checked(r)
                 /\ ToldTrue(r)
                 /\ Enforced(r)
                 /\ CountedPermitted(r)

IInv == /\ TypeOK
        /\ MgmtInv
        /\ \A r \in Requests : RequestInv(r)

-----------------------------------------------------------------------------
(* Type correctness *)

\* What the program counter of a call tells of its other fields.
LEMMA CallType ==
  ASSUME MgmtTypeOK, NEW c \in Calls
  PROVE  /\ call[c].at \in {"new", "failed", "done", "insert", "update", "write", "publish"}
         /\ call[c].at = "insert" => call[c].route \in Routes
         /\ call[c].at = "update" => call[c].row \in Endpoints
         /\ call[c].at = "write" => /\ call[c].endpoint \in Calls
                                    /\ call[c].found \in Policies \cup {NoRow}
                                    /\ call[c].rule \in Rules
         /\ call[c].at = "publish" => call[c].event \in Events
         /\ call[c] = New => call[c].at = "new"
<1>1. call[c] \in {New, Failed, Done} \cup Inserting \cup Updating \cup Writing \cup Publishing
  BY DEF MgmtTypeOK
<1>2. CASE call[c] \in {New, Failed, Done}
  BY <1>2 DEF New, Failed, Done
<1>3. CASE call[c] \in Inserting
  BY <1>3 DEF Inserting, New
<1>4. CASE call[c] \in Updating
  BY <1>4 DEF Updating, New
<1>5. CASE call[c] \in Writing
  BY <1>5 DEF Writing, New
<1>6. CASE call[c] \in Publishing
  BY <1>6 DEF Publishing, New
<1>7. QED
  BY <1>1, <1>2, <1>3, <1>4, <1>5, <1>6

LEMMA MgmtInitTypeOK == MgmtInit => MgmtTypeOK
BY DEF MgmtInit, MgmtTypeOK

\* A call may get to any of these places.
LEMMA MoveType ==
  ASSUME MgmtTypeOK, NEW c \in Calls, NEW next,
         next \in {New, Failed, Done} \cup Inserting \cup Updating \cup Writing \cup Publishing,
         call' = [call EXCEPT ![c] = next]
  PROVE  call' \in [Calls -> {New, Failed, Done} \cup Inserting \cup Updating
                              \cup Writing \cup Publishing]
BY DEF MgmtTypeOK

LEMMA PublishType ==
  ASSUME NEW kind \in {"created", "active", "retired"}, NEW e \in Calls
  PROVE  /\ Publish(kind, e) \in Publishing
         /\ Publish(kind, e).at = "publish"
         /\ Publish(kind, e).event.kind = kind
         /\ Publish(kind, e).event.endpoint = e
BY DEF Publish, Publishing, Events

\* The row that DefineInsert inserts, and the row with another status.
LEMMA RowType ==
  /\ \A c \in Calls, rt \in Routes :
       [id |-> c, route |-> rt, status |-> "active"] \in Endpoints
  /\ \A row \in Endpoints, status \in Statuses :
       /\ [row EXCEPT !.status = status] \in Endpoints
       /\ [row EXCEPT !.status = status].id = row.id
       /\ [row EXCEPT !.status = status].route = row.route
BY DEF Endpoints, Statuses

LEMMA MgmtTypeStep ==
  ASSUME MgmtTypeOK, NEW c \in Calls, CallStep(c)
  PROVE  MgmtTypeOK'
<1> DEFINE Places == {New, Failed, Done} \cup Inserting \cup Updating \cup Writing \cup Publishing
<1>0. Failed \in Places /\ Done \in Places
  OBVIOUS
<1>1. ASSUME NEW rt \in Routes, DefineLookup(c, rt) PROVE MgmtTypeOK'
  <2>1. [at |-> "insert", route |-> rt] \in Places
    BY DEF Inserting
  <2> HIDE DEF Places
  <2>2. call' \in [Calls -> Places]
    BY <1>0, <1>1, <2>1 DEF DefineLookup, MgmtTypeOK, Places
  <2>3. QED
    BY <1>1, <2>2 DEF DefineLookup, MgmtTypeOK, Places, tables
<1>2. ASSUME DefineInsert(c) PROVE MgmtTypeOK'
  <2> DEFINE row == [id |-> c, route |-> call[c].route, status |-> "active"]
  <2>1. row \in Endpoints
    BY <1>2, CallType, RowType DEF DefineInsert
  <2>2. Publish("created", c) \in Places
    BY PublishType
  <2> HIDE DEF Places, row
  <2>3. call' \in [Calls -> Places]
    BY <1>0, <1>2, <2>2 DEF DefineInsert, Executed, MgmtTypeOK, Places, row
  <2>4. endpoints' \in {endpoints, endpoints \cup {row}} /\ past' \in {past, past \cup {row}}
    BY <1>2 DEF DefineInsert, row
  <2>5. QED
    BY <1>2, <2>1, <2>3, <2>4 DEF DefineInsert, MgmtTypeOK, Places
<1>3. ASSUME NEW e \in Calls, NEW status \in Statuses, StatusLookup(c, e, status)
      PROVE  MgmtTypeOK'
  <2>1. \A row \in endpoints : [at |-> "update", row |-> [row EXCEPT !.status = status]] \in Places
    BY RowType DEF MgmtTypeOK, Updating
  <2> HIDE DEF Places
  <2>2. call' \in [Calls -> Places]
    <3>1. PICK next \in Places : call' = [call EXCEPT ![c] = next]
      BY <1>0, <1>3, <2>1 DEF StatusLookup
    <3>2. QED
      BY <3>1, MoveType DEF Places
  <2>3. QED
    BY <1>3, <2>2 DEF StatusLookup, MgmtTypeOK, Places, tables
<1>4. ASSUME StatusUpdate(c) PROVE MgmtTypeOK'
  <2> DEFINE row == call[c].row
  <2>1. row \in Endpoints
    BY <1>4, CallType DEF StatusUpdate
  <2>2. Publish(row.status, row.id) \in Places
    BY <2>1, PublishType DEF Endpoints, Statuses
  <2> HIDE DEF Places, row
  <2>3. call' \in [Calls -> Places]
    BY <1>0, <1>4, <2>2 DEF StatusUpdate, Executed, MgmtTypeOK, Places, row
  <2>4. endpoints' \subseteq endpoints \cup {row} /\ past' = past \cup {row}
    BY <1>4 DEF StatusUpdate, row
  <2>5. QED
    BY <1>4, <2>1, <2>3, <2>4 DEF StatusUpdate, MgmtTypeOK, Places
<1>5. ASSUME NEW e \in Calls, NEW ru \in Rules, PolicyLookup(c, e, ru) PROVE MgmtTypeOK'
  <2>1. \A found \in policies \cup {NoRow} :
          [at |-> "write", endpoint |-> e, found |-> found, rule |-> ru] \in Places
    BY DEF MgmtTypeOK, Writing
  <2> HIDE DEF Places
  <2>2. call' \in [Calls -> Places]
    <3>1. PICK next \in Places : call' = [call EXCEPT ![c] = next]
      BY <1>5, <2>1 DEF PolicyLookup
    <3>2. QED
      BY <3>1, MoveType DEF Places
  <2>3. QED
    BY <1>5, <2>2 DEF PolicyLookup, MgmtTypeOK, Places, tables
<1>6. ASSUME PolicyWrite(c) PROVE MgmtTypeOK'
  <2> DEFINE w == call[c]
             written == IF w.found = NoRow
                        THEN [id |-> c, endpoint |-> w.endpoint, rule |-> w.rule]
                        ELSE [w.found EXCEPT !.rule = w.rule]
  <2>1. w.endpoint \in Calls /\ w.rule \in Rules /\ w.found \in Policies \cup {NoRow}
    BY <1>6, CallType DEF PolicyWrite
  <2>2. written \in Policies
    BY <2>1 DEF Policies
  <2>3. /\ \/ policies' = {p \in policies : p.id # written.id} \cup {written}
           \/ policies' = policies
        /\ latest' \in {latest, [latest EXCEPT ![w.endpoint] = w.rule]}
    BY <1>6 DEF PolicyWrite
  <2> HIDE DEF Places, w, written
  <2>4. call' \in [Calls -> Places]
    BY <1>0, <1>6 DEF PolicyWrite, Executed, MgmtTypeOK, Places
  <2>5. policies' \subseteq Policies
    BY <2>2, <2>3 DEF MgmtTypeOK
  <2>6. latest' \in [Calls -> Rules \cup {NoRow}]
    BY <2>1, <2>3 DEF MgmtTypeOK
  <2>7. QED
    BY <1>6, <2>4, <2>5, <2>6 DEF PolicyWrite, MgmtTypeOK, Places
<1>7. ASSUME CallFails(c) PROVE MgmtTypeOK'
  <2> HIDE DEF Places
  <2>1. call' \in [Calls -> Places]
    BY <1>0, <1>7 DEF CallFails, MgmtTypeOK, Places
  <2>2. QED
    BY <1>7, <2>1 DEF CallFails, MgmtTypeOK, Places, tables
<1>8. ASSUME Announce(c) PROVE MgmtTypeOK'
  <2>1. call[c].event \in Events
    BY <1>8, CallType DEF Announce
  <2> HIDE DEF Places
  <2>2. call' \in [Calls -> Places]
    BY <1>0, <1>8 DEF Announce, MgmtTypeOK, Places
  <2>3. QED
    BY <1>8, <2>1, <2>2 DEF Announce, MgmtTypeOK, Places, tables
<1>9. QED
  BY <1>1, <1>2, <1>3, <1>4, <1>5, <1>6, <1>7, <1>8 DEF CallStep
-----------------------------------------------------------------------------
(* The tables and the calls: the invariant is inductive *)

LEMMA MgmtInitInv == MgmtInit => MgmtInv
<1> SUFFICES ASSUME MgmtInit PROVE MgmtInv
  OBVIOUS
<1>1. endpoints = {} /\ announced = {} /\ \A c \in Calls : call[c].at = "new"
  BY DEF MgmtInit, New
<1>2. QED
  BY <1>1, MgmtInitTypeOK DEF MgmtInv, UniqueId, UniqueRoute, FreshInv, UpdateInv, EventInv

\* A step that only moves a call on: what must hold of where it gets to.
LEMMA MoveOn ==
  ASSUME MgmtInv, MgmtTypeOK', NEW c \in Calls, NEW next,
         UNCHANGED <<endpoints, past>>,
         call' = [call EXCEPT ![c] = next],
         \A event \in announced' : event \in announced \/ Happened(event),
         next.at \in {"new", "insert"} => \A row \in endpoints : row.id # c,
         next.at = "update" =>
           \E row \in endpoints : row.id = next.row.id /\ row.route = next.row.route,
         next.at = "publish" => Happened(next.event)
  PROVE  MgmtInv'
<1>1. call'[c] = next /\ \A d \in Calls \ {c} : call'[d] = call[d]
  BY DEF MgmtInv, MgmtTypeOK
<1>2. UniqueId' /\ UniqueRoute'
  BY DEF MgmtInv, UniqueId, UniqueRoute
<1>3. FreshInv' /\ UpdateInv'
  BY <1>1 DEF MgmtInv, FreshInv, UpdateInv
<1>4. \A event : Happened(event) => Happened(event)'
  BY DEF Happened
<1>5. EventInv'
  BY <1>1, <1>4 DEF MgmtInv, EventInv
<1>6. QED
  BY <1>2, <1>3, <1>5 DEF MgmtInv

LEMMA EndInv ==
  ASSUME MgmtInv, MgmtTypeOK', NEW c \in Calls, UNCHANGED <<endpoints, past, announced>>,
         call' = [call EXCEPT ![c] = Failed] \/ call' = [call EXCEPT ![c] = Done]
  PROVE  MgmtInv'
<1>1. Failed.at = "failed" /\ Done.at = "done"
  BY DEF Failed, Done
<1>2. CASE call' = [call EXCEPT ![c] = Failed]
  BY <1>1, <1>2, MoveOn
<1>3. CASE call' = [call EXCEPT ![c] = Done]
  BY <1>1, <1>3, MoveOn
<1>4. QED
  BY <1>2, <1>3

\* A row is written, in place of the one with its id if there is one, and its
\* call goes on to publish an event about it or fails.
LEMMA WriteInv ==
  ASSUME MgmtInv, MgmtTypeOK', NEW c \in Calls, NEW row \in Endpoints, NEW event,
         endpoints' = {other \in endpoints : other.id # row.id} \cup {row},
         past' = past \cup {row},
         announced' = announced,
         \A other \in endpoints : other.route = row.route => other.id = row.id,
         \A other \in endpoints : other.id = row.id => other.route = row.route,
         row.id = c \/ \E other \in endpoints : other.id = row.id,
         event.endpoint = row.id,
         event.kind \in Statuses => row.status = event.kind,
         \/ call' = [call EXCEPT ![c] = [at |-> "publish", event |-> event]]
         \/ call' = [call EXCEPT ![c] = Failed]
  PROVE  MgmtInv'
<1>1. /\ \A d \in Calls \ {c} : call'[d] = call[d]
      /\ call'[c].at \in {"publish", "failed"}
      /\ call'[c].at = "publish" => call'[c].event = event
  BY DEF MgmtInv, MgmtTypeOK, Failed
<1>2. UniqueId'
  BY DEF MgmtInv, UniqueId
<1>3. UniqueRoute'
  BY DEF MgmtInv, UniqueRoute
<1>4. FreshInv'
  <2>1. \A d \in Calls \ {c} : call[d].at \in {"new", "insert"} => row.id # d
    BY DEF MgmtInv, FreshInv
  <2>2. QED
    BY <1>1, <2>1 DEF MgmtInv, FreshInv
<1>5. UpdateInv'
  <2>1. \A other \in endpoints : \E new \in endpoints' :
          new.id = other.id /\ new.route = other.route
    <3> SUFFICES ASSUME NEW other \in endpoints
                 PROVE  \E new \in endpoints' : new.id = other.id /\ new.route = other.route
      OBVIOUS
    <3>1. CASE other.id # row.id
      BY <3>1
    <3>2. CASE other.id = row.id
      BY <3>2
    <3>3. QED
      BY <3>1, <3>2
  <2>2. QED
    BY <1>1, <2>1 DEF MgmtInv, UpdateInv
<1>6. EventInv'
  <2>1. \A e : Happened(e) => Happened(e)'
    BY DEF Happened
  <2>2. Happened(event)'
    BY DEF Happened
  <2>3. QED
    BY <1>1, <2>1, <2>2 DEF MgmtInv, EventInv
<1>7. QED
  BY <1>2, <1>3, <1>4, <1>5, <1>6 DEF MgmtInv
LEMMA MgmtInvStep ==
  ASSUME MgmtInv, NEW c \in Calls, CallStep(c)
  PROVE  MgmtInv'
<1>0. MgmtTypeOK' /\ MgmtTypeOK
  BY MgmtTypeStep DEF MgmtInv
<1>1. ASSUME NEW rt \in Routes, DefineLookup(c, rt) PROVE MgmtInv'
  <2>1. CASE call' = [call EXCEPT ![c] = Failed]
    BY <1>0, <1>1, <2>1, EndInv DEF DefineLookup, tables
  <2>2. CASE call' = [call EXCEPT ![c] = [at |-> "insert", route |-> rt]]
    <3>1. \A row \in endpoints : row.id # c
      BY <1>0, <1>1, CallType DEF DefineLookup, MgmtInv, FreshInv
    <3>2. UNCHANGED <<endpoints, past, announced>>
      BY <1>1 DEF DefineLookup, tables
    <3>3. QED
      BY <1>0, <2>2, <3>1, <3>2, MoveOn
  <2>3. QED
    BY <1>1, <2>1, <2>2 DEF DefineLookup
<1>2. ASSUME DefineInsert(c) PROVE MgmtInv'
  <2> DEFINE row == [id |-> c, route |-> call[c].route, status |-> "active"]
  <2>1. row \in Endpoints
    BY <1>0, <1>2, CallType, RowType DEF DefineInsert
  <2>2. CASE \A other \in endpoints : other.route # row.route
    <3>1. \A other \in endpoints : other.id # c
      BY <1>2 DEF DefineInsert, MgmtInv, FreshInv
    <3>2. row.id = c /\ row.status = "active" /\ row.route = call[c].route
      OBVIOUS
    <3>3. /\ endpoints' = endpoints \cup {row}
          /\ past' = past \cup {row}
          /\ Executed(c, Publish("created", c))
          /\ announced' = announced
      BY <1>2, <2>2 DEF DefineInsert
    <3> HIDE DEF row
    <3>4. endpoints' = {other \in endpoints : other.id # row.id} \cup {row}
      BY <3>1, <3>2, <3>3
    <3> DEFINE event == [kind |-> "created", endpoint |-> c]
    <3>5. event.endpoint = c /\ event.kind = "created"
      OBVIOUS
    <3>6. \/ call' = [call EXCEPT ![c] = [at |-> "publish", event |-> event]]
          \/ call' = [call EXCEPT ![c] = Failed]
      BY <3>3 DEF Executed, Publish
    <3> HIDE DEF event
    <3>7. QED
      BY <1>0, <2>1, <2>2, <3>1, <3>2, <3>3, <3>4, <3>5, <3>6, WriteInv DEF Statuses
  <2>3. CASE ~ \A other \in endpoints : other.route # row.route
    <3>1. call' = [call EXCEPT ![c] = Failed] /\ UNCHANGED <<endpoints, past, announced>>
      BY <1>2, <2>3 DEF DefineInsert
    <3>2. QED
      BY <1>0, <3>1, EndInv
  <2>4. QED
    BY <2>2, <2>3
<1>3. ASSUME NEW e \in Calls, NEW status \in Statuses, StatusLookup(c, e, status)
      PROVE  MgmtInv'
  <2>1. CASE call' = [call EXCEPT ![c] = Failed]
    BY <1>0, <1>3, <2>1, EndInv DEF StatusLookup, tables
  <2>2. ASSUME NEW row \in endpoints,
               call' = [call EXCEPT ![c] = [at |-> "update", row |-> [row EXCEPT !.status = status]]]
        PROVE  MgmtInv'
    <3> DEFINE new == [row EXCEPT !.status = status]
    <3>1. new.id = row.id /\ new.route = row.route
      BY <1>0, RowType DEF MgmtTypeOK
    <3> HIDE DEF new
    <3>2. call' = [call EXCEPT ![c] = [at |-> "update", row |-> new]]
      BY <2>2 DEF new
    <3>3. UNCHANGED <<endpoints, past, announced>>
      BY <1>3 DEF StatusLookup, tables
    <3>4. QED
      BY <1>0, <3>1, <3>2, <3>3, MoveOn
  <2>3. QED
    BY <1>3, <2>1, <2>2 DEF StatusLookup
<1>4. ASSUME StatusUpdate(c) PROVE MgmtInv'
  <2> DEFINE row == call[c].row
             event == [kind |-> row.status, endpoint |-> row.id]
  <2>1. row \in Endpoints
    BY <1>0, <1>4, CallType DEF StatusUpdate
  <2>2. PICK old \in endpoints : old.id = row.id /\ old.route = row.route
    BY <1>4 DEF StatusUpdate, MgmtInv, UpdateInv
  <2>3. \A other \in endpoints : other.route = row.route <=> other.id = row.id
    BY <2>2 DEF MgmtInv, UniqueRoute, UniqueId
  <2>4. /\ endpoints' = {other \in endpoints : other.id # row.id} \cup {row}
        /\ past' = past \cup {row}
        /\ announced' = announced
    BY <1>4 DEF StatusUpdate
  <2>5. event.endpoint = row.id /\ event.kind = row.status
    OBVIOUS
  <2>6. \/ call' = [call EXCEPT ![c] = [at |-> "publish", event |-> event]]
        \/ call' = [call EXCEPT ![c] = Failed]
    BY <1>4 DEF StatusUpdate, Executed, Publish
  <2> HIDE DEF row, event
  <2>7. QED
    BY <1>0, <2>1, <2>2, <2>3, <2>4, <2>5, <2>6, WriteInv
<1>5. ASSUME NEW e \in Calls, NEW ru \in Rules, PolicyLookup(c, e, ru) PROVE MgmtInv'
  <2>1. PICK found : call' = [call EXCEPT ![c] = [at |-> "write", endpoint |-> e,
                                                  found |-> found, rule |-> ru]]
    BY <1>5 DEF PolicyLookup
  <2>2. UNCHANGED <<endpoints, past, announced>>
    BY <1>5 DEF PolicyLookup, tables
  <2>3. QED
    BY <1>0, <2>1, <2>2, MoveOn
<1>6. ASSUME PolicyWrite(c) PROVE MgmtInv'
  <2>1. call' = [call EXCEPT ![c] = Failed] \/ call' = [call EXCEPT ![c] = Done]
    BY <1>6 DEF PolicyWrite, Executed
  <2>2. QED
    BY <1>0, <1>6, <2>1, EndInv DEF PolicyWrite
<1>7. ASSUME CallFails(c) PROVE MgmtInv'
  BY <1>0, <1>7, EndInv DEF CallFails, tables
<1>8. ASSUME Announce(c) PROVE MgmtInv'
  <2>1. Happened(call[c].event)
    BY <1>8 DEF Announce, MgmtInv, EventInv
  <2>2. Done.at = "done"
    BY DEF Done
  <2>3. UNCHANGED <<endpoints, past>> /\ call' = [call EXCEPT ![c] = Done]
    BY <1>8 DEF Announce, tables
  <2>4. \A event \in announced' : event \in announced \/ Happened(event)
    BY <1>8, <2>1 DEF Announce
  <2>5. QED
    BY <1>0, <2>2, <2>3, <2>4, MoveOn
<1>9. QED
  BY <1>1, <1>2, <1>3, <1>4, <1>5, <1>6, <1>7, <1>8 DEF CallStep

LEMMA MgmtInvNext == MgmtInv /\ [MgmtNext]_mgmtVars => MgmtInv'
<1> SUFFICES ASSUME MgmtInv, [MgmtNext]_mgmtVars PROVE MgmtInv'
  OBVIOUS
<1>1. CASE MgmtNext
  BY <1>1, MgmtInvStep DEF MgmtNext
<1>2. CASE UNCHANGED mgmtVars
  BY <1>2 DEF mgmtVars, tables, MgmtInv, MgmtTypeOK, UniqueId, UniqueRoute, FreshInv,
              UpdateInv, EventInv, Happened
<1>3. QED
  BY <1>1, <1>2
\* However the definitions of endpoints race, fail and are repeated, routes are
\* unique: the use cases alone.
THEOREM ManagementUniqueRoute == MgmtSpec => []UniqueRoute
<1>1. MgmtInv => UniqueRoute
  BY DEF MgmtInv
<1>2. QED
  BY <1>1, MgmtInitInv, MgmtInvNext, PTL DEF MgmtSpec

\* In the gateway the use cases behave as they do alone: requests only read
\* what they write.
THEOREM GatewayImplementsManagement == Spec => MgmtSpec
<1>1. Init => MgmtInit
  BY DEF Init
<1>2. [Next]_vars => [MgmtNext]_mgmtVars
  <2> SUFFICES ASSUME [Next]_vars PROVE [MgmtNext]_mgmtVars
    OBVIOUS
  <2>1. CASE Manage
    BY <2>1 DEF Manage
  <2>2. ASSUME NEW r \in Requests, RequestStep(r) PROVE UNCHANGED mgmtVars
    BY <2>2 DEF RequestStep, JWTAuthFails, TenantResolverFails, Enter, Lookup, ReadPolicy,
                CheckPermission, Limit, Intercept, Backend, Untouched
  <2>3. CASE Quiet \/ UNCHANGED vars
    BY <2>3 DEF Quiet, vars
  <2>4. QED
    BY <2>1, <2>2, <2>3 DEF Next
<1>3. QED
  BY <1>1, <1>2, PTL DEF Spec, MgmtSpec

\* However the definitions race, the gateway's lookup is unambiguous.
THEOREM UniqueRouteCorrect == Spec => []UniqueRoute
BY GatewayImplementsManagement, ManagementUniqueRoute, PTL

\* Every event, published by a call of whatever fate, tells the truth.
THEOREM NoPhantomEventsCorrect == Spec => []NoPhantomEvents
<1>1. MgmtInv => NoPhantomEvents
  BY DEF MgmtInv, EventInv, Happened, NoPhantomEvents
<1>2. MgmtSpec => []NoPhantomEvents
  BY <1>1, MgmtInitInv, MgmtInvNext, PTL DEF MgmtSpec
<1>3. QED
  BY <1>2, GatewayImplementsManagement, PTL

-----------------------------------------------------------------------------
(* Type correctness of the requests *)

LEMMA FoundType ==
  ASSUME MgmtTypeOK, NEW rt
  PROVE  /\ StatusesOf(rt, endpoints) \subseteq Statuses \cup {"absent"}
         /\ RulesOf(rt, endpoints, policies) \subseteq Rules \cup {NoRule}
<1>1. \A row \in endpoints : row.status \in Statuses
  BY DEF MgmtTypeOK, Endpoints
<1>2. \A p \in policies : p.rule \in Rules
  BY DEF MgmtTypeOK, Policies
<1>3. QED
  BY <1>1, <1>2 DEF StatusesOf, RulesOf

LEMMA InitTypeOK == Init => TypeOK
<1> SUFFICES ASSUME Init PROVE TypeOK
  OBVIOUS
<1>1. MgmtTypeOK
  BY MgmtInitTypeOK DEF Init
<1>2. QED
  BY <1>1 DEF Init, TypeOK

\* Where ReadPolicy and CheckPermission lead.
LEMMA AfterType ==
  ASSUME NEW ru
  PROVE  /\ AfterPermission(ru) \in {"limit", "intercept"}
         /\ AfterPolicy(ru) \in {"permission", "limit", "intercept"}
         /\ AfterPermission(ru) = "limit" <=> NeedsLimit(ru)
         /\ AfterPolicy(ru) = "permission" <=> NeedsPerm(ru)
         /\ AfterPolicy(ru) = "limit" => NeedsLimit(ru)
         /\ AfterPolicy(ru) = "intercept" => ~ NeedsLimit(ru)
BY DEF AfterPermission, AfterPolicy

\* A step of one request, which gets to a place of another kind or there with
\* a policy that asks for it.
LEMMA RequestTypeStep ==
  ASSUME TypeOK, NEW r \in Requests, RequestStep(r)
  PROVE  TypeOK'
<1>0. MgmtTypeOK'
  BY DEF RequestStep, JWTAuthFails, TenantResolverFails, Enter, Lookup, ReadPolicy,
         CheckPermission, Limit, Intercept, Backend, Untouched, TypeOK, mgmtVars, tables, MgmtTypeOK
<1> USE <1>0
<1>1. CASE JWTAuthFails(r) \/ TenantResolverFails(r)
  BY <1>1 DEF JWTAuthFails, TenantResolverFails, GoTo, Untouched, obsVars, TypeOK, Answers
<1>2. CASE Enter(r)
  <2>1. /\ StatusesOf(route[r], endpoints) \subseteq Statuses \cup {"absent"}
        /\ RulesOf(route[r], endpoints, policies) \subseteq Rules \cup {NoRule}
    BY FoundType DEF TypeOK
  <2>2. QED
    BY <1>2, <2>1 DEF Enter, GoTo, Untouched, obsVars, TypeOK, Answers, InFlight
<1>3. CASE Lookup(r)
  <2>1. \A row \in endpoints : row.id \in Calls
    BY DEF TypeOK, MgmtTypeOK, Endpoints
  <2>2. QED
    BY <1>3, <2>1 DEF Lookup, GoTo, obsVars, TypeOK, Answers, InFlight, FaultKinds
<1>4. CASE ReadPolicy(r)
  <2>1. \A p \in policies : p.rule \in Rules
    BY DEF TypeOK, MgmtTypeOK, Policies
  <2>2. AfterPolicy(NoRule) = "intercept"
    BY DEF AfterPolicy, AfterPermission, NeedsPerm, NeedsLimit
  <2>3. QED
    BY <1>4, <2>1, <2>2, AfterType DEF ReadPolicy, GoTo, obsVars, TypeOK, InFlight, FaultKinds
<1>5. CASE CheckPermission(r)
  BY <1>5, AfterType DEF CheckPermission, GoTo, obsVars, TypeOK, Answers, InFlight
<1>6. CASE Limit(r)
  BY <1>6 DEF Limit, GoTo, obsVars, TypeOK, Answers, InFlight
<1>7. CASE Intercept(r)
  BY <1>7 DEF Intercept, GoTo, obsVars, TypeOK, Answers, InFlight
<1>8. CASE Backend(r)
  BY <1>8 DEF Backend, GoTo, obsVars, TypeOK, Answers
<1>9. QED
  BY <1>1, <1>2, <1>3, <1>4, <1>5, <1>6, <1>7, <1>8 DEF RequestStep

LEMMA TypeOKStep ==
  ASSUME TypeOK, [Next]_vars
  PROVE  TypeOK'
<1>1. CASE Manage
  <2>1. MgmtTypeOK'
    BY <1>1, MgmtTypeStep DEF Manage, MgmtNext, TypeOK
  <2>2. \A r \in Requests :
          /\ StatusesOf(route[r], endpoints') \subseteq Statuses \cup {"absent"}
          /\ RulesOf(route[r], endpoints', policies') \subseteq Rules \cup {NoRule}
    <3>1. \A row \in endpoints' : row.status \in Statuses
      BY <2>1 DEF MgmtTypeOK, Endpoints
    <3>2. \A p \in policies' : p.rule \in Rules
      BY <2>1 DEF MgmtTypeOK, Policies
    <3>3. QED
      BY <3>1, <3>2 DEF StatusesOf, RulesOf
  <2>3. /\ met' \in [Requests -> SUBSET (Statuses \cup {"absent"})]
        /\ rules' \in [Requests -> SUBSET (Rules \cup {NoRule})]
    BY <1>1, <2>2 DEF Manage, Observe, TypeOK
  <2>4. UNCHANGED reqVars
    BY <1>1 DEF Manage
  <2>5. QED
    BY <2>1, <2>3, <2>4 DEF reqVars, TypeOK
<1>2. ASSUME NEW r \in Requests, RequestStep(r) PROVE TypeOK'
  BY <1>2, RequestTypeStep
<1>3. CASE Quiet \/ UNCHANGED vars
  BY <1>3 DEF Quiet, vars, mgmtVars, tables, reqVars, obsVars, TypeOK, MgmtTypeOK
<1>4. QED
  BY <1>1, <1>2, <1>3 DEF Next

\* Every variable keeps its type; a request that is at a check has a policy
\* that asks for it.
THEOREM TypeCorrect == Spec => []TypeOK
BY InitTypeOK, TypeOKStep, PTL DEF Spec
-----------------------------------------------------------------------------
(* The requests: the invariant is inductive *)

LEMMA InitIInv == Init => IInv
<1> SUFFICES ASSUME Init PROVE IInv
  OBVIOUS
<1>1. TypeOK /\ MgmtInv
  BY InitTypeOK, MgmtInitInv DEF Init
<1>2. ASSUME NEW r \in Requests PROVE RequestInv(r)
  <2>1. /\ at[r] = "new" /\ met[r] = {} /\ rule[r] = NoRule
        /\ r \notin counted /\ r \notin served
    BY DEF Init
  <2>2. QED
    BY <2>1 DEF RequestInv, Observed, Before, HasEndpoint, HasRule, Checked, ToldTrue,
                Enforced, CountedPermitted, InFlight
<1>3. QED
  BY <1>1, <1>2 DEF IInv

\* What the lookup of an endpoint and of its policy find has been met.
LEMMA Found ==
  ASSUME MgmtInv, NEW rt
  PROVE  /\ \A row \in endpoints : row.route = rt => row.status \in StatusesOf(rt, endpoints)
         /\ (\A row \in endpoints : row.route # rt) => "absent" \in StatusesOf(rt, endpoints)
         /\ \A row \in endpoints : row.route = rt =>
              /\ \A p \in policies : p.endpoint = row.id =>
                    p.rule \in RulesOf(rt, endpoints, policies)
              /\ (\A p \in policies : p.endpoint # row.id) =>
                    NoRule \in RulesOf(rt, endpoints, policies)
<1>1. /\ \A row \in endpoints : row.route = rt => row.status \in StatusesOf(rt, endpoints)
      /\ (\A row \in endpoints : row.route # rt) => "absent" \in StatusesOf(rt, endpoints)
  BY DEF StatusesOf
<1>2. ASSUME NEW row \in endpoints, row.route = rt, NEW p \in policies, p.endpoint = row.id
      PROVE  p.rule \in RulesOf(rt, endpoints, policies)
  BY <1>2 DEF RulesOf
<1>3. ASSUME NEW row \in endpoints, row.route = rt, \A p \in policies : p.endpoint # row.id
      PROVE  NoRule \in RulesOf(rt, endpoints, policies)
  <2>1. \A other \in endpoints : other.route = rt => other = row
    BY <1>3 DEF MgmtInv, UniqueRoute
  <2>2. QED
    BY <1>3, <2>1 DEF RulesOf
<1>4. QED
  BY <1>1, <1>2, <1>3

\* The row of an endpoint stays, with its route.
LEMMA RowsStay ==
  ASSUME MgmtInv, MgmtNext, NEW row \in endpoints
  PROVE  \E new \in endpoints' : new.id = row.id /\ new.route = row.route
<1>1. PICK c \in Calls : CallStep(c)
  BY DEF MgmtNext
<1>2. CASE StatusUpdate(c)
  <2>1. PICK old \in endpoints : old.id = call[c].row.id /\ old.route = call[c].row.route
    BY <1>2 DEF StatusUpdate, MgmtInv, UpdateInv
  <2>2. endpoints' = {other \in endpoints : other.id # call[c].row.id} \cup {call[c].row}
    BY <1>2 DEF StatusUpdate
  <2>3. CASE row.id = call[c].row.id
    BY <2>1, <2>2, <2>3 DEF MgmtInv, UniqueId
  <2>4. CASE row.id # call[c].row.id
    BY <2>2, <2>4
  <2>5. QED
    BY <2>3, <2>4
<1>3. CASE ~ StatusUpdate(c)
  <2>1. endpoints \subseteq endpoints'
    BY <1>1, <1>3 DEF CallStep, DefineLookup, DefineInsert, StatusLookup, PolicyLookup,
                      PolicyWrite, CallFails, Announce, tables
  <2>2. QED
    BY <2>1
<1>4. QED
  BY <1>2, <1>3

LEMMA ManageInv ==
  ASSUME IInv, Manage, NEW r \in Requests
  PROVE  RequestInv(r)'
<1>1. UNCHANGED <<at, route, claim, valid, ep, rule, failed, counted, served>>
  BY DEF Manage, reqVars
<1>2. /\ met[r] \subseteq met'[r] /\ rules[r] \subseteq rules'[r]
      /\ at[r] \in InFlight => /\ StatusesOf(route[r], endpoints') \subseteq met'[r]
                               /\ RulesOf(route[r], endpoints', policies') \subseteq rules'[r]
      /\ at[r] \notin InFlight => met'[r] = met[r]
  BY DEF Manage, Observe, IInv, TypeOK
<1>3. RequestInv(r)
  BY DEF IInv
<1>4. Observed(r)'
  BY <1>1, <1>2 DEF Observed
<1>5. Before(r)'
  BY <1>1, <1>2, <1>3 DEF RequestInv, Before, InFlight
<1>6. HasEndpoint(r)'
  BY <1>1, <1>2, <1>3, RowsStay DEF RequestInv, HasEndpoint, IInv, Manage
<1>7. HasRule(r)' /\ Checked(r)'
  BY <1>1, <1>2, <1>3 DEF RequestInv, HasRule, Checked
<1>8. ToldTrue(r)'
  BY <1>1, <1>2, <1>3 DEF RequestInv, ToldTrue, InFlight
<1>9. Enforced(r)' /\ CountedPermitted(r)'
  BY <1>1, <1>2, <1>3 DEF RequestInv, Enforced, CountedPermitted, Satisfies
<1>10. QED
  BY <1>4, <1>5, <1>6, <1>7, <1>8, <1>9 DEF RequestInv

\* A step that leaves a request alone.
LEMMA Apart ==
  ASSUME NEW r \in Requests, RequestInv(r),
         UNCHANGED <<endpoints, policies, route, claim, valid>>,
         at'[r] = at[r], ep'[r] = ep[r], rule'[r] = rule[r], failed'[r] = failed[r],
         met'[r] = met[r], rules'[r] = rules[r],
         r \in counted' <=> r \in counted, r \in served' <=> r \in served
  PROVE  RequestInv(r)'
<1>1. Observed(r)' /\ Before(r)' /\ HasEndpoint(r)'
  BY DEF RequestInv, Observed, Before, HasEndpoint
<1>2. HasRule(r)' /\ Checked(r)'
  BY DEF RequestInv, HasRule, Checked
<1>3. ToldTrue(r)' /\ Enforced(r)' /\ CountedPermitted(r)'
  BY DEF RequestInv, ToldTrue, Enforced, CountedPermitted, Satisfies
<1>4. QED
  BY <1>1, <1>2, <1>3 DEF RequestInv

\* A step of one request leaves the others alone.
LEMMA OthersInv ==
  ASSUME IInv, NEW r \in Requests, RequestStep(r), NEW q \in Requests \ {r}
  PROVE  RequestInv(q)'
<1>1. UNCHANGED <<endpoints, policies, route, claim, valid>>
  BY DEF RequestStep, JWTAuthFails, TenantResolverFails, Enter, Lookup, ReadPolicy,
         CheckPermission, Limit, Intercept, Backend, Untouched, mgmtVars, tables
<1>2. /\ at'[q] = at[q] /\ ep'[q] = ep[q] /\ rule'[q] = rule[q]
      /\ failed'[q] = failed[q]
      /\ met'[q] = met[q] /\ rules'[q] = rules[q]
      /\ q \in counted' <=> q \in counted
      /\ q \in served' <=> q \in served
  BY DEF RequestStep, JWTAuthFails, TenantResolverFails, Enter, Lookup, ReadPolicy,
         CheckPermission, Limit, Intercept, Backend, Untouched, obsVars, GoTo, IInv, TypeOK
<1>3. QED
  BY <1>1, <1>2, Apart DEF IInv
\* A request that is answered before it gets to the backend.
LEMMA AnsweredInv ==
  ASSUME IInv, NEW r \in Requests, NEW answer \in Answers \ {"next", "gone"},
         GoTo(r, answer), UNCHANGED <<mgmtVars, obsVars, route, claim, valid, ep, rule, failed, served>>,
         counted' = counted \/ (at[r] = "limit" /\ counted' = counted \cup {r})
  PROVE  RequestInv(r)'
<1>1. at'[r] = answer /\ answer \notin InFlight \cup {"new"} /\ RequestInv(r)
  BY DEF GoTo, IInv, TypeOK, Answers, InFlight
<1>2. UNCHANGED <<endpoints, policies, met, rules>>
  BY DEF mgmtVars, tables, obsVars
<1>3. (r \in counted' /\ r \notin counted) =>
        /\ rule[r] \in rules[r]
        /\ NeedsLimit(rule[r])
        /\ NeedsPerm(rule[r]) => <<claim[r], rule[r].perm>> \in Granted
  <2>1. CASE at[r] = "limit"
    <3>1. NeedsLimit(rule[r]) /\ rule[r] # NoRule
      BY <2>1 DEF IInv, TypeOK, NeedsLimit
    <3>2. QED
      BY <1>1, <2>1, <3>1 DEF RequestInv, HasRule, Checked
  <2>2. QED
    BY <2>1
<1>4. Observed(r)' /\ Before(r)' /\ HasEndpoint(r)' /\ HasRule(r)' /\ Checked(r)'
  BY <1>1 DEF Observed, Before, HasEndpoint, HasRule, Checked, InFlight
<1>5. ToldTrue(r)'
  BY <1>1, <1>2 DEF RequestInv, ToldTrue, Answers
<1>6. Enforced(r)'
  BY <1>1, <1>2 DEF RequestInv, Enforced, Satisfies
<1>7. CountedPermitted(r)'
  BY <1>1, <1>2, <1>3 DEF RequestInv, CountedPermitted
<1>8. QED
  BY <1>4, <1>5, <1>6, <1>7 DEF RequestInv

LEMMA EnterInv ==
  ASSUME IInv, NEW r \in Requests, Enter(r)
  PROVE  RequestInv(r)'
<1>1. /\ at[r] = "new" /\ met[r] = {} /\ rule[r] = NoRule
      /\ r \notin counted /\ r \notin served
  BY DEF Enter, IInv, RequestInv, Before
<1>2. UNCHANGED <<endpoints, policies, route, claim, valid, ep, rule, failed, counted, served>>
  BY DEF Enter, Untouched, mgmtVars, tables
<1>3. \/ at'[r] \in {"next", "badRequest"} /\ met'[r] = met[r]
      \/ /\ at'[r] = "lookup"
         /\ met'[r] = StatusesOf(route[r], endpoints)
         /\ rules'[r] = RulesOf(route[r], endpoints, policies)
  BY DEF Enter, GoTo, obsVars, IInv, TypeOK
<1>4. Observed(r)' /\ Before(r)'
  BY <1>1, <1>2, <1>3 DEF Observed, Before, InFlight
<1>5. HasEndpoint(r)' /\ HasRule(r)' /\ Checked(r)'
  BY <1>3 DEF HasEndpoint, HasRule, Checked, InFlight
<1>6. ToldTrue(r)' /\ Enforced(r)' /\ CountedPermitted(r)'
  BY <1>1, <1>2, <1>3 DEF ToldTrue, Enforced, CountedPermitted
<1>7. QED
  BY <1>4, <1>5, <1>6 DEF RequestInv

LEMMA LookupInv ==
  ASSUME IInv, NEW r \in Requests, Lookup(r)
  PROVE  RequestInv(r)'
<1>1. /\ at[r] = "lookup" /\ RequestInv(r) /\ MgmtInv
      /\ StatusesOf(route[r], endpoints) \subseteq met[r]
  BY DEF Lookup, IInv, RequestInv, Observed, InFlight
<1>2. UNCHANGED <<endpoints, policies, met, rules, route, claim, valid, rule, counted, served>>
  BY DEF Lookup, mgmtVars, tables, obsVars
<1>3. at'[r] \in {"policy", "gone", "next"} /\ failed[r] \subseteq failed'[r]
  BY DEF Lookup, GoTo, IInv, TypeOK
<1>4. \/ \E row \in endpoints :
            /\ row.route = route[r] /\ ep'[r] = row.id
            /\ at'[r] = IF row.status = "active" THEN "policy" ELSE "gone"
      \/ at'[r] = "next" /\ \A row \in endpoints : row.route # route[r]
      \/ at'[r] = "next" /\ "lookup" \in failed'[r]
  BY DEF Lookup, GoTo, IInv, TypeOK
<1>5. \A row \in endpoints : row.status \in Statuses
  BY DEF IInv, TypeOK, MgmtTypeOK, Endpoints
<1>6. Observed(r)' /\ Before(r)'
  BY <1>1, <1>2, <1>3 DEF RequestInv, Observed, Before, InFlight
<1>7. HasEndpoint(r)'
  BY <1>1, <1>2, <1>3, <1>4, Found DEF HasEndpoint, InFlight
<1>8. HasRule(r)' /\ Checked(r)'
  BY <1>3 DEF HasRule, Checked
<1>9. ToldTrue(r)'
  <2>1. at'[r] = "gone" => "retired" \in met[r]
    BY <1>1, <1>4, <1>5, Found DEF Statuses
  <2>2. at'[r] = "next" => "absent" \in met[r] \/ "lookup" \in failed'[r]
    BY <1>1, <1>4, Found
  <2>3. QED
    BY <1>1, <1>2, <2>1, <2>2 DEF RequestInv, ToldTrue
<1>10. Enforced(r)' /\ CountedPermitted(r)'
  BY <1>1, <1>2, <1>3 DEF RequestInv, Enforced, CountedPermitted, Satisfies
<1>11. QED
  BY <1>6, <1>7, <1>8, <1>9, <1>10 DEF RequestInv

LEMMA ReadPolicyInv ==
  ASSUME IInv, NEW r \in Requests, ReadPolicy(r)
  PROVE  RequestInv(r)'
<1>1. /\ at[r] = "policy" /\ RequestInv(r) /\ MgmtInv /\ rule[r] = NoRule
      /\ RulesOf(route[r], endpoints, policies) \subseteq rules[r]
  BY DEF ReadPolicy, IInv, RequestInv, Observed, Before, InFlight
<1>2. UNCHANGED <<endpoints, policies, met, rules, route, claim, valid, ep, counted, served>>
  BY DEF ReadPolicy, mgmtVars, tables, obsVars
<1>3. PICK row \in endpoints : row.id = ep[r] /\ row.route = route[r]
  BY <1>1 DEF RequestInv, HasEndpoint, InFlight
<1>4. /\ at'[r] = AfterPolicy(rule'[r]) /\ failed[r] \subseteq failed'[r]
      /\ \/ \E p \in policies : p.endpoint = ep[r] /\ rule'[r] = p.rule
         \/ (\A p \in policies : p.endpoint # ep[r]) /\ rule'[r] = NoRule
         \/ rule'[r] = NoRule /\ "policy" \in failed'[r]
  BY <1>1 DEF ReadPolicy, GoTo, IInv, TypeOK
<1>5. at'[r] \in {"permission", "limit", "intercept"}
  BY <1>4, AfterType
<1>6. Observed(r)' /\ Before(r)' /\ HasEndpoint(r)'
  BY <1>1, <1>2, <1>5 DEF RequestInv, Observed, Before, HasEndpoint, InFlight
<1>7. HasRule(r)'
  BY <1>1, <1>2, <1>3, <1>4, Found DEF HasRule
<1>8. Checked(r)'
  <2>1. at'[r] # "permission" => ~ NeedsPerm(rule'[r])
    BY <1>4, AfterType
  <2>2. at'[r] = "intercept" => ~ NeedsLimit(rule'[r])
    BY <1>4, AfterType
  <2>3. QED
    BY <1>5, <2>1, <2>2 DEF Checked, NeedsPerm, NeedsLimit
<1>9. ToldTrue(r)' /\ Enforced(r)' /\ CountedPermitted(r)'
  BY <1>1, <1>2, <1>4, <1>5 DEF RequestInv, ToldTrue, Enforced, CountedPermitted, Satisfies
<1>10. QED
  BY <1>6, <1>7, <1>8, <1>9 DEF RequestInv

\* A request in flight goes on with the policy it has.
LEMMA GoOnInv ==
  ASSUME IInv, NEW r \in Requests, at[r] \in {"permission", "limit", "intercept"},
         at'[r] \in {"limit", "intercept", "backend"},
         UNCHANGED <<mgmtVars, obsVars, route, claim, valid, ep, rule, failed, served>>,
         counted' = counted \/ (at[r] = "limit" /\ counted' = counted \cup {r}),
         Checked(r)'
  PROVE  RequestInv(r)'
<1>1. UNCHANGED <<endpoints, policies, met, rules>> /\ RequestInv(r)
  BY DEF mgmtVars, tables, obsVars, IInv
<1>2. Observed(r)' /\ Before(r)' /\ HasEndpoint(r)' /\ HasRule(r)'
  BY <1>1 DEF RequestInv, Observed, Before, HasEndpoint, HasRule, InFlight
<1>3. ToldTrue(r)' /\ Enforced(r)'
  BY <1>1 DEF RequestInv, ToldTrue, Enforced, Satisfies
<1>4. CountedPermitted(r)'
  <2>1. CASE at[r] = "limit"
    <3>1. NeedsLimit(rule[r]) /\ rule[r] # NoRule
      BY <2>1 DEF IInv, TypeOK, NeedsLimit
    <3>2. rule[r] \in rules[r] /\ (NeedsPerm(rule[r]) => <<claim[r], rule[r].perm>> \in Granted)
      BY <1>1, <2>1, <3>1 DEF RequestInv, HasRule, Checked
    <3>3. QED
      BY <1>1, <3>1, <3>2 DEF RequestInv, CountedPermitted
  <2>2. CASE counted' = counted
    BY <1>1, <2>2 DEF RequestInv, CountedPermitted
  <2>3. QED
    BY <2>1, <2>2
<1>5. QED
  BY <1>2, <1>3, <1>4 DEF RequestInv
LEMMA RequestInvStep ==
  ASSUME IInv, NEW r \in Requests, RequestStep(r)
  PROVE  RequestInv(r)'
<1>1. CASE JWTAuthFails(r) \/ TenantResolverFails(r)
  <2>1. PICK answer \in {"unauthorized", "badRequest"} : GoTo(r, answer)
    BY <1>1 DEF JWTAuthFails, TenantResolverFails
  <2>2. UNCHANGED <<obsVars, Untouched>>
    BY <1>1 DEF JWTAuthFails, TenantResolverFails
  <2>3. QED
    BY <2>1, <2>2, AnsweredInv DEF Untouched, Answers
<1>2. CASE Enter(r)
  BY <1>2, EnterInv
<1>3. CASE Lookup(r)
  BY <1>3, LookupInv
<1>4. CASE ReadPolicy(r)
  BY <1>4, ReadPolicyInv
<1>5. CASE CheckPermission(r)
  <2>1. /\ at[r] = "permission" /\ RequestInv(r)
        /\ UNCHANGED <<mgmtVars, obsVars, route, claim, valid, ep, rule, failed, counted, served>>
    BY <1>5 DEF CheckPermission, IInv
  <2>2. CASE GoTo(r, "forbidden") \/ GoTo(r, "error")
    <3>1. PICK answer \in {"forbidden", "error"} : GoTo(r, answer)
      BY <2>2
    <3>2. QED
      BY <2>1, <3>1, AnsweredInv DEF Answers
  <2>3. CASE <<claim[r], rule[r].perm>> \in Granted /\ GoTo(r, AfterPermission(rule[r]))
    <3>1. at'[r] = AfterPermission(rule[r])
      BY <2>3 DEF GoTo, IInv, TypeOK
    <3>2. at'[r] \in {"limit", "intercept"} /\ (at'[r] = "limit" <=> NeedsLimit(rule[r]))
      BY <3>1, AfterType
    <3>3. Checked(r)'
      BY <2>1, <2>3, <3>2 DEF Checked, NeedsPerm, NeedsLimit
    <3>4. QED
      BY <2>1, <3>2, <3>3, GoOnInv
  <2>4. QED
    BY <1>5, <2>2, <2>3 DEF CheckPermission
<1>6. CASE Limit(r)
  <2>1. /\ at[r] = "limit" /\ RequestInv(r)
        /\ UNCHANGED <<mgmtVars, obsVars, route, claim, valid, ep, rule, failed, served>>
        /\ counted' = counted \/ counted' = counted \cup {r}
    BY <1>6 DEF Limit, IInv
  <2>2. CASE GoTo(r, "limited")
    BY <2>1, <2>2, AnsweredInv DEF Answers
  <2>3. CASE GoTo(r, "intercept") /\ counted' = counted \cup {r}
    <3>1. at'[r] = "intercept"
      BY <2>3 DEF GoTo, IInv, TypeOK
    <3>2. Checked(r)'
      BY <2>1, <2>3, <3>1 DEF RequestInv, Checked, NeedsPerm
    <3>3. QED
      BY <2>1, <3>1, <3>2, GoOnInv
  <2>4. QED
    BY <1>6, <2>2, <2>3 DEF Limit
<1>7. CASE Intercept(r)
  <2>1. /\ at[r] = "intercept" /\ RequestInv(r)
        /\ UNCHANGED <<mgmtVars, obsVars, route, claim, valid, ep, rule, failed, counted, served>>
    BY <1>7 DEF Intercept, IInv
  <2>2. CASE GoTo(r, "badRequest")
    BY <2>1, <2>2, AnsweredInv DEF Answers
  <2>3. CASE GoTo(r, "backend") /\ valid[r]
    <3>1. at'[r] = "backend"
      BY <2>3 DEF GoTo, IInv, TypeOK
    <3>2. Checked(r)'
      BY <2>1, <2>3, <3>1 DEF RequestInv, Checked, NeedsPerm, NeedsLimit
    <3>3. QED
      BY <2>1, <3>1, <3>2, GoOnInv
  <2>4. QED
    BY <1>7, <2>2, <2>3 DEF Intercept
<1>8. CASE Backend(r)
  <2>1. /\ at[r] = "backend" /\ RequestInv(r) /\ served' = served \cup {r}
        /\ UNCHANGED <<endpoints, policies, met, rules, route, claim, valid, ep, rule, failed,
                       counted>>
    BY <1>8 DEF Backend, mgmtVars, tables, obsVars, IInv
  <2>2. at'[r] \in {"ok", "badGateway"}
    BY <1>8 DEF Backend, GoTo, IInv, TypeOK
  <2>3. Observed(r)' /\ Before(r)' /\ HasEndpoint(r)' /\ HasRule(r)' /\ Checked(r)'
    BY <2>2 DEF Observed, Before, HasEndpoint, HasRule, Checked, InFlight
  <2>4. ToldTrue(r)'
    BY <2>1, <2>2 DEF RequestInv, HasEndpoint, ToldTrue, InFlight
  <2>5. Enforced(r)'
    <3>1. Satisfies(r, rule[r])
      BY <2>1 DEF RequestInv, Checked, Satisfies
    <3>2. valid[r] /\ ("policy" \in failed[r] \/ \E ru \in rules[r] : Satisfies(r, ru))
      BY <2>1, <3>1 DEF RequestInv, HasRule, Checked
    <3>3. QED
      BY <2>1, <3>2 DEF Enforced, Satisfies
  <2>6. CountedPermitted(r)'
    BY <2>1 DEF RequestInv, CountedPermitted
  <2>7. QED
    BY <2>3, <2>4, <2>5, <2>6 DEF RequestInv
<1>9. QED
  BY <1>1, <1>2, <1>3, <1>4, <1>5, <1>6, <1>7, <1>8 DEF RequestStep

LEMMA IInvStep == IInv /\ [Next]_vars => IInv'
<1> SUFFICES ASSUME IInv, [Next]_vars PROVE IInv'
  OBVIOUS
<1>1. TypeOK'
  BY TypeOKStep DEF IInv
<1>2. CASE Manage
  <2>1. MgmtInv'
    BY <1>2, MgmtInvNext DEF Manage, IInv
  <2>2. QED
    BY <1>1, <1>2, <2>1, ManageInv DEF IInv
<1>3. ASSUME NEW r \in Requests, RequestStep(r) PROVE IInv'
  <2>1. UNCHANGED mgmtVars
    BY <1>3 DEF RequestStep, JWTAuthFails, TenantResolverFails, Enter, Lookup, ReadPolicy,
                CheckPermission, Limit, Intercept, Backend, Untouched
  <2>2. MgmtInv'
    BY <2>1, MgmtInvNext DEF IInv
  <2>3. \A q \in Requests : RequestInv(q)'
    BY <1>3, RequestInvStep, OthersInv
  <2>4. QED
    BY <1>1, <2>2, <2>3 DEF IInv
<1>4. CASE Quiet \/ UNCHANGED vars
  <2>1. UNCHANGED <<mgmtVars, endpoints, policies, at, route, claim, valid, ep, rule, failed,
                    counted, served, met, rules>>
    BY <1>4 DEF Quiet, vars, mgmtVars, tables, reqVars, obsVars
  <2>2. MgmtInv'
    BY <2>1, MgmtInvNext DEF IInv
  <2>3. \A q \in Requests : RequestInv(q)'
    BY <2>1, Apart DEF IInv
  <2>4. QED
    BY <1>1, <2>2, <2>3 DEF IInv
<1>5. QED
  BY <1>2, <1>3, <1>4 DEF Next

\* What a request was told about its endpoint, served, 410 or passed on, was
\* true at some time since it arrived, whatever the use cases did meanwhile.
THEOREM LookupCurrentCorrect == Spec => []LookupCurrent
<1>1. IInv => LookupCurrent
  BY DEF IInv, RequestInv, ToldTrue, LookupCurrent
<1>2. QED
  BY <1>1, InitIInv, IInvStep, PTL DEF Spec

\* The backend sees only requests that satisfy the schema and, as a whole, a
\* policy that was in force while they were there, unless its read failed.
THEOREM PolicyEnforcedCorrect == Spec => []PolicyEnforced
<1>1. IInv => PolicyEnforced
  BY DEF IInv, RequestInv, Enforced, PolicyEnforced, TypeOK
<1>2. QED
  BY <1>1, InitIInv, IInvStep, PTL DEF Spec

\* Requests without the permission are not counted by the limiter.
THEOREM OnlyPermittedCountCorrect == Spec => []OnlyPermittedCount
<1>1. IInv => OnlyPermittedCount
  BY DEF IInv, RequestInv, CountedPermitted, OnlyPermittedCount, TypeOK
<1>2. QED
  BY <1>1, InitIInv, IInvStep, PTL DEF Spec
=============================================================================
