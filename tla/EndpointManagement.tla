------------------------- MODULE EndpointManagement -------------------------
(***************************************************************************)
(* The use cases of application/apimanagement/usecase: DefineEndpoint,     *)
(* RetireEndpoint, ActivateEndpoint and UpdatePolicy, over the tables      *)
(* app_endpoints and app_endpoint_policies (postgres/apimanagement and the *)
(* migrations 00009, 00010).                                               *)
(*                                                                         *)
(* Every use case reads, decides and writes without a transaction, then    *)
(* publishes its event.  Each query and the Publish is a step, and calls   *)
(* interleave between them.  Rows are never deleted.  An id drawn by       *)
(* uuid.New is the call that drew it: a call creates one row at most.  A   *)
(* call whose parameters or body do not decode changes nothing and is left *)
(* out.                                                                    *)
(***************************************************************************)
EXTENDS FiniteSets

CONSTANTS Routes,   \* app, method, path and version of an endpoint
          Rules,    \* what a policy says
          Calls,    \* API calls
          NoRow,    \* GetByEndpointID found nothing, or failed
          Faults    \* which failures happen, a subset of FaultKinds

(* read:   a query fails                                                   *)
(* write:  an INSERT or UPDATE fails and is not executed                   *)
(* reply:  it is executed but its reply is lost                            *)
(* crash:  the process dies                                                *)
(* lookup, policy, permission, redis: reads of the gateway that fail       *)
FaultKinds ==
    {"read", "write", "reply", "crash", "lookup", "policy", "permission", "redis"}

\* The statuses some code writes.
Statuses == {"active", "retired"}

Endpoints == [id : Calls, route : Routes, status : Statuses]
Policies  == [id : Calls, endpoint : Calls, rule : Rules]
Events    == [kind : {"created", "active", "retired"}, endpoint : Calls]

ASSUME ManagementAssumption ==
    /\ Faults \subseteq FaultKinds
    /\ NoRow \notin Policies

VARIABLES
    endpoints,  \* table app_endpoints
    policies,   \* table app_endpoint_policies
    call,       \* where each API call is, with what it has read
    announced,  \* history: the events published
    past,       \* history: the rows app_endpoints has ever held
    latest      \* history: the rule last written for each endpoint

tables   == <<endpoints, policies>>
mgmtVars == <<tables, call, announced, past, latest>>

New    == [at |-> "new"]
Failed == [at |-> "failed"]    \* Execute returned an error, or the process died
Done   == [at |-> "done"]

Inserting  == [at : {"insert"}, route : Routes]
Updating   == [at : {"update"}, row : Endpoints]
Writing    == [at : {"write"}, endpoint : Calls, found : Policies \cup {NoRow}, rule : Rules]
Publishing == [at : {"publish"}, event : Events]

MgmtTypeOK ==
    /\ endpoints \subseteq Endpoints
    /\ policies \subseteq Policies
    /\ call \in [Calls -> {New, Failed, Done} \cup Inserting \cup Updating
                            \cup Writing \cup Publishing]
    /\ announced \subseteq Events
    /\ past \subseteq Endpoints
    /\ latest \in [Calls -> Rules \cup {NoRow}]

MgmtInit ==
    /\ endpoints = {}
    /\ policies = {}
    /\ call = [c \in Calls |-> New]
    /\ announced = {}
    /\ past = {}
    /\ latest = [e \in Calls |-> NoRow]

-----------------------------------------------------------------------------

\* The write of call c has been executed: it goes on to next, unless the reply
\* is lost and Execute returns the error.
Executed(c, next) ==
    \/ call' = [call EXCEPT ![c] = next]
    \/ "reply" \in Faults /\ call' = [call EXCEPT ![c] = Failed]

\* An event of the kind that a new status has.
Publish(kind, e) == [at |-> "publish", event |-> [kind |-> kind, endpoint |-> e]]

\* DefineEndpoint: the check for duplicates, whose error is taken for "none".
DefineLookup(c, route) ==
    /\ call[c] = New
    /\ \/ /\ \E row \in endpoints : row.route = route
          /\ call' = [call EXCEPT ![c] = Failed]
       \/ /\ \/ \A row \in endpoints : row.route # route
             \/ "read" \in Faults
          /\ call' = [call EXCEPT ![c] = [at |-> "insert", route |-> route]]
    /\ UNCHANGED <<tables, announced, past, latest>>

\* Mutant: the error of Create is ignored.
DefineInsert_IgnoresError(c) ==
    /\ call[c].at = "insert"
    /\ LET row == [id |-> c, route |-> call[c].route, status |-> "active"] IN
         IF \A other \in endpoints : other.route # row.route
         THEN /\ endpoints' = endpoints \cup {row}
              /\ past' = past \cup {row}
              /\ Executed(c, Publish("created", c))
         ELSE /\ call' = [call EXCEPT ![c] = Publish("created", c)]
              /\ UNCHANGED <<endpoints, past>>
    /\ UNCHANGED <<policies, announced, latest>>

\* The INSERT, and UNIQUE(app_id, method, path, version).
DefineInsert(c) ==
    /\ call[c].at = "insert"
    /\ LET row == [id |-> c, route |-> call[c].route, status |-> "active"] IN
         IF \A other \in endpoints : other.route # row.route
         THEN /\ endpoints' = endpoints \cup {row}
              /\ past' = past \cup {row}
              /\ Executed(c, Publish("created", c))
         ELSE /\ call' = [call EXCEPT ![c] = Failed]
              /\ UNCHANGED <<endpoints, past>>
    /\ UNCHANGED <<policies, announced, latest>>

\* RetireEndpoint and ActivateEndpoint: GetByID and the status check.
StatusLookup(c, e, status) ==
    /\ call[c] = New
    /\ \/ \E row \in endpoints :
            /\ row.id = e
            /\ call' = [call EXCEPT ![c] =
                          IF row.status = status THEN Failed
                          ELSE [at |-> "update", row |-> [row EXCEPT !.status = status]]]
       \/ /\ (\A row \in endpoints : row.id # e) \/ "read" \in Faults
          /\ call' = [call EXCEPT ![c] = Failed]
    /\ UNCHANGED <<tables, announced, past, latest>>

\* UPDATE of every column of the row that was read.
StatusUpdate(c) ==
    /\ call[c].at = "update"
    /\ LET row == call[c].row IN
         /\ endpoints' = {other \in endpoints : other.id # row.id} \cup {row}
         /\ past' = past \cup {row}
         /\ Executed(c, Publish(row.status, row.id))
    /\ UNCHANGED <<policies, announced, latest>>

\* UpdatePolicy: GetByEndpointID returns some row of the endpoint; its error is
\* taken for "none".
PolicyLookup(c, e, rule) ==
    /\ call[c] = New
    /\ \E found \in policies \cup {NoRow} :
         /\ found # NoRow => found.endpoint = e
         /\ found = NoRow => (\A p \in policies : p.endpoint # e) \/ "read" \in Faults
         /\ call' = [call EXCEPT ![c] = [at |-> "write", endpoint |-> e,
                                         found |-> found, rule |-> rule]]
    /\ UNCHANGED <<tables, announced, past, latest>>

\* UPDATE of the row that was found, or INSERT of one that references the
\* endpoint.  Nothing is published.
PolicyWrite(c) ==
    /\ call[c].at = "write"
    /\ LET w == call[c]
           written == IF w.found = NoRow
                      THEN [id |-> c, endpoint |-> w.endpoint, rule |-> w.rule]
                      ELSE [w.found EXCEPT !.rule = w.rule]
       IN IF w.found # NoRow \/ (\E row \in endpoints : row.id = w.endpoint)
          THEN /\ policies' = {p \in policies : p.id # written.id} \cup {written}
               /\ latest' = [latest EXCEPT ![w.endpoint] = w.rule]
               /\ Executed(c, Done)
          ELSE /\ call' = [call EXCEPT ![c] = Failed]
               /\ UNCHANGED <<policies, latest>>
    /\ UNCHANGED <<endpoints, announced, past>>

\* A write fails, or the process dies before it or before the Publish.
CallFails(c) ==
    /\ \/ "write" \in Faults /\ call[c].at \in {"insert", "update", "write"}
       \/ "crash" \in Faults /\ call[c].at \in {"insert", "update", "write", "publish"}
    /\ call' = [call EXCEPT ![c] = Failed]
    /\ UNCHANGED <<tables, announced, past, latest>>

\* The event is published; the bus may drop it and the result is ignored.
Announce(c) ==
    /\ call[c].at = "publish"
    /\ announced' \in {announced, announced \cup {call[c].event}}
    /\ call' = [call EXCEPT ![c] = Done]
    /\ UNCHANGED <<tables, past, latest>>

CallStep(c) ==
    \/ \E route \in Routes : DefineLookup(c, route)
    \/ DefineInsert(c)
    \/ \E e \in Calls, status \in Statuses : StatusLookup(c, e, status)
    \/ StatusUpdate(c)
    \/ \E e \in Calls, rule \in Rules : PolicyLookup(c, e, rule)
    \/ PolicyWrite(c)
    \/ CallFails(c)
    \/ Announce(c)

MgmtNext == \E c \in Calls : CallStep(c)

MgmtSpec == MgmtInit /\ [][MgmtNext]_mgmtVars

-----------------------------------------------------------------------------
(* Properties *)

\* However the checks for duplicates race or fail, one endpoint at most answers
\* for a method and path of an app, so that the gateway's lookup is unambiguous.
UniqueRoute ==
    \A row, other \in endpoints : row.route = other.route => row = other

\* Every event tells of something that happened: the endpoint it names exists,
\* and has had the status it tells of.
NoPhantomEvents ==
    \A event \in announced :
        \E row \in past :
            /\ row.id = event.endpoint
            /\ event.kind \in Statuses => row.status = event.kind

\* handler.go: "UpdatePolicy updates an endpoint's policy": when no such call is
\* in progress, whatever row the gateway finds says what was last written.
SettledPolicy ==
    (\A c \in Calls : call[c].at # "write") =>
        \A p \in policies : p.rule = latest[p.endpoint]
=============================================================================
