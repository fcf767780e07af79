-------------------------- MODULE GatewayPipeline --------------------------
(***************************************************************************)
(* Pipeline.Enforce of internal/gateway/pipeline.go, behind the middleware *)
(* the router puts before it (JWTAuth, TenantResolverWithWorkspace), while *)
(* the use cases of EndpointManagement change the tables it reads.         *)
(*                                                                         *)
(* Enforce reads the endpoint, then its policy, then the permissions of    *)
(* the user, then counts the request; each is a step of PostgreSQL or      *)
(* Redis, and requests and API calls interleave between them.  What the    *)
(* permission check and the limiter do inside is the subject of            *)
(* PermissionCache and RateLimiter: here a check answers for a fixed set   *)
(* of granted permissions and the limiter may refuse anybody it counts.    *)
(* JWTAuth always precedes Enforce, so that a user id is always there.     *)
(***************************************************************************)
EXTENDS EndpointManagement

CONSTANTS Requests,
          Claims,    \* organizations that a token can name
          Perms,     \* permissions a policy can require
          Granted,   \* claim, permission pairs that HasPermission confirms
          NoPerm,    \* RequiredPermission = ""
          NoRule,    \* policy = nil
          HasRedis,  \* whether Redis could be reached when the server started
          NoId

ASSUME GatewayAssumption ==
    /\ Rules \subseteq [perm : Perms \cup {NoPerm}, limited : BOOLEAN]
    /\ Granted \subseteq Claims \X Perms
    /\ HasRedis \in BOOLEAN
    /\ NoPerm \notin Perms
    /\ NoRule \notin Rules
    /\ NoId \notin Calls

VARIABLES
    at,       \* where each request is, or how it was answered
    route,    \* the managed path it asks for
    claim,    \* the organization in its token
    valid,    \* whether its body satisfies the endpoint's schema
    ep,       \* endpoint.ID
    rule,     \* policy
    failed,   \* history: the reads of the request that failed
    met,      \* history: what its route was since it arrived
    rules,    \* history: the policies its endpoint had since it arrived
    counted,  \* history: the requests whose INCR was executed
    served    \* history: the requests handed to the backend

reqVars  == <<at, route, claim, valid, ep, rule, failed, counted, served>>
obsVars  == <<met, rules>>
vars     == <<mgmtVars, reqVars, obsVars>>

InFlight == {"lookup", "policy", "permission", "limit", "intercept", "backend"}

\* next: the request goes on to the router's own handlers.
Answers == {"next", "unauthorized", "badRequest", "gone", "error", "forbidden",
            "limited", "badGateway", "ok"}

NeedsPerm(ru)  == ru # NoRule /\ ru.perm # NoPerm
NeedsLimit(ru) == ru # NoRule /\ ru.limited /\ HasRedis

TypeOK ==
    /\ MgmtTypeOK
    /\ at \in [Requests -> {"new"} \cup InFlight \cup Answers]
    /\ route \in [Requests -> Routes]
    /\ claim \in [Requests -> Claims]
    /\ valid \in [Requests -> BOOLEAN]
    /\ ep \in [Requests -> Calls \cup {NoId}]
    /\ rule \in [Requests -> Rules \cup {NoRule}]
    /\ failed \in [Requests -> SUBSET FaultKinds]
    /\ met \in [Requests -> SUBSET (Statuses \cup {"absent"})]
    /\ rules \in [Requests -> SUBSET (Rules \cup {NoRule})]
    /\ counted \subseteq Requests
    /\ served \subseteq Requests
    /\ \A r \in Requests :
         /\ at[r] = "permission" => NeedsPerm(rule[r])
         /\ at[r] = "limit" => NeedsLimit(rule[r])

Init ==
    /\ MgmtInit
    /\ at = [r \in Requests |-> "new"]
    /\ route \in [Requests -> Routes]
    /\ claim \in [Requests -> Claims]
    /\ valid \in [Requests -> BOOLEAN]
    /\ ep = [r \in Requests |-> NoId]
    /\ rule = [r \in Requests |-> NoRule]
    /\ failed = [r \in Requests |-> {}]
    /\ met = [r \in Requests |-> {}]
    /\ rules = [r \in Requests |-> {}]
    /\ counted = {}
    /\ served = {}

-----------------------------------------------------------------------------
(* What a request could have found *)

StatusesOf(rt, eps) ==
    LET rows == {row \in eps : row.route = rt}
    IN IF rows = {} THEN {"absent"} ELSE {row.status : row \in rows}

RulesOf(rt, eps, pols) ==
    LET mine == {p \in pols : \E row \in eps : row.route = rt /\ row.id = p.endpoint}
    IN IF mine = {} THEN {NoRule} ELSE {p.rule : p \in mine}

\* A step of an API call: requests in flight have met what it leaves behind.
Observe ==
    /\ met' = [r \in Requests |->
                 IF at[r] \in InFlight
                 THEN met[r] \cup StatusesOf(route[r], endpoints') ELSE met[r]]
    /\ rules' = [r \in Requests |->
                   IF at[r] \in InFlight
                   THEN rules[r] \cup RulesOf(route[r], endpoints', policies')
                   ELSE rules[r]]

-----------------------------------------------------------------------------
(* Enforce *)

GoTo(r, where) == at' = [at EXCEPT ![r] = where]

\* What no step before Lookup changes.
Untouched == <<mgmtVars, route, claim, valid, ep, rule, failed, counted, served>>

\* JWTAuth: no token, or an invalid one.
JWTAuthFails(r) ==
    /\ at[r] = "new"
    /\ GoTo(r, "unauthorized")
    /\ UNCHANGED <<obsVars, Untouched>>

\* TenantResolverWithWorkspace: X-Organization-ID is no uuid.  What it resolves
\* otherwise is not read by Enforce, which takes the organization of the token.
TenantResolverFails(r) ==
    /\ at[r] = "new"
    /\ GoTo(r, "badRequest")
    /\ UNCHANGED <<obsVars, Untouched>>

\* The beginning of Enforce: a skipped path or no X-App-ID is passed on, an
\* X-App-ID that is no uuid refused.
Enter(r) ==
    /\ at[r] = "new"
    /\ \/ /\ GoTo(r, "next") \/ GoTo(r, "badRequest")
          /\ UNCHANGED obsVars
       \/ /\ GoTo(r, "lookup")
          /\ met' = [met EXCEPT ![r] = StatusesOf(route[r], endpoints)]
          /\ rules' = [rules EXCEPT ![r] = RulesOf(route[r], endpoints, policies)]
    /\ UNCHANGED Untouched

\* Mutant: the status of the endpoint is not looked at.
Lookup_IgnoresStatus(r) ==
    /\ at[r] = "lookup"
    /\ \/ \E row \in endpoints :
            /\ row.route = route[r]
            /\ GoTo(r, "policy")
            /\ ep' = [ep EXCEPT ![r] = row.id]
            /\ UNCHANGED failed
       \/ /\ \A row \in endpoints : row.route # route[r]
          /\ GoTo(r, "next")
          /\ UNCHANGED <<ep, failed>>
       \/ /\ "lookup" \in Faults
          /\ GoTo(r, "next")
          /\ failed' = [failed EXCEPT ![r] = @ \cup {"lookup"}]
          /\ UNCHANGED ep
    /\ UNCHANGED <<mgmtVars, obsVars, route, claim, valid, rule, counted, served>>

\* GetByMethodPath; every error is taken for "not managed".
Lookup(r) ==
    /\ at[r] = "lookup"
    /\ \/ \E row \in endpoints :
            /\ row.route = route[r]
            /\ GoTo(r, IF row.status = "active" THEN "policy" ELSE "gone")
            /\ ep' = [ep EXCEPT ![r] = row.id]
            /\ UNCHANGED failed
       \/ /\ \A row \in endpoints : row.route # route[r]
          /\ GoTo(r, "next")
          /\ UNCHANGED <<ep, failed>>
       \/ /\ "lookup" \in Faults
          /\ GoTo(r, "next")
          /\ failed' = [failed EXCEPT ![r] = @ \cup {"lookup"}]
          /\ UNCHANGED ep
    /\ UNCHANGED <<mgmtVars, obsVars, route, claim, valid, rule, counted, served>>

\* The rate limit, if the policy has one and there is a Redis.
AfterPermission(ru) == IF NeedsLimit(ru) THEN "limit" ELSE "intercept"

\* Mutant: a limited endpoint skips the permission check.
AfterPolicy_Either(ru) ==
    IF NeedsPerm(ru) /\ ~NeedsLimit(ru) THEN "permission" ELSE AfterPermission(ru)

\* The permission check, if the policy has one.
AfterPolicy(ru) == IF NeedsPerm(ru) THEN "permission" ELSE AfterPermission(ru)

\* policy, _ := GetByEndpointID: some row of the endpoint, or nil when there is
\* none or the read failed.
ReadPolicy(r) ==
    /\ at[r] = "policy"
    /\ \/ \E p \in policies :
            /\ p.endpoint = ep[r]
            /\ rule' = [rule EXCEPT ![r] = p.rule]
            /\ GoTo(r, AfterPolicy(p.rule))
            /\ UNCHANGED failed
       \/ /\ \A p \in policies : p.endpoint # ep[r]
          /\ GoTo(r, AfterPolicy(NoRule))
          /\ UNCHANGED <<rule, failed>>
       \/ /\ "policy" \in Faults
          /\ GoTo(r, AfterPolicy(NoRule))
          /\ failed' = [failed EXCEPT ![r] = @ \cup {"policy"}]
          /\ UNCHANGED rule
    /\ UNCHANGED <<mgmtVars, obsVars, route, claim, valid, ep, counted, served>>

\* Mutant: the limiter counts before the answer of HasPermission is looked at.
CheckPermission_CountsFirst(r) ==
    /\ at[r] = "permission"
    /\ \/ GoTo(r, IF <<claim[r], rule[r].perm>> \in Granted
                  THEN AfterPermission(rule[r]) ELSE "forbidden")
       \/ "permission" \in Faults /\ GoTo(r, "error")
    /\ counted' = IF NeedsLimit(rule[r]) THEN counted \cup {r} ELSE counted
    /\ UNCHANGED <<mgmtVars, obsVars, route, claim, valid, ep, rule, failed, served>>

\* HasPermission for the organization of the token.
CheckPermission(r) ==
    /\ at[r] = "permission"
    /\ \/ GoTo(r, IF <<claim[r], rule[r].perm>> \in Granted
                  THEN AfterPermission(rule[r]) ELSE "forbidden")
       \/ "permission" \in Faults /\ GoTo(r, "error")
    /\ UNCHANGED <<mgmtVars, obsVars, route, claim, valid, ep, rule, failed,
                   counted, served>>

\* checkRateLimit: the request is counted and let through or not; an error of
\* Redis is answered like an exceeded limit.
Limit(r) ==
    /\ at[r] = "limit"
    /\ \/ /\ counted' = counted \cup {r}
          /\ GoTo(r, "intercept") \/ GoTo(r, "limited")
       \/ /\ "redis" \in Faults
          /\ GoTo(r, "limited")
          /\ UNCHANGED counted
    /\ UNCHANGED <<mgmtVars, obsVars, route, claim, valid, ep, rule, failed, served>>

\* The request interceptors: the schema validator may refuse the body.
Intercept(r) ==
    /\ at[r] = "intercept"
    /\ GoTo(r, IF valid[r] THEN "backend" ELSE "badRequest")
    /\ UNCHANGED <<mgmtVars, obsVars, route, claim, valid, ep, rule, failed,
                   counted, served>>

\* The backend gets the request; it answers or fails.
Backend(r) ==
    /\ at[r] = "backend"
    /\ served' = served \cup {r}
    /\ GoTo(r, "ok") \/ GoTo(r, "badGateway")
    /\ UNCHANGED <<mgmtVars, obsVars, route, claim, valid, ep, rule, failed, counted>>

RequestStep(r) ==
    \/ JWTAuthFails(r) \/ TenantResolverFails(r)
    \/ Enter(r) \/ Lookup(r) \/ ReadPolicy(r) \/ CheckPermission(r)
    \/ Limit(r) \/ Intercept(r) \/ Backend(r)

Manage == MgmtNext /\ Observe /\ UNCHANGED reqVars

\* Every call has returned and every request has its answer.
Quiet ==
    /\ \A c \in Calls : call[c] \in {Done, Failed}
    /\ \A r \in Requests : at[r] \in Answers
    /\ UNCHANGED vars

Next == Manage \/ (\E r \in Requests : RequestStep(r)) \/ Quiet

Spec == Init /\ [][Next]_vars

-----------------------------------------------------------------------------
(* Properties *)

\* What a request was told about its endpoint was true at some time since it
\* arrived: it is served only if the endpoint was active then, gets 410 only
\* if it was retired, and is passed on only if there was no such endpoint, or
\* the lookup failed.
LookupCurrent ==
    \A r \in Requests :
        /\ r \in served => "active" \in met[r]
        /\ at[r] = "gone" => "retired" \in met[r]
        /\ (at[r] = "next" /\ met[r] # {}) =>
              "absent" \in met[r] \/ "lookup" \in failed[r]

\* Request r satisfies a policy: permission and, with a Redis, rate limit.
Satisfies(r, ru) ==
    /\ NeedsPerm(ru) => <<claim[r], ru.perm>> \in Granted
    /\ NeedsLimit(ru) => r \in counted

\* The backend sees no request that fails the schema, nor one that does not
\* satisfy, as a whole, a policy its endpoint had since the request arrived;
\* the one way around is a failed read of the policy.
PolicyEnforced ==
    \A r \in served :
        /\ valid[r]
        /\ "policy" \in failed[r] \/ \E ru \in rules[r] : Satisfies(r, ru)

\* A request that is refused for want of a permission takes nothing from the
\* rate limit of the others.
OnlyPermittedCount ==
    \A r \in counted :
        \E ru \in rules[r] :
            NeedsLimit(ru) /\ (NeedsPerm(ru) => <<claim[r], ru.perm>> \in Granted)
=============================================================================
