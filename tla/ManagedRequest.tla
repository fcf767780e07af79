--------------------------- MODULE ManagedRequest ---------------------------
(***************************************************************************)
(* A request for a managed endpoint from its token to the row it reads or  *)
(* writes: Login and JWTAuth, the tenant resolver, the endpoint it finds,  *)
(* the request interceptors (schema validator, then PII masker) and the    *)
(* dynamic handler (internal/gateway/dynamic_handler.go), which proxies it *)
(* or turns it into SQL on a table named after the backend service.        *)
(*                                                                         *)
(* A step is a query, or what one request does alone between two queries.  *)
(* Endpoints, grants, slugs and accounts do not change here: what happens  *)
(* when they do is the subject of GatewayPipeline, Tenancy and             *)
(* PermissionCache.  The limiter, which ends a request as a missing grant  *)
(* does, is that of RateLimiter.  Handlers registered by name and service  *)
(* configurations are left out: the server registers none.                 *)
(*                                                                         *)
(* A JSON document is the set of its leaves, each with the keys and array  *)
(* positions (Item) that lead to it and whether its value is "***".        *)
(*                                                                         *)
(* The handler pastes the keys of a body into its INSERT and UPDATE as     *)
(* they are.  Only some keys (Names) PostgreSQL reads as one column; what  *)
(* a statement with another key does is up to that key: it is refused, or  *)
(* changes and shows records as it likes.                                  *)
(***************************************************************************)
EXTENDS Integers, Sequences, FiniteSets

CONSTANTS
    Requests,
    Inputs,         \* the requests clients send
    Users, Active,  \* users, and those whose account is active
    Orgs, NilOrg,   \* organizations, and uuid.Nil
    Issued,         \* tokens of other issuers, which name an organization
    OrgOf,          \* organization of a subdomain's slug
    Workspaces,
    WorkspaceOf,    \* for an organization, the workspace of a slug
    Grants,         \* <<user, organization>> that have the permission
    Apps,
    Endpoints,      \* active endpoints, v1
    Urls,           \* backend services that are URLs
    Plural,         \* of a backend service without its suffix
    Tables,
    Singular,       \* of a table, in any case: the path segments equal to it
    Keys, Item,     \* keys of objects; any position of an array
    Sensitive,      \* keys that match a mask pattern
    Names,          \* keys that PostgreSQL reads as the name of one column
    ColumnOf,       \* that column
    Writable,       \* records that a statement with another key may write
    Accepts,        \* of a schema, the bodies that satisfy it
    MaxLimit, DefaultLimit,  \* of a list: 100 and 20
    Ids,            \* uuids of records
    Seed,           \* records of the table to begin with
    Faults,         \* kinds of failures that may happen
    None, Bad       \* absent; present and malformed

Methods  == {"GET", "POST", "PUT", "PATCH", "DELETE"}
WithBody == {"POST", "PUT", "PATCH"}
Actions  == {"list", "get", "create", "update", "delete", "archive"}
Reserved == {"id", "organization_id", "app_id", "created_at", "updated_at"}

AnyOrg == Orgs \cup {NilOrg}
Tokens == [user : Users, org : AnyOrg]
Leaves == [path : Seq(Keys \cup {Item}), masked : BOOLEAN]
Bodies == [kind : {"none", "json", "other"}, leaves : SUBSET Leaves]
NoBody == [kind |-> "none", leaves |-> {}]
Record == [table : Tables, id : Ids, org : AnyOrg, app : Apps, born : Nat,
           data : SUBSET Leaves]

\* deriveTableName: the name in the schema, else the plural of the service.
TableOf(e) == IF e.table # None THEN e.table ELSE Plural[e.service]

\* A table that does not exist only fails, as QueryFails does: each generic
\* endpoint has one of Tables.  Its method is one that DefineEndpoint takes.
EndpointsTyped ==
    /\ \A e \in Endpoints : e.app \in Apps /\ e.method \in Methods
    /\ \A e \in Endpoints : e.service \notin Urls => TableOf(e) \in Tables
    /\ \A e, f \in Endpoints :
         <<e.app, e.method, e.path>> = <<f.app, f.method, f.path>> => e = f

InputsTyped ==
    \A i \in Inputs :
        /\ i.body \in Bodies /\ (i.body.kind # "json" => i.body.leaves = {})
        /\ i.org \in AnyOrg \cup {None, Bad}
        /\ i.workspace \in Workspaces \cup {None, Bad}
        /\ Len(i.path) \in Nat

ASSUME RequestAssumption ==
    /\ Active \subseteq Users
    /\ Issued \subseteq Tokens
    /\ Grants \subseteq Users \X AnyOrg
    /\ \A h \in DOMAIN OrgOf : OrgOf[h] \in Orgs
    /\ \A o \in DOMAIN WorkspaceOf : \A s \in DOMAIN WorkspaceOf[o] :
         WorkspaceOf[o][s] \in Workspaces
    /\ Keys \cap {Item} = {} /\ Sensitive \subseteq Keys
    /\ Names \subseteq Keys
    /\ Writable \subseteq Record /\ IsFiniteSet(Writable)
    /\ IsFiniteSet(Ids)
    /\ Seed \subseteq Record /\ IsFiniteSet(Seed)
    /\ \A x, y \in Seed : x.id = y.id => x = y
    /\ EndpointsTyped /\ InputsTyped
    /\ ({None, Bad} \cup {NilOrg}) \cap (Apps \cup Orgs) = {}
    /\ None \notin Endpoints \cup Inputs \cup Tokens
    /\ Bad \notin Ids \cup Bodies

VARIABLES
    tokens,  \* tokens that are valid now
    at,      \* where each request is
    in,      \* what the client sent
    token,   \* the claims JWTAuth put into the context
    ctx,     \* tenant and workspace the resolver put there
    ep,      \* endpoint
    body,    \* req.Body
    total,   \* handleList: the result of its first query
    rows,    \* the records of all tables
    used,    \* uuids given out
    reply,   \* how the request was answered
    seen,    \* history: records in the answer
    proxied  \* history: <<endpoint, method, body>> sent to another service

reqVars == <<at, in, token, ctx, ep, body, total, reply, seen>>
vars    == <<tokens, reqVars, rows, used, proxied>>

Places == {"new", "tenant", "enforce", "intercept", "backend", "select", "done"}

TypeOK ==
    /\ tokens \subseteq Tokens
    /\ at \in [Requests -> Places]
    /\ in \in [Requests -> Inputs \cup {None}]
    /\ token \in [Requests -> Tokens \cup {None}]
    /\ ctx \in [Requests -> [tenant : AnyOrg, workspace : Workspaces \cup {None}] \cup {None}]
    /\ ep \in [Requests -> Endpoints \cup {None}]
    /\ body \in [Requests -> Bodies]
    /\ total \in [Requests -> Nat]
    /\ rows \subseteq Record
    /\ used \subseteq Ids
    /\ reply \in [Requests -> Nat]
    /\ seen \in [Requests -> SUBSET Record]
    /\ \A r \in Requests :
         /\ at[r] \in Places \ {"new", "done"} => in[r] \in Inputs /\ token[r] \in Tokens
         /\ at[r] \in {"intercept", "backend", "select"} =>
              ep[r] \in Endpoints /\ ep[r].app = in[r].app

Init ==
    /\ tokens = Issued
    /\ at = [r \in Requests |-> "new"]
    /\ in = [r \in Requests |-> None]
    /\ token = [r \in Requests |-> None]
    /\ ctx = [r \in Requests |-> None]
    /\ ep = [r \in Requests |-> None]
    /\ body = [r \in Requests |-> NoBody]
    /\ total = [r \in Requests |-> 0]
    /\ rows = Seed
    /\ used = {x.id : x \in Seed}
    /\ reply = [r \in Requests |-> 0]
    /\ seen = [r \in Requests |-> {}]
    /\ proxied = {}

-----------------------------------------------------------------------------
(* Tokens *)

\* Login: the account is active and the password right; the claims name no
\* organization.  Otherwise no token is made and nothing changes.
Login(u) ==
    /\ u \in Active
    /\ tokens' = tokens \cup {[user |-> u, org |-> NilOrg]}
    /\ UNCHANGED <<reqVars, rows, used, proxied>>

\* ExpiresAt passes.
Expire(t) ==
    /\ tokens' = tokens \ {t}
    /\ UNCHANGED <<reqVars, rows, used, proxied>>

-----------------------------------------------------------------------------
(* The way to the backend *)

Answer(r, status) ==
    /\ at' = [at EXCEPT ![r] = "done"]
    /\ reply' = [reply EXCEPT ![r] = status]

GoTo(r, where) == at' = [at EXCEPT ![r] = where] /\ UNCHANGED reply

\* JWTAuth: no token, or one that does not validate (any more).
JWTAuthFails(r) ==
    /\ at[r] = "new"
    /\ Answer(r, 401)
    /\ UNCHANGED <<tokens, in, token, ctx, ep, body, total, rows, used, seen, proxied>>

\* JWTAuth: the claims of a valid token go into the context.
JWTAuth(r, i, t) ==
    /\ at[r] = "new"
    /\ t \in tokens
    /\ in' = [in EXCEPT ![r] = i]
    /\ token' = [token EXCEPT ![r] = t]
    /\ body' = [body EXCEPT ![r] = i.body]
    /\ GoTo(r, "tenant")
    /\ UNCHANGED <<tokens, ctx, ep, total, rows, used, seen, proxied>>

\* Header, else claim, else subdomain; found says whether the query worked.
TenantOf(i, t, found) ==
    IF i.org \notin {None, NilOrg} THEN i.org
    ELSE IF t.org # NilOrg THEN t.org
    ELSE IF found /\ i.host \in DOMAIN OrgOf THEN OrgOf[i.host]
    ELSE NilOrg

\* The header, read as a uuid, else the slug in the tenant; only with a tenant.
WorkspaceIn(i, org, found) ==
    IF org = NilOrg THEN None
    ELSE IF i.workspace \notin {None, Bad} THEN i.workspace
    ELSE IF found /\ org \in DOMAIN WorkspaceOf /\ i.slug \in DOMAIN WorkspaceOf[org]
    THEN WorkspaceOf[org][i.slug]
    ELSE None

\* TenantResolverWithWorkspace: only a malformed X-Organization-ID is refused.
ResolveTenant(r) ==
    /\ at[r] = "tenant"
    /\ \/ /\ in[r].org = Bad
          /\ Answer(r, 400)
          /\ UNCHANGED ctx
       \/ /\ in[r].org # Bad
          /\ \E found \in {TRUE} \cup (IF "read" \in Faults THEN {FALSE} ELSE {}) :
               LET org == TenantOf(in[r], token[r], found)
               IN ctx' = [ctx EXCEPT ![r] =
                     [tenant |-> org, workspace |-> WorkspaceIn(in[r], org, found)]]
          /\ GoTo(r, "enforce")
    /\ UNCHANGED <<tokens, in, token, ep, body, total, rows, used, seen, proxied>>

\* The paths of endpoints are compared literally.
Matching(i) ==
    {e \in Endpoints : e.app = i.app /\ e.method = i.method /\ e.path = i.path}

\* Enforce up to the interceptors, for an active endpoint whose policy may ask
\* for a permission: that is looked up in the organization of the token.
\* Answer 0: the request goes on to the router's own handlers.
Enforce(r) ==
    /\ at[r] = "enforce"
    /\ \/ in[r].app = Bad /\ Answer(r, 400) /\ UNCHANGED ep
       \/ /\ in[r].app # Bad
          /\ Matching(in[r]) = {} \/ "read" \in Faults
          /\ Answer(r, 0) /\ UNCHANGED ep
       \/ \E e \in Matching(in[r]) :
            /\ ep' = [ep EXCEPT ![r] = e]
            /\ IF e.guarded => <<token[r].user, token[r].org>> \in Grants
               THEN GoTo(r, "intercept") ELSE Answer(r, 403)
    /\ UNCHANGED <<tokens, in, token, ctx, body, total, rows, used, seen, proxied>>

-----------------------------------------------------------------------------
(* Request interceptors.  A body or Bad, which is the interceptor's error. *)

\* SchemaValidator: a schema that is no JSON object fits nothing.
ValidateBody(e, method, b) ==
    IF e.schema = None \/ method \notin WithBody \/ b = NoBody THEN b
    ELSE IF e.schema \in DOMAIN Accepts /\ b \in Accepts[e.schema] THEN b
    ELSE Bad

\* Mutant: maskMap without its second branch, for arrays.
Walked_NoArrays(path, i) == \A j \in 1..i : path[j] # Item

\* maskMap reaches the object that holds step i of a path: it goes into maps
\* and into the maps of an array, but not into an array in an array.
Walked(path, i) ==
    /\ path[1] # Item
    /\ \A j \in 1..(i - 1) : path[j] # Item \/ path[j + 1] # Item

Hits(path) == {i \in DOMAIN path : path[i] \in Sensitive /\ Walked(path, i)}

\* m[key] = "***" replaces all that is below the key.
MaskLeaf(l) ==
    IF Hits(l.path) = {} THEN l
    ELSE LET first == CHOOSE i \in Hits(l.path) : \A j \in Hits(l.path) : i <= j
         IN [path |-> SubSeq(l.path, 1, first), masked |-> TRUE]

\* maskBody and what InterceptRequest of PIIMasker asks before it: what does not
\* unmarshal into a map stays as it is.
MaskBody(e, method, b) ==
    IF ~e.masking \/ method \notin WithBody THEN b
    ELSE [b EXCEPT !.leaves = {MaskLeaf(l) : l \in @}]

\* Mutant: the masker in front of the validator.
InterceptRequest_MaskFirst(e, method, b) ==
    ValidateBody(e, method, MaskBody(e, method, b))

\* Chain.InterceptRequest: validator, masker; the first error ends the chain.
InterceptRequest(e, method, b) ==
    LET validated == ValidateBody(e, method, b)
    IN IF validated = Bad THEN Bad ELSE MaskBody(e, method, validated)

Intercept(r) ==
    /\ at[r] = "intercept"
    /\ LET b == InterceptRequest(ep[r], in[r].method, body[r])
       IN IF b = Bad
          THEN Answer(r, 400) /\ UNCHANGED body
          ELSE body' = [body EXCEPT ![r] = b] /\ GoTo(r, "backend")
    /\ UNCHANGED <<tokens, in, token, ctx, ep, total, rows, used, seen, proxied>>

-----------------------------------------------------------------------------
(* ResolveHandler *)

\* handleHTTPProxy: the service answers (with any status, here 200) or the call
\* fails, before or after the service saw it.
Proxy(r) ==
    /\ at[r] = "backend"
    /\ ep[r].service \in Urls
    /\ \/ "proxy" \in Faults /\ Answer(r, 502) /\ UNCHANGED proxied
       \/ /\ proxied' = proxied \cup {<<ep[r], in[r].method, body[r]>>}
          /\ Answer(r, 200) \/ ("proxy" \in Faults /\ Answer(r, 502))
    /\ UNCHANGED <<tokens, in, token, ctx, ep, body, total, rows, used, seen>>

\* extractIDFromPath: the segment after the first one that is the singular of
\* the table, in whatever case; Bad if there is none or if it is no uuid.
IDInPath(path, table) ==
    LET after == {k \in 2..Len(path) : path[k - 1] \in Singular[table]}
        first == CHOOSE k \in after : \A l \in after : k <= l
    IN IF after # {} /\ path[first] \in Ids THEN path[first] ELSE Bad

\* Mutant: every field becomes a column, the reserved ones included.
Fields_All(r) ==
    IF in[r].method \in {"GET", "DELETE"} THEN {}
    ELSE {l \in body[r].leaves : l.path[1] \in Keys}

\* requestData: the fields of an object; anything else gives none, and so does
\* a method that generic handling expects no body of.
Fields(r) ==
    IF in[r].method \in {"GET", "DELETE"} THEN {}
    ELSE {l \in body[r].leaves : l.path[1] \in Keys \ Reserved}

\* The columns of a statement whose keys are all Names.
ColumnsOf(fields) == {ColumnOf[l.path[1]] : l \in fields}

\* PostgreSQL refuses a column that a statement names twice.
Twice(fields, own) ==
    \/ ColumnsOf(fields) \cap own # {}
    \/ \E l, m \in fields :
         l.path[1] # m.path[1] /\ ColumnOf[l.path[1]] = ColumnOf[m.path[1]]

Generic(r, action) ==
    /\ at[r] = "backend"
    /\ ep[r].service \notin Urls
    /\ ep[r].action = action

\* Request r is about to write with a key that is more, or less, than a column.
Pasted(r) ==
    /\ Generic(r, "create") \/ Generic(r, "update")
    /\ \E l \in Fields(r) : l.path[1] \notin Names

\* Mutant: the tenant of the request instead of the organization of its token.
Mine_Tenant(r) ==
    {x \in rows :
        x.table = TableOf(ep[r]) /\ x.org = ctx[r].tenant /\ x.app = in[r].app}

\* FROM table WHERE organization_id = $1 AND app_id = $2, with OrgIDFromContext,
\* which is the claim of the token, and X-App-ID.
Mine(r) ==
    {x \in rows :
        x.table = TableOf(ep[r]) /\ x.org = token[r].org /\ x.app = in[r].app}

\* Mutant: without id = $3.
Target_NoID(r) == Mine(r)

\* ... AND id = $3
Target(r) == {x \in Mine(r) : x.id = IDInPath(in[r].path, TableOf(ep[r]))}

\* handleList, first query.
ListCount(r) ==
    /\ Generic(r, "list")
    /\ total' = [total EXCEPT ![r] = Cardinality(Mine(r))]
    /\ GoTo(r, "select")
    /\ UNCHANGED <<tokens, in, token, ctx, ep, body, rows, used, seen, proxied>>

LimitOf(n) == IF n <= 0 \/ n > MaxLimit THEN DefaultLimit ELSE n

\* page could be LIMIT rows of Mine from OFFSET on, newest first: rows of the
\* same created_at PostgreSQL orders as it likes.
IsPage(r, page) ==
    \E skipped, rest \in SUBSET (Mine(r) \ page) :
      /\ skipped \cap rest = {} /\ Mine(r) = skipped \cup page \cup rest
      /\ \A x \in skipped, y \in page \cup rest : x.born >= y.born
      /\ \A x \in page, y \in rest : x.born >= y.born
      /\ \/ Cardinality(skipped) = in[r].offset
         \/ Cardinality(skipped) < in[r].offset /\ page \cup rest = {}
      /\ \/ Cardinality(page) = LimitOf(in[r].limit)
         \/ Cardinality(page) < LimitOf(in[r].limit) /\ rest = {}

\* handleList, second query: PostgreSQL refuses a negative offset.
ListSelect(r) ==
    /\ at[r] = "select"
    /\ IF in[r].offset < 0
       THEN Answer(r, 500) /\ UNCHANGED seen
       ELSE /\ Answer(r, 200)
            /\ \E page \in SUBSET Mine(r) :
                 IsPage(r, page) /\ seen' = [seen EXCEPT ![r] = page]
    /\ UNCHANGED <<tokens, in, token, ctx, ep, body, total, rows, used, proxied>>

\* handleGet; no id in the path and no such record are both answered 500.
Get(r) ==
    /\ Generic(r, "get")
    /\ seen' = [seen EXCEPT ![r] = Target(r)]
    /\ Answer(r, IF Target(r) = {} THEN 500 ELSE 200)
    /\ UNCHANGED <<tokens, in, token, ctx, ep, body, total, rows, used, proxied>>

\* The answer to a statement, which may be lost after it was executed.
Executed(r, status) == Answer(r, status) \/ ("reply" \in Faults /\ Answer(r, 500))

\* handleCreate or handleUpdate with such a key.  PostgreSQL refuses the
\* statement, or runs it: records of any organization and app go or are written,
\* under ids that stay unique, and the row it answers with may show them all.
RunPasted(r) ==
    /\ Pasted(r)
    /\ \/ Answer(r, 500) /\ UNCHANGED <<rows, used, seen>>
       \/ /\ ep[r].action = "update" => IDInPath(in[r].path, TableOf(ep[r])) # Bad
          /\ \E gone \in SUBSET rows, new \in SUBSET Writable :
               /\ rows' = (rows \ gone) \cup new
               /\ used' = used \cup {x.id : x \in new}
          /\ \A x, y \in rows' : x.id = y.id => x = y
          /\ seen' = [seen EXCEPT ![r] = rows \cup rows']
          /\ Executed(r, IF ep[r].action = "create" THEN 201 ELSE 200)
    /\ UNCHANGED <<tokens, in, token, ctx, ep, body, total, proxied>>

\* handleCreate
Create(r) ==
    /\ Generic(r, "create") /\ ~Pasted(r)
    /\ IF Twice(Fields(r), Reserved)
       THEN Answer(r, 500) /\ UNCHANGED <<rows, used, seen>>
       ELSE \E id \in Ids \ used :
              LET x == [table |-> TableOf(ep[r]), id |-> id, org |-> token[r].org,
                        app |-> in[r].app, born |-> Cardinality(used), data |-> Fields(r)]
              IN /\ rows' = rows \cup {x}
                 /\ used' = used \cup {id}
                 /\ seen' = [seen EXCEPT ![r] = {x}]
                 /\ Executed(r, 201)
    /\ UNCHANGED <<tokens, in, token, ctx, ep, body, total, proxied>>

\* What SET may make of x: the fields' columns get their values, which for a
\* reserved column that the body spells differently can be any.
Updates(x, fields) ==
    LET cols == ColumnsOf(fields)
        Free(col, values, old) == IF col \in cols THEN values ELSE {old}
        kept == {l \in x.data : ColumnOf[l.path[1]] \notin cols}
        written == {l \in fields : ColumnOf[l.path[1]] \notin Reserved}
    IN [table : {x.table},
        id   : Free("id", Ids \ (used \ {x.id}), x.id),
        org  : Free("organization_id", AnyOrg, x.org),
        app  : Free("app_id", Apps, x.app),
        born : Free("created_at", 0..Cardinality(Ids), x.born),
        data : {kept \cup written}]

\* handleUpdate
Update(r) ==
    /\ Generic(r, "update") /\ ~Pasted(r)
    /\ IF Target(r) = {} \/ Twice(Fields(r), {"updated_at"})
       THEN Answer(r, 500) /\ UNCHANGED <<rows, used, seen>>
       ELSE \E x \in Target(r) : \E y \in Updates(x, Fields(r)) :
              /\ rows' = (rows \ {x}) \cup {y}
              /\ used' = used \cup {y.id}
              /\ seen' = [seen EXCEPT ![r] = {y}]
              /\ Executed(r, 200)
    /\ UNCHANGED <<tokens, in, token, ctx, ep, body, total, proxied>>

\* handleDelete
Delete(r) ==
    /\ Generic(r, "delete")
    /\ rows' = rows \ Target(r)
    /\ IF Target(r) = {} THEN Answer(r, 500) ELSE Executed(r, 200)
    /\ UNCHANGED <<tokens, in, token, ctx, ep, body, total, used, seen, proxied>>

\* The default case of the switch on backend_action.
UnknownAction(r) ==
    /\ Generic(r, "archive")
    /\ Answer(r, 400)
    /\ UNCHANGED <<tokens, in, token, ctx, ep, body, total, rows, used, seen, proxied>>

\* A statement of the generic handler that is not executed: dbErr.
QueryFails(r) ==
    /\ "write" \in Faults
    /\ at[r] = "select" \/ \E a \in Actions \ {"archive"} : Generic(r, a)
    /\ Answer(r, 500)
    /\ UNCHANGED <<tokens, in, token, ctx, ep, body, total, rows, used, seen, proxied>>

ResolveHandler(r) ==
    \/ Proxy(r) \/ ListCount(r) \/ ListSelect(r) \/ Get(r) \/ Create(r)
    \/ Update(r) \/ RunPasted(r) \/ Delete(r) \/ UnknownAction(r) \/ QueryFails(r)

RequestStep(r) ==
    \/ JWTAuthFails(r)
    \/ \E i \in Inputs, t \in Tokens : JWTAuth(r, i, t)
    \/ ResolveTenant(r) \/ Enforce(r) \/ Intercept(r) \/ ResolveHandler(r)

Next ==
    \/ \E u \in Users : Login(u)
    \/ \E t \in Tokens : Expire(t)
    \/ \E r \in Requests : RequestStep(r)

Spec == Init /\ [][Next]_vars

-----------------------------------------------------------------------------
(* Properties *)

Acts(r) == at'[r] # at[r]

\* Record x is in the app whose endpoint request r matched, and in the
\* organization its permission was asked in.
InScope(r, x) == x.app = ep[r].app /\ x.org = token[r].org

\* A body that spells the name of a reserved column in another case: the
\* handler compares keys as they are written, PostgreSQL folds them.
Respelled(b) ==
    \E l \in b.leaves : l.path[1] \in Names \ Reserved /\ ColumnOf[l.path[1]] \in Reserved

\* Such a body in an update, which replaces a record.
Moved(r) == Respelled(body[r]) /\ ~ (rows \subseteq rows')

IsolatedStep ==
    \A r \in Requests : Acts(r) /\ ~Pasted(r) =>
      /\ \A x \in rows \ rows' : InScope(r, x)
      /\ \A x \in rows' \ rows : InScope(r, x) \/ Moved(r)
      /\ \A x \in rows \cap seen'[r] : InScope(r, x)

\* dynamic_handler.go 313: "with multi-tenant isolation".  A request whose keys
\* are column names changes, removes or returns only records in its scope, and
\* leaves what it creates or changes there, unless it Moved it.  A statement
\* with a pasted key is isolated by nothing.
Isolated == [][IsolatedStep]_vars

OwnerKeptStep ==
    \A y \in rows' \ rows :
      \/ \E x \in rows : <<x.id, x.org, x.app, x.born>> = <<y.id, y.org, y.app, y.born>>
      \/ y.id \notin used
      \/ \E r \in Requests : Acts(r) /\ (Moved(r) \/ Pasted(r))

\* A record keeps its identity, owner and time of creation through updates,
\* unless a key of the body is a reserved column in another case, or no name.
OwnerKept == [][OwnerKeptStep]_vars

\* A sensitive value in the clear.
Exposed(l) == ~l.masked /\ \E i \in DOMAIN l.path : l.path[i] \in Sensitive

\* ... behind an array that the masker does not enter.
Unreached(l) ==
    \/ l.path[1] = Item
    \/ \E j \in 1..(Len(l.path) - 1) : l.path[j] = Item /\ l.path[j + 1] = Item

MaskedAtBackendStep ==
    /\ \A y \in rows' \ rows, r \in Requests :
         Acts(r) /\ ep[r].masking /\ ~Pasted(r) =>
           \A l \in y.data : Exposed(l) =>
              \/ Unreached(l) /\ l.path[1] # Item
              \/ \E x \in rows \ rows' : l \in x.data
    /\ \A p \in proxied' : p[1].masking /\ p[2] \in WithBody =>
           \A l \in p[3].leaves : Exposed(l) => Unreached(l)

\* Through an endpoint with PII masking no sensitive value reaches a record or
\* another service in the clear, whatever schema, strategy and nesting; except
\* one within an array in an array, and, on the way to another service, one in
\* an array at the top or in the body of a GET or DELETE.  (What a pasted key
\* writes is its own affair.)
MaskedAtBackend == [][MaskedAtBackendStep]_vars

\* What a client sent with a method that has a body satisfies the schema.
Conforms(r) ==
    LET e == ep[r] IN
    \/ e.schema = None \/ in[r].method \notin WithBody \/ in[r].body = NoBody
    \/ e.schema \in DOMAIN Accepts /\ in[r].body \in Accepts[e.schema]

\* The schema is about what the client sent, not about what masking makes of
\* it: a request is refused by the interceptors only if that does not satisfy
\* it, and gets to a backend only if it does.
SchemaDecides ==
    \A r \in Requests : ep[r] # None =>
        /\ at[r] \in {"backend", "select"} => Conforms(r)
        /\ (at[r] = "done" /\ reply[r] = 400) =>
              ~Conforms(r) \/ ep[r].action = "archive"

NamedByPathStep ==
    \A r \in Requests :
      Acts(r) /\ ~Pasted(r) /\ (\E a \in {"get", "update", "delete"} : Generic(r, a)) =>
        LET named == {x \in rows : \E k \in 2..Len(in[r].path) : in[r].path[k] = x.id}
        IN  /\ rows \ rows' \subseteq named
            /\ rows \cap seen'[r] \subseteq named
            /\ reply'[r] = 200 => \E x \in named : InScope(r, x)

\* Get, update and delete concern one record, the one whose id the path of the
\* request holds: no other is shown, changed or removed, though an update may
\* give a record another id; and the answer is 200 only if it was there, in the
\* scope of the request, when the statement ran.
NamedByPath == [][NamedByPathStep]_vars
=============================================================================
