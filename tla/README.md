# TLA+ verification of masterfabric-go

masterfabric-go is a multi-tenant API gateway and management server written in
Go: users, organizations, apps and workspaces live in PostgreSQL; apps define
endpoints, with policies; requests for a managed path pass through a pipeline
that looks the endpoint up, checks permissions, limits the rate, runs
interceptors and hands the request to a backend; Redis holds rate counters and
cached permissions; domain events go through an event bus, in process or on
Kafka.

This directory holds TLA+ modules of the parts of that server whose steps
interleave, fail or race, TLC configurations that check them on small instances,
and theorems about them that the TLA+ proof system (TLAPS) checks for all values
of the constants. All paths below are relative to the repository;
`internal/...` and `cmd/...` are its Go sources. `PROJECT.json` says for every
definition which lines it models, for every property which plausible bug breaks
it, and lists the runs, hazards, findings and theorems.

## 1. The system

| Component | State | Operations | Modelled in |
|---|---|---|---|
| In-process event bus, `shared/events/inprocess.go` | handler map under an RWMutex, buffered channel, `done` channel | Publish, Subscribe, Close, the dispatch goroutine | `InProcessBus`, `EventDelivery` |
| Kafka event bus, `infrastructure/kafka` | handler map, one reader and goroutine per topic; in the broker, logs and the group's offsets | Publish, Subscribe, Start, consumeLoop, Close | `KafkaConsumer` |
| Rate limiter, `gateway/pipeline.go` `checkRateLimit` | a counter with a time to live per app and endpoint, in Redis | INCR, EXPIRE, compare | `RateLimiter` |
| Permission cache, `infrastructure/auth/rbac_service.go`, and `assign_role.go` | `user_roles` and what it joins, in PostgreSQL; a list per user and organization in Redis | GetUserPermissions, HasPermission, HasAnyPermission, InvalidateCache, AssignRole | `PermissionCache` |
| API management, `application/apimanagement/usecase` | `app_endpoints`, `app_endpoint_policies` | DefineEndpoint, RetireEndpoint, ActivateEndpoint, UpdatePolicy | `EndpointManagement` |
| Gateway pipeline, `gateway/pipeline.go` `Enforce` | none of its own; reads all of the above for each request | Enforce, behind JWTAuth and the tenant resolver | `GatewayPipeline` |
| Creation of tenants and users, `application/tenant/usecase`, `register.go` | `users`, `organizations`, `apps`, `workspaces` | Register, CreateOrg, CreateApp, CreateWorkspace, UpdateWorkspace | `Tenancy` |
| Login and tokens, `login.go`, `jwt_service.go`, `middleware/auth.go` | none; tokens outlive it | Login, GenerateToken, ValidateToken, JWTAuth | `ManagedRequest` |
| Tenant context, `shared/middleware/tenant.go` | context of a request | TenantResolverWithWorkspace | `ManagedRequest` |
| Dynamic handler, `gateway/dynamic_handler.go` | any tenant table | choice of a strategy, proxy, generic CRUD | `ManagedRequest`, without registered handlers |
| Interceptors, `infrastructure/gateway/interceptors` | none | schema validation, PII masking | `ManagedRequest`, requests only |
| Server lifecycle, `cmd/server/main.go`, health handler | connections, bus, listener | startup, readiness, graceful and forced shutdown | `ServerLifecycle` |
| Kafka administration, `infrastructure/kafka/admin.go` | topics in the broker | EnsureTopics | its result in `ServerLifecycle` |
| API keys, `manage_api_keys.go`, `gateway/resolver.go` | `app_api_keys` | create, list, revoke; resolver (not wired) | `AdminReads` |
| Reads of the administrative API, `infrastructure/http/handler`, `shared/pagination` | none | lists, single rows | `AdminReads` |
| Audit, its handler and repository | `audit_logs` | lists; Create and the middleware are not wired | `AdminReads`, without the middleware |
| Routing, middleware, shared helpers | none | order of the middleware, decode, call, encode | where a module needs it |
| Memberships and role administration, `org_user_repository.go` and parts of `role_repository.go` | `organization_users`, `roles` | no caller | no |
| Telemetry, logging, deployment | none that the program reads | | no |

How they interact. The router puts JWTAuth, the tenant resolver and
`Pipeline.Enforce` before its own handlers, each request in a goroutine. `Enforce` reads the tables
that the API management use cases write, without a transaction and
without a lock. Its permission check reads the cache that AssignRole
invalidates. Its limiter shares Redis counters with every other gateway
process. After `Enforce` the dynamic handler turns a request into SQL on a table named after
the endpoint's backend, or forwards it. Use cases publish events after their write has been committed; the bus
may drop an event, and every caller ignores the result of Publish. The
subscribed handlers (`main.go` 242-255) only log. The server subscribes while it is
wired and closes bus, Redis and PostgreSQL, in this order, in `defer`s when `run` returns.

What is hard about it:

- *Nothing is transactional.* Every use case is a sequence of single queries, and
  a check and the write that relies on it are two of them. What holds under races
  holds because of unique constraints; what no constraint covers
  (policies, lost updates) goes wrong.
- *Redis commands are separate steps* and their errors are often ignored: a
  crash or an error between INCR and EXPIRE, or between commit and DEL, stays.
- *Errors are taken for "not found"* in several lookups (duplicates, policy).
- *Two goroutine protocols*, dispatch/Close of the in-process bus and consumeLoop/Close of
  the Kafka bus, have to drain or stop and not hang.
- *Two organizations* may be at work in one request: that of the token and that of
  the tenant context.
- *Shutdown gives up* after 30 s while requests are still running on what it closes.
- *Lists are two statements*, a COUNT and a SELECT, and several pages.
- *Offsets* of a Kafka group move past failed messages.
- *Everything can be overtaken*: a request works with an endpoint and a policy
  that change while it is in the pipeline.

The hazards, each with its line and the properties that watch it, are listed in
`PROJECT.json`; those without a property say why.

## 2. The modules

| Module | Extends / instantiates | Purpose |
|---|---|---|
| `EventDelivery` | | abstract: what an event bus promises to publishers and handlers |
| `InProcessBus` | INSTANCE `EventDelivery` | the channel-based bus, and that it implements `EventDelivery` |
| `RateLimiter` | | the counter, requests of several processes, the clock |
| `PermissionCache` | | checks, assignments, the cache and the table |
| `KafkaConsumer` | | one topic, its group, one process after another |
| `EndpointManagement` | | use cases over endpoints and policies |
| `GatewayPipeline` | EXTENDS `EndpointManagement` | requests through Enforce, composed with the use cases |
| `Tenancy` | | use cases that put names into tables |
| `ManagedRequest` | | one request from its token to the row or the proxied call |
| `ServerLifecycle` | INSTANCE `EventDelivery` | `run`, its requests and the bus it closes |
| `AdminReads` | | paginated lists, single rows, API keys |
| `X_proofs` | EXTENDS `X`, TLAPS | theorems about `InProcessBus`, `KafkaConsumer`, `GatewayPipeline` (with `EndpointManagement`), `Tenancy`, `ManagedRequest`, `ServerLifecycle`, `AdminReads` |
| `GatewayRedis_proofs` | EXTENDS `RateLimiter`, `PermissionCache`, TLAPS | theorems about each of the two modules whose state is in Redis |
| `MCX` | EXTENDS `X` | values of constants, and symmetry sets, for TLC |

Conventions. An action is one step as other goroutines, processes or servers
can see it: a channel operation, a critical section, a Redis command, a query,
a handler call, a Publish. Variables below the comment "history" are no state of the
program; they remember what properties speak of. Operators whose comment begins
with "Mutant" are deliberate bugs; nothing refers to them, and they document which
slip of the code breaks a property. Failures
are always explicit actions or disjuncts: a command that is not executed, one that is
executed and whose reply is lost, a process that dies between two steps.

### InProcessBus and EventDelivery

`handlers` is `b.handlers`, `ch` the channel with its buffer, `closer` the
goroutine in Close, and `dpc`, `env`, `batch`, `next` the dispatch goroutine: where it
is, its loop variable, the slice it read under RLock, and its index in it.
Publish is `PublishQueued` or `PublishDropped` (the `default` of the select) or,
on a closed channel, `PublishPanics`; Close is `CloseChannel` and `CloseReturns`. A handler
may subscribe at any moment, also between the receive of an event and the read of
the map.

`EventDelivery` has one atomic `Deliver` in place of dispatch: the oldest event goes
to whoever is subscribed then. The mapping: an event has been delivered when
dispatch has read the map (that read decides who gets it); `Undelivered` is the
envelope in hand before that, and the buffer; `Received` counts a batch that is
being run as received. The refusal of an event is allowed at `Capacity` waiting
events; the envelope in dispatch's hand is one more than the buffer holds.

### RateLimiter

`count` and `ttl` are Redis, `pc` a request's place in `checkRateLimit`, `got` what
INCR returned. `Tick` lets a second (of a scaled minute) pass and removes expired
keys. A key's lives are numbered by `win`. The Redis client (`shared/cache/redis.go`) is left at its
defaults and sends a command again, up to `Retries` times, when the connection breaks before the reply: an INCR that was
executed and not answered (`IncrReplyLost`) has counted, and the next one counts again and is the one
the request decides on, so that a single request can count twice and, having read 2, never sets the time to live
of the key it created. `lives` is the life each executed INCR of a request counted in, `gen` that of the answered one.
An EXPIRE sent again (`ExpireReplyLost`) may meet a later life of the key. Other faults: INCR fails, after no attempt or after some that
were executed, and the request is answered 429, as in the code (`got` stays 0); EXPIRE fails; a gateway process
dies with the requests it serves (`Crash`). The constant `Faulty` says whose requests may meet faults.

### PermissionCache

A check is `Hit`, or `Miss` then `Query` then `Fill`; its answer is taken from
the list it ends with. An assignment is `Assign` (the INSERT), `Invalidate` (the
DEL), `Announce`. `Evict` is the time to live. `FillReplyLost` and `InvalidateReplyLost` are a SET and a DEL that
the client sends again because their reply was lost: a list that another request has invalidated
meanwhile is stored once more. The list is written to Redis
only when it is not empty, so a user without a permission is never cached, which is why
the first role is effective at once. No wired code takes a role away.

### KafkaConsumer

One topic; topics have readers of their own and share only Start and Close.
`log` and `committed` are the broker's. A process boots, subscribes, starts, works,
and is closed or crashes; then the next one is started and takes the group's committed
offset. `Fetch`, `RunHandler` (which may fail), `Commit` (whose failure is
logged and ignored) are the loop. With `StartFirst` the order is that of
`main.go`, Start before Subscribe. The run `kafka` takes the order which the
interface asks for, since otherwise nothing is ever consumed and every property
of the loop holds emptily; `kafka_start` shows what `main.go` does. `Foreign`
partitions hold messages that are no envelope.

### EndpointManagement and GatewayPipeline

`call` is where each API call is, with the rows it has read. Define is
`DefineLookup`, `DefineInsert`, `Announce`; Retire and Activate are `StatusLookup`,
`StatusUpdate`, `Announce`; UpdatePolicy is `PolicyLookup`, `PolicyWrite`.
The UPDATEs write every column of the row that was read.

A request is `Enter`, `Lookup`, `ReadPolicy`, `CheckPermission`, `Limit`,
`Intercept`, `Backend`, each with its ways to end. `met` and `rules` note
what the request's endpoint and policy have been since it arrived, which is what
the answers are compared with. The permission check and the limiter are
abstracted by what they may answer: their inner steps are the
subject of `PermissionCache` and `RateLimiter`. One request is enough: requests
meet only in the limiter, which here may refuse anybody it counts.

### Tenancy

`rows` are the four tables; a name is a slug or an email address. A create is
(`OrgLookup`, `CheckInOrg`) or `FirstCheck`, then `Insert`, `Announce`; an update is
`UpdateLookup`, `Recheck` (if the slug is to change), `UpdateWrite`. `Folded` is
`ToLower(TrimSpace(..))`, which workspaces' slugs go through. The status of an
update is not validated by the handler; the table's CHECK refuses an unknown
one. Organizations are always active and rows are never deleted, because no
code changes that.

### ManagedRequest

`at` is where a request is: "tenant" after JWTAuth, then "enforce", "intercept", "backend",
and "select" between the two queries of a list. A JSON document is the set of its
leaves, each with the keys and array positions (`Item`) on its path, which is what masking and schema
tell apart. The schema's verdict is a constant (`Accepts`), the masker's recursion
(`Walked`, `Hits`, `MaskLeaf`) is modelled by which of the paths it reaches. The generic
handler's statements are `Create`, `ListCount`, `ListSelect`, `Get`, `Update`,
`Delete`; `Mine` is their WHERE clause, and `IsPage` says what a list may show (among rows of one created_at in any order). The
handler puts the keys of a body into INSERT and UPDATE as they are, unquoted and unchecked
(`dynamic_handler.go` 401, 444). The constant `Names` is the set of keys that PostgreSQL reads as the name of one column; with any other key the
statement is whatever the key makes of it. `Pasted` says that a request is about to write with such a
key, and `RunPasted` is what may come of it: PostgreSQL refuses the statement, or runs it, and then any records of any organization and app may be gone,
any of `Writable` be there, and any be in the answer. For the other keys, columns are those PostgreSQL
takes a key for (`ColumnOf`), since it folds case and the handler's comparison with the reserved
columns does not: an update whose body spells `App_ID` (`Respelled`) may set `app_id` to anything,
and one that spells `ID` may give the record another id. Properties call such a request `Moved`.
`EndpointsTyped` and `InputsTyped` say which endpoints a define request can make and which requests the router can hand on.

### ServerLifecycle

`main` is where `run` is, `way` how it came to its deferred calls, `pc` where each request is.
`budget` says whether the ten seconds of the startup context are left,
`reach` which servers can be reached now (`Outage` changes it). A request is a use
case that takes a connection, writes a row, publishes and answers, or a probe of readiness. The in-process bus is
`EventDelivery`, which `InProcessBus` implements: the detailed bus is
replaced by its abstract specification. `ShutdownDone` needs idle connections,
`ShutdownTimesOut` does not and leaves requests running while the deferred calls are made.

### AdminReads

A list is `Ask`, `Count`, `Select`, with Go's int narrowed to `MaxInt` and wrapping around.
Among rows of one created_at PostgreSQL may choose any order (`IsPage`), and a connection
that fails while rows are read leaves a prefix, because rows.Err is not looked at (`Cut`). `walk`
is the history of the one client (`Watched`) that reads page after page up to the
total_pages it was told last. A row is stamped in `Stamp` and becomes visible in `Insert`,
maybe after one stamped later. `Resolve`, `GetByHash`, `ResolvedApp` are the resolver of API keys.

## 3. What TLC checks

`tlc -workers 2 -config X.cfg M` in this directory, for each row. All passing runs check deadlock;
where a system may come to rest (the bus closed, all calls and requests
answered, no further process) there is an explicit stuttering action with that condition as its guard.

| Run (`.cfg`) | Instance | What it shows |
|---|---|---|
| `bus` (`InProcessBus`) | 2 topics, 2 handlers, buffer of 2, 3 publishes, 2 subscriptions per topic | order of acceptance is order of handling (`FIFO`); a handler subscribed before an event was accepted gets it exactly once (`NoSubscriberMissed`); Close returns only when all accepted events were handled (`CloseDrains`), it returns; every accepted event is handled; the bus implements `EventDelivery`, liveness included |
| `rate` (`RateLimiter`) | 4 requests, 2 of them with every fault, 1 retry, 1 app, 2 endpoints, limit 2, window 2, 3 ticks | at most `Limit` admitted of those counted in one life of a key (`LimitPerWindow`); who read a count and was refused had at least `Limit` other INCRs of its own app and endpoint in its window (`DeniedOnlyWhenFull`; of as many other requests only if no reply was lost, since an INCR sent again counts again); fewer than twice the limit in any interval as long as a window (`BurstBound`); a key without a time to live has a request that will set it, or a recorded fault (`ExpiryArmed`) |
| `rbac` (`PermissionCache`) | 1 user, 2 organizations, 2 disjoint roles, 1 check, 2 assignments, all faults, commands sent again included, but truncated reads | the cache never holds more than the table grants (`CacheSound`); no undue `true` (`NoUndueGrant`); the first role that gives something is not hidden by the cache (`FirstRoleAtOnce`); every role is eventually effective for good (`GrantsTakeEffect`) |
| `kafka` (`KafkaConsumer`) | 2 partitions (one with garbage), 2 handlers, 2 messages per partition, 2 processes | before the committed offset every envelope was given to every handler (`NothingSkipped`); handlers meet a partition in order; once per process and handler; commits never move back and no handler runs behind them (`CommittedIsPast`); the group catches up again and again (`EventuallyTried`); Close returns |
| `kafka_at_least_once` | 1 partition, 1 handler | violation: a failed message is skipped by the commit of the next one |
| `kafka_start` | `StartFirst` | violation: the server is up and consumes nothing |
| `gateway` (`GatewayPipeline`) | 2 routes, 3 policies, 3 API calls, 1 request, all faults | events tell the truth in spite of racing definitions (`NoPhantomEvents`); a request is served, answered 410 or passed on only according to what its endpoint was while it was there (`LookupCurrent`), under a policy in force then, as a whole, unless the read failed (`PolicyEnforced`); a request without permission does not use up the limit (`OnlyPermittedCount`) |
| `policy_duplicates` | 1 route, no faults | violation: two first UpdatePolicy calls leave two policies, and the older may be enforced |
| `tenancy` (`Tenancy`) | 3 calls, an organization and a workspace to begin with, names "a", "A", "b" | names unique, workspace slugs up to case (`UniqueNames`); created means created (`CreatedIsThere`); "already exists" is true and a repeated rename is not refused (`TakenIsTrue`); an update that was not overtaken leaves other fields alone (`UntouchedUnlessRaced`); only calls of its organization change a workspace (`OnlyByItsOrg`) |
| `managed` (`ManagedRequest`) | 2 requests out of 24, 10 endpoints of 2 apps, 2 tokens, 5 records at most, all faults | a request whose keys are column names reads, changes and creates only records of the app of its endpoint and of the organization its permission was asked in, whatever header or host say, and leaves them there (`Isolated`), except for respelled column names; identity and owner survive updates (`OwnerKept`), except for those and for keys that are no names; the schema judges what the client sent (`SchemaDecides`); no sensitive value passes an endpoint with masking except from the arrays the masker leaves out, or if the record had it before (`MaskedAtBackend`); get, update and delete show, change and remove only the record whose id the path holds, and answer 200 only if it was there, in scope (`NamedByPath`) |
| `lifecycle` (`ServerLifecycle`) | 2 writing requests, 1 probe, 2 topics, a bus of 1, either bus, any store missing, outages, a signal at any time | a graceful stop leaves nothing half-way (`GracefulIsClean`); events are handled before stores close, whatever the way (`EventsBeforeStores`); who may be told 500 for a committed row (`NoFalseFailure`); a signal ends the process (`ExitsAfterSignal`) |
| `listing` (`AdminReads`) | 2 clients, 9 rows and 2 more, ints of 5 bits, pages of 2, one key that exists, all faults | a walk over the pages sees every row that was there when it began, up to the exceptions it names (`WalkSeesAll`); a key revoked before a request came in identifies nobody (`RevokedKeysRefused`) |

### Bounds, and why they are enough

- Bus: a buffer of 2 and 3 publishes fill the buffer with and without an
  envelope in dispatch's hand, so drops, order and draining on Close all occur;
  two subscriptions of one topic let one precede and one follow each of dispatch's reads.
- Limiter: 4 requests and limit 2 give rejected requests in a window and a second
  window; 3 ticks of a window of 2 let a burst straddle an expiry; a second endpoint
  would show keys that are mixed up. Two faulty requests with one retry each let a lost reply create a key, fill one, and
  raise a key whose life another faulty request has yet to arm or has left without a time to live; the two others are what such a key then refuses.
- Permissions: a race needs one check that fills late and one assignment; the
  second assignment shows that an earlier cached list does not hide for
  ever; the second organization, that lists are not mixed up.
- Kafka: skipping and repeating need two messages and a restart; two partitions are needed
  for offsets to be mixed up, two handlers for one to fail and the other not.
- Use cases: three calls let two race and a third set up or disturb (an
  endpoint has to be defined before it is retired and regulated; the `Seed` of
  `Tenancy` saves this call). The model's races are between two calls, since a call
  makes at most three queries that matter.

- Managed requests: two requests show one that deletes or updates what the other has
  listed or is about to read; the inputs have a sensitive key at the top, in an object in an
  array, in an array in an array and in a top-level array, with each strategy and method. A create and an update have
  a key that is no name; the record that such a statement may write takes the id of one there is and is of another organization and app.
- Lifecycle: two writing requests let one be in time and the other overtaken by
  the shutdown, and fill the bus of 1, so that events are dropped.
- Listing: three users and pages of two make two pages, one of them partly full, and
  an insertion moves rows across their border; two users share a created_at; page 9 of 2 rows overflows
  five bits as a page of about 2^63 / 20 overflows Go's int.

Where theorems exist (section 4) the bounds do not matter for the safety
properties they state.

### Fairness, and why the code justifies it

- Bus: weak fairness of dispatch's steps and of the return of Close. The Go
  scheduler runs a runnable goroutine eventually, and handlers (which log) return. Nobody has to publish,
  subscribe or close.
- `PermissionCache`: a check that has begun goes on, and Redis expires entries
  (which is what makes `GrantsTakeEffect` true: after a failed DEL nothing else does). No check and
  no assignment has to be made.
- `KafkaConsumer`: a process that is down is started again by the deployment and
  boots; the loop's goroutine runs. Fetching is strongly fair for each partition, because the
  reader alternates between partitions that have messages, and so is noticing the
  cancelled context, because a fetch may return a message instead. Handlers need not succeed.
- `ServerLifecycle`: the goroutine of `run` goes on (`Boot`, `Stop`), which
  includes the 30 s of `srv.Shutdown` passing; the bus's goroutine dispatches, and its handlers return;
  a query ends, because its context is cancelled or the database answers (`db.Close` waits
  for it). Requests need make no other step, nobody has to send a signal, and an outage may last.
- `RateLimiter`, `GatewayPipeline`, `EndpointManagement`, `Tenancy`, `ManagedRequest`,
  `AdminReads`: none; only safety is checked.

### Disagreements between the code and what is said about it

Three runs show a behaviour that contradicts a comment of the code; the
quotations and lines are in `PROJECT.json` under "findings":
`kafka_at_least_once`, `kafka_start`, `policy_duplicates`. Others were met while modelling and
have no run of their own; many are the exceptions that the properties above name:

- A failed EXPIRE, or a process that dies between INCR and EXPIRE, leaves a key without time to live
  (`pipeline.go` 260-263): its window never closes and its endpoint is refused from then on.
  `ExpiryArmed` names this exception.
- A check that read the old permissions may write them to the cache after AssignRole has
  invalidated it (`assign_role.go` 36-40); the new role is then hidden for up to the entry's time to live.
  What is left is `GrantsTakeEffect`.
- A failed read of the policy counts as "no policy" (`pipeline.go` 115), in `PolicyEnforced` the
  exception.
- Permissions are asked in the organization of the token, the generic handler works in it too, and the tenant
  context, from header or subdomain, decides neither. `Isolated` holds because of that;
  its mutant shows what a handler that used the tenant would do.
- `POSTMAN_COLLECTION_GUIDE.md` says that `/orders/{id}` works: 137-141 has it defined ("Define Endpoint (GET /orders/{id})" with
  `backend_action: "get"`, and likewise update and delete), 207-209 invoked ("GET `/api/v1/orders/{orderId}`"), 321-330 gives it as the example of these actions; and
  the comment at `dynamic_handler.go` 361 says "Extract ID from path (e.g., /orders/{id})". `extractIDFromPath` looks for the segment
  `order`, the table's name without its "s" (501-504), and endpoints are looked up by their literal path. Get, update and delete
  under the documented paths therefore find no record: in the run `managed` a request for `/orders/a1` that gets to the handler is answered 500.
- `dynamic_handler.go` 313 and 323 say "with multi-tenant isolation", and so do the WHERE clauses; but create and update put the keys of the body into their SQL as they are
  (401 and 408-414, 443-457), and a key that is more than a name can replace the WHERE clause, set
  further columns or select what is inserted. Such a statement is isolated by nothing (`RunPasted`); `Isolated` and `OwnerKept` are about the others.
- A request whose INCR is executed with its reply lost is counted twice, because the Redis client retries
  by default (`redis.go` 13): it may be refused, and make others be refused, with fewer requests than the limit. If its INCR created the
  key, nobody sets the key's time to live.
- PII masking leaves out bodies whose top level is an array, and arrays in arrays
  (`pii_masker.go` 110-143); what it does mask, it masks after validation.
- A field spelled `App_ID` in a body passes the list of reserved columns and sets `app_id`
  (`dynamic_handler.go` 443); one spelled `ID` sets the id. `Isolated` and `OwnerKept` name the exception.
- `handleHTTPProxy` drops the base path of a service's URL.
- PostgreSQL and Redis share ten seconds at startup: a slow PostgreSQL also costs the server
  its Redis. A store that was absent at startup counts as healthy from then on.
- `total_pages` is that of an earlier statement than the page, rows of one created_at have no defined order,
  and most lists do not look at rows.Err: the exceptions of `WalkSeesAll`.
- RevokeAPIKey looks at neither the app nor the organization, and ListWorkspaces uses the
  organization of the token instead of the path's.
- `README.md` 213-220 draws the pipeline with schema validation before permission and limit;
  the code's order is permission, limit, schema.
- A comment at `pipeline.go` 251 speaks of a sliding window; the window is fixed, and
  `BurstBound` is what is left of the promise (less than twice the limit).
- `kafka/bus.go` 38 speaks of the topic "used as a routing key"; the message's key is a random id
  (`producer.go` 52), so that the events of an entity spread over the partitions.
- A policy's authentication settings are never consulted, and no response interceptor runs after
  the backend (`pipeline.go` 213 says "if needed").
- `UpdateWorkspace` says "Update fields if provided" but writes back every
  column of the row it read; a concurrent update of another field is undone. Hence
  the condition in `UntouchedUnlessRaced`.
- A loser of a race at a unique constraint is answered 500, not 409.
- Login issues tokens with a nil organization, so calls about workspaces, which compare the organization of
  the token, are answered 404 with them.

## 4. What TLAPS proves

`tlapm X_proofs.tla`. Assumptions are the named ASSUMEs of each module
(`BusAssumption`, `NoEnvelopeAssumption`, `LimiterAssumption`, `CacheAssumption`, `ConsumerAssumption`,
`ManagementAssumption`, `GatewayAssumption`, `TenancyAssumption`, `LifecycleAssumption`, `RequestAssumption`, `ReadAssumption`): bounds are naturals, special values
are not ordinary ones, only requests are `Faulty`, only keys are `Names`, `Writable` is a finite set of records, `Seed` obeys the tables' constraints, there are finitely many uuids, an int
holds the number of rows there are, and an endpoint has a method that DefineEndpoint takes. TLC evaluates each for
its instance.

Each module has an inductive invariant `IInv` (`CacheInv` for the permission cache), a lemma that `Init` implies it,
one step per action that keeps it, and theorems that follow from it.

- **InProcessBus_proofs**: `TypeCorrect`, `FIFOCorrect`, `NoSubscriberMissedCorrect`,
  `LostEventsStayLostCorrect`, `CloseDrainsCorrect`, `QuietAfterCloseCorrect`, and
  `Refinement` (the safety part of the bus implements that of `EventDelivery`). FIFO alone is not
  inductive: `IInv` says what the buffer is made of (accepted, not yet run, in increasing
  order, each with the subscribers it is owed: `BufferAccepted`, `BufferUnrun`, `BufferOwed`, `BufferOrder`), how the
  envelope in hand, the batch and the history agree (`EnvInv`, `BatchInv`, `HistoryInv`), that an
  accepted event is in the buffer, in hand or has been run (`NothingLost`), and that dispatch exits
  with an empty, closed channel (`ExitInv`).
- **GatewayRedis_proofs**, about `RateLimiter`: `TypeCorrect`, `LimitPerWindowCorrect`,
  `ExpiryArmedCorrect`, `DeniedOnlyWhenFullCorrect`, `BurstBoundCorrect`. `IInv` adds that what INCR returned to a request is at most its key's count, within
  the limit if it was admitted, and differs from what it returned to any other request of that
  life (`CountInv`, `DistinctInv`): at most `Limit` requests
  can have read a number up to `Limit`. For the refused, `TallyInv` says that the counter is the number of INCRs
  executed in the life, answered or not (`LifeOf`, pairs of a request and an attempt, so that each step needs the set to grow by exactly one member or to stay).
  For bursts, the clock has to be followed: whenever a life is armed it has `Window` left, so that it ends at least that much later than the
  arrival of whoever read 1 in it or counted in an earlier life (`Precedes`, `ArmInv`), and everybody of a later life comes after that (`LifeInv`). This
  survives commands that are sent again: an INCR nobody heard of may have created the key, and then nobody reads 1 in that life and nobody
  arms it, unless a late EXPIRE for an earlier life does. An interval shorter than `Window`
  does not hold a request that read 1 in a life and one of a later life, so it meets two lives at most, the earlier of them
  without the count 1: `2 * Limit - 1`.
- **GatewayRedis_proofs**, about `PermissionCache`: `CacheTypeCorrect`, `CacheSoundCorrect`,
  `NoUndueGrantCorrect`, `FirstRoleAtOnceCorrect`, with truncated
  reads, and `FreshForGood`, the safety half of `GrantsTakeEffect`: a permission that is in the cached list and in every
  list a check is about to cache stays there (reads being complete), because a list is cached only from the hands of a check
  and a check takes all that is stored. `CacheInv` says of every cached list and of every list that a check is holding that the
  table grants it and, by `FirstInv`, that it is not older than the first role.
- **KafkaConsumer_proofs**: `TypeCorrect`, `NothingSkippedCorrect`,
  `TriedInOrderCorrect`, `OncePerProcessCorrect`, `CommittedIsPastCorrect`. `IInv` relates the reader's position,
  the message in hand and the committed offset to the handler runs: everything between
  the offset a process started from and its position has been tried, and nothing
  at or after the position was tried by this process.
- **Tenancy_proofs**: all properties of the run: `TypeCorrect`,
  `UniqueNamesCorrect`, `CreatedIsThereCorrect`, `TakenIsTrueCorrect`,
  `UntouchedUnlessRacedCorrect`, `OnlyByItsOrgCorrect`. `IInv` adds that rows and rows about to be
  inserted have normalised slugs, that a call which has not inserted has an id
  no row has, and that the workspace a call has read is still there,
  in the same place: UPDATE never changes id, kind or organization.

- **GatewayPipeline_proofs**: about `EndpointManagement` alone, `ManagementUniqueRoute`;
  about the composition, `GatewayImplementsManagement` (each step of the gateway is one of
  the use cases or leaves their variables alone, so that their specification is implemented),
  `UniqueRouteCorrect`, `NoPhantomEventsCorrect`, `TypeCorrect`, `LookupCurrentCorrect`,
  `PolicyEnforcedCorrect`, `OnlyPermittedCountCorrect`. The invariant of the use cases says that ids
  and routes are unique, that a call about to insert has an id no row has
  (`FreshInv`), that the row an update writes over is there and has the route of the row it read
  (`UpdateInv`), and that events are behind what was written (`EventInv`). For each request
  `Observed` says that `met` and `rules` contain what is in the tables now, which
  makes the reads sound; `HasEndpoint`, `HasRule`, `Checked`, `ToldTrue`, `Enforced`, `CountedPermitted`
  carry what was read through the later checks.
- **ServerLifecycle_proofs**: `TypeCorrect`, `NoFalseFailureCorrect`,
  `EventsBeforeStoresCorrect`, `GracefulIsCleanCorrect`. `IInv` relates the place of `run` to how it came there, to the
  listener and to the bus (`MainInv`), says that what was queued waits or has been handled, and that
  nothing waits once the bus is drained (`QueueInv`), that with events in the queue all topics have their subscriber (`WiredInv`), and that requests are in flight
  neither before the listener nor after a graceful end (`FlightInv`), which with `RequestInv` gives
  that only a forced or failed server meets a closed channel.
- **ManagedRequest_proofs**: all properties of the run: `TypeCorrect`, `SchemaDecidesCorrect`, `IsolatedCorrect`,
  `OwnerKeptCorrect`, `MaskedAtBackendCorrect`, `NamedByPathCorrect`. `IInv` says what a request carries: before the
  interceptors the body its client sent, behind them what they made of it, and an endpoint that matches it
  (`RouteInv`); that an id is given out once, so that an update replaces one record (`RecordsInv`);
  and that what other services got is masked (`ProxiedInv`). Scope, owner and named record are then read off the WHERE clause of each statement
  (`TargetFacts`, `BackendIsolated`, `BackendNamed`). `Isolated` and `OwnerKept` are theorems about requests whose keys are column names (`Names`): of a statement with another
  key (`PastedFacts`) only what PostgreSQL itself keeps is assumed and shown, types and unique ids, so that the theorems hold for
  the former whatever the latter do in between.
  Masking is a fact about documents of any depth: the masker stops at the
  first sensitive key it reaches (`LeastNat` gives the first one), what it leaves is a document again (`MaskLeafType`), and a sensitive key
  it does not reach is behind an array it does not enter (`Missed`). The proof attempt refuted
  earlier wordings of `Isolated` and `MaskedAtBackend` that the run had passed: with a body that spells both `ID` and `App_ID`
  an update leaves a record of another app under a new id, and an update through a masking endpoint keeps what the record had before. Both
  are now in the properties, and the first is among the inputs of the run.
- **AdminReads_proofs**: `TypeCorrect` (arithmetic of pages included), `RevokedKeysRefusedCorrect` and `WalkSeesAllCorrect`. The second
  needs that ids are given out once (`FreshInv`, `IdInv`, `UniqueInv`): a key that was revoked stays
  revoked because no later row takes its id and becomes active again (`GoneInv`). The third needs a second invariant, `WalkInv`: a row not yet
  seen, with a created_at of its own, has all rows of the pages read so far before it, since insertions only push it back and a
  page skips exactly its offset (`PageSkips`); so when the last page is read, and nothing came between its COUNT and SELECT, there is no
  place left for it (`PagesCover`). That the offset does not wrap around follows from the page being at most `total_pages` (`NoWrap`).

Only model-checked: liveness (`QueuedIsHandled`, `CloseTerminates`, `GrantsTakeEffect`,
`EventuallyTried`, `ExitsAfterSignal`, the liveness half of `DeliverySpec`), since the prover's
backends reason about neither fairness nor ENABLED. Every invariant and every action property of the
passing runs is a theorem, and so is the safety half of `DeliverySpec`. No
module declares a RECURSIVE operator. The library's induction theorems take an operator as a parameter and cannot be used;
where a least element is needed, `LeastNat` obtains it from the well-foundedness of strict inclusion of finite sets,
which is stated about sets.

## 5. What is left out, and why

- Formatting, hashing, logging, metrics: no property is about them.
  Decoding errors of handlers change nothing and are left out.
- Requests of `GatewayPipeline` ask for version v1 of a route, the one Enforce
  looks up. JWTAuth always precedes Enforce, so that Enforce's own 401 for a missing
  user cannot happen. A token that names an organization comes from another issuer
  (`Login` gives none); both kinds are in `Claims`. Without Redis the limiter is
  skipped (`HasRedis`).
- `InProcessBus` assumes that handlers return and that main closes the bus once; a Publish after
  Close panics in the code and is `PublishPanics` in the model.
- In `Tenancy` the columns no check looks at (names, descriptions, hashes) are left out.
- `KafkaConsumer` has one process of the group at a time: no rebalancing.
- `ManagedRequest`: handlers by name, service configurations (base URLs, headers, timeouts), transformers
  and InterceptResponse, since nothing registers or calls them. Endpoints, grants, slugs and accounts
  stand still there: what happens when they change is in the other modules. Enforce is one step,
  `GatewayPipeline` has its steps. What a statement with a key that is no name does is
  left open (`RunPasted` allows more than SQL does) as far as the tables of the backend services are concerned; what it may do to other
  tables is left out, and so the other modules know nothing of it.
- Redis commands are sent again by the client up to a bound; that its timeouts and pauses take time
  is the interleaving with other requests and with `Tick`.
- RequireTenant, RequirePermission and the audit middleware are not wired into the router.
- `ServerLifecycle`: handlers are given a context that is cancelled once the request
  is over, which a handler that only logs does not notice; telemetry and configuration.
- A role assigned twice with a NULL app_id makes a second row of `user_roles` (the unique
  constraint does not see it), which adds nothing to what the user may do.
- Membership and administration of roles have no caller; telemetry and logging only observe.

## 6. Order of work

Done in this order: the bus and its abstract specification; the limiter; the permission
cache; the Kafka consumer; API management and the gateway pipeline; the tenant use cases;
proofs about five of these; managed requests (tenant context, interceptors, dynamic handler); the server's
lifecycle; lists and API keys; proofs about the gateway pipeline, the lifecycle and the API keys; proofs of what the limiter
promises over time, of the walk over pages and of managed requests.

Planned, most important first:

1. Fuller use of the refinements: the lifecycle's use of the bus as an implementation of `EventDelivery`,
   and what `GatewayPipeline` assumes of its limiter and permission check as abstractions of `RateLimiter` and `PermissionCache`.
2. The safety that the other liveness properties rest on, as `FreshForGood` does for `GrantsTakeEffect`: measures that every step of a
   loop decreases (`QueuedIsHandled`, `CloseTerminates`, `EventuallyTried`).
3. Several processes in one Kafka group, with rebalancing, should the deployment run them.
4. Response interceptors and registered backend handlers, once the server registers any.
