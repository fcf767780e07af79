----------------------------- MODULE AdminReads -----------------------------
(***************************************************************************)
(* What the administrative API reads while others write: the paginated     *)
(* lists (internal/shared/pagination and the List methods of the           *)
(* repositories, a COUNT and then a SELECT), the rows read by id, and the  *)
(* API keys of an app with the resolver that would accept them             *)
(* (internal/gateway/resolver.go), which the server does not call yet.     *)
(*                                                                         *)
(* A step is one query, or what a request does alone before it.  Rows are  *)
(* created elsewhere (Tenancy, EndpointManagement): here a row takes its   *)
(* created_at, and becomes visible when its INSERT runs, which may be      *)
(* after that of a row stamped later.  Nothing deletes a row: no handler   *)
(* calls a Delete method.                                                  *)
(***************************************************************************)
EXTENDS Integers, FiniteSets

CONSTANTS
    Clients,
    Readers,         \* bound: clients that read, apart from resolving
    Watched,         \* the one of them whose pages are followed
    Named,           \* ids in the paths of requests, and in tokens
    Keys,            \* ids of keys that clients have
    Makes,           \* what is created: <<kind, parent, user>>
    Seed,            \* rows to begin with
    Pages, PerPages, \* what clients give as page and per_page
    MaxInt,          \* of Go's int: 2^63 - 1, more than a table has rows
    DefaultPerPage, MaxPerPage,  \* 20 and 100
    MaxRows,         \* bound: rows ever made
    Faults,          \* kinds of failures that may happen
    None, Bad        \* absent; not a uuid

Kinds == {"organization", "user", "app", "workspace", "endpoint", "policy", "key", "log"}

\* What a row of this kind names: its organization, app or endpoint.
ParentKind ==
    [app |-> "organization", workspace |-> "organization", endpoint |-> "app",
     key |-> "app", policy |-> "endpoint"]

DefaultPage == 1
Ids  == 1..MaxRows
Rows == [id : Ids, kind : Kinds, of : Ids \cup {None}, by : Ids \cup {None}, born : Nat]

Lists    == [kind : Kinds, of : Ids \cup {None}, by : Ids \cup {None}]
Requests ==
    [op : {"list"}, list : Lists, page : 1..MaxInt, per : 1..MaxPerPage]
    \cup [op : {"create"}, row : Rows]
    \cup [op : {"resolve"}, key : Ids, gone : BOOLEAN]
    \cup [op : {"other"}]
Walks == [list : Lists, per : 1..MaxPerPage, page : Nat, there : SUBSET Rows,
          saw : SUBSET Rows, cut : BOOLEAN, moved : BOOLEAN, end : {"open", "ended", "refused"}]

ASSUME ReadAssumption ==
    /\ MaxRows \in Nat /\ MaxInt \in Nat \ {0} /\ MaxRows <= MaxInt
    /\ MaxPerPage \in 1..MaxInt /\ DefaultPerPage \in 1..MaxPerPage
    /\ Seed \subseteq Rows /\ IsFiniteSet(Seed) /\ Cardinality(Seed) <= MaxRows
    /\ {x.id : x \in Seed} = 1..Cardinality(Seed)
    /\ \A x, y \in Seed : x.id = y.id => x = y
    /\ Watched \in Readers /\ Readers \subseteq Clients
    /\ Named \subseteq Ids \cup {Bad} /\ Keys \subseteq Ids
    /\ \A m \in Makes : /\ m \in Kinds \X (Ids \cup {None}) \X (Ids \cup {None})
                        /\ m[1] \in DOMAIN ParentKind => m[2] # None
                        /\ m[1] \in {"organization", "user"} => m[2] = None
                        /\ m[1] # "log" => m[3] = None
    /\ None \notin Ids /\ Bad \notin Ids \cup {None}

VARIABLES
    rows,    \* the tables
    active,  \* API keys with is_active
    clock,
    made,    \* ids given out
    at,      \* where each request is
    req,     \* the request
    total,   \* the result of COUNT
    reply,   \* status of the last answer, until someone else asks
    walk     \* history: the pages Watched follows from the first one on

vars == <<rows, active, clock, made, at, req, total, reply, walk>>
tables == <<rows, active, clock, made>>

TypeOK ==
    /\ rows \subseteq Rows
    /\ active \subseteq Ids
    /\ clock \in Nat
    /\ made \in 0..MaxRows
    /\ at \in [Clients -> {"idle", "count", "select", "insert", "hash", "app"}]
    /\ req \in [Clients -> Requests]
    /\ total \in [Clients -> Nat]
    /\ reply \in {0, 200, 201, 204, 400, 401, 404, 500}
    /\ walk \in Walks \cup {None}

Init ==
    /\ rows = Seed
    /\ active = {x.id : x \in {y \in Seed : y.kind = "key"}}
    /\ clock = 0
    /\ made = Cardinality(Seed)
    /\ at = [c \in Clients |-> "idle"]
    /\ req = [c \in Clients |-> [op |-> "other"]]
    /\ total = [c \in Clients |-> 0]
    /\ reply = 0
    /\ walk = None

-----------------------------------------------------------------------------
(* Answers: their status; the rows in them are kept where walk needs them. *)

\* HTTPStatusCode, for the errors the handlers here meet.
StatusOf(error) ==
    CASE error = "not_found"    -> 404
      [] error = "unauthorized" -> 401
      [] error = "bad_request"  -> 400
      [] OTHER                  -> 500

Answer(c, status) ==
    /\ at' = [at EXCEPT ![c] = "idle"]
    /\ req' = [req EXCEPT ![c] = [op |-> "other"]]
    /\ total' = [total EXCEPT ![c] = 0]
    /\ reply' = status

Leave(c) == walk' = IF c = Watched THEN None ELSE walk

Fail(c, error) == Answer(c, StatusOf(error)) /\ Leave(c) /\ UNCHANGED tables

\* The request goes on to a query.
Begin(c, where, request) ==
    /\ at' = [at EXCEPT ![c] = where]
    /\ req' = [req EXCEPT ![c] = request]
    /\ reply' = 0
    /\ UNCHANGED <<total, rows, active>>

-----------------------------------------------------------------------------
(* The rows a query is about *)

Organizations  == {x \in rows : x.kind = "organization"}
AllUsers       == {x \in rows : x.kind = "user"}
AppsOf(o)      == {x \in rows : x.kind = "app" /\ x.of = o}
EndpointsOf(a) == {x \in rows : x.kind = "endpoint" /\ x.of = a}
LogsOf(o)      == {x \in rows : x.kind = "log" /\ x.of = o}
LogsBy(u)      == {x \in rows : x.kind = "log" /\ x.by = u}

Listed(list) ==
    CASE list.kind = "organization" -> Organizations
      [] list.kind = "user"         -> AllUsers
      [] list.kind = "app"          -> AppsOf(list.of)
      [] list.kind = "endpoint"     -> EndpointsOf(list.of)
      [] list.kind = "log" /\ list.by = None -> LogsOf(list.of)
      [] list.kind = "log" /\ list.by # None -> LogsBy(list.by)

-----------------------------------------------------------------------------
(* Pages *)

\* queryInt: absent, not a number, or out of an int's range.
QueryInt(value, default) == IF value \in -MaxInt - 1 .. MaxInt THEN value ELSE default

\* FromRequest.
PageFrom(page) == LET n == QueryInt(page, DefaultPage) IN IF n < 1 THEN DefaultPage ELSE n

PerPageFrom(per) ==
    LET n == QueryInt(per, DefaultPerPage)
    IN  IF n < 1 THEN DefaultPerPage ELSE IF n > MaxPerPage THEN MaxPerPage ELSE n

\* An int wraps around.
Wrapped(n) == ((n + MaxInt + 1) % (2 * (MaxInt + 1))) - (MaxInt + 1)

\* Mutant: the first page is number 0.
Offset_FromZero(r) == Wrapped(r.page * r.per)

Offset(r) == Wrapped((r.page - 1) * r.per)

\* S could be LIMIT rows of L from OFFSET on, newest first: PostgreSQL orders
\* rows of the same created_at as it likes.
IsPage(S, L, offset, limit) ==
    LET n == Cardinality(L)
        skipped == IF offset < n THEN offset ELSE n
    IN  /\ Cardinality(S) = IF n - skipped < limit THEN n - skipped ELSE limit
        /\ \E before \in SUBSET (L \ S) :
             LET after == L \ (S \cup before)
             IN  /\ Cardinality(before) = skipped
                 /\ \A x \in before, y \in S \cup after : x.born >= y.born
                 /\ \A x \in S, y \in after : x.born >= y.born

\* What a connection lost while rows are read may leave of an answer.
Cut(S) == {T \in SUBSET S : \A x \in T, y \in S \ T : x.born >= y.born} \ {S}

Ask(c, list, page, per) ==
    LET r == [op |-> "list", list |-> list, page |-> PageFrom(page), per |-> PerPageFrom(per)]
        first == [list |-> list, per |-> r.per, page |-> 0, there |-> Listed(list),
                  saw |-> {}, cut |-> FALSE, moved |-> FALSE, end |-> "open"]
        follows == /\ walk # None
                   /\ walk.end = "open" /\ walk.list = list /\ walk.per = r.per
                   /\ r.page = walk.page + 1
    IN  /\ Begin(c, "count", r)
        /\ walk' = CASE c # Watched -> walk
                     [] c = Watched /\ r.page = 1 -> first
                     [] c = Watched /\ r.page # 1 -> IF follows THEN walk ELSE None
        /\ UNCHANGED <<clock, made>>

All(kind) == [kind |-> kind, of |-> None, by |-> None]
Of(kind, parent) == [kind |-> kind, of |-> parent, by |-> None]

ListOrgs(c, page, per) == Ask(c, All("organization"), page, per)

ListUsers(c, page, per) == Ask(c, All("user"), page, per)

ListApps(c, o, page, per) ==
    \/ o = Bad /\ Fail(c, "bad_request")
    \/ o # Bad /\ Ask(c, Of("app", o), page, per)

ListEndpoints(c, a, page, per) ==
    \/ a = Bad /\ Fail(c, "bad_request")
    \/ a # Bad /\ Ask(c, Of("endpoint", a), page, per)

LogsByOrg(c, o, page, per) ==
    \/ o = Bad /\ Fail(c, "bad_request")
    \/ o # Bad /\ Ask(c, Of("log", o), page, per)

LogsByUser(c, u, page, per) ==
    \/ u = Bad /\ Fail(c, "bad_request")
    \/ u # Bad /\ Ask(c, [kind |-> "log", of |-> None, by |-> u], page, per)

\* SELECT COUNT(*).
Count(c) ==
    /\ at' = [at EXCEPT ![c] = "select"]
    /\ total' = [total EXCEPT ![c] = Cardinality(Listed(req[c].list))]
    /\ walk' = IF c = Watched /\ walk # None THEN [walk EXCEPT !.moved = FALSE] ELSE walk
    /\ UNCHANGED <<tables, req, reply>>

CountFails(c) == "count" \in Faults /\ Fail(c, "internal")

\* NewResult.
TotalPages(n, per) == n \div per + (IF n % per # 0 THEN 1 ELSE 0)

\* The client reads on up to the number of pages it is told.
Read(w, S, data, pages) ==
    [w EXCEPT !.page = @ + 1, !.saw = @ \cup data, !.cut = @ \/ data # S,
              !.end = IF w.page + 1 >= pages THEN "ended" ELSE "open"]

\* The second query.  rows.Err is not looked at, so that a list may be cut
\* short; the number of pages is that of the first query.
Select(c) ==
    LET r == req[c] IN
    /\ Offset(r) >= 0
    /\ \E S \in SUBSET Listed(r.list) :
         /\ IsPage(S, Listed(r.list), Offset(r), r.per)
         /\ \E data \in {S} \cup (IF "cut" \in Faults THEN Cut(S) ELSE {}) :
              /\ Answer(c, 200)
              /\ walk' = IF c = Watched /\ walk # None
                         THEN Read(walk, S, data, TotalPages(total[c], r.per)) ELSE walk
    /\ UNCHANGED tables

SelectFails(c) == "select" \in Faults /\ Fail(c, "internal")

\* OFFSET must not be negative.
SelectRefused(c) ==
    /\ Offset(req[c]) < 0
    /\ Answer(c, StatusOf("internal"))
    /\ walk' = IF c = Watched /\ walk # None THEN [walk EXCEPT !.end = "refused"] ELSE walk
    /\ UNCHANGED tables

-----------------------------------------------------------------------------
(* Rows by id *)

\* A query for the row named in the path.
ReadOne(c, kind, id) ==
    LET found == {x \in rows : x.kind = kind /\ x.id = id} IN
    \/ id = Bad /\ Fail(c, "bad_request")
    \/ id # Bad /\ found = {} /\ Fail(c, "not_found")
    \/ id # Bad /\ found # {} /\ Answer(c, 200) /\ Leave(c) /\ UNCHANGED tables
    \/ id # Bad /\ "read" \in Faults /\ Fail(c, "internal")

GetOrg(c, id)      == ReadOne(c, "organization", id)
GetApp(c, id)      == ReadOne(c, "app", id)
GetUser(c, id)     == ReadOne(c, "user", id)
GetEndpoint(c, id) == ReadOne(c, "endpoint", id)

\* The token's user.
GetMe(c, u) ==
    \/ u = None /\ Fail(c, "unauthorized")
    \/ u # None /\ ReadOne(c, "user", u)

\* By endpoint; if there are several, any of them.
GetPolicy(c, e) ==
    LET found == {x \in rows : x.kind = "policy" /\ x.of = e} IN
    \/ e = Bad /\ Fail(c, "bad_request")
    \/ e # Bad /\ found = {} /\ Fail(c, "not_found")
    \/ e # Bad /\ found # {} /\ Answer(c, 200) /\ Leave(c) /\ UNCHANGED tables
    \/ e # Bad /\ "read" \in Faults /\ Fail(c, "internal")

\* One query for all rows of a parent.
ReadAll(c) ==
    \/ Answer(c, 200) /\ Leave(c) /\ UNCHANGED tables
    \/ "read" \in Faults /\ Fail(c, "internal")

\* The organization is that of the token, whatever the path says; rows.Err is
\* looked at.
ListWorkspaces(c, o) ==
    \/ o = None /\ Fail(c, "unauthorized")
    \/ o # None /\ ReadAll(c)

-----------------------------------------------------------------------------
(* New rows *)

NewRow(kind, of, by, born) ==
    [id |-> made + 1, kind |-> kind, of |-> of, by |-> by, born |-> born]

\* The repository's Create stamps the row; time may have passed.
Stamp(c, kind, of, by) ==
    /\ made < MaxRows
    /\ made' = made + 1
    /\ clock' \in {clock, clock + 1}
    /\ Begin(c, "insert", [op |-> "create", row |-> NewRow(kind, of, by, clock')])
    /\ Leave(c)

\* A row of an entity with a use case of its own, or of the audit log.
CreateRow(c, kind, of, by) ==
    /\ kind # "key" /\ <<kind, of, by>> \in Makes
    /\ Stamp(c, kind, of, by)

\* The key itself is 32 random bytes, of which the row keeps the hash.
CreateAPIKey(c, a) ==
    \/ a = Bad /\ Fail(c, "bad_request")
    \/ <<"key", a, None>> \in Makes /\ Stamp(c, "key", a, None)

Insert(c) ==
    LET x == req[c].row IN
    /\ x.kind \in DOMAIN ParentKind =>
         \E y \in rows : y.id = x.of /\ y.kind = ParentKind[x.kind]
    /\ rows' = rows \cup {x}
    /\ active' = IF x.kind = "key" THEN active \cup {x.id} ELSE active
    /\ Answer(c, 201)
    /\ walk' = CASE c = Watched -> None
                 [] c # Watched /\ walk # None /\ at[Watched] = "select" -> [walk EXCEPT !.moved = TRUE]
                 [] OTHER -> walk
    /\ UNCHANGED <<clock, made>>

\* A foreign key that names no row, or a fault.
InsertFails(c) ==
    LET x == req[c].row IN
    /\ \/ x.kind \in DOMAIN ParentKind
          /\ ~ \E y \in rows : y.id = x.of /\ y.kind = ParentKind[x.kind]
       \/ "write" \in Faults
    /\ Fail(c, "internal")

-----------------------------------------------------------------------------
(* API keys *)

\* All keys of the app in one query, whose rows.Err is not looked at either.
ListAPIKeys(c, a) ==
    \/ a = Bad /\ Fail(c, "bad_request")
    \/ a # Bad /\ ReadAll(c)

\* UPDATE ... SET is_active = false WHERE id = $1, whether there is one or not.
Revoke(k) == active' = active \ {k}

\* The app of the path is not compared.
RevokeAPIKey(c, k) ==
    \/ k = Bad /\ Fail(c, "bad_request")
    \/ k # Bad /\ Revoke(k) /\ Answer(c, 204) /\ Leave(c) /\ UNCHANGED <<rows, clock, made>>
    \/ k # Bad /\ "write" \in Faults /\ Fail(c, "internal")

Revoked(k) == k \notin active /\ \E x \in rows : x.id = k /\ x.kind = "key"

\* A caller of ResolveAppByAPIKey has a key: k is the id of the row with its hash.
Resolve(c, k) ==
    /\ Begin(c, "hash", [op |-> "resolve", key |-> k, gone |-> Revoked(k)])
    /\ Leave(c)
    /\ UNCHANGED <<clock, made>>

\* Mutant: is_active is not part of the query.
KeyByHash_Any(k) == {x \in rows : x.kind = "key" /\ x.id = k}

\* GetByHash.
KeyByHash(k) == {x \in rows : x.kind = "key" /\ x.id = k /\ k \in active}

GetByHash(c) ==
    \/ KeyByHash(req[c].key) = {} /\ Fail(c, "not_found")
    \/ /\ KeyByHash(req[c].key) # {}
       /\ at' = [at EXCEPT ![c] = "app"]
       /\ UNCHANGED <<tables, req, total, reply, walk>>
    \/ "read" \in Faults /\ Fail(c, "internal")

\* The app of the key, and so its organization; the foreign key of
\* app_api_keys keeps it there.
ResolvedApp(c) ==
    \/ Answer(c, 200) /\ Leave(c) /\ UNCHANGED tables
    \/ "read" \in Faults /\ Fail(c, "internal")

-----------------------------------------------------------------------------
AskList(c) ==
    \E page \in Pages, per \in PerPages :
        \/ ListOrgs(c, page, per)
        \/ ListUsers(c, page, per)
        \/ \E id \in Named :
             \/ ListApps(c, id, page, per)
             \/ ListEndpoints(c, id, page, per)
             \/ LogsByOrg(c, id, page, per)
             \/ LogsByUser(c, id, page, per)

AskOne(c) ==
    \/ \E id \in Named :
         \/ GetOrg(c, id)
         \/ GetApp(c, id)
         \/ GetUser(c, id)
         \/ GetEndpoint(c, id)
         \/ GetPolicy(c, id)
         \/ ListAPIKeys(c, id)
    \/ \E id \in (Named \ {Bad}) \cup {None} : GetMe(c, id) \/ ListWorkspaces(c, id)

Change(c) ==
    \/ \E m \in Makes : CreateRow(c, m[1], m[2], m[3])
    \/ \E a \in Named : CreateAPIKey(c, a)
    \/ \E k \in Keys \cup {Bad} : RevokeAPIKey(c, k)

Call(c) ==
    /\ at[c] = "idle"
    /\ \/ c \in Readers /\ (AskList(c) \/ AskOne(c))
       \/ Change(c)
       \/ \E k \in Keys : Resolve(c, k)

Query(c) ==
    \/ at[c] = "count" /\ (Count(c) \/ CountFails(c))
    \/ at[c] = "select" /\ (Select(c) \/ SelectFails(c) \/ SelectRefused(c))
    \/ at[c] = "insert" /\ (Insert(c) \/ InsertFails(c))
    \/ at[c] = "hash" /\ GetByHash(c)
    \/ at[c] = "app" /\ ResolvedApp(c)

Next == \E c \in Clients : Call(c) \/ Query(c)

Spec == Init /\ [][Next]_vars

-----------------------------------------------------------------------------
\* A client that reads the pages from the first one up to the number of pages
\* it is told last is answered to the end unless a query fails, and gets every
\* row that was there when it began: rows inserted meanwhile, late ones too,
\* move rows to later pages only.  Not so for rows of one created_at, which two
\* queries may order differently; if an answer was cut short; and if a row was
\* inserted between the COUNT and the SELECT of the last page.
WalkSeesAll ==
    walk # None =>
        /\ walk.end # "refused"
        /\ walk.end = "ended" /\ ~ walk.cut /\ ~ walk.moved =>
             \A x \in walk.there \ walk.saw :
                 \E y \in Listed(walk.list) \ {x} : y.born = x.born

\* A key revoked before a request came in does not identify an app to it,
\* whatever happens to the table between the two queries of the resolver.
RevokedKeysRefused ==
    \A c \in Clients : at[c] = "app" => ~ req[c].gone
=============================================================================
