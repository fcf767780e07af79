-------------------------- MODULE AdminReads_proofs --------------------------
(***************************************************************************)
(* Theorems about AdminReads: types, identities of rows, the keys that the *)
(* resolver refuses, and the rows that a client reading pages gets.        *)
(***************************************************************************)
EXTENDS AdminReads, FiniteSetTheorems, TLAPS

(***************************************************************************)
(* The inductive invariant.                                                *)
(***************************************************************************)

\* The lists that handlers ask for.
Asked(list) ==
    /\ list \in Lists
    /\ list.kind \in {"organization", "user", "app", "endpoint", "log"}

\* A client that waits for a query has the request that needs it.
PlaceInv ==
    \A c \in Clients :
        /\ at[c] \in {"count", "select"} => req[c].op = "list" /\ Asked(req[c].list)
        /\ at[c] = "insert" => req[c].op = "create" /\ req[c].row \in Rows
        /\ at[c] \in {"hash", "app"} => req[c].op = "resolve"

\* Rows have the ids that have been given out.
IdInv == \A x \in rows : x.id <= made

\* No two rows have the same id.
UniqueInv == \A x, y \in rows : x.id = y.id => x = y

\* A row about to be inserted has an id of its own.
FreshInv ==
    \A c \in Clients : at[c] = "insert" =>
        /\ req[c].row.id <= made
        /\ \A x \in rows : x.id # req[c].row.id
        /\ \A d \in Clients \ {c} : at[d] = "insert" => req[d].row.id # req[c].row.id

\* A key that was revoked before a request came in stays revoked, and it is
\* not accepted.
GoneInv ==
    \A c \in Clients :
        /\ at[c] \in {"hash", "app"} /\ req[c].gone => Revoked(req[c].key)
        /\ at[c] = "app" => ~ req[c].gone

IInv == /\ TypeOK
        /\ IsFiniteSet(rows)
        /\ PlaceInv
        /\ IdInv
        /\ UniqueInv
        /\ FreshInv
        /\ GoneInv

-----------------------------------------------------------------------------
(* Operators *)

LEMMA PageType ==
  ASSUME NEW page, NEW per
  PROVE  PageFrom(page) \in 1..MaxInt /\ PerPageFrom(per) \in 1..MaxPerPage
<1>1. PageFrom(page) \in 1..MaxInt
  BY ReadAssumption DEF PageFrom, QueryInt, DefaultPage
<1>2. PerPageFrom(per) \in 1..MaxPerPage
  BY ReadAssumption DEF PerPageFrom, QueryInt
<1>3. QED
  BY <1>1, <1>2

LEMMA ListedType ==
  ASSUME NEW list, Asked(list)
  PROVE  Listed(list) \subseteq rows
BY DEF Asked, Listed, Organizations, AllUsers, AppsOf, EndpointsOf, LogsOf, LogsBy

LEMMA StatusType == \A error : StatusOf(error) \in {404, 401, 400, 500}
BY DEF StatusOf

-----------------------------------------------------------------------------
(* The initial state *)

LEMMA InitIInv == Init => IInv
<1> SUFFICES ASSUME Init PROVE IInv
  OBVIOUS
<1>1. /\ rows = Seed /\ made = Cardinality(Seed) /\ IsFiniteSet(rows)
      /\ \A c \in Clients : at[c] = "idle"
  BY ReadAssumption DEF Init
<1>2. made \in 0..MaxRows
  BY <1>1, ReadAssumption, FS_CardinalityType
<1>3. active \subseteq Ids
  BY ReadAssumption DEF Init, Rows
<1>4. [op |-> "other"] \in Requests
  BY DEF Requests
<1>5. TypeOK
  BY <1>1, <1>2, <1>3, <1>4, ReadAssumption DEF Init, TypeOK
<1>6. IdInv
  <2> SUFFICES ASSUME NEW x \in rows PROVE x.id <= made
    BY DEF IdInv
  <2>1. x.id \in 1..made
    BY <1>1, ReadAssumption
  <2>2. QED
    BY <1>2, <2>1
<1>7. UniqueInv
  BY <1>1, ReadAssumption DEF UniqueInv
<1>8. PlaceInv /\ FreshInv /\ GoneInv
  BY <1>1 DEF PlaceInv, FreshInv, GoneInv
<1>9. QED
  BY <1>1, <1>5, <1>6, <1>7, <1>8 DEF IInv

-----------------------------------------------------------------------------
(* Steps that change only the client's place and what it is told *)

\* The client has its answer; no row is new.
LEMMA AnswerInv ==
  ASSUME IInv, NEW c \in Clients, NEW status \in {200, 201, 204, 400, 401, 404, 500},
         Answer(c, status), UNCHANGED <<rows, clock, made>>,
         active' \subseteq active, walk' \in Walks \cup {None}
  PROVE  IInv'
<1>0. TypeOK /\ IsFiniteSet(rows) /\ PlaceInv /\ IdInv /\ UniqueInv /\ FreshInv /\ GoneInv
  BY DEF IInv
<1>1. [op |-> "other"] \in Requests
  BY DEF Requests
<1>2. TypeOK'
  BY <1>0, <1>1 DEF Answer, TypeOK
<1>3. /\ at'[c] = "idle"
      /\ \A d \in Clients \ {c} : at'[d] = at[d] /\ req'[d] = req[d]
  BY <1>0 DEF Answer, TypeOK
<1>4. PlaceInv' /\ IdInv' /\ UniqueInv' /\ FreshInv'
  BY <1>0, <1>3 DEF PlaceInv, IdInv, UniqueInv, FreshInv, Asked
<1>5. GoneInv'
  BY <1>0, <1>3 DEF GoneInv, Revoked
<1>6. QED
  BY <1>0, <1>2, <1>4, <1>5 DEF IInv

LEMMA LeaveType ==
  ASSUME TypeOK, NEW c \in Clients, Leave(c)
  PROVE  walk' \in Walks \cup {None}
BY DEF Leave, TypeOK

LEMMA FailInv ==
  ASSUME IInv, NEW c \in Clients, NEW error, Fail(c, error)
  PROVE  IInv'
<1>1. StatusOf(error) \in {200, 201, 204, 400, 401, 404, 500}
  BY StatusType
<1>2. QED
  BY <1>1, AnswerInv, LeaveType DEF Fail, tables, IInv

LEMMA OkInv ==
  ASSUME IInv, NEW c \in Clients, Answer(c, 200), Leave(c), UNCHANGED tables
  PROVE  IInv'
BY AnswerInv, LeaveType DEF tables, IInv

\* The client goes on to another place.
LEMMA GoOnInv ==
  ASSUME IInv, NEW c \in Clients, UNCHANGED <<rows, active>>,
         TypeOK', made <= made',
         \A d \in Clients \ {c} : at'[d] = at[d] /\ req'[d] = req[d],
         at'[c] \in {"count", "select"} => req'[c].op = "list" /\ Asked(req'[c].list),
         at'[c] = "insert" =>
           /\ req'[c].op = "create" /\ req'[c].row \in Rows
           /\ req'[c].row.id <= made'
           /\ \A x \in rows : x.id # req'[c].row.id
           /\ \A d \in Clients \ {c} : at[d] = "insert" => req[d].row.id # req'[c].row.id,
         at'[c] \in {"hash", "app"} =>
           /\ req'[c].op = "resolve"
           /\ req'[c].gone => Revoked(req'[c].key),
         at'[c] = "app" => ~ req'[c].gone
  PROVE  IInv'
<1>0. TypeOK /\ IsFiniteSet(rows) /\ PlaceInv /\ IdInv /\ UniqueInv /\ FreshInv /\ GoneInv
  BY DEF IInv
<1>1. made \in Int /\ made' \in Int /\ \A x \in rows : x.id \in Int
  BY <1>0 DEF TypeOK, Rows, Ids
<1>2. \A d \in Clients : at[d] = "insert" => req[d].row.id \in Int
  BY <1>0 DEF PlaceInv, Rows, Ids
<1>3. PlaceInv'
  BY <1>0 DEF PlaceInv
<1>4. IdInv' /\ UniqueInv'
  BY <1>0, <1>1 DEF IdInv, UniqueInv
<1>5. FreshInv'
  BY <1>0, <1>1, <1>2 DEF FreshInv
<1>6. GoneInv'
  BY <1>0 DEF GoneInv, Revoked
<1>7. QED
  BY <1>0, <1>3, <1>4, <1>5, <1>6 DEF IInv
-----------------------------------------------------------------------------
(* Lists *)

LEMMA AskInv ==
  ASSUME IInv, NEW c \in Clients, NEW list, Asked(list), NEW page, NEW per,
         Ask(c, list, page, per)
  PROVE  IInv'
<1> DEFINE r == [op |-> "list", list |-> list, page |-> PageFrom(page), per |-> PerPageFrom(per)]
           first == [list |-> list, per |-> r.per, page |-> 0, there |-> Listed(list),
                     saw |-> {}, cut |-> FALSE, moved |-> FALSE, end |-> "open"]
<1>0. TypeOK
  BY DEF IInv
<1>1. r \in Requests
  BY PageType DEF Requests, Asked
<1>2. first \in Walks
  <2>1. r.per \in 1..MaxPerPage
    BY PageType
  <2>2. Listed(list) \subseteq Rows
    BY <1>0, ListedType DEF TypeOK
  <2> HIDE DEF r
  <2>3. QED
    BY <2>1, <2>2 DEF Walks, Asked
<1>3. r.op = "list" /\ r.list = list
  OBVIOUS
<1>4. /\ Begin(c, "count", r) /\ UNCHANGED <<clock, made>>
      /\ walk' \in {walk, first, None}
  BY DEF Ask
<1> HIDE DEF r, first
<1>5. TypeOK'
  BY <1>0, <1>1, <1>2, <1>4 DEF Begin, TypeOK
<1>6. at'[c] = "count" /\ req'[c] = r /\ \A d \in Clients \ {c} : at'[d] = at[d] /\ req'[d] = req[d]
  BY <1>0, <1>4 DEF Begin, TypeOK
<1>7. UNCHANGED <<rows, active>> /\ made <= made'
  BY <1>0, <1>4 DEF Begin, TypeOK
<1>8. QED
  BY <1>3, <1>5, <1>6, <1>7, GoOnInv

LEMMA AskedLists ==
  ASSUME NEW id \in Named \ {Bad}
  PROVE  /\ Asked(All("organization")) /\ Asked(All("user"))
         /\ Asked(Of("app", id)) /\ Asked(Of("endpoint", id)) /\ Asked(Of("log", id))
         /\ Asked([kind |-> "log", of |-> None, by |-> id])
BY ReadAssumption DEF Asked, All, Of, Lists, Kinds

LEMMA AskListInv ==
  ASSUME IInv, NEW c \in Clients, AskList(c)
  PROVE  IInv'
<1>0. Asked(All("organization")) /\ Asked(All("user"))
  BY DEF Asked, All, Lists, Kinds
<1>1. PICK page \in Pages, per \in PerPages :
        \/ ListOrgs(c, page, per)
        \/ ListUsers(c, page, per)
        \/ \E id \in Named :
             \/ ListApps(c, id, page, per)
             \/ ListEndpoints(c, id, page, per)
             \/ LogsByOrg(c, id, page, per)
             \/ LogsByUser(c, id, page, per)
  BY DEF AskList
<1>2. CASE ListOrgs(c, page, per) \/ ListUsers(c, page, per)
  BY <1>0, <1>2, AskInv DEF ListOrgs, ListUsers
<1>3. ASSUME NEW id \in Named,
             \/ ListApps(c, id, page, per)
             \/ ListEndpoints(c, id, page, per)
             \/ LogsByOrg(c, id, page, per)
             \/ LogsByUser(c, id, page, per)
      PROVE  IInv'
  BY <1>3, AskedLists, AskInv, FailInv DEF ListApps, ListEndpoints, LogsByOrg, LogsByUser
<1>4. QED
  BY <1>1, <1>2, <1>3

\* The marks that a walk gets.
LEMMA MarkType ==
  ASSUME NEW w \in Walks
  PROVE  /\ [w EXCEPT !.moved = FALSE] \in Walks
         /\ [w EXCEPT !.moved = TRUE] \in Walks
         /\ [w EXCEPT !.end = "refused"] \in Walks
BY DEF Walks

LEMMA CountInv ==
  ASSUME IInv, NEW c \in Clients, at[c] = "count", Count(c)
  PROVE  IInv'
<1>0. TypeOK /\ IsFiniteSet(rows) /\ req[c].op = "list" /\ Asked(req[c].list)
  BY DEF IInv, PlaceInv
<1>1. Cardinality(Listed(req[c].list)) \in Nat
  BY <1>0, ListedType, FS_Subset, FS_CardinalityType
<1>2. walk' \in Walks \cup {None}
  BY <1>0, MarkType DEF Count, TypeOK
<1>3. TypeOK'
  BY <1>0, <1>1, <1>2 DEF Count, tables, TypeOK
<1>4. /\ at'[c] = "select" /\ req' = req
      /\ \A d \in Clients \ {c} : at'[d] = at[d]
      /\ UNCHANGED <<rows, active, made>>
  BY <1>0 DEF Count, tables, TypeOK
<1>5. made <= made'
  BY <1>0, <1>4 DEF TypeOK
<1>6. QED
  BY <1>0, <1>3, <1>4, <1>5, GoOnInv

\* What a read page adds to a walk.
LEMMA ReadType ==
  ASSUME NEW w \in Walks, NEW S, NEW data \in SUBSET Rows, NEW pages
  PROVE  Read(w, S, data, pages) \in Walks
<1> DEFINE saw == w.saw \cup data
           cut == w.cut \/ data # S
           end == IF w.page + 1 >= pages THEN "ended" ELSE "open"
<1>1. saw \in SUBSET Rows /\ w.page + 1 \in Nat
  BY DEF Walks
<1>2. cut \in BOOLEAN
  BY Zenon DEF Walks
<1>3. end \in {"open", "ended", "refused"}
  OBVIOUS
<1>4. Read(w, S, data, pages) = [w EXCEPT !.page = @ + 1, !.saw = saw, !.cut = cut, !.end = end]
  BY DEF Read
<1> HIDE DEF saw, cut, end
<1>5. [w EXCEPT !.page = @ + 1, !.saw = saw, !.cut = cut, !.end = end] \in Walks
  BY <1>1, <1>2, <1>3 DEF Walks
<1>6. QED
  BY <1>4, <1>5

LEMMA SelectInv ==
  ASSUME IInv, NEW c \in Clients, at[c] = "select", Select(c)
  PROVE  IInv'
<1>0. TypeOK /\ Asked(req[c].list)
  BY DEF IInv, PlaceInv
<1>1. PICK S \in SUBSET Listed(req[c].list) :
        \E data \in {S} \cup (IF "cut" \in Faults THEN Cut(S) ELSE {}) :
          /\ Answer(c, 200)
          /\ walk' = IF c = Watched /\ walk # None
                     THEN Read(walk, S, data, TotalPages(total[c], req[c].per)) ELSE walk
  BY DEF Select
<1>2. PICK data \in {S} \cup (IF "cut" \in Faults THEN Cut(S) ELSE {}) :
          /\ Answer(c, 200)
          /\ walk' = IF c = Watched /\ walk # None
                     THEN Read(walk, S, data, TotalPages(total[c], req[c].per)) ELSE walk
  BY <1>1
<1>3. data \in SUBSET Rows
  <2>1. data \subseteq S
    BY <1>2 DEF Cut
  <2>2. QED
    BY <1>0, <2>1, ListedType DEF TypeOK
<1>4. walk' \in Walks \cup {None}
  BY <1>0, <1>2, <1>3, ReadType DEF TypeOK
<1>5. UNCHANGED tables
  BY DEF Select
<1>6. QED
  BY <1>2, <1>4, <1>5, AnswerInv DEF tables

LEMMA SelectRefusedInv ==
  ASSUME IInv, NEW c \in Clients, SelectRefused(c)
  PROVE  IInv'
<1>1. walk' \in Walks \cup {None}
  BY MarkType DEF SelectRefused, IInv, TypeOK
<1>2. QED
  BY <1>1, AnswerInv, StatusType DEF SelectRefused, tables

-----------------------------------------------------------------------------
(* Rows by id *)

LEMMA ReadOneInv ==
  ASSUME IInv, NEW c \in Clients, NEW kind, NEW id, ReadOne(c, kind, id)
  PROVE  IInv'
BY FailInv, OkInv DEF ReadOne

LEMMA AskOneInv ==
  ASSUME IInv, NEW c \in Clients, AskOne(c)
  PROVE  IInv'
<1>1. ASSUME NEW id, \/ GetOrg(c, id) \/ GetApp(c, id) \/ GetUser(c, id) \/ GetEndpoint(c, id)
                     \/ GetMe(c, id)
      PROVE  IInv'
  BY <1>1, ReadOneInv, FailInv DEF GetOrg, GetApp, GetUser, GetEndpoint, GetMe
<1>2. ASSUME NEW id, GetPolicy(c, id) \/ ListAPIKeys(c, id) \/ ListWorkspaces(c, id)
      PROVE  IInv'
  BY <1>2, FailInv, OkInv DEF GetPolicy, ListAPIKeys, ListWorkspaces, ReadAll
<1>3. QED
  BY <1>1, <1>2 DEF AskOne
-----------------------------------------------------------------------------
(* New rows *)

LEMMA StampInv ==
  ASSUME IInv, NEW c \in Clients, NEW kind \in Kinds, NEW of \in Ids \cup {None},
         NEW by \in Ids \cup {None}, at[c] = "idle", Stamp(c, kind, of, by)
  PROVE  IInv'
<1> DEFINE new == NewRow(kind, of, by, clock')
           r   == [op |-> "create", row |-> new]
<1>0. TypeOK /\ PlaceInv /\ IdInv /\ FreshInv
  BY DEF IInv
<1>1. /\ made < MaxRows /\ made' = made + 1 /\ clock' \in {clock, clock + 1}
      /\ Begin(c, "insert", r) /\ Leave(c)
  BY DEF Stamp
<1>2. made' \in Ids /\ made' \in 0..MaxRows /\ clock' \in Nat /\ made \in Int /\ made' \in Int
  BY <1>0, <1>1, ReadAssumption DEF TypeOK, Ids
<1>3. new \in Rows /\ new.id = made'
  BY <1>1, <1>2 DEF NewRow, Rows
<1> HIDE DEF new
<1>4. r \in Requests /\ r.op = "create" /\ r.row = new
  BY <1>3 DEF Requests
<1> HIDE DEF r
<1>5. walk' \in Walks \cup {None}
  BY <1>0, <1>1, LeaveType
<1>6. TypeOK'
  BY <1>0, <1>1, <1>2, <1>4, <1>5 DEF Begin, TypeOK
<1>7. /\ at'[c] = "insert" /\ req'[c] = r
      /\ \A d \in Clients \ {c} : at'[d] = at[d] /\ req'[d] = req[d]
      /\ UNCHANGED <<rows, active>>
  BY <1>0, <1>1 DEF Begin, TypeOK
<1>8. \A x \in rows : x.id # made'
  <2>1. \A x \in rows : x.id \in Int /\ x.id <= made
    BY <1>0 DEF IdInv, TypeOK, Rows, Ids
  <2>2. QED
    BY <1>1, <1>2, <2>1
<1>9. \A d \in Clients \ {c} : at[d] = "insert" => req[d].row.id # made'
  <2>1. \A d \in Clients : at[d] = "insert" => req[d].row.id \in Int /\ req[d].row.id <= made
    BY <1>0 DEF PlaceInv, FreshInv, Rows, Ids
  <2>2. QED
    BY <1>1, <1>2, <2>1
<1>10. made <= made' /\ made' <= made'
  BY <1>1, <1>2
<1>11. QED
  BY <1>3, <1>4, <1>6, <1>7, <1>8, <1>9, <1>10, GoOnInv

LEMMA InsertInv ==
  ASSUME IInv, NEW c \in Clients, at[c] = "insert", Insert(c)
  PROVE  IInv'
<1> DEFINE x == req[c].row
<1>0. TypeOK /\ IsFiniteSet(rows) /\ PlaceInv /\ IdInv /\ UniqueInv /\ FreshInv /\ GoneInv
  BY DEF IInv
<1>1. x \in Rows /\ x.id <= made /\ x.id \in Ids /\ \A y \in rows : y.id # x.id
  BY <1>0 DEF PlaceInv, FreshInv, Rows
<1>2. /\ rows' = rows \cup {x} /\ Answer(c, 201) /\ UNCHANGED <<clock, made>>
      /\ active' = IF x.kind = "key" THEN active \cup {x.id} ELSE active
  BY DEF Insert
<1>3. walk' \in Walks \cup {None}
  BY <1>0, MarkType DEF Insert, TypeOK
<1>4. /\ at'[c] = "idle"
      /\ \A d \in Clients \ {c} : at'[d] = at[d] /\ req'[d] = req[d]
  BY <1>0, <1>2 DEF Answer, TypeOK
<1>5. \A d \in Clients \ {c} : at[d] = "insert" => req[d].row.id # x.id
  BY <1>0 DEF FreshInv
<1> HIDE DEF x
<1>6. TypeOK'
  <2>1. [op |-> "other"] \in Requests
    BY DEF Requests
  <2>2. QED
    BY <1>0, <1>1, <1>2, <1>3, <2>1 DEF Answer, TypeOK
<1>7. IsFiniteSet(rows')
  BY <1>0, <1>2, FS_AddElement
<1>8. PlaceInv'
  BY <1>0, <1>4 DEF PlaceInv
<1>9. IdInv' /\ UniqueInv'
  BY <1>0, <1>1, <1>2 DEF IdInv, UniqueInv
<1>10. FreshInv'
  BY <1>0, <1>2, <1>4, <1>5 DEF FreshInv
<1>11. GoneInv'
  <2>1. \A k : Revoked(k) => Revoked(k)'
    BY <1>1, <1>2 DEF Revoked
  <2>2. QED
    BY <1>0, <1>4, <2>1 DEF GoneInv
<1>12. QED
  BY <1>6, <1>7, <1>8, <1>9, <1>10, <1>11 DEF IInv

LEMMA RevokeInv ==
  ASSUME IInv, NEW c \in Clients, NEW k, RevokeAPIKey(c, k)
  PROVE  IInv'
<1>1. CASE Fail(c, "bad_request") \/ Fail(c, "internal")
  BY <1>1, FailInv
<1>2. CASE Revoke(k) /\ Answer(c, 204) /\ Leave(c) /\ UNCHANGED <<rows, clock, made>>
  BY <1>2, AnswerInv, LeaveType DEF Revoke, IInv
<1>3. QED
  BY <1>1, <1>2 DEF RevokeAPIKey

LEMMA ChangeInv ==
  ASSUME IInv, NEW c \in Clients, at[c] = "idle", Change(c)
  PROVE  IInv'
<1>1. ASSUME NEW m \in Makes, CreateRow(c, m[1], m[2], m[3]) PROVE IInv'
  <2>1. m[1] \in Kinds /\ m[2] \in Ids \cup {None} /\ m[3] \in Ids \cup {None}
    BY ReadAssumption
  <2>2. QED
    BY <1>1, <2>1, StampInv DEF CreateRow
<1>2. ASSUME NEW a \in Named, CreateAPIKey(c, a) PROVE IInv'
  <2>1. CASE Fail(c, "bad_request")
    BY <2>1, FailInv
  <2>2. CASE <<"key", a, None>> \in Makes /\ Stamp(c, "key", a, None)
    <3>1. a \in Ids \cup {None}
      <4>1. <<"key", a, None>> \in Kinds \X (Ids \cup {None}) \X (Ids \cup {None})
        BY <2>2, ReadAssumption
      <4>2. QED
        BY <4>1
    <3>2. QED
      BY <2>2, <3>1, StampInv DEF Kinds
  <2>3. QED
    BY <1>2, <2>1, <2>2 DEF CreateAPIKey
<1>3. QED
  BY <1>1, <1>2, RevokeInv DEF Change

-----------------------------------------------------------------------------
(* The resolver *)

LEMMA ResolveInv ==
  ASSUME IInv, NEW c \in Clients, NEW k \in Keys, Resolve(c, k)
  PROVE  IInv'
<1> DEFINE r == [op |-> "resolve", key |-> k, gone |-> Revoked(k)]
<1>0. TypeOK
  BY DEF IInv
<1>1. r \in Requests
  <2>1. Revoked(k) \in BOOLEAN
    BY DEF Revoked
  <2>2. k \in Ids
    BY ReadAssumption
  <2>3. QED
    BY <2>1, <2>2 DEF Requests
<1>2. r.op = "resolve" /\ r.key = k /\ (r.gone => Revoked(k))
  OBVIOUS
<1>3. Begin(c, "hash", r) /\ Leave(c) /\ UNCHANGED <<clock, made>>
  BY DEF Resolve
<1> HIDE DEF r
<1>4. TypeOK'
  BY <1>0, <1>1, <1>3, LeaveType DEF Begin, TypeOK
<1>5. /\ at'[c] = "hash" /\ req'[c] = r
      /\ \A d \in Clients \ {c} : at'[d] = at[d] /\ req'[d] = req[d]
      /\ UNCHANGED <<rows, active>> /\ made <= made'
  BY <1>0, <1>3 DEF Begin, TypeOK
<1>6. QED
  BY <1>2, <1>4, <1>5, GoOnInv

LEMMA GetByHashInv ==
  ASSUME IInv, NEW c \in Clients, at[c] = "hash", GetByHash(c)
  PROVE  IInv'
<1>0. TypeOK /\ req[c].op = "resolve" /\ (req[c].gone => Revoked(req[c].key))
  BY DEF IInv, PlaceInv, GoneInv
<1>1. CASE Fail(c, "not_found") \/ Fail(c, "internal")
  BY <1>1, FailInv
<1>2. CASE /\ KeyByHash(req[c].key) # {}
           /\ at' = [at EXCEPT ![c] = "app"]
           /\ UNCHANGED <<tables, req, total, reply, walk>>
  <2>1. TypeOK'
    BY <1>0, <1>2 DEF tables, TypeOK
  <2>2. /\ at'[c] = "app" /\ req' = req
        /\ \A d \in Clients \ {c} : at'[d] = at[d]
        /\ UNCHANGED <<rows, active, made>>
    BY <1>0, <1>2 DEF tables, TypeOK
  <2>3. ~ req[c].gone
    BY <1>0, <1>2 DEF KeyByHash, Revoked
  <2>4. made <= made'
    BY <1>0, <2>2 DEF TypeOK
  <2>5. QED
    BY <1>0, <2>1, <2>2, <2>3, <2>4, GoOnInv
<1>3. QED
  BY <1>1, <1>2 DEF GetByHash

-----------------------------------------------------------------------------
LEMMA IInvStep == IInv /\ [Next]_vars => IInv'
<1> SUFFICES ASSUME IInv, [Next]_vars PROVE IInv'
  OBVIOUS
<1>1. ASSUME NEW c \in Clients, Call(c) PROVE IInv'
  BY <1>1, AskListInv, AskOneInv, ChangeInv, ResolveInv DEF Call
<1>2. ASSUME NEW c \in Clients, Query(c) PROVE IInv'
  <2>1. CASE at[c] = "count" /\ (Count(c) \/ CountFails(c))
    BY <2>1, CountInv, FailInv DEF CountFails
  <2>2. CASE at[c] = "select" /\ (Select(c) \/ SelectFails(c) \/ SelectRefused(c))
    BY <2>2, SelectInv, SelectRefusedInv, FailInv DEF SelectFails
  <2>3. CASE at[c] = "insert" /\ (Insert(c) \/ InsertFails(c))
    BY <2>3, InsertInv, FailInv DEF InsertFails
  <2>4. CASE at[c] = "hash" /\ GetByHash(c)
    BY <2>4, GetByHashInv
  <2>5. CASE at[c] = "app" /\ ResolvedApp(c)
    BY <2>5, OkInv, FailInv DEF ResolvedApp
  <2>6. QED
    BY <1>2, <2>1, <2>2, <2>3, <2>4, <2>5 DEF Query
<1>3. CASE UNCHANGED vars
  BY <1>3 DEF vars, IInv, TypeOK, PlaceInv, IdInv, UniqueInv, FreshInv, GoneInv, Revoked, Asked
<1>4. QED
  BY <1>1, <1>2, <1>3 DEF Next

\* Every variable keeps its type, whatever clients ask for as a page.
THEOREM TypeCorrect == Spec => []TypeOK
<1>1. IInv => TypeOK
  BY DEF IInv
<1>2. QED
  BY <1>1, InitIInv, IInvStep, PTL DEF Spec

\* A key revoked before a request came in never identifies an app to it, in
\* spite of keys and rows that others create between the two queries.
THEOREM RevokedKeysRefusedCorrect == Spec => []RevokedKeysRefused
<1>1. IInv => RevokedKeysRefused
  BY DEF IInv, GoneInv, RevokedKeysRefused
<1>2. QED
  BY <1>1, InitIInv, IInvStep, PTL DEF Spec

-----------------------------------------------------------------------------
(***************************************************************************)
(* Pages.  A second invariant says what the pages read so far leave out:   *)
(* a row not seen yet has all rows of those pages before it.               *)
(***************************************************************************)

\* Listed, of any set of rows.
ListedIn(R, list) ==
    {x \in R : /\ x.kind = list.kind
               /\ list.kind \in {"app", "endpoint"} => x.of = list.of
               /\ list.kind = "log" /\ list.by = None => x.of = list.of
               /\ list.kind = "log" /\ list.by # None => x.by = list.by}

\* x has a created_at of its own in list L, and the rows listed before it.
Alone(x, L) == \A y \in L \ {x} : y.born # x.born
Newer(x, L) == {y \in L : y.born > x.born}

\* What the client has got of list L.
WalkOK(w, L) ==
    /\ w.end # "refused"
    /\ w.there \subseteq L
    /\ w.end = "open" /\ w.page > 0 => w.page * w.per < Cardinality(L)
    /\ ~ w.cut => \A x \in w.there \ w.saw :
                    Alone(x, L) => Cardinality(Newer(x, L)) >= w.page * w.per
    /\ w.end = "ended" /\ ~ w.cut /\ ~ w.moved => \A x \in w.there \ w.saw : ~ Alone(x, L)

WalkInv ==
    walk # None =>
        /\ Asked(walk.list)
        /\ WalkOK(walk, ListedIn(rows, walk.list))
        /\ at[Watched] \in {"count", "select"} =>
             /\ walk.end = "open"
             /\ req[Watched].list = walk.list
             /\ req[Watched].per = walk.per
             /\ req[Watched].page = walk.page + 1
        /\ at[Watched] = "select" =>
             /\ total[Watched] <= Cardinality(ListedIn(rows, walk.list))
             /\ ~ walk.moved => total[Watched] = Cardinality(ListedIn(rows, walk.list))

LEMMA ListedIs ==
  ASSUME NEW list, Asked(list)
  PROVE  Listed(list) = ListedIn(rows, list)
<1>1. CASE list.kind = "organization"
  BY <1>1 DEF Listed, ListedIn, Organizations
<1>2. CASE list.kind = "user"
  BY <1>2 DEF Listed, ListedIn, AllUsers
<1>3. CASE list.kind = "app"
  BY <1>3 DEF Listed, ListedIn, AppsOf
<1>4. CASE list.kind = "endpoint"
  BY <1>4 DEF Listed, ListedIn, EndpointsOf
<1>5. CASE list.kind = "log" /\ list.by = None
  BY <1>5 DEF Listed, ListedIn, LogsOf
<1>6. CASE list.kind = "log" /\ list.by # None
  BY <1>6 DEF Listed, ListedIn, LogsBy
<1>7. QED
  BY <1>1, <1>2, <1>3, <1>4, <1>5, <1>6 DEF Asked

\* A list is finite and has no more rows than an int can count.
LEMMA ListedSize ==
  ASSUME IInv, NEW list
  PROVE  LET L == ListedIn(rows, list)
         IN  /\ L \subseteq Rows
             /\ IsFiniteSet(L)
             /\ Cardinality(L) \in Nat
             /\ Cardinality(L) <= MaxInt
<1> DEFINE L == ListedIn(rows, list)
           f == [x \in L |-> x.id]
<1>1. TypeOK /\ IsFiniteSet(rows) /\ UniqueInv
  BY DEF IInv
<1>2. L \subseteq rows /\ L \subseteq Rows
  BY <1>1 DEF ListedIn, TypeOK
<1>3. IsFiniteSet(L) /\ Cardinality(L) \in Nat
  BY <1>1, <1>2, FS_Subset, FS_CardinalityType
<1>4. f \in Injection(L, 1..MaxRows)
  <2>1. \A x \in L : x.id \in 1..MaxRows
    BY <1>2 DEF Rows, Ids
  <2>2. \A x, y \in L : f[x] = f[y] => x = y
    BY <1>1, <1>2 DEF UniqueInv
  <2>3. QED
    BY <2>1, <2>2 DEF Injection, IsInjective
<1>5. IsFiniteSet(1..MaxRows) /\ Cardinality(1..MaxRows) = MaxRows
  BY ReadAssumption, FS_Interval
<1>6. Cardinality(L) <= MaxRows
  BY <1>4, <1>5, FS_Injection
<1>7. QED
  BY <1>2, <1>3, <1>6, ReadAssumption

\* A product does not get smaller with a larger factor.
LEMMA TimesMono ==
  ASSUME NEW a \in Int, NEW b \in Int, NEW c \in Nat, a <= b
  PROVE  a * c <= b * c
<1>1. (b - a) * c >= 0
  BY SMT
<1>2. (b - a) * c = b * c - a * c
  BY SMT
<1>3. a * c \in Int /\ b * c \in Int
  BY SMT
<1>4. QED
  BY <1>1, <1>2, <1>3

LEMMA TimesNext ==
  ASSUME NEW a \in Nat, NEW c \in Nat
  PROVE  /\ a * c \in Nat /\ (a + 1) * c \in Nat
         /\ (a + 1) * c = a * c + c
BY SMT

\* The pages up to TotalPages are those that begin before the last row, and no
\* row is after them (NewResult).
LEMMA PagesCover ==
  ASSUME NEW n \in Nat, NEW per \in Nat \ {0}, NEW p \in Nat
  PROVE  /\ p < TotalPages(n, per) => p * per < n
         /\ p >= TotalPages(n, per) => p * per >= n
<1> DEFINE q == n \div per
           m == n % per
<1>1. q \in Nat /\ m \in 0..(per - 1) /\ n = q * per + m
  BY SMT
<1>2. TotalPages(n, per) = q + (IF m # 0 THEN 1 ELSE 0)
  BY DEF TotalPages
<1> HIDE DEF q, m
<1>3. ASSUME p < TotalPages(n, per) PROVE p * per < n
  <2>1. CASE m = 0
    <3>1. p + 1 <= q
      BY <2>1, <1>1, <1>2, <1>3
    <3>2. (p + 1) * per <= q * per
      BY <3>1, <1>1, TimesMono
    <3>3. (p + 1) * per = p * per + per /\ p * per \in Int /\ q * per \in Int
      BY <1>1, SMT
    <3>4. QED
      BY <2>1, <1>1, <3>2, <3>3
  <2>2. CASE m # 0
    <3>1. p <= q
      BY <2>2, <1>1, <1>2, <1>3
    <3>2. p * per <= q * per
      BY <3>1, <1>1, TimesMono
    <3>3. p * per \in Int /\ q * per \in Int
      BY <1>1, SMT
    <3>4. QED
      BY <2>2, <1>1, <3>2, <3>3
  <2>3. QED
    BY <2>1, <2>2
<1>4. ASSUME p >= TotalPages(n, per) PROVE p * per >= n
  <2>1. CASE m = 0
    <3>1. q * per <= p * per
      BY <2>1, <1>1, <1>2, <1>4, TimesMono
    <3>2. p * per \in Int /\ q * per \in Int
      BY <1>1, SMT
    <3>3. QED
      BY <2>1, <1>1, <3>1, <3>2
  <2>2. CASE m # 0
    <3>1. (q + 1) * per <= p * per
      BY <2>2, <1>1, <1>2, <1>4, TimesMono
    <3>2. (q + 1) * per = q * per + per /\ p * per \in Int /\ q * per \in Int
      BY <1>1, SMT
    <3>3. QED
      BY <1>1, <3>1, <3>2
  <2>3. QED
    BY <2>1, <2>2
<1>5. QED
  BY <1>3, <1>4

\* An offset that an int can hold does not wrap.
LEMMA NoWrap ==
  ASSUME NEW n \in Nat, n <= MaxInt
  PROVE  Wrapped(n) = n
<1> DEFINE M == MaxInt + 1
<1>1. M \in Nat /\ n + M >= 0 /\ n + M < 2 * M
  BY ReadAssumption
<1>2. \A a, b \in Nat : a < b => a % b = a
  BY SMT
<1>3. (n + M) % (2 * M) = n + M
  BY <1>1, <1>2
<1>4. Wrapped(n) = ((n + M) % (2 * M)) - M
  BY ReadAssumption DEF Wrapped
<1> HIDE DEF M
<1>5. QED
  BY <1>1, <1>3, <1>4

\* A row that is not on a page, nor on those before it, has all their rows
\* before it, if it has a created_at of its own.
LEMMA PageSkips ==
  ASSUME NEW L \in SUBSET Rows, IsFiniteSet(L),
         NEW per \in Nat \ {0}, NEW offset \in Nat,
         NEW S \in SUBSET L, IsPage(S, L, offset, per),
         NEW x \in L \ S, Alone(x, L), Cardinality(Newer(x, L)) >= offset
  PROVE  Cardinality(Newer(x, L)) >= offset + per
<1> DEFINE n == Cardinality(L)
           skipped == IF offset < n THEN offset ELSE n
           N == Newer(x, L)
<1>1. n \in Nat /\ IsFiniteSet(N) /\ Cardinality(N) \in Nat /\ N \subseteq L
  BY FS_Subset, FS_CardinalityType DEF Newer
<1>2. Cardinality(S) = IF n - skipped < per THEN n - skipped ELSE per
  BY DEF IsPage
<1>3. PICK before \in SUBSET (L \ S) :
        /\ Cardinality(before) = skipped
        /\ \A a \in before, y \in S \cup (L \ (S \cup before)) : a.born >= y.born
        /\ \A a \in S, y \in L \ (S \cup before) : a.born >= y.born
  BY DEF IsPage
<1>4. \A y \in L : y.born \in Nat /\ (y # x => y.born # x.born)
  BY DEF Alone, Rows
<1>5. IsFiniteSet(before) /\ IsFiniteSet(S)
  BY FS_Subset
<1>6. x \notin before
  <2>1. SUFFICES ASSUME x \in before PROVE FALSE
    OBVIOUS
  <2>2. N \subseteq before \ {x}
    <3>1. \A y \in L \ before : x.born >= y.born
      BY <1>3, <2>1
    <3>2. QED
      BY <1>4, <3>1 DEF Newer
  <2>3. Cardinality(before \ {x}) = Cardinality(before) - 1 /\ IsFiniteSet(before \ {x})
    BY <1>5, <2>1, FS_RemoveElement
  <2>4. Cardinality(N) <= skipped - 1
    BY <1>3, <2>2, <2>3, FS_Subset
  <2>5. skipped <= offset /\ skipped \in Nat
    BY <1>1
  <2> HIDE DEF skipped, N
  <2>6. Cardinality(N) >= offset
    BY DEF N
  <2>7. QED
    BY <1>1, <2>4, <2>5, <2>6
<1>7. S \cup before \subseteq N
  <2>1. \A y \in S \cup before : y \in L /\ y # x /\ y.born >= x.born
    BY <1>3, <1>6
  <2>2. QED
    BY <1>4, <2>1 DEF Newer
<1>8. Cardinality(S \cup before) = Cardinality(S) + Cardinality(before)
      /\ IsFiniteSet(S \cup before)
  <2>1. S \cap before = {}
    OBVIOUS
  <2>2. Cardinality(S \cap before) = 0
    BY <2>1, FS_EmptySet
  <2>3. IsFiniteSet(S \cup before)
        /\ Cardinality(S \cup before)
             = Cardinality(S) + Cardinality(before) - Cardinality(S \cap before)
    BY <1>5, FS_Union
  <2>4. Cardinality(S) \in Nat /\ Cardinality(before) \in Nat
    BY <1>5, FS_CardinalityType
  <2>5. QED
    BY <2>2, <2>3, <2>4
<1>9. Cardinality(S) + skipped <= Cardinality(N)
  BY <1>1, <1>3, <1>7, <1>8, FS_Subset
<1>10. Cardinality(N) <= n - 1
  <2>1. N \subseteq L \ {x}
    BY DEF Newer, Rows
  <2>2. IsFiniteSet(L \ {x}) /\ Cardinality(L \ {x}) = n - 1
    BY FS_RemoveElement
  <2>3. QED
    BY <2>1, <2>2, FS_Subset
<1>11. Cardinality(N) >= offset + per
  <2>1. skipped = (IF offset < n THEN offset ELSE n)
    OBVIOUS
  <2> HIDE DEF n, skipped, N
  <2>2. QED
    BY <1>1, <1>2, <1>9, <1>10, <2>1
<1>12. QED
  BY <1>11

\* New rows only add to what is before a row.
LEMMA WalkGrows ==
  ASSUME NEW w \in Walks, NEW L, NEW M \in SUBSET Rows, L \subseteq M, IsFiniteSet(M),
         WalkOK(w, L)
  PROVE  WalkOK(w, M) /\ WalkOK([w EXCEPT !.moved = TRUE], M)
<1>1. IsFiniteSet(L) /\ Cardinality(L) \in Nat /\ Cardinality(M) \in Nat
      /\ Cardinality(L) <= Cardinality(M)
  BY FS_Subset, FS_CardinalityType
<1>2. \A x \in L : Alone(x, M) => Alone(x, L)
  BY DEF Alone
<1>3. \A x : /\ Cardinality(Newer(x, L)) <= Cardinality(Newer(x, M))
             /\ Cardinality(Newer(x, L)) \in Nat /\ Cardinality(Newer(x, M)) \in Nat
  <2> SUFFICES ASSUME NEW x
               PROVE  /\ Cardinality(Newer(x, L)) <= Cardinality(Newer(x, M))
                      /\ Cardinality(Newer(x, L)) \in Nat /\ Cardinality(Newer(x, M)) \in Nat
    OBVIOUS
  <2>1. Newer(x, L) \subseteq Newer(x, M) /\ Newer(x, M) \subseteq M
    BY DEF Newer
  <2>2. QED
    BY <2>1, FS_Subset, FS_CardinalityType
<1>4. w.page * w.per \in Nat
  BY SMT DEF Walks
<1>5. w.there \subseteq M
  BY DEF WalkOK
<1>6. w.end = "open" /\ w.page > 0 => w.page * w.per < Cardinality(M)
  BY <1>1, <1>4 DEF WalkOK
<1>7. ~ w.cut => \A x \in w.there \ w.saw :
                   Alone(x, M) => Cardinality(Newer(x, M)) >= w.page * w.per
  <2> SUFFICES ASSUME ~ w.cut, NEW x \in w.there \ w.saw, Alone(x, M)
               PROVE  Cardinality(Newer(x, M)) >= w.page * w.per
    OBVIOUS
  <2>1. Cardinality(Newer(x, L)) >= w.page * w.per
    BY <1>2 DEF WalkOK
  <2>2. QED
    BY <2>1, <1>3, <1>4
<1>8. w.end = "ended" /\ ~ w.cut /\ ~ w.moved => \A x \in w.there \ w.saw : ~ Alone(x, M)
  BY <1>2 DEF WalkOK
<1>9. WalkOK(w, M)
  BY <1>5, <1>6, <1>7, <1>8 DEF WalkOK
<1>10. WalkOK([w EXCEPT !.moved = TRUE], M)
  BY <1>9 DEF WalkOK, Walks
<1>11. QED
  BY <1>9, <1>10

\* A page that is read brings a walk forward.  The number of pages comes from a
\* count n of the rows, which may have become more.
LEMMA WalkReads ==
  ASSUME NEW w \in Walks, NEW L \in SUBSET Rows, IsFiniteSet(L), WalkOK(w, L),
         w.end = "open", NEW S \in SUBSET L, IsPage(S, L, w.page * w.per, w.per),
         NEW data \in SUBSET S, NEW n \in Nat, n <= Cardinality(L),
         ~ w.moved => n = Cardinality(L)
  PROVE  WalkOK(Read(w, S, data, TotalPages(n, w.per)), L)
<1> DEFINE pages == TotalPages(n, w.per)
           v == Read(w, S, data, pages)
<1>1. w.page \in Nat /\ w.per \in Nat \ {0} /\ w.page + 1 \in Nat
  BY DEF Walks
<1>2. /\ v.page = w.page + 1 /\ v.per = w.per /\ v.there = w.there
      /\ v.saw = w.saw \cup data /\ v.moved = w.moved
      /\ v.cut = (w.cut \/ data # S)
      /\ v.end = IF w.page + 1 >= pages THEN "ended" ELSE "open"
  BY DEF Read, Walks
<1>3. Cardinality(L) \in Nat /\ \A x : IsFiniteSet(Newer(x, L)) /\ Cardinality(Newer(x, L)) \in Nat
  BY FS_Subset, FS_CardinalityType DEF Newer
<1>4. /\ w.page * w.per \in Nat /\ (w.page + 1) * w.per \in Nat
      /\ (w.page + 1) * w.per = w.page * w.per + w.per
  BY <1>1, TimesNext
<1>5. pages \in Int
  BY <1>1, SMT DEF TotalPages
<1>6. /\ w.page + 1 < pages => (w.page + 1) * w.per < n
      /\ w.page + 1 >= pages => (w.page + 1) * w.per >= n
  BY <1>1, PagesCover
<1>7. ASSUME ~ v.cut, NEW x \in v.there \ v.saw, Alone(x, L)
      PROVE  Cardinality(Newer(x, L)) >= (w.page + 1) * w.per
  <2>1. ~ w.cut /\ data = S /\ x \in w.there \ w.saw /\ x \in L \ S
    BY <1>2, <1>7 DEF WalkOK
  <2>2. Cardinality(Newer(x, L)) >= w.page * w.per
    BY <2>1, <1>7 DEF WalkOK
  <2>3. Cardinality(Newer(x, L)) >= w.page * w.per + w.per
    BY <2>1, <2>2, <1>1, <1>4, <1>7, PageSkips
  <2>4. QED
    BY <2>3, <1>4
<1> HIDE DEF v, pages
<1>8. v.end = "open" => v.page * v.per < Cardinality(L)
  BY <1>1, <1>2, <1>3, <1>4, <1>5, <1>6
<1>9. ASSUME v.end = "ended", ~ v.cut, ~ v.moved, NEW x \in v.there \ v.saw, Alone(x, L)
      PROVE  FALSE
  <2>1. Cardinality(Newer(x, L)) >= Cardinality(L)
    BY <1>1, <1>2, <1>3, <1>4, <1>5, <1>6, <1>7, <1>9
  <2>2. x \in L
    BY <1>2, <1>9 DEF WalkOK
  <2>3. Newer(x, L) \subseteq L \ {x}
    BY DEF Newer, Rows
  <2>4. IsFiniteSet(L \ {x}) /\ Cardinality(L \ {x}) = Cardinality(L) - 1
    BY <2>2, FS_RemoveElement
  <2>5. Cardinality(Newer(x, L)) <= Cardinality(L) - 1
    BY <2>3, <2>4, FS_Subset
  <2>6. QED
    BY <2>1, <2>5, <1>3
<1>10. v.end # "refused" /\ v.there \subseteq L
  BY <1>2 DEF WalkOK
<1>11. WalkOK(v, L)
  BY <1>2, <1>7, <1>8, <1>9, <1>10 DEF WalkOK
<1>12. QED
  BY <1>11 DEF v, pages

\* Steps that leave the walk, the rows and the place of Watched in it alone, or
\* end the walk.
LEMMA KeepWalk ==
  ASSUME WalkInv, UNCHANGED rows, walk' \in {walk, None},
         at'[Watched] \in {"count", "select"} =>
           /\ at'[Watched] = at[Watched]
           /\ req'[Watched] = req[Watched]
           /\ total'[Watched] = total[Watched]
  PROVE  WalkInv'
<1>1. CASE walk' = None
  BY <1>1 DEF WalkInv
<1>2. CASE walk' = walk
  BY <1>2 DEF WalkInv, ListedIn, WalkOK, Alone, Newer, Asked
<1>3. QED
  BY <1>1, <1>2

LEMMA AnswerWalk ==
  ASSUME TypeOK, WalkInv, NEW c \in Clients, NEW status, Answer(c, status),
         UNCHANGED rows, walk' \in {walk, None}
  PROVE  WalkInv'
<1>1. Watched \in Clients
  BY ReadAssumption
<1>2. at'[Watched] \in {"count", "select"} =>
        /\ at'[Watched] = at[Watched]
        /\ req'[Watched] = req[Watched]
        /\ total'[Watched] = total[Watched]
  BY <1>1 DEF Answer, TypeOK
<1>3. QED
  BY <1>2, KeepWalk

LEMMA FailWalk ==
  ASSUME TypeOK, WalkInv, NEW c \in Clients, NEW error, Fail(c, error)
  PROVE  WalkInv'
BY AnswerWalk DEF Fail, Leave, tables

LEMMA OkWalk ==
  ASSUME TypeOK, WalkInv, NEW c \in Clients, NEW status, Answer(c, status), Leave(c),
         UNCHANGED rows
  PROVE  WalkInv'
BY AnswerWalk DEF Leave

\* A request that is no list.
LEMMA BeginWalk ==
  ASSUME TypeOK, WalkInv, NEW c \in Clients, NEW where, NEW request,
         Begin(c, where, request), Leave(c)
  PROVE  WalkInv'
<1>1. Watched \in Clients /\ UNCHANGED <<rows, total>>
  BY ReadAssumption DEF Begin
<1>2. CASE c = Watched
  BY <1>2 DEF Leave, WalkInv
<1>3. CASE c # Watched
  <2>1. at'[Watched] = at[Watched] /\ req'[Watched] = req[Watched] /\ walk' = walk
    BY <1>1, <1>3 DEF Begin, Leave, TypeOK
  <2>2. QED
    BY <1>1, <2>1, KeepWalk
<1>4. QED
  BY <1>2, <1>3

\* The first page of a list starts a walk, the next one goes on with it.
LEMMA AskWalk ==
  ASSUME IInv, WalkInv, NEW c \in Clients, NEW list, Asked(list), NEW page, NEW per,
         Ask(c, list, page, per)
  PROVE  WalkInv'
<1> DEFINE r == [op |-> "list", list |-> list, page |-> PageFrom(page), per |-> PerPageFrom(per)]
           first == [list |-> list, per |-> r.per, page |-> 0, there |-> Listed(list),
                     saw |-> {}, cut |-> FALSE, moved |-> FALSE, end |-> "open"]
           follows == /\ walk # None
                      /\ walk.end = "open" /\ walk.list = list /\ walk.per = r.per
                      /\ r.page = walk.page + 1
<1>1. TypeOK /\ Watched \in Clients
  BY ReadAssumption DEF IInv
<1>2. Begin(c, "count", r)
      /\ walk' = CASE c # Watched -> walk
                   [] c = Watched /\ r.page = 1 -> first
                   [] c = Watched /\ r.page # 1 -> IF follows THEN walk ELSE None
  BY DEF Ask
<1>3. r.list = list /\ r.page \in Nat /\ r.per \in Nat
  BY PageType
<1>4. at'[c] = "count" /\ req'[c] = r /\ UNCHANGED <<rows, total>>
  BY <1>1, <1>2 DEF Begin, TypeOK
<1>5. CASE c # Watched
  <2>1. at'[Watched] = at[Watched] /\ req'[Watched] = req[Watched] /\ walk' = walk
    BY <1>1, <1>2, <1>5 DEF Begin, TypeOK
  <2>2. QED
    BY <1>4, <2>1, KeepWalk
<1>6. CASE c = Watched /\ r.page = 1
  <2> DEFINE L == ListedIn(rows, list)
  <2>1. walk' = first /\ first.there = L
    BY <1>2, <1>6, ListedIs
  <2>2. /\ first.list = list /\ first.per = r.per /\ first.page = 0 /\ first.end = "open"
        /\ first.saw = {} /\ ~ first.cut
    OBVIOUS
  <2> HIDE DEF first, r
  <2>3. first.page * first.per = 0
    BY <2>2, <1>3, SMT
  <2>4. \A x : Cardinality(Newer(x, L)) \in Nat
    <3>1. IsFiniteSet(L)
      BY ListedSize
    <3>2. \A x : IsFiniteSet(Newer(x, L))
      BY <3>1, FS_Subset DEF Newer
    <3>3. QED
      BY <3>2, FS_CardinalityType
  <2>5. \A x : Cardinality(Newer(x, L)) >= first.page * first.per
    BY <2>3, <2>4
  <2>6. WalkOK(first, L)
    BY <2>1, <2>2, <2>5 DEF WalkOK
  <2>7. /\ rows' = rows /\ at'[Watched] = "count" /\ req'[Watched] = r
        /\ r.page = first.page + 1
    BY <1>4, <1>6, <2>2
  <2>8. QED
    BY <2>1, <2>2, <2>6, <2>7, <1>3 DEF WalkInv, Asked
<1>7. CASE c = Watched /\ r.page # 1
  <2>1. walk' = IF follows THEN walk ELSE None
    BY <1>2, <1>7
  <2>2. CASE ~ follows
    <3>1. walk' = None
      BY <2>1, <2>2
    <3>2. QED
      BY <3>1 DEF WalkInv
  <2>3. CASE follows
    <3>1. walk' = walk /\ walk # None /\ rows' = rows /\ at'[Watched] = "count"
          /\ req'[Watched] = r
      BY <1>4, <1>7, <2>1, <2>3
    <3>2. Asked(walk.list) /\ WalkOK(walk, ListedIn(rows, walk.list))
      BY <3>1 DEF WalkInv
    <3>3. walk.end = "open" /\ r.list = walk.list /\ r.per = walk.per /\ r.page = walk.page + 1
      BY <1>3, <2>3
    <3> HIDE DEF r
    <3>4. QED
      BY <3>1, <3>2, <3>3 DEF WalkInv, Asked
  <2>4. QED
    BY <2>2, <2>3
<1>8. QED
  BY <1>5, <1>6, <1>7

LEMMA AskListWalk ==
  ASSUME IInv, WalkInv, NEW c \in Clients, AskList(c)
  PROVE  WalkInv'
<1>0. TypeOK /\ Asked(All("organization")) /\ Asked(All("user"))
  BY DEF IInv, Asked, All, Lists, Kinds
<1>1. PICK page \in Pages, per \in PerPages :
        \/ ListOrgs(c, page, per)
        \/ ListUsers(c, page, per)
        \/ \E id \in Named :
             \/ ListApps(c, id, page, per)
             \/ ListEndpoints(c, id, page, per)
             \/ LogsByOrg(c, id, page, per)
             \/ LogsByUser(c, id, page, per)
  BY DEF AskList
<1>2. CASE ListOrgs(c, page, per) \/ ListUsers(c, page, per)
  BY <1>0, <1>2, AskWalk DEF ListOrgs, ListUsers
<1>3. ASSUME NEW id \in Named,
             \/ ListApps(c, id, page, per)
             \/ ListEndpoints(c, id, page, per)
             \/ LogsByOrg(c, id, page, per)
             \/ LogsByUser(c, id, page, per)
      PROVE  WalkInv'
  BY <1>0, <1>3, AskedLists, AskWalk, FailWalk
     DEF ListApps, ListEndpoints, LogsByOrg, LogsByUser
<1>4. QED
  BY <1>1, <1>2, <1>3

LEMMA CountWalk ==
  ASSUME IInv, WalkInv, NEW c \in Clients, at[c] = "count", Count(c)
  PROVE  WalkInv'
<1>1. TypeOK /\ Watched \in Clients /\ UNCHANGED <<rows, req>>
  BY ReadAssumption DEF IInv, Count, tables
<1>2. CASE c # Watched
  <2>1. at'[Watched] = at[Watched] /\ total'[Watched] = total[Watched] /\ walk' = walk
    BY <1>1, <1>2 DEF Count, TypeOK
  <2>2. QED
    BY <1>1, <2>1, KeepWalk
<1>3. CASE c = Watched /\ walk = None
  BY <1>3 DEF Count, WalkInv
<1>4. CASE c = Watched /\ walk # None
  <2> DEFINE L == ListedIn(rows, walk.list)
  <2>1. /\ Asked(walk.list) /\ WalkOK(walk, L) /\ walk.end = "open"
        /\ req[Watched].list = walk.list /\ req[Watched].per = walk.per
        /\ req[Watched].page = walk.page + 1
    BY <1>4 DEF WalkInv
  <2>2. walk \in Walks
    BY <1>1, <1>4 DEF TypeOK
  <2>3. /\ walk' = [walk EXCEPT !.moved = FALSE]
        /\ at'[Watched] = "select" /\ total'[Watched] = Cardinality(L)
    BY <1>1, <1>4, <2>1, ListedIs DEF Count, TypeOK
  <2>4. /\ walk'.list = walk.list /\ walk'.per = walk.per /\ walk'.page = walk.page
        /\ walk'.end = walk.end /\ walk'.there = walk.there /\ walk'.saw = walk.saw
        /\ walk'.cut = walk.cut
    BY <2>2, <2>3 DEF Walks
  <2>5. Cardinality(L) \in Nat
    BY ListedSize
  <2> HIDE DEF L
  <2>6. WalkOK(walk', L)
    BY <2>1, <2>4 DEF WalkOK
  <2>7. L = ListedIn(rows', walk'.list) /\ Asked(walk'.list)
    BY <1>1, <2>1, <2>4 DEF L, Asked
  <2>8. QED
    BY <1>1, <2>1, <2>3, <2>4, <2>5, <2>6, <2>7 DEF WalkInv, Asked
<1>5. QED
  BY <1>2, <1>3, <1>4

\* The offset of the page that Watched asks for has not wrapped.
LEMMA WalkOffset ==
  ASSUME IInv, WalkInv, walk # None, at[Watched] = "select"
  PROVE  /\ Offset(req[Watched]) = walk.page * walk.per
         /\ walk.page * walk.per \in Nat
<1> DEFINE L == ListedIn(rows, walk.list)
<1>1. walk \in Walks /\ WalkOK(walk, L) /\ walk.end = "open"
      /\ req[Watched].per = walk.per /\ req[Watched].page = walk.page + 1
  BY DEF IInv, TypeOK, WalkInv
<1>2. walk.page \in Nat /\ walk.per \in Nat /\ walk.page * walk.per \in Nat
  <2>1. walk.page \in Nat /\ walk.per \in Nat
    BY <1>1 DEF Walks
  <2>2. QED
    BY <2>1, TimesNext
<1>3. Cardinality(L) \in Nat /\ Cardinality(L) <= MaxInt
  BY ListedSize
<1>4. walk.page * walk.per <= MaxInt
  <2>1. CASE walk.page = 0
    <3>1. walk.page * walk.per = 0
      BY <2>1, <1>2, SMT
    <3>2. QED
      BY <3>1, ReadAssumption
  <2>2. CASE walk.page > 0
    <3>1. walk.page * walk.per < Cardinality(L)
      BY <1>1, <2>2 DEF WalkOK
    <3>2. QED
      BY <3>1, <1>2, <1>3, ReadAssumption
  <2>3. QED
    BY <1>2, <2>1, <2>2
<1>5. (req[Watched].page - 1) * req[Watched].per = walk.page * walk.per
  <2>1. req[Watched].page - 1 = walk.page
    BY <1>1, <1>2
  <2>2. QED
    BY <1>1, <2>1
<1>6. QED
  BY <1>2, <1>4, <1>5, NoWrap DEF Offset

LEMMA SelectWalk ==
  ASSUME IInv, WalkInv, NEW c \in Clients, at[c] = "select", Select(c)
  PROVE  WalkInv'
<1> DEFINE r == req[c]
<1>1. TypeOK /\ Watched \in Clients /\ UNCHANGED rows
  BY ReadAssumption DEF IInv, Select, tables
<1>2. PICK S \in SUBSET Listed(r.list) :
        /\ IsPage(S, Listed(r.list), Offset(r), r.per)
        /\ \E data \in {S} \cup (IF "cut" \in Faults THEN Cut(S) ELSE {}) :
             /\ Answer(c, 200)
             /\ walk' = IF c = Watched /\ walk # None
                        THEN Read(walk, S, data, TotalPages(total[c], r.per)) ELSE walk
  BY DEF Select
<1>3. PICK data \in {S} \cup (IF "cut" \in Faults THEN Cut(S) ELSE {}) :
             /\ Answer(c, 200)
             /\ walk' = IF c = Watched /\ walk # None
                        THEN Read(walk, S, data, TotalPages(total[c], r.per)) ELSE walk
  BY <1>2
<1>4. CASE c # Watched \/ walk = None
  BY <1>1, <1>3, <1>4, AnswerWalk
<1>5. CASE c = Watched /\ walk # None
  <2> DEFINE L == ListedIn(rows, walk.list)
             n == total[Watched]
  <2>1. /\ Asked(walk.list) /\ WalkOK(walk, L) /\ walk.end = "open"
        /\ r.list = walk.list /\ r.per = walk.per
        /\ n <= Cardinality(L) /\ (~ walk.moved => n = Cardinality(L))
    BY <1>5 DEF WalkInv
  <2>2. walk \in Walks /\ n \in Nat
    BY <1>1, <1>5 DEF TypeOK
  <2>3. Listed(r.list) = L /\ Offset(r) = walk.page * walk.per
    BY <1>5, <2>1, ListedIs, WalkOffset
  <2>4. S \in SUBSET L /\ IsPage(S, L, walk.page * walk.per, walk.per)
    BY <1>2, <2>1, <2>3
  <2>5. data \in SUBSET S
    BY <1>3 DEF Cut
  <2>6. L \in SUBSET Rows /\ IsFiniteSet(L)
    BY ListedSize
  <2>7. walk' = Read(walk, S, data, TotalPages(n, walk.per))
    BY <1>3, <1>5, <2>1
  <2>8. at'[Watched] = "idle"
    BY <1>1, <1>3, <1>5 DEF Answer, TypeOK
  <2>9. walk'.list = walk.list
    BY <2>2, <2>7 DEF Read, Walks
  <2> HIDE DEF L, n
  <2>10. WalkOK(walk', L)
    BY <2>1, <2>2, <2>4, <2>5, <2>6, <2>7, WalkReads
  <2>11. L = ListedIn(rows', walk'.list)
    BY <1>1, <2>9 DEF L
  <2>12. QED
    BY <2>1, <2>8, <2>9, <2>10, <2>11 DEF WalkInv, Asked
<1>6. QED
  BY <1>4, <1>5

LEMMA SelectRefusedWalk ==
  ASSUME IInv, WalkInv, NEW c \in Clients, at[c] = "select", SelectRefused(c)
  PROVE  WalkInv'
<1>1. TypeOK /\ UNCHANGED rows /\ Answer(c, StatusOf("internal"))
  BY DEF IInv, SelectRefused, tables
<1>2. CASE c = Watched /\ walk # None
  BY <1>2, WalkOffset DEF SelectRefused
<1>3. CASE ~(c = Watched /\ walk # None)
  <2>1. walk' = walk
    BY <1>3 DEF SelectRefused
  <2>2. QED
    BY <1>1, <2>1, AnswerWalk
<1>4. QED
  BY <1>2, <1>3

LEMMA InsertWalk ==
  ASSUME IInv, IInv', WalkInv, NEW c \in Clients, at[c] = "insert", Insert(c)
  PROVE  WalkInv'
<1> DEFINE L == ListedIn(rows, walk.list)
           M == ListedIn(rows', walk.list)
<1>1. TypeOK /\ Watched \in Clients /\ rows \subseteq rows' /\ Answer(c, 201)
  BY ReadAssumption DEF IInv, Insert
<1>2. CASE c = Watched \/ walk = None
  <2>1. walk' = None
    BY <1>2 DEF Insert
  <2>2. QED
    BY <2>1 DEF WalkInv
<1>3. CASE c # Watched /\ walk # None
  <2>1. /\ at'[Watched] = at[Watched] /\ req'[Watched] = req[Watched]
        /\ total'[Watched] = total[Watched]
    BY <1>1, <1>3 DEF Answer, TypeOK
  <2>2. Asked(walk.list) /\ WalkOK(walk, L) /\ walk \in Walks
    BY <1>1, <1>3 DEF WalkInv, TypeOK
  <2>3. L \subseteq M
    BY <1>1 DEF ListedIn
  <2>4. M \in SUBSET Rows /\ IsFiniteSet(M)
    <3>1. rows' \subseteq Rows /\ IsFiniteSet(rows')
      BY DEF IInv, TypeOK
    <3>2. M \subseteq rows'
      BY DEF ListedIn
    <3>3. QED
      BY <3>1, <3>2, FS_Subset
  <2>5. Cardinality(L) \in Nat /\ Cardinality(M) \in Nat /\ Cardinality(L) <= Cardinality(M)
    BY <2>3, <2>4, FS_Subset, FS_CardinalityType
  <2>6. total[Watched] \in Nat
    BY <1>1 DEF TypeOK
  <2> HIDE DEF L, M
  <2>7. WalkOK(walk, M) /\ WalkOK([walk EXCEPT !.moved = TRUE], M)
    BY <2>2, <2>3, <2>4, WalkGrows
  <2>8. CASE at[Watched] = "select"
    <3>1. walk' = [walk EXCEPT !.moved = TRUE]
      BY <1>3, <2>8 DEF Insert
    <3>2. /\ walk'.list = walk.list /\ walk'.per = walk.per /\ walk'.page = walk.page
          /\ walk'.end = walk.end /\ walk'.moved
      BY <2>2, <3>1 DEF Walks
    <3>3. M = ListedIn(rows', walk'.list)
      BY <3>2 DEF M
    <3>4. /\ walk.end = "open" /\ req[Watched].list = walk.list
          /\ req[Watched].per = walk.per /\ req[Watched].page = walk.page + 1
          /\ total[Watched] <= Cardinality(L)
      BY <1>3, <2>8 DEF WalkInv, L
    <3>5. total[Watched] <= Cardinality(M)
      BY <3>4, <2>5, <2>6
    <3>6. WalkOK(walk', M)
      BY <2>7, <3>1
    <3>7. QED
      BY <2>1, <2>2, <2>8, <3>2, <3>3, <3>4, <3>5, <3>6 DEF WalkInv, Asked
  <2>9. CASE at[Watched] # "select"
    <3>1. walk' = walk
      BY <1>3, <2>9 DEF Insert
    <3>2. M = ListedIn(rows', walk'.list)
      BY <3>1 DEF M
    <3>3. QED
      BY <1>3, <2>1, <2>2, <2>7, <2>9, <3>1, <3>2 DEF WalkInv, Asked
  <2>10. QED
    BY <2>8, <2>9
<1>4. QED
  BY <1>2, <1>3

LEMMA CallWalk ==
  ASSUME IInv, WalkInv, NEW c \in Clients, Call(c)
  PROVE  WalkInv'
<1>1. TypeOK
  BY DEF IInv
<1>2. CASE AskList(c)
  BY <1>2, AskListWalk
<1>3. CASE AskOne(c)
  <2>1. ASSUME NEW id, \/ GetOrg(c, id) \/ GetApp(c, id) \/ GetUser(c, id) \/ GetEndpoint(c, id)
                       \/ GetMe(c, id)
        PROVE  WalkInv'
    <3>1. ASSUME NEW kind, ReadOne(c, kind, id) PROVE WalkInv'
      BY <1>1, <3>1, FailWalk, OkWalk DEF ReadOne, tables
    <3>2. QED
      BY <1>1, <2>1, <3>1, FailWalk DEF GetOrg, GetApp, GetUser, GetEndpoint, GetMe
  <2>2. ASSUME NEW id, GetPolicy(c, id) \/ ListAPIKeys(c, id) \/ ListWorkspaces(c, id)
        PROVE  WalkInv'
    BY <1>1, <2>2, FailWalk, OkWalk
       DEF GetPolicy, ListAPIKeys, ListWorkspaces, ReadAll, tables
  <2>3. QED
    BY <1>3, <2>1, <2>2 DEF AskOne
<1>4. CASE Change(c)
  <2>1. ASSUME NEW m \in Makes, CreateRow(c, m[1], m[2], m[3]) PROVE WalkInv'
    BY <1>1, <2>1, BeginWalk DEF CreateRow, Stamp
  <2>2. ASSUME NEW a \in Named, CreateAPIKey(c, a) PROVE WalkInv'
    BY <1>1, <2>2, BeginWalk, FailWalk DEF CreateAPIKey, Stamp
  <2>3. ASSUME NEW k, RevokeAPIKey(c, k) PROVE WalkInv'
    BY <1>1, <2>3, OkWalk, FailWalk DEF RevokeAPIKey
  <2>4. QED
    BY <1>4, <2>1, <2>2, <2>3 DEF Change
<1>5. ASSUME NEW k \in Keys, Resolve(c, k) PROVE WalkInv'
  BY <1>1, <1>5, BeginWalk DEF Resolve
<1>6. QED
  BY <1>2, <1>3, <1>4, <1>5 DEF Call

LEMMA WalkStep == IInv /\ IInv' /\ WalkInv /\ [Next]_vars => WalkInv'
<1> SUFFICES ASSUME IInv, IInv', WalkInv, [Next]_vars PROVE WalkInv'
  OBVIOUS
<1>0. TypeOK
  BY DEF IInv
<1>1. ASSUME NEW c \in Clients, Query(c) PROVE WalkInv'
  <2>1. CASE at[c] = "count" /\ (Count(c) \/ CountFails(c))
    BY <1>0, <2>1, CountWalk, FailWalk DEF CountFails
  <2>2. CASE at[c] = "select" /\ (Select(c) \/ SelectFails(c) \/ SelectRefused(c))
    BY <1>0, <2>2, SelectWalk, SelectRefusedWalk, FailWalk DEF SelectFails
  <2>3. CASE at[c] = "insert" /\ (Insert(c) \/ InsertFails(c))
    BY <1>0, <2>3, InsertWalk, FailWalk DEF InsertFails
  <2>4. CASE at[c] = "hash" /\ GetByHash(c)
    <3>1. CASE /\ at' = [at EXCEPT ![c] = "app"]
               /\ UNCHANGED <<tables, req, total, reply, walk>>
      <4>1. at'[Watched] \in {"count", "select"} => at'[Watched] = at[Watched]
        BY <1>0, <3>1, ReadAssumption DEF TypeOK
      <4>2. QED
        BY <3>1, <4>1, KeepWalk DEF tables
    <3>2. QED
      BY <1>0, <2>4, <3>1, FailWalk DEF GetByHash
  <2>5. CASE at[c] = "app" /\ ResolvedApp(c)
    BY <1>0, <2>5, OkWalk, FailWalk DEF ResolvedApp, tables
  <2>6. QED
    BY <1>1, <2>1, <2>2, <2>3, <2>4, <2>5 DEF Query
<1>2. CASE UNCHANGED vars
  BY <1>2, KeepWalk DEF vars
<1>3. QED
  BY <1>1, <1>2, CallWalk DEF Next

\* A client that reads all pages gets every row that was there when it began and
\* that has a created_at of its own, and no page of the walk is refused: for any
\* number of rows and clients and any page size (NewResult, Offset, and the
\* ORDER BY created_at DESC of the List methods).
THEOREM WalkSeesAllCorrect == Spec => []WalkSeesAll
<1>1. Init => WalkInv
  BY DEF Init, WalkInv
<1>2. WalkInv => WalkSeesAll
  <2> SUFFICES ASSUME WalkInv, walk # None
               PROVE  /\ walk.end # "refused"
                      /\ walk.end = "ended" /\ ~ walk.cut /\ ~ walk.moved =>
                           \A x \in walk.there \ walk.saw :
                               \E y \in Listed(walk.list) \ {x} : y.born = x.born
    BY DEF WalkSeesAll
  <2>1. Listed(walk.list) = ListedIn(rows, walk.list)
    BY ListedIs DEF WalkInv
  <2>2. WalkOK(walk, Listed(walk.list))
    BY <2>1 DEF WalkInv
  <2>3. QED
    BY <2>2 DEF WalkOK, Alone
<1>3. QED
  BY <1>1, <1>2, InitIInv, IInvStep, WalkStep, PTL DEF Spec
=============================================================================
