------------------------ MODULE ManagedRequest_proofs ------------------------
(***************************************************************************)
(* Theorems about ManagedRequest for any requests, endpoints, bodies,      *)
(* schemas, tables and tokens and any combination of failures.             *)
(***************************************************************************)
EXTENDS ManagedRequest, FiniteSetTheorems, SequenceTheorems, TLAPS

\* What a request has got on its way, and that it is what its client sent.
RouteInv ==
    \A r \in Requests :
        /\ at[r] \in {"new", "tenant", "enforce"} => ep[r] = None
        /\ at[r] # "done" => seen[r] = {}
        /\ at[r] \in {"tenant", "enforce", "intercept"} => body[r] = in[r].body
        /\ at[r] \in {"backend", "select"} =>
             body[r] = InterceptRequest(ep[r], in[r].method, in[r].body)
        /\ at[r] = "select" => ep[r].action = "list"
        /\ ep[r] # None =>
             in[r] \in Inputs /\ token[r] \in Tokens /\ ep[r] \in Matching(in[r])

\* An id is given out once.
RecordsInv ==
    /\ IsFiniteSet(rows)
    /\ \A x \in rows : x.id \in used
    /\ \A x, y \in rows : x.id = y.id => x = y

\* What the services behind URLs got was masked.
ProxiedInv ==
    \A p \in proxied : p[1].masking /\ p[2] \in WithBody =>
        \A l \in p[3].leaves : Exposed(l) => Unreached(l)

IInv == TypeOK /\ RouteInv /\ RecordsInv /\ ProxiedInv /\ SchemaDecides

-----------------------------------------------------------------------------
(* Interceptors and paths *)

\* Any set of naturals has a least element: the intervals that begin with 0 are
\* finite sets, among which strict inclusion is well-founded.
LEMMA LeastNat ==
  ASSUME NEW S \in SUBSET Nat, S # {}
  PROVE  \E m \in S : \A k \in S : m <= k
<1> DEFINE T == {0..n : n \in S}
           R == StrictSubsetOrdering(Nat)
<1>1. IsWellFoundedOn(R, FiniteSubsetsOf(Nat))
  BY FS_StrictSubsetOrderingWellFounded
<1>2. T \subseteq FiniteSubsetsOf(Nat)
  <2>1. ASSUME NEW n \in Nat PROVE 0..n \in SUBSET Nat /\ IsFiniteSet(0..n)
    BY FS_Interval
  <2>2. QED
    BY <2>1 DEF FiniteSubsetsOf
<1>3. PICK x \in T : \A y \in T : <<y, x>> \notin R
  <2>1. T # {}
    OBVIOUS
  <2> HIDE DEF T, R
  <2>2. QED
    BY <1>1, <1>2, <2>1, WFMin, Zenon
<1>4. PICK m \in S : x = 0..m
  OBVIOUS
<1>5. ASSUME NEW k \in S, k < m PROVE FALSE
  <2>1. 0..k \subseteq 0..m /\ 0..k # 0..m
    <3>1. m \in 0..m /\ m \notin 0..k
      BY <1>5
    <3>2. QED
      BY <1>5, <3>1
  <2>2. <<0..k, x>> \in R
    BY <1>4, <2>1 DEF StrictSubsetOrdering
  <2>3. QED
    BY <1>3, <2>2
<1>6. QED
  BY <1>5

\* A masked leaf keeps a prefix of its path; one that is not is as it was.
LEMMA MaskLeafType ==
  ASSUME NEW l \in Leaves
  PROVE  /\ MaskLeaf(l) \in Leaves
         /\ Exposed(MaskLeaf(l)) => MaskLeaf(l) = l /\ Hits(l.path) = {}
<1> USE DEF MaskLeaf
<1>1. l.path \in Seq(Keys \cup {Item}) /\ Hits(l.path) \subseteq 1..Len(l.path)
  BY DEF Leaves, Hits
<1>2. CASE Hits(l.path) = {}
  BY <1>2
<1>3. CASE Hits(l.path) # {}
  <2> DEFINE first == CHOOSE i \in Hits(l.path) : \A j \in Hits(l.path) : i <= j
  <2>1. Hits(l.path) \in SUBSET Nat
    BY <1>1
  <2>2. first \in Hits(l.path)
    BY <1>3, <2>1, LeastNat
  <2>3. first \in 1..Len(l.path)
    BY <1>1, <2>2
  <2>4. ASSUME NEW n \in 1..Len(l.path)
        PROVE  SubSeq(l.path, 1, n) \in Seq(Keys \cup {Item})
    <3>1. \A i \in 1..n : l.path[i] \in Keys \cup {Item}
      BY <1>1
    <3>2. QED
      BY <3>1, SubSeqProperties
  <2>5. MaskLeaf(l) = [path |-> SubSeq(l.path, 1, first), masked |-> TRUE]
    BY <1>3
  <2>6. QED
    BY <2>3, <2>4, <2>5 DEF Leaves, Exposed
<1>4. QED
  BY <1>2, <1>3

\* A value the masker did not hit lies behind an array it does not enter.
LEMMA Missed ==
  ASSUME NEW l \in Leaves, Hits(l.path) = {}, Exposed(l)
  PROVE  Unreached(l)
<1>1. PICK i \in DOMAIN l.path : l.path[i] \in Sensitive
  BY DEF Exposed
<1>2. i \in 1..Len(l.path) /\ Len(l.path) \in Nat
  BY DEF Leaves
<1>3. ~ Walked(l.path, i)
  BY <1>1 DEF Hits
<1>4. \/ l.path[1] = Item
      \/ \E j \in 1..(i - 1) : l.path[j] = Item /\ l.path[j + 1] = Item
  BY <1>3 DEF Walked
<1>5. 1..(i - 1) \subseteq 1..(Len(l.path) - 1)
  BY <1>2
<1>6. QED
  BY <1>4, <1>5 DEF Unreached

LEMMA MaskBodyFacts ==
  ASSUME NEW e, NEW method, NEW b \in Bodies
  PROVE  /\ MaskBody(e, method, b) \in Bodies
         /\ e.masking /\ method \in WithBody =>
              \A l \in MaskBody(e, method, b).leaves : Exposed(l) => Unreached(l)
<1> USE DEF MaskBody
<1>1. b.leaves \subseteq Leaves
  BY DEF Bodies
<1>2. CASE ~ e.masking \/ method \notin WithBody
  BY <1>2
<1>3. CASE e.masking /\ method \in WithBody
  <2>1. MaskBody(e, method, b) = [b EXCEPT !.leaves = {MaskLeaf(l) : l \in b.leaves}]
    BY <1>3
  <2>2. {MaskLeaf(l) : l \in b.leaves} \subseteq Leaves
    BY <1>1, MaskLeafType
  <2>3. MaskBody(e, method, b) \in Bodies
    BY <2>1, <2>2 DEF Bodies
  <2>4. MaskBody(e, method, b).leaves = {MaskLeaf(l) : l \in b.leaves}
    BY <2>1 DEF Bodies
  <2>5. ASSUME NEW l \in b.leaves, Exposed(MaskLeaf(l)) PROVE Unreached(MaskLeaf(l))
    BY <1>1, <2>5, MaskLeafType, Missed
  <2>6. QED
    BY <2>3, <2>4, <2>5
<1>4. QED
  BY <1>2, <1>3

\* The schema alone decides whether the interceptors let a body through.
SchemaFits(e, method, b) ==
    \/ e.schema = None \/ method \notin WithBody \/ b = NoBody
    \/ e.schema \in DOMAIN Accepts /\ b \in Accepts[e.schema]

LEMMA InterceptFacts ==
  ASSUME NEW e, NEW method, NEW b \in Bodies
  PROVE  /\ InterceptRequest(e, method, b) = Bad <=> ~ SchemaFits(e, method, b)
         /\ SchemaFits(e, method, b) =>
              InterceptRequest(e, method, b) = MaskBody(e, method, b)
<1>1. Bad \notin Bodies
  BY RequestAssumption
<1>2. MaskBody(e, method, b) \in Bodies
  BY MaskBodyFacts
<1>3. CASE SchemaFits(e, method, b)
  <2>1. ValidateBody(e, method, b) = b
    BY <1>3 DEF SchemaFits, ValidateBody
  <2>2. QED
    BY <1>1, <1>2, <1>3, <2>1 DEF InterceptRequest
<1>4. CASE ~ SchemaFits(e, method, b)
  <2>1. ValidateBody(e, method, b) = Bad
    BY <1>4 DEF SchemaFits, ValidateBody
  <2>2. QED
    BY <1>4, <2>1 DEF InterceptRequest
<1>5. QED
  BY <1>3, <1>4

\* An id in the path is one of its segments.
LEMMA IDIsNamed ==
  ASSUME NEW path, Len(path) \in Nat, NEW table, NEW id \in Ids,
         id = IDInPath(path, table)
  PROVE  \E k \in 2..Len(path) : path[k] = id
<1> DEFINE after == {k \in 2..Len(path) : path[k - 1] \in Singular[table]}
           first == CHOOSE k \in after : \A l \in after : k <= l
<1>1. Bad \notin Ids
  BY RequestAssumption
<1>2. after # {} /\ id = path[first]
  BY <1>1 DEF IDInPath
<1>3. after \in SUBSET Nat
  OBVIOUS
<1>4. first \in after
  BY <1>2, <1>3, LeastNat
<1>5. QED
  BY <1>2, <1>4

-----------------------------------------------------------------------------
(* Requests, records and fields *)

LEMMA RouteFacts ==
  ASSUME IInv, NEW r \in Requests, at[r] \in {"intercept", "backend", "select"}
  PROVE  /\ ep[r] \in Endpoints /\ ep[r] # None
         /\ in[r] \in Inputs /\ in[r].body \in Bodies /\ Len(in[r].path) \in Nat
         /\ ep[r].app \in Apps /\ in[r].app = ep[r].app
         /\ ep[r].method \in Methods /\ in[r].method = ep[r].method
         /\ in[r].path = ep[r].path
         /\ token[r] \in Tokens /\ token[r].org \in AnyOrg
         /\ ep[r].service \notin Urls => TableOf(ep[r]) \in Tables
<1>1. ep[r] \in Endpoints
  BY DEF IInv, TypeOK
<1>2. ep[r] # None
  BY <1>1, RequestAssumption
<1>3. in[r] \in Inputs /\ token[r] \in Tokens /\ ep[r] \in Matching(in[r])
  BY <1>2 DEF IInv, RouteInv
<1>4. ep[r].app = in[r].app /\ ep[r].method = in[r].method /\ ep[r].path = in[r].path
  BY <1>3 DEF Matching
<1>5. token[r].org \in AnyOrg
  BY <1>3 DEF Tokens
<1>6. QED
  BY <1>1, <1>2, <1>3, <1>4, <1>5, RequestAssumption DEF EndpointsTyped, InputsTyped

\* A request at a backend has the body that masking made of what was sent.
LEMMA BodyFacts ==
  ASSUME IInv, NEW r \in Requests, at[r] \in {"backend", "select"}
  PROVE  /\ body[r] \in Bodies
         /\ body[r] = MaskBody(ep[r], in[r].method, in[r].body)
         /\ ep[r].masking /\ in[r].method \in WithBody =>
              \A l \in body[r].leaves : Exposed(l) => Unreached(l)
<1>1. in[r].body \in Bodies
  BY RouteFacts
<1>2. body[r] \in Bodies
  BY DEF IInv, TypeOK
<1>3. body[r] # Bad
  BY <1>2, RequestAssumption
<1>4. body[r] = InterceptRequest(ep[r], in[r].method, in[r].body)
  BY DEF IInv, RouteInv
<1>5. body[r] = MaskBody(ep[r], in[r].method, in[r].body)
  BY <1>1, <1>3, <1>4, InterceptFacts
<1>6. QED
  BY <1>1, <1>2, <1>5, MaskBodyFacts

LEMMA FieldsFacts ==
  ASSUME IInv, NEW r \in Requests, at[r] = "backend"
  PROVE  /\ Fields(r) \subseteq Leaves /\ Fields(r) \subseteq body[r].leaves
         /\ \A l \in Fields(r) : l.path[1] \in Keys \ Reserved
         /\ ep[r].masking => \A l \in Fields(r) :
              Exposed(l) => Unreached(l) /\ l.path[1] # Item
<1>1. body[r].leaves \subseteq Leaves
  BY BodyFacts DEF Bodies
<1>2. Fields(r) \subseteq body[r].leaves /\ \A l \in Fields(r) : l.path[1] \in Keys \ Reserved
  BY DEF Fields
<1>3. Item \notin Keys
  BY RequestAssumption
<1>4. ASSUME ep[r].masking, NEW l \in Fields(r), Exposed(l)
      PROVE  Unreached(l)
  <2>1. in[r].method \notin {"GET", "DELETE"}
    BY DEF Fields
  <2>2. in[r].method \in WithBody
    BY <2>1, RouteFacts DEF Methods, WithBody
  <2>3. QED
    BY <1>2, <1>4, <2>2, BodyFacts
<1>5. QED
  BY <1>1, <1>2, <1>3, <1>4

\* What a request reads and changes is its own.
LEMMA TargetFacts ==
  ASSUME IInv, NEW r \in Requests, at[r] \in {"backend", "select"}
  PROVE  /\ Mine(r) \subseteq rows /\ Target(r) \subseteq Mine(r)
         /\ \A x \in Mine(r) : InScope(r, x)
         /\ \A x \in Target(r) : \E k \in 2..Len(in[r].path) : in[r].path[k] = x.id
<1>1. Mine(r) \subseteq rows /\ Target(r) \subseteq Mine(r)
  BY DEF Mine, Target
<1>2. \A x \in Mine(r) : InScope(r, x)
  BY RouteFacts DEF Mine, InScope
<1>3. ASSUME NEW x \in Target(r)
      PROVE  \E k \in 2..Len(in[r].path) : in[r].path[k] = x.id
  <2>1. x.id \in Ids
    BY <1>1 DEF IInv, TypeOK, Record
  <2>2. x.id = IDInPath(in[r].path, TableOf(ep[r]))
    BY DEF Target
  <2>3. Len(in[r].path) \in Nat
    BY RouteFacts
  <2>4. QED
    BY <2>1, <2>2, <2>3, IDIsNamed
<1>4. QED
  BY <1>1, <1>2, <1>3

\* An update keeps the table and the identity and owner, unless some field is
\* taken for such a column; its new id is nobody's.
LEMMA UpdatesFacts ==
  ASSUME used \subseteq Ids, NEW x \in Record, NEW fields \in SUBSET Leaves,
         NEW y \in Updates(x, fields)
  PROVE  /\ y \in Record
         /\ y.id = x.id \/ y.id \notin used
         /\ y.data \subseteq x.data \cup fields
         /\ ColumnsOf(fields) \cap Reserved = {} =>
              y.id = x.id /\ y.org = x.org /\ y.app = x.app /\ y.born = x.born
<1> USE DEF Updates
<1>1. y.table = x.table
  OBVIOUS
<1>2. y.id = x.id \/ ("id" \in ColumnsOf(fields) /\ y.id \in Ids \ (used \ {x.id}))
  OBVIOUS
<1>3. y.org = x.org \/ ("organization_id" \in ColumnsOf(fields) /\ y.org \in AnyOrg)
  OBVIOUS
<1>4. y.app = x.app \/ ("app_id" \in ColumnsOf(fields) /\ y.app \in Apps)
  OBVIOUS
<1>5. y.born = x.born \/ ("created_at" \in ColumnsOf(fields) /\ y.born \in Nat)
  <2>1. y.born = x.born \/ ("created_at" \in ColumnsOf(fields) /\ y.born \in 0..Cardinality(Ids))
    OBVIOUS
  <2>2. Cardinality(Ids) \in Nat
    BY RequestAssumption, FS_CardinalityType
  <2>3. QED
    BY <2>1, <2>2
<1>6. y.data \subseteq x.data \cup fields
  OBVIOUS
<1>7. y = [table |-> y.table, id |-> y.id, org |-> y.org, app |-> y.app,
           born |-> y.born, data |-> y.data]
  OBVIOUS
<1>8. /\ x.table \in Tables /\ x.id \in Ids /\ x.org \in AnyOrg /\ x.app \in Apps
      /\ x.born \in Nat /\ x.data \subseteq Leaves
  BY DEF Record
<1> HIDE DEF Updates
<1>9. y \in Record
  <2>1. y.table \in Tables /\ y.id \in Ids /\ y.org \in AnyOrg /\ y.app \in Apps
    BY <1>1, <1>2, <1>3, <1>4, <1>8
  <2>2. y.born \in Nat /\ y.data \in SUBSET Leaves
    BY <1>5, <1>6, <1>8
  <2>3. QED
    BY <1>7, <2>1, <2>2 DEF Record
<1>10. QED
  BY <1>2, <1>3, <1>4, <1>5, <1>6, <1>9 DEF Reserved

-----------------------------------------------------------------------------
(* Type correctness *)

LEMMA InitTypeOK == Init => TypeOK
<1> SUFFICES ASSUME Init PROVE TypeOK
  OBVIOUS
<1>1. NoBody \in Bodies
  BY DEF NoBody, Bodies
<1>2. rows \subseteq Record /\ used \subseteq Ids /\ tokens \subseteq Tokens
  BY RequestAssumption DEF Init, Record
<1>3. QED
  BY <1>1, <1>2 DEF Init, TypeOK, Places

LEMMA AnswerType ==
  ASSUME TypeOK, NEW r \in Requests, NEW status \in Nat, Answer(r, status)
  PROVE  /\ at' \in [Requests -> Places] /\ reply' \in [Requests -> Nat]
         /\ at'[r] = "done" /\ \A q \in Requests \ {r} : at'[q] = at[q]
BY DEF TypeOK, Answer, Places

LEMMA GoToType ==
  ASSUME TypeOK, NEW r \in Requests, NEW where \in Places, GoTo(r, where)
  PROVE  /\ at' \in [Requests -> Places] /\ reply' \in [Requests -> Nat]
         /\ at'[r] = where /\ \A q \in Requests \ {r} : at'[q] = at[q]
BY DEF TypeOK, GoTo, Places

LEMMA ExecutedType ==
  ASSUME TypeOK, NEW r \in Requests, NEW status \in Nat, Executed(r, status)
  PROVE  /\ at' \in [Requests -> Places] /\ reply' \in [Requests -> Nat]
         /\ at'[r] = "done" /\ \A q \in Requests \ {r} : at'[q] = at[q]
BY AnswerType DEF Executed

LEMMA ContextType ==
  ASSUME TypeOK, NEW i \in Inputs, NEW t \in Tokens, NEW found, i.org # Bad
  PROVE  /\ TenantOf(i, t, found) \in AnyOrg
         /\ \A org : WorkspaceIn(i, org, found) \in Workspaces \cup {None}
<1>1. t.org \in AnyOrg
  BY DEF Tokens
<1>2. i.org \in AnyOrg \cup {None} /\ i.workspace \in Workspaces \cup {None, Bad}
  BY RequestAssumption DEF InputsTyped
<1>3. TenantOf(i, t, found) \in AnyOrg
  BY <1>1, <1>2, RequestAssumption DEF TenantOf, AnyOrg
<1>4. ASSUME NEW org PROVE WorkspaceIn(i, org, found) \in Workspaces \cup {None}
  BY <1>2, RequestAssumption DEF WorkspaceIn
<1>5. QED
  BY <1>3, <1>4

\* The steps on the way to the backend.
LEMMA WayType ==
  ASSUME IInv, NEW r \in Requests,
         \/ JWTAuthFails(r)
         \/ \E i \in Inputs, t \in Tokens : JWTAuth(r, i, t)
         \/ ResolveTenant(r) \/ Enforce(r) \/ Intercept(r)
  PROVE  TypeOK'
<1> USE DEF IInv
<1>1. CASE JWTAuthFails(r)
  <2>1. Answer(r, 401)
    BY <1>1 DEF JWTAuthFails
  <2>2. QED
    BY <1>1, <2>1, AnswerType DEF JWTAuthFails, TypeOK
<1>2. CASE \E i \in Inputs, t \in Tokens : JWTAuth(r, i, t)
  <2>1. PICK i \in Inputs, t \in Tokens : JWTAuth(r, i, t)
    BY <1>2
  <2>2. i.body \in Bodies
    BY RequestAssumption DEF InputsTyped
  <2>3. GoTo(r, "tenant")
    BY <2>1 DEF JWTAuth
  <2>4. QED
    BY <2>1, <2>2, <2>3, GoToType DEF JWTAuth, TypeOK, Places
<1>3. CASE ResolveTenant(r)
  <2>1. in[r] \in Inputs /\ token[r] \in Tokens
    BY <1>3 DEF ResolveTenant, TypeOK, Places
  <2>2. CASE Answer(r, 400) /\ UNCHANGED ctx
    BY <1>3, <2>2, AnswerType DEF ResolveTenant, TypeOK
  <2>3. CASE in[r].org # Bad /\ GoTo(r, "enforce") /\
             \E found : LET org == TenantOf(in[r], token[r], found)
                        IN ctx' = [ctx EXCEPT ![r] =
                              [tenant |-> org, workspace |-> WorkspaceIn(in[r], org, found)]]
    <3>1. PICK found : LET org == TenantOf(in[r], token[r], found)
                       IN ctx' = [ctx EXCEPT ![r] =
                             [tenant |-> org, workspace |-> WorkspaceIn(in[r], org, found)]]
      BY <2>3
    <3>2. ctx' \in [Requests -> [tenant : AnyOrg, workspace : Workspaces \cup {None}] \cup {None}]
      BY <2>1, <2>3, <3>1, ContextType DEF TypeOK
    <3>3. QED
      BY <1>3, <2>1, <2>3, <3>2, GoToType DEF ResolveTenant, TypeOK, Places
  <2>4. QED
    BY <1>3, <2>2, <2>3 DEF ResolveTenant
<1>4. CASE Enforce(r)
  <2>1. CASE UNCHANGED ep /\ \E status \in {0, 400} : Answer(r, status)
    BY <1>4, <2>1, AnswerType DEF Enforce, TypeOK
  <2>2. CASE \E e \in Matching(in[r]) :
               /\ ep' = [ep EXCEPT ![r] = e]
               /\ GoTo(r, "intercept") \/ Answer(r, 403)
    <3>1. PICK e \in Matching(in[r]) : /\ ep' = [ep EXCEPT ![r] = e]
                                       /\ GoTo(r, "intercept") \/ Answer(r, 403)
      BY <2>2
    <3>2. e \in Endpoints /\ e.app = in[r].app
      BY DEF Matching
    <3>3. at[r] = "enforce" /\ in[r] \in Inputs /\ token[r] \in Tokens
      BY <1>4 DEF Enforce, TypeOK, Places
    <3>4. /\ at' \in [Requests -> Places] /\ reply' \in [Requests -> Nat]
          /\ at'[r] \in {"intercept", "done"}
          /\ \A q \in Requests \ {r} : at'[q] = at[q]
      BY <3>1, AnswerType, GoToType DEF Places
    <3>5. ep' \in [Requests -> Endpoints \cup {None}]
      BY <3>1, <3>2 DEF TypeOK
    <3>6. QED
      BY <1>4, <3>1, <3>2, <3>3, <3>4, <3>5 DEF Enforce, TypeOK, Places
  <2>3. QED
    BY <1>4, <2>1, <2>2 DEF Enforce
<1>5. CASE Intercept(r)
  <2> DEFINE b == InterceptRequest(ep[r], in[r].method, body[r])
  <2>1. at[r] = "intercept"
    BY <1>5 DEF Intercept
  <2>2. in[r] \in Inputs /\ token[r] \in Tokens /\ ep[r] \in Endpoints /\ ep[r].app = in[r].app
    BY <2>1 DEF TypeOK, Places
  <2>3. CASE Answer(r, 400) /\ UNCHANGED body
    BY <1>5, <2>3, AnswerType DEF Intercept, TypeOK
  <2>4. CASE b # Bad /\ body' = [body EXCEPT ![r] = b] /\ GoTo(r, "backend")
    <3>1. body[r] \in Bodies
      BY DEF TypeOK
    <3>2. b \in Bodies
      BY <2>4, <3>1, InterceptFacts, MaskBodyFacts
    <3> HIDE DEF b
    <3>3. body' \in [Requests -> Bodies]
      BY <2>4, <3>2 DEF TypeOK
    <3>4. QED
      BY <1>5, <2>2, <2>4, <3>3, GoToType DEF Intercept, TypeOK, Places
  <2>5. QED
    BY <1>5, <2>3, <2>4 DEF Intercept
<1>6. QED
  BY <1>1, <1>2, <1>3, <1>4, <1>5

\* What a create adds and an update puts in the place of a record.
Creates(r, x) ==
    /\ x \in Record /\ x.id \notin used
    /\ InScope(r, x) /\ x.data = Fields(r)
    /\ rows' = rows \cup {x} /\ used' = used \cup {x.id}
    /\ seen' = [seen EXCEPT ![r] = {x}]

Replaces(r, x, y) ==
    /\ x \in Target(r) /\ y \in Updates(x, Fields(r))
    /\ rows' = (rows \ {x}) \cup {y} /\ used' = used \cup {y.id}
    /\ seen' = [seen EXCEPT ![r] = {y}]

\* What a statement with a pasted key may do to the records.
Overwrites(r) ==
    \E gone \in SUBSET rows, new \in SUBSET Writable :
      /\ rows' = (rows \ gone) \cup new
      /\ used' = used \cup {x.id : x \in new}
      /\ \A x, y \in rows' : x.id = y.id => x = y
      /\ seen' = [seen EXCEPT ![r] = rows \cup rows']

LEMMA PastedFacts ==
  ASSUME IInv, NEW r \in Requests, RunPasted(r)
  PROVE  /\ UNCHANGED <<rows, used, seen>> \/ Overwrites(r)
         /\ \E status \in Nat \ {400} : Executed(r, status)
<1>1. CASE Answer(r, 500) /\ UNCHANGED <<rows, used, seen>>
  BY <1>1 DEF Executed
<1>2. CASE ~ (Answer(r, 500) /\ UNCHANGED <<rows, used, seen>>)
  <2>1. PICK gone \in SUBSET rows, new \in SUBSET Writable :
          /\ rows' = (rows \ gone) \cup new
          /\ used' = used \cup {x.id : x \in new}
    BY <1>2 DEF RunPasted
  <2>2. /\ \A x, y \in rows' : x.id = y.id => x = y
        /\ seen' = [seen EXCEPT ![r] = rows \cup rows']
        /\ Executed(r, IF ep[r].action = "create" THEN 201 ELSE 200)
    BY <1>2 DEF RunPasted
  <2>3. Overwrites(r)
    BY <2>1, <2>2 DEF Overwrites
  <2>4. QED
    BY <2>2, <2>3
<1>3. QED
  BY <1>1, <1>2

LEMMA CreateFacts ==
  ASSUME IInv, NEW r \in Requests, Create(r)
  PROVE  /\ UNCHANGED <<rows, used, seen>> \/ \E x : Creates(r, x)
         /\ \E status \in Nat \ {400} : Executed(r, status)
<1>1. at[r] = "backend" /\ ep[r].service \notin Urls
  BY DEF Create, Generic
<1>2. CASE Twice(Fields(r), Reserved)
  BY <1>2 DEF Create, Executed
<1>3. CASE ~ Twice(Fields(r), Reserved)
  <2>1. PICK id \in Ids \ used :
          LET x == [table |-> TableOf(ep[r]), id |-> id, org |-> token[r].org,
                    app |-> in[r].app, born |-> Cardinality(used), data |-> Fields(r)]
          IN /\ rows' = rows \cup {x}
             /\ used' = used \cup {id}
             /\ seen' = [seen EXCEPT ![r] = {x}]
             /\ Executed(r, 201)
    BY <1>3 DEF Create
  <2> DEFINE x == [table |-> TableOf(ep[r]), id |-> id, org |-> token[r].org,
                   app |-> in[r].app, born |-> Cardinality(used), data |-> Fields(r)]
  <2>2. Cardinality(used) \in Nat
    <3>1. used \subseteq Ids
      BY DEF IInv, TypeOK
    <3>2. QED
      BY <3>1, RequestAssumption, FS_Subset, FS_CardinalityType
  <2>3. x \in Record
    BY <1>1, <2>2, RouteFacts, FieldsFacts DEF Record
  <2>4. InScope(r, x)
    BY <1>1, RouteFacts DEF InScope
  <2>5. Creates(r, x)
    BY <2>1, <2>3, <2>4 DEF Creates
  <2>6. QED
    BY <2>1, <2>5
<1>4. QED
  BY <1>2, <1>3

LEMMA UpdateFacts ==
  ASSUME IInv, NEW r \in Requests, Update(r)
  PROVE  /\ UNCHANGED <<rows, used, seen>> \/ \E x, y : Replaces(r, x, y)
         /\ \E status \in Nat \ {400} : Executed(r, status)
<1>1. CASE Target(r) = {} \/ Twice(Fields(r), {"updated_at"})
  BY <1>1 DEF Update, Executed
<1>2. CASE ~ (Target(r) = {} \/ Twice(Fields(r), {"updated_at"}))
  <2>1. PICK x \in Target(r) : \E y \in Updates(x, Fields(r)) :
          /\ rows' = (rows \ {x}) \cup {y}
          /\ used' = used \cup {y.id}
          /\ seen' = [seen EXCEPT ![r] = {y}]
          /\ Executed(r, 200)
    BY <1>2 DEF Update
  <2>2. \E y : Replaces(r, x, y)
    BY <2>1 DEF Replaces
  <2>3. QED
    BY <2>1, <2>2
<1>3. QED
  BY <1>1, <1>2

LEMMA ReplacesFacts ==
  ASSUME IInv, NEW r \in Requests, at[r] = "backend", NEW x, NEW y, Replaces(r, x, y)
  PROVE  /\ x \in rows /\ x \in Record /\ y \in Record
         /\ y.id = x.id \/ y.id \notin used
         /\ y.data \subseteq x.data \cup Fields(r)
         /\ ColumnsOf(Fields(r)) \cap Reserved = {} =>
              y.id = x.id /\ y.org = x.org /\ y.app = x.app /\ y.born = x.born
<1>1. x \in rows /\ x \in Record /\ used \subseteq Ids
  BY TargetFacts DEF Replaces, IInv, TypeOK
<1>2. Fields(r) \in SUBSET Leaves
  BY FieldsFacts
<1>3. y \in Updates(x, Fields(r))
  BY DEF Replaces
<1>4. QED
  BY <1>1, <1>2, <1>3, UpdatesFacts

\* The other handlers leave the records alone, and show only Mine.
Reads(r) ==
    \/ seen' = seen
    \/ /\ \E page \in SUBSET Mine(r) : seen' = [seen EXCEPT ![r] = page]
       /\ ep[r].action = "list"
    \/ seen' = [seen EXCEPT ![r] = Target(r)]

\* Where a backend step takes a request and how it is answered.
Ends(r) ==
    /\ at' \in [Requests -> Places] /\ reply' \in [Requests -> Nat]
    /\ \A q \in Requests \ {r} : at'[q] = at[q] /\ reply'[q] = reply[q]
    /\ at'[r] \in {"done", "select"}
    /\ at'[r] = "select" => at[r] = "backend" /\ ep[r].action = "list" /\ seen' = seen
    /\ at'[r] = "done" /\ reply'[r] = 400 => ep[r].action = "archive"

LEMMA AnswerEnds ==
  ASSUME TypeOK, NEW r \in Requests, NEW status \in Nat, Answer(r, status),
         status = 400 => ep[r].action = "archive"
  PROVE  Ends(r)
BY DEF TypeOK, Answer, Places, Ends

LEMMA ExecutedEnds ==
  ASSUME TypeOK, NEW r \in Requests, NEW status \in Nat \ {400}, Executed(r, status)
  PROVE  Ends(r)
BY AnswerEnds DEF Executed

\* A backend step by what it does to the records.
Effect(r) ==
    \/ Pasted(r) /\ Overwrites(r)
    \/ UNCHANGED <<rows, used>> /\ Reads(r)
    \/ Generic(r, "create") /\ \E x : Creates(r, x)
    \/ Generic(r, "update") /\ ~ Pasted(r) /\ \E x, y : Replaces(r, x, y)
    \/ /\ Generic(r, "delete")
       /\ rows' = rows \ Target(r) /\ UNCHANGED <<used, seen>>

LEMMA BackendFacts ==
  ASSUME IInv, NEW r \in Requests, ResolveHandler(r)
  PROVE  /\ at[r] \in {"backend", "select"} /\ at'[r] # at[r]
         /\ at[r] = "select" => UNCHANGED <<rows, used>>
         /\ UNCHANGED <<tokens, in, token, ctx, ep, body>>
         /\ total' \in [Requests -> Nat]
         /\ UNCHANGED proxied \/
              (at[r] = "backend" /\ proxied' = proxied \cup {<<ep[r], in[r].method, body[r]>>})
         /\ Ends(r) /\ Effect(r)
<1> USE DEF Effect, Reads
<1>0. TypeOK /\ total \in [Requests -> Nat]
  BY DEF IInv, TypeOK
<1>00. at[r] = "select" => ep[r].action = "list"
  BY DEF IInv, RouteInv
<1>1. CASE Proxy(r)
  <2>1. Ends(r)
    BY <1>0, <1>1, AnswerEnds DEF Proxy
  <2>2. QED
    BY <1>0, <1>1, <2>1 DEF Proxy, Ends
<1>2. CASE ListCount(r)
  <2>1. Cardinality(Mine(r)) \in Nat
    BY <1>2, FS_Subset, FS_CardinalityType, TargetFacts DEF ListCount, Generic, IInv, RecordsInv
  <2>2. Ends(r)
    BY <1>0, <1>2 DEF ListCount, Generic, GoTo, Ends, TypeOK, Places
  <2>3. QED
    BY <1>0, <1>2, <2>1, <2>2 DEF ListCount, Generic, GoTo, TypeOK
<1>3. CASE ListSelect(r)
  <2>1. Ends(r)
    BY <1>0, <1>3, AnswerEnds DEF ListSelect
  <2>2. QED
    BY <1>0, <1>00, <1>3, <2>1 DEF ListSelect, Ends
<1>4. CASE Get(r)
  <2>1. Ends(r)
    BY <1>0, <1>4, AnswerEnds DEF Get
  <2>2. QED
    BY <1>0, <1>4, <2>1 DEF Get, Generic, Ends
<1>5. CASE Create(r)
  <2>1. Ends(r)
    BY <1>0, <1>5, CreateFacts, ExecutedEnds
  <2>2. QED
    BY <1>0, <1>5, <2>1, CreateFacts DEF Create, Generic, Ends
<1>6. CASE Update(r)
  <2>1. Ends(r)
    BY <1>0, <1>6, UpdateFacts, ExecutedEnds
  <2>2. QED
    BY <1>0, <1>6, <2>1, UpdateFacts DEF Update, Generic, Ends
<1>7. CASE Delete(r)
  <2>1. Ends(r)
    BY <1>0, <1>7, AnswerEnds, ExecutedEnds DEF Delete
  <2>2. QED
    BY <1>0, <1>7, <2>1 DEF Delete, Generic, Ends
<1>8. CASE UnknownAction(r)
  <2>1. Ends(r)
    BY <1>0, <1>8, AnswerEnds DEF UnknownAction, Generic
  <2>2. QED
    BY <1>0, <1>8, <2>1 DEF UnknownAction, Generic, Ends
<1>9. CASE QueryFails(r)
  <2>1. Ends(r)
    BY <1>0, <1>9, AnswerEnds DEF QueryFails
  <2>2. QED
    BY <1>0, <1>00, <1>9, <2>1 DEF QueryFails, Generic, Ends
<1>10. CASE RunPasted(r)
  <2>1. Ends(r)
    BY <1>0, <1>10, PastedFacts, ExecutedEnds
  <2>2. Pasted(r) /\ at[r] = "backend"
    BY <1>10 DEF RunPasted, Pasted, Generic
  <2>3. Effect(r)
    BY <1>10, <2>2, PastedFacts
  <2>4. at'[r] # at[r]
    <3>1. PICK status \in Nat \ {400} : Executed(r, status)
      BY <1>10, PastedFacts
    <3>2. at' = [at EXCEPT ![r] = "done"]
      BY <3>1 DEF Executed, Answer
    <3>3. QED
      BY <1>0, <2>2, <3>2 DEF TypeOK
  <2>5. UNCHANGED <<tokens, in, token, ctx, ep, body, total, proxied>>
    BY <1>10 DEF RunPasted
  <2>6. QED
    BY <1>0, <2>1, <2>2, <2>3, <2>4, <2>5
<1>11. QED
  BY <1>1, <1>2, <1>3, <1>4, <1>5, <1>6, <1>7, <1>8, <1>9, <1>10 DEF ResolveHandler

LEMMA EffectType ==
  ASSUME IInv, NEW r \in Requests, at[r] \in {"backend", "select"}, Effect(r),
         at[r] = "select" => UNCHANGED <<rows, used>>
  PROVE  /\ rows' \subseteq Record /\ used' \subseteq Ids
         /\ seen' \in [Requests -> SUBSET Record]
         /\ \A q \in Requests \ {r} : seen'[q] = seen[q]
         /\ RecordsInv'
<1>0. /\ rows \subseteq Record /\ used \subseteq Ids /\ RecordsInv
      /\ seen \in [Requests -> SUBSET Record]
  BY DEF IInv, TypeOK
<1>1. CASE UNCHANGED <<rows, used>> /\ Reads(r)
  <2>1. Mine(r) \subseteq Record /\ Target(r) \subseteq Record
    BY <1>0, TargetFacts
  <2>2. RecordsInv'
    BY <1>0, <1>1 DEF RecordsInv
  <2>3. QED
    BY <1>0, <1>1, <2>1, <2>2 DEF Reads
<1>2. CASE \E x : Creates(r, x)
  <2>1. PICK x : Creates(r, x)
    BY <1>2
  <2>2. /\ x \in Record /\ x.id \in Ids /\ x.id \notin used /\ rows' = rows \cup {x}
        /\ used' = used \cup {x.id} /\ seen' = [seen EXCEPT ![r] = {x}]
    BY <2>1 DEF Creates, Record
  <2>3. IsFiniteSet(rows')
    BY <1>0, <2>2, FS_AddElement DEF RecordsInv
  <2>4. RecordsInv'
    BY <1>0, <2>2, <2>3 DEF RecordsInv
  <2>5. QED
    BY <1>0, <2>2, <2>4
<1>3. CASE Generic(r, "update") /\ \E x, y : Replaces(r, x, y)
  <2>1. PICK x, y : Replaces(r, x, y)
    BY <1>3
  <2>2. /\ x \in rows /\ y \in Record /\ y.id \in Ids
        /\ y.id = x.id \/ y.id \notin used
    BY <1>3, <2>1, ReplacesFacts DEF Record, Generic
  <2>3. /\ rows' = (rows \ {x}) \cup {y} /\ used' = used \cup {y.id}
        /\ seen' = [seen EXCEPT ![r] = {y}]
    BY <2>1 DEF Replaces
  <2>4. IsFiniteSet(rows')
    BY <1>0, <2>3, FS_AddElement, FS_RemoveElement DEF RecordsInv
  <2>5. RecordsInv'
    BY <1>0, <2>2, <2>3, <2>4 DEF RecordsInv
  <2>6. QED
    BY <1>0, <2>2, <2>3, <2>5
<1>4. CASE rows' = rows \ Target(r) /\ UNCHANGED <<used, seen>>
  <2>1. IsFiniteSet(rows')
    BY <1>0, <1>4, FS_Subset DEF RecordsInv
  <2>2. RecordsInv'
    BY <1>0, <1>4, <2>1 DEF RecordsInv
  <2>3. QED
    BY <1>0, <1>4, <2>2
<1>5. CASE Overwrites(r)
  <2>1. PICK gone \in SUBSET rows, new \in SUBSET Writable :
          /\ rows' = (rows \ gone) \cup new
          /\ used' = used \cup {x.id : x \in new}
          /\ \A x, y \in rows' : x.id = y.id => x = y
          /\ seen' = [seen EXCEPT ![r] = rows \cup rows']
    BY <1>5 DEF Overwrites
  <2>2. new \subseteq Record /\ IsFiniteSet(new)
    BY RequestAssumption, FS_Subset
  <2>3. rows' \subseteq Record /\ used' \subseteq Ids
    BY <1>0, <2>1, <2>2 DEF Record
  <2>4. IsFiniteSet(rows')
    <3>1. IsFiniteSet(rows \ gone)
      BY <1>0, FS_Subset DEF RecordsInv
    <3>2. QED
      BY <2>1, <2>2, <3>1, FS_Union
  <2>5. \A x \in rows' : x.id \in used'
    BY <1>0, <2>1 DEF RecordsInv
  <2>6. RecordsInv'
    BY <2>1, <2>4, <2>5 DEF RecordsInv
  <2>7. QED
    BY <1>0, <2>1, <2>3, <2>6
<1>6. QED
  BY <1>1, <1>2, <1>3, <1>4, <1>5 DEF Effect

LEMMA BackendType ==
  ASSUME IInv, NEW r \in Requests, ResolveHandler(r)
  PROVE  TypeOK'
<1>1. /\ at[r] \in {"backend", "select"} /\ Ends(r)
      /\ at[r] = "select" => UNCHANGED <<rows, used>>
      /\ UNCHANGED <<tokens, in, token, ctx, ep, body>>
      /\ total' \in [Requests -> Nat] /\ Effect(r)
  BY BackendFacts
<1>2. /\ rows' \subseteq Record /\ used' \subseteq Ids
      /\ seen' \in [Requests -> SUBSET Record]
  BY <1>1, EffectType
<1>3. \A q \in Requests :
        /\ at'[q] \in Places \ {"new", "done"} =>
             in'[q] \in Inputs /\ token'[q] \in Tokens
        /\ at'[q] \in {"intercept", "backend", "select"} =>
             ep'[q] \in Endpoints /\ ep'[q].app = in'[q].app
  <2>1. \A q \in Requests : at'[q] # at[q] => q = r
    BY <1>1 DEF Ends
  <2>2. in[r] \in Inputs /\ token[r] \in Tokens /\ ep[r] \in Endpoints /\ ep[r].app = in[r].app
    BY <1>1, RouteFacts
  <2>3. QED
    BY <1>1, <2>1, <2>2 DEF IInv, TypeOK
<1>4. QED
  BY <1>1, <1>2, <1>3 DEF IInv, TypeOK, Ends

LEMMA TypeOKStep == IInv /\ [Next]_vars => TypeOK'
<1> SUFFICES ASSUME IInv, [Next]_vars PROVE TypeOK'
  OBVIOUS
<1>0. TypeOK
  BY DEF IInv
<1>1. ASSUME NEW u \in Users, Login(u) PROVE TypeOK'
  BY <1>0, <1>1 DEF Login, TypeOK, Tokens, AnyOrg, reqVars
<1>2. ASSUME NEW t \in Tokens, Expire(t) PROVE TypeOK'
  BY <1>0, <1>2 DEF Expire, TypeOK, reqVars
<1>3. ASSUME NEW r \in Requests, RequestStep(r) PROVE TypeOK'
  BY <1>3, WayType, BackendType DEF RequestStep
<1>4. CASE UNCHANGED vars
  BY <1>0, <1>4 DEF vars, reqVars, TypeOK
<1>5. QED
  BY <1>1, <1>2, <1>3, <1>4 DEF Next

-----------------------------------------------------------------------------
(* The inductive invariant *)

LEMMA InitIInv == Init => IInv
<1> SUFFICES ASSUME Init PROVE IInv
  OBVIOUS
<1>1. TypeOK
  BY InitTypeOK
<1>2. RouteInv
  BY DEF Init, RouteInv
<1>3. RecordsInv
  BY RequestAssumption DEF Init, RecordsInv
<1>4. ProxiedInv /\ SchemaDecides
  BY DEF Init, ProxiedInv, SchemaDecides
<1>5. QED
  BY <1>1, <1>2, <1>3, <1>4 DEF IInv

\* The clauses of RouteInv and SchemaDecides about one request.
Routed(r) ==
    /\ at[r] \in {"new", "tenant", "enforce"} => ep[r] = None
    /\ at[r] # "done" => seen[r] = {}
    /\ at[r] \in {"tenant", "enforce", "intercept"} => body[r] = in[r].body
    /\ at[r] \in {"backend", "select"} =>
         body[r] = InterceptRequest(ep[r], in[r].method, in[r].body)
    /\ at[r] = "select" => ep[r].action = "list"
    /\ ep[r] # None =>
         in[r] \in Inputs /\ token[r] \in Tokens /\ ep[r] \in Matching(in[r])

Decided(r) ==
    ep[r] # None =>
        /\ at[r] \in {"backend", "select"} => Conforms(r)
        /\ (at[r] = "done" /\ reply[r] = 400) =>
              ~Conforms(r) \/ ep[r].action = "archive"

LEMMA OthersStay ==
  ASSUME IInv, NEW q,
         UNCHANGED <<at[q], in[q], token[q], ep[q], body[q], reply[q], seen[q]>>,
         Routed(q), Decided(q)
  PROVE  Routed(q)' /\ Decided(q)'
BY DEF Routed, Decided, Conforms

LEMMA AllRouted ==
  /\ RouteInv <=> \A r \in Requests : Routed(r)
  /\ SchemaDecides <=> \A r \in Requests : Decided(r)
BY DEF RouteInv, SchemaDecides, Routed, Decided

LEMMA WayKeeps ==
  ASSUME IInv, NEW r \in Requests,
         \/ JWTAuthFails(r)
         \/ \E i \in Inputs, t \in Tokens : JWTAuth(r, i, t)
         \/ ResolveTenant(r) \/ Enforce(r) \/ Intercept(r)
  PROVE  /\ UNCHANGED <<rows, used, seen, proxied>>
         /\ \A q \in Requests \ {r} :
              UNCHANGED <<at[q], in[q], token[q], ep[q], body[q], reply[q], seen[q]>>
         /\ Routed(r)' /\ Decided(r)'
<1>0. /\ TypeOK /\ Routed(r) /\ Decided(r)
      /\ seen[r] = {} \/ at[r] = "done"
  BY AllRouted DEF IInv, Routed
<1> USE DEF Answer, GoTo
<1>1. CASE JWTAuthFails(r)
  BY <1>0, <1>1 DEF JWTAuthFails, TypeOK, Routed, Decided
<1>2. CASE \E i \in Inputs, t \in Tokens : JWTAuth(r, i, t)
  BY <1>0, <1>2 DEF JWTAuth, TypeOK, Routed, Decided
<1>3. CASE ResolveTenant(r)
  <2>1. /\ UNCHANGED <<in, token, ep, body, rows, used, seen, proxied>>
        /\ at[r] = "tenant" /\ ep[r] = None
    BY <1>0, <1>3 DEF ResolveTenant, Routed
  <2>2. \/ Answer(r, 400) \/ GoTo(r, "enforce")
    BY <1>3 DEF ResolveTenant
  <2>3. QED
    BY <1>0, <2>1, <2>2 DEF TypeOK, Routed, Decided
<1>4. CASE Enforce(r)
  <2>1. /\ UNCHANGED <<tokens, in, token, ctx, body, total, rows, used, seen, proxied>>
        /\ at[r] = "enforce" /\ ep[r] = None /\ body[r] = in[r].body
        /\ in[r] \in Inputs /\ token[r] \in Tokens /\ seen[r] = {}
    BY <1>0, <1>4 DEF Enforce, TypeOK, Places, Routed
  <2>2. CASE UNCHANGED ep /\ \E status : Answer(r, status)
    BY <1>0, <2>1, <2>2 DEF TypeOK, Routed, Decided
  <2>3. CASE \E e \in Matching(in[r]) :
               /\ ep' = [ep EXCEPT ![r] = e]
               /\ GoTo(r, "intercept") \/ Answer(r, 403)
    BY <1>0, <2>1, <2>3 DEF TypeOK, Routed, Decided
  <2>4. QED
    BY <1>4, <2>2, <2>3 DEF Enforce
<1>5. CASE Intercept(r)
  <2> DEFINE b == InterceptRequest(ep[r], in[r].method, body[r])
  <2>1. /\ UNCHANGED <<tokens, in, token, ctx, ep, total, rows, used, seen, proxied>>
        /\ at[r] = "intercept" /\ seen[r] = {} /\ body[r] = in[r].body
    BY <1>0, <1>5 DEF Intercept, Routed
  <2>2. (b = Bad) <=> ~ Conforms(r)
    <3>1. in[r].body \in Bodies
      BY <2>1, RouteFacts
    <3>2. Conforms(r) <=> SchemaFits(ep[r], in[r].method, in[r].body)
      BY DEF Conforms, SchemaFits
    <3>3. QED
      BY <2>1, <3>1, <3>2, InterceptFacts
  <2>3. Conforms(r)' <=> Conforms(r)
    BY <2>1 DEF Conforms
  <2>4. CASE b = Bad /\ Answer(r, 400) /\ UNCHANGED body
    BY <1>0, <2>1, <2>2, <2>3, <2>4 DEF TypeOK, Routed, Decided
  <2>5. CASE b # Bad /\ body' = [body EXCEPT ![r] = b] /\ GoTo(r, "backend")
    BY <1>0, <2>1, <2>2, <2>3, <2>5 DEF TypeOK, Routed, Decided
  <2>6. QED
    BY <1>5, <2>4, <2>5 DEF Intercept
<1>6. QED
  BY <1>1, <1>2, <1>3, <1>4, <1>5

LEMMA BackendKeeps ==
  ASSUME IInv, NEW r \in Requests, ResolveHandler(r)
  PROVE  /\ \A q \in Requests \ {r} :
              UNCHANGED <<at[q], in[q], token[q], ep[q], body[q], reply[q], seen[q]>>
         /\ Routed(r)' /\ Decided(r)' /\ ProxiedInv'
<1>1. /\ at[r] \in {"backend", "select"} /\ Ends(r) /\ Effect(r)
      /\ at[r] = "select" => UNCHANGED <<rows, used>>
      /\ UNCHANGED <<tokens, in, token, ctx, ep, body>>
      /\ UNCHANGED proxied \/
           (at[r] = "backend" /\ proxied' = proxied \cup {<<ep[r], in[r].method, body[r]>>})
  BY BackendFacts
<1>2. \A q \in Requests \ {r} : seen'[q] = seen[q]
  BY <1>1, EffectType
<1>3. Routed(r) /\ Decided(r)
  BY AllRouted DEF IInv
<1>4. Routed(r)'
  BY <1>1, <1>3 DEF Ends, Routed
<1>5. Decided(r)'
  BY <1>1, <1>3 DEF Ends, Decided, Conforms
<1>6. ProxiedInv'
  <2>1. ASSUME NEW p \in proxied', p[1].masking, p[2] \in WithBody,
               NEW l \in p[3].leaves, Exposed(l)
        PROVE  Unreached(l)
    <3>1. CASE p \in proxied
      BY <2>1, <3>1 DEF IInv, ProxiedInv
    <3>2. CASE p = <<ep[r], in[r].method, body[r]>>
      BY <1>1, <2>1, <3>2, BodyFacts
    <3>3. QED
      BY <1>1, <2>1, <3>1, <3>2
  <2>2. QED
    BY <2>1 DEF ProxiedInv
<1>7. QED
  BY <1>1, <1>2, <1>4, <1>5, <1>6 DEF Ends

LEMMA IInvStep == IInv /\ [Next]_vars => IInv'
<1> SUFFICES ASSUME IInv, [Next]_vars PROVE IInv'
  OBVIOUS
<1>0. TypeOK'
  BY TypeOKStep
<1>1. CASE UNCHANGED <<reqVars, rows, used, proxied>>
  <2>1. RouteInv' /\ SchemaDecides'
    BY <1>1 DEF IInv, reqVars, RouteInv, SchemaDecides, Conforms
  <2>2. RecordsInv' /\ ProxiedInv'
    BY <1>1 DEF IInv, RecordsInv, ProxiedInv
  <2>3. QED
    BY <1>0, <2>1, <2>2 DEF IInv
<1>2. ASSUME NEW r \in Requests, RequestStep(r) PROVE IInv'
  <2>1. /\ \A q \in Requests \ {r} :
             UNCHANGED <<at[q], in[q], token[q], ep[q], body[q], reply[q], seen[q]>>
        /\ Routed(r)' /\ Decided(r)' /\ ProxiedInv' /\ RecordsInv'
    <3>1. CASE ResolveHandler(r)
      <4>1. RecordsInv'
        BY <3>1, BackendFacts, EffectType
      <4>2. QED
        BY <3>1, <4>1, BackendKeeps
    <3>2. CASE ~ ResolveHandler(r)
      <4>1. UNCHANGED <<rows, used, proxied>>
        BY <1>2, <3>2, WayKeeps DEF RequestStep
      <4>2. RecordsInv' /\ ProxiedInv'
        BY <4>1 DEF IInv, RecordsInv, ProxiedInv
      <4>3. QED
        BY <1>2, <3>2, <4>2, WayKeeps DEF RequestStep
    <3>3. QED
      BY <3>1, <3>2
  <2>2. \A q \in Requests : Routed(q)' /\ Decided(q)'
    <3>1. ASSUME NEW q \in Requests \ {r} PROVE Routed(q)' /\ Decided(q)'
      <4>1. Routed(q) /\ Decided(q)
        BY AllRouted DEF IInv
      <4>2. UNCHANGED <<at[q], in[q], token[q], ep[q], body[q], reply[q], seen[q]>>
        BY <2>1
      <4>3. QED
        BY <4>1, <4>2, OthersStay
    <3>2. QED
      BY <2>1, <3>1
  <2>3. RouteInv' /\ SchemaDecides'
    BY <2>2 DEF RouteInv, SchemaDecides, Routed, Decided
  <2>4. QED
    BY <1>0, <2>1, <2>3 DEF IInv
<1>3. ASSUME NEW u \in Users, Login(u) PROVE IInv'
  BY <1>1, <1>3 DEF Login
<1>4. ASSUME NEW t \in Tokens, Expire(t) PROVE IInv'
  BY <1>1, <1>4 DEF Expire
<1>5. CASE UNCHANGED vars
  BY <1>1, <1>5 DEF vars
<1>6. QED
  BY <1>2, <1>3, <1>4, <1>5 DEF Next

LEMMA IInvCorrect == Spec => []IInv
<1>1. Init => IInv
  BY InitIInv
<1>2. IInv /\ [Next]_vars => IInv'
  BY IInvStep
<1>3. QED
  BY <1>1, <1>2, PTL DEF Spec

-----------------------------------------------------------------------------
(* Theorems *)

\* Every variable of every reachable state has the values its type allows.
THEOREM TypeCorrect == Spec => []TypeOK
<1>1. IInv => TypeOK
  BY DEF IInv
<1>2. QED
  BY <1>1, IInvCorrect, PTL

\* What the client sent decides about the schema, whatever masking makes of it
\* (Chain.InterceptRequest in domain/gateway/interceptor.go).
THEOREM SchemaDecidesCorrect == Spec => []SchemaDecides
<1>1. IInv => SchemaDecides
  BY DEF IInv
<1>2. QED
  BY <1>1, IInvCorrect, PTL

-----------------------------------------------------------------------------
(* Action properties: what a step does to the records, and what it shows *)

\* The steps that neither change nor show a record.
LEMMA QuietSteps ==
  ASSUME IInv, UNCHANGED <<rows, seen>>, UNCHANGED proxied,
         \A r \in Requests : Acts(r) => seen[r] = {}
  PROVE  IsolatedStep /\ OwnerKeptStep /\ MaskedAtBackendStep
BY DEF IInv, ProxiedInv, IsolatedStep, OwnerKeptStep, MaskedAtBackendStep

LEMMA NextCases ==
  ASSUME IInv, Next
  PROVE  \/ /\ UNCHANGED <<rows, seen, proxied>>
            /\ \A r \in Requests : Acts(r) => seen[r] = {}
         \/ \E r \in Requests : ResolveHandler(r)
<1>1. CASE \E u \in Users : Login(u)
  BY <1>1 DEF Login, reqVars, Acts
<1>2. CASE \E t \in Tokens : Expire(t)
  BY <1>2 DEF Expire, reqVars, Acts
<1>3. ASSUME NEW r \in Requests, RequestStep(r), ~ ResolveHandler(r)
      PROVE  /\ UNCHANGED <<rows, seen, proxied>>
             /\ \A q \in Requests : Acts(q) => seen[q] = {}
  <2>1. UNCHANGED <<rows, seen, proxied>> /\ \A q \in Requests : Acts(q) => q = r
    BY <1>3, WayKeeps DEF RequestStep, Acts
  <2>2. at[r] # "done"
    BY <1>3 DEF RequestStep, JWTAuthFails, JWTAuth, ResolveTenant, Enforce, Intercept
  <2>3. QED
    BY <2>1, <2>2 DEF IInv, RouteInv
<1>4. QED
  BY <1>1, <1>2, <1>3 DEF Next

\* A record that an update puts in the place of another and that is not Moved
\* has the columns of that one.
LEMMA NotRespelled ==
  ASSUME IInv, NEW r \in Requests, Generic(r, "update"), ~ Pasted(r), ~ Respelled(body[r])
  PROVE  ColumnsOf(Fields(r)) \cap Reserved = {}
<1>1. \A l \in Fields(r) : l \in body[r].leaves /\ l.path[1] \in Names \ Reserved
  BY FieldsFacts DEF Pasted, Generic
<1>2. QED
  BY <1>1 DEF ColumnsOf, Respelled

LEMMA BackendIsolated ==
  ASSUME IInv, NEW r \in Requests, ResolveHandler(r)
  PROVE  IsolatedStep /\ OwnerKeptStep
<1>1. Acts(r) /\ Effect(r) /\ \A q \in Requests : Acts(q) => q = r
  BY BackendFacts DEF Acts, Ends
<1>2. /\ seen \in [Requests -> SUBSET Record]
      /\ at[r] \in {"backend", "select"} /\ seen[r] = {}
  BY BackendFacts DEF IInv, TypeOK, RouteInv
<1>3. Target(r) \subseteq Mine(r) /\ \A x \in Mine(r) : x \in rows /\ InScope(r, x)
  BY <1>2, TargetFacts
<1>4. SUFFICES ASSUME ~ Pasted(r)
               PROVE  /\ \A x \in rows \ rows' : InScope(r, x)
                      /\ \A x \in rows' \ rows : InScope(r, x) \/ Moved(r)
                      /\ \A x \in rows \cap seen'[r] : InScope(r, x)
                      /\ OwnerKeptStep
  BY <1>1 DEF IsolatedStep, OwnerKeptStep
<1>5. CASE UNCHANGED <<rows, used>> /\ Reads(r)
  <2>1. seen'[r] \subseteq Mine(r)
    BY <1>2, <1>3, <1>5 DEF Reads
  <2>2. QED
    BY <1>3, <1>5, <2>1 DEF OwnerKeptStep
<1>6. CASE \E x : Creates(r, x)
  <2>1. PICK x : Creates(r, x)
    BY <1>6
  <2>2. InScope(r, x) /\ x.id \notin used /\ rows' = rows \cup {x} /\ seen'[r] = {x}
    BY <1>2, <2>1 DEF Creates
  <2>3. QED
    BY <2>2 DEF OwnerKeptStep
<1>7. CASE Generic(r, "update") /\ \E x, y : Replaces(r, x, y)
  <2>1. PICK x, y : Replaces(r, x, y)
    BY <1>7
  <2>2. /\ x \in rows /\ InScope(r, x)
        /\ y.id = x.id \/ y.id \notin used
        /\ ~ Respelled(body[r]) =>
             y.id = x.id /\ y.org = x.org /\ y.app = x.app /\ y.born = x.born
    <3>1. x \in Target(r) /\ at[r] = "backend"
      BY <1>7, <2>1 DEF Replaces, Generic
    <3>2. ~ Respelled(body[r]) => ColumnsOf(Fields(r)) \cap Reserved = {}
      BY <1>4, <1>7, NotRespelled
    <3>3. QED
      BY <1>3, <2>1, <3>1, <3>2, ReplacesFacts
  <2>3. rows' = (rows \ {x}) \cup {y} /\ seen'[r] = {y}
    BY <1>2, <2>1 DEF Replaces
  <2>4. y \in rows => y = x
    BY <2>2 DEF IInv, RecordsInv
  <2>5. y \notin rows /\ Respelled(body[r]) => Moved(r)
    BY <2>2, <2>3 DEF Moved
  <2>6. ~ Respelled(body[r]) => InScope(r, y)
    BY <2>2 DEF InScope
  <2>7. \A z \in rows' \ rows : InScope(r, z) \/ Moved(r)
    BY <2>3, <2>5, <2>6
  <2>8. OwnerKeptStep
    BY <1>1, <2>2, <2>3, <2>5 DEF OwnerKeptStep
  <2>9. QED
    BY <2>2, <2>3, <2>4, <2>7, <2>8
<1>8. CASE rows' = rows \ Target(r) /\ UNCHANGED <<used, seen>>
  BY <1>2, <1>3, <1>8 DEF OwnerKeptStep
<1>9. QED
  BY <1>1, <1>4, <1>5, <1>6, <1>7, <1>8 DEF Effect

LEMMA BackendMasked ==
  ASSUME IInv, NEW r \in Requests, ResolveHandler(r)
  PROVE  MaskedAtBackendStep
<1>1. /\ at[r] \in {"backend", "select"} /\ Effect(r)
      /\ ProxiedInv' /\ \A q \in Requests \ {r} : at'[q] = at[q]
  BY BackendFacts, BackendKeeps DEF Ends
<1>2. ASSUME at[r] = "backend", ep[r].masking, NEW l \in Fields(r), Exposed(l)
      PROVE  Unreached(l) /\ l.path[1] # Item
  BY <1>2, FieldsFacts
<1>3. ASSUME NEW y \in rows' \ rows, ep[r].masking, ~ Pasted(r), NEW l \in y.data, Exposed(l)
      PROVE  \/ Unreached(l) /\ l.path[1] # Item
             \/ \E x \in rows \ rows' : l \in x.data
  <2>1. CASE Generic(r, "create") /\ \E x : Creates(r, x)
    <3>1. PICK x : Creates(r, x)
      BY <2>1
    <3>2. y = x /\ y.data = Fields(r) /\ at[r] = "backend"
      BY <1>3, <2>1, <3>1 DEF Creates, Generic
    <3>3. QED
      BY <1>2, <1>3, <3>2
  <2>2. CASE Generic(r, "update") /\ \E x, z : Replaces(r, x, z)
    <3>1. PICK x, z : Replaces(r, x, z)
      BY <2>2
    <3>2. at[r] = "backend"
      BY <2>2 DEF Generic
    <3>3. x \in rows /\ z.data \subseteq x.data \cup Fields(r)
      BY <3>1, <3>2, ReplacesFacts
    <3>4. rows' = (rows \ {x}) \cup {z}
      BY <3>1 DEF Replaces
    <3>5. y = z /\ x \in rows \ rows'
      BY <1>3, <3>3, <3>4
    <3>6. QED
      BY <1>2, <1>3, <3>2, <3>3, <3>5
  <2>3. QED
    BY <1>1, <1>3, <2>1, <2>2 DEF Effect
<1>4. QED
  BY <1>1, <1>3 DEF MaskedAtBackendStep, Acts, ProxiedInv

\* Whoever is answered 200 for a single record had a target.
LEMMA Succeeds ==
  ASSUME IInv, NEW r \in Requests, ResolveHandler(r), ~ Pasted(r),
         NEW a \in {"get", "update", "delete"}, Generic(r, a), reply'[r] = 200
  PROVE  Target(r) # {}
<1>1. /\ reply \in [Requests -> Nat] /\ at[r] = "backend"
      /\ ep[r].service \notin Urls /\ ep[r].action = a
  BY DEF IInv, TypeOK, Generic
<1>2. \A status : Answer(r, status) => reply'[r] = status
  BY <1>1 DEF Answer
<1>3. CASE Get(r)
  BY <1>2, <1>3 DEF Get
<1>4. CASE Update(r)
  BY <1>2, <1>4 DEF Update
<1>5. CASE Delete(r)
  BY <1>2, <1>5 DEF Delete
<1>6. CASE QueryFails(r)
  BY <1>2, <1>6 DEF QueryFails
<1>7. QED
  BY <1>1, <1>3, <1>4, <1>5, <1>6
     DEF ResolveHandler, Proxy, ListCount, ListSelect, Create, UnknownAction,
         RunPasted, Generic

LEMMA BackendNamed ==
  ASSUME IInv, NEW r \in Requests, ResolveHandler(r)
  PROVE  NamedByPathStep
<1> DEFINE named == {x \in rows : \E k \in 2..Len(in[r].path) : in[r].path[k] = x.id}
<1>1. Effect(r) /\ \A q \in Requests : Acts(q) => q = r
  BY BackendFacts DEF Acts, Ends
<1>2. SUFFICES ASSUME ~ Pasted(r), NEW a \in {"get", "update", "delete"}, Generic(r, a)
               PROVE  /\ rows \ rows' \subseteq named
                      /\ rows \cap seen'[r] \subseteq named
                      /\ reply'[r] = 200 => \E x \in named : InScope(r, x)
  BY <1>1 DEF NamedByPathStep
<1>3. /\ seen \in [Requests -> SUBSET Record] /\ seen[r] = {}
      /\ at[r] = "backend" /\ ep[r].action = a
  BY <1>2 DEF IInv, TypeOK, RouteInv, Generic
<1>4. Target(r) \subseteq named /\ \A x \in Target(r) : InScope(r, x)
  BY <1>3, TargetFacts
<1> HIDE DEF named
<1>5. rows \ rows' \subseteq Target(r) /\ rows \cap seen'[r] \subseteq Target(r)
  <2>1. CASE UNCHANGED <<rows, used>> /\ Reads(r)
    BY <1>3, <2>1 DEF Reads
  <2>2. CASE Generic(r, "update") /\ \E x, y : Replaces(r, x, y)
    <3>1. PICK x, y : Replaces(r, x, y)
      BY <2>2
    <3>2. x \in rows /\ (y.id = x.id \/ y.id \notin used)
      BY <1>3, <3>1, ReplacesFacts
    <3>3. y \in rows => y = x
      BY <3>2 DEF IInv, RecordsInv
    <3>4. x \in Target(r) /\ rows' = (rows \ {x}) \cup {y} /\ seen'[r] = {y}
      BY <1>3, <3>1 DEF Replaces
    <3>5. QED
      BY <3>3, <3>4
  <2>3. CASE rows' = rows \ Target(r) /\ UNCHANGED <<used, seen>>
    BY <1>3, <2>3
  <2>4. QED
    BY <1>1, <1>2, <1>3, <2>1, <2>2, <2>3 DEF Effect, Generic
<1>6. reply'[r] = 200 => \E x \in named : InScope(r, x)
  BY <1>2, <1>4, Succeeds
<1>7. QED
  BY <1>4, <1>5, <1>6

\* A request on its way to the backend is not at a handler.
LEMMA WayNamed ==
  ASSUME IInv, NEW r \in Requests, RequestStep(r), ~ ResolveHandler(r)
  PROVE  NamedByPathStep
<1>1. \A q \in Requests : Acts(q) => q = r
  BY WayKeeps DEF RequestStep, Acts
<1>2. at[r] # "backend"
  BY DEF RequestStep, JWTAuthFails, JWTAuth, ResolveTenant, Enforce, Intercept
<1>3. QED
  BY <1>1, <1>2 DEF NamedByPathStep, Generic

LEMMA PathsStep == IInv /\ [Next]_vars => [NamedByPathStep]_vars
<1> SUFFICES ASSUME IInv, Next PROVE NamedByPathStep
  OBVIOUS
<1>1. ASSUME NEW u \in Users, Login(u) PROVE NamedByPathStep
  BY <1>1 DEF Login, reqVars, NamedByPathStep, Acts
<1>2. ASSUME NEW t \in Tokens, Expire(t) PROVE NamedByPathStep
  BY <1>2 DEF Expire, reqVars, NamedByPathStep, Acts
<1>3. QED
  BY <1>1, <1>2, BackendNamed, WayNamed DEF Next

LEMMA RecordSteps ==
  IInv /\ [Next]_vars =>
    [IsolatedStep]_vars /\ [OwnerKeptStep]_vars /\ [MaskedAtBackendStep]_vars
<1> SUFFICES ASSUME IInv, Next
             PROVE  IsolatedStep /\ OwnerKeptStep /\ MaskedAtBackendStep
  OBVIOUS
<1>1. CASE /\ UNCHANGED <<rows, seen, proxied>>
           /\ \A r \in Requests : Acts(r) => seen[r] = {}
  BY <1>1, QuietSteps
<1>2. CASE \E r \in Requests : ResolveHandler(r)
  BY <1>2, BackendIsolated, BackendMasked
<1>3. QED
  BY <1>1, <1>2, NextCases

\* Every record a step shows, changes or removes is in the scope of the request
\* that takes it: its app is the endpoint's, its organization that of the token
\* the permission was asked in; and so is what the step leaves, unless an update
\* respells a reserved column.  It is about requests whose keys are names of
\* columns (handleList to handleDelete, dynamic_handler.go).
THEOREM IsolatedCorrect == Spec => Isolated
<1>1. IInv /\ [Next]_vars => [IsolatedStep]_vars
  BY RecordSteps
<1>2. QED
  BY <1>1, IInvCorrect, PTL DEF Spec, Isolated

\* Updates keep identity, owner and time of creation, unless the body spells a
\* reserved column in another case or has a key that is no name of a column
\* (handleUpdate in dynamic_handler.go).
THEOREM OwnerKeptCorrect == Spec => OwnerKept
<1>1. IInv /\ [Next]_vars => [OwnerKeptStep]_vars
  BY RecordSteps
<1>2. QED
  BY <1>1, IInvCorrect, PTL DEF Spec, OwnerKept

\* Masking reaches every sensitive value but those behind arrays that maskMap
\* does not enter, for bodies of any nesting (pii_masker.go); an update may also
\* leave in a record what was there before.
THEOREM MaskedAtBackendCorrect == Spec => MaskedAtBackend
<1>1. IInv /\ [Next]_vars => [MaskedAtBackendStep]_vars
  BY RecordSteps
<1>2. QED
  BY <1>1, IInvCorrect, PTL DEF Spec, MaskedAtBackend

\* Get, update and delete show, change or remove no record but the one the path
\* names, and succeed only if it was there in their scope (handleGet, handleUpdate,
\* handleDelete and extractIDFromPath in dynamic_handler.go).
THEOREM NamedByPathCorrect == Spec => NamedByPath
<1>1. IInv /\ [Next]_vars => [NamedByPathStep]_vars
  BY PathsStep
<1>2. QED
  BY <1>1, IInvCorrect, PTL DEF Spec, NamedByPath
=============================================================================
