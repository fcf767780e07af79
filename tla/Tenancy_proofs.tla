--------------------------- MODULE Tenancy_proofs ---------------------------
(***************************************************************************)
(* Theorems about Tenancy: types, the uniqueness of names, the truth of    *)
(* the answers, and who changes a workspace.                               *)
(***************************************************************************)
EXTENDS Tenancy, TLAPS

(***************************************************************************)
(* The inductive invariant.                                                *)
(***************************************************************************)

\* No two rows have the same name.
NoSameName == \A row, other \in rows : SameName(row, other) => row = other

\* No two rows have the same id.
NoSameId == \A row, other \in rows : row.id = other.id => row = other

\* The slugs of workspaces are normalised, and so are those about to be
\* inserted.
FoldedInv ==
    /\ \A row \in rows : row.kind = "workspace" => Folded[row.slug] = row.slug
    /\ \A c \in Calls : call[c].at \in {"check", "insert"} =>
         (call[c].row.kind = "workspace" => Folded[call[c].row.slug] = call[c].row.slug)

\* A call that has not inserted its row inserts one with its own id, which no
\* row has.
FreshInv ==
    \A c \in Calls :
        /\ call[c].at \in {"check", "insert", "publish", "created"} => call[c].row.id = c
        /\ call[c].at \in {"new", "check", "insert"} => \A row \in rows : row.id # c

\* The workspace that a call has read is there, in the organization of its
\* token, and its slug was normalised, though another call may have changed it.
BaseInv ==
    \A c \in Calls : call[c].at \in {"recheck", "update"} =>
        /\ call[c].base.kind = "workspace"
        /\ call[c].base.scope = call[c].org
        /\ Folded[call[c].base.slug] = call[c].base.slug
        /\ \E row \in rows : /\ row.id = call[c].base.id
                             /\ row.kind = "workspace"
                             /\ row.scope = call[c].org

IInv == /\ TypeOK
        /\ NoSameName
        /\ NoSameId
        /\ FoldedInv
        /\ FreshInv
        /\ BaseInv
        /\ CreatedIsThere
        /\ rows \subseteq past
        /\ TakenIsTrue

-----------------------------------------------------------------------------
(* Type correctness *)

\* What the program counter of a call tells of its other fields.
LEMMA CallType ==
  ASSUME TypeOK, NEW c \in Calls
  PROVE  /\ call[c].at \in {"new", "done", "failed", "check", "insert", "publish",
                            "created", "taken", "recheck", "update"}
         /\ call[c].at \in {"check", "insert", "publish", "created", "taken"} =>
              call[c] \in Creating /\ call[c].row \in Rows
         /\ call[c].at \in {"recheck", "update"} =>
              /\ call[c] \in Changing
              /\ call[c].base \in Rows /\ call[c].patch \in Patches
              /\ call[c].org \in Ids \cup {None}
         /\ call[c].at = "new" <=> call[c] = New
<1>1. call[c] \in {New, Done, Failed} \cup Creating \cup Changing
  BY DEF TypeOK
<1>2. CASE call[c] \in {New, Done, Failed}
  BY <1>2 DEF New, Done, Failed
<1>3. CASE call[c] \in Creating
  BY <1>3 DEF Creating, New
<1>4. CASE call[c] \in Changing
  BY <1>4 DEF Changing, New
<1>5. QED
  BY <1>1, <1>2, <1>3, <1>4

LEMMA InitTypeOK == Init => TypeOK
BY TenancyAssumption DEF Init, TypeOK

LEMMA WantedType ==
  ASSUME NEW c \in Calls, NEW kind \in Kinds, NEW scope \in Ids \cup {None}, NEW name \in Names,
         (scope = None) <=> (kind \in {"user", "org"})
  PROVE  Wanted(c, kind, scope, name) \in Rows
BY TenancyAssumption DEF Wanted, Rows, Ids, Statuses

\* A patched row differs from the row in its slug and its status only.
LEMMA PatchedType ==
  ASSUME NEW row \in Rows, NEW patch \in Patches
  PROVE  /\ Patched(row, patch).id = row.id
         /\ Patched(row, patch).kind = row.kind
         /\ Patched(row, patch).scope = row.scope
         /\ Patched(row, patch).slug =
              IF patch.slug = None THEN row.slug ELSE Folded[patch.slug]
         /\ Patched(row, patch).status =
              IF patch.status = None THEN row.status ELSE patch.status
         /\ Patched(row, patch).slug \in Names
         /\ Patched(row, patch).status \in Statuses => Patched(row, patch) \in Rows
         /\ [Patched(row, patch) EXCEPT !.status = row.status] \in Rows
<1> DEFINE slug   == IF patch.slug = None THEN row.slug ELSE Folded[patch.slug]
           status == IF patch.status = None THEN row.status ELSE patch.status
<1>1. slug \in Names
  BY TenancyAssumption DEF Rows, Patches
<1>2. Patched(row, patch) = [row EXCEPT !.slug = slug, !.status = status]
  BY DEF Patched
<1> HIDE DEF slug, status
<1>3. /\ [row EXCEPT !.slug = slug, !.status = status].id = row.id
      /\ [row EXCEPT !.slug = slug, !.status = status].kind = row.kind
      /\ [row EXCEPT !.slug = slug, !.status = status].scope = row.scope
      /\ [row EXCEPT !.slug = slug, !.status = status].slug = slug
  BY DEF Rows
<1>4. status \in Statuses => [row EXCEPT !.slug = slug, !.status = status] \in Rows
  BY <1>1 DEF Rows
<1>5. [[row EXCEPT !.slug = slug, !.status = status] EXCEPT !.status = row.status] \in Rows
  BY <1>1 DEF Rows
<1>6. [row EXCEPT !.slug = slug, !.status = status].status = status
  BY DEF Rows
<1>7. QED
  BY <1>1, <1>2, <1>3, <1>4, <1>5, <1>6 DEF slug, status

\* The status of a row is no part of its name.
LEMMA SameNameStatus ==
  ASSUME NEW row \in Rows, NEW patch \in Patches, NEW other \in Rows,
         SameName(other, Patched(row, patch)) \/ SameName(Patched(row, patch), other)
  PROVE  /\ SameName(other, [Patched(row, patch) EXCEPT !.status = row.status])
         /\ [Patched(row, patch) EXCEPT !.status = row.status].id = row.id
<1>1. ASSUME NEW slug, NEW status
      PROVE  LET r == [row EXCEPT !.slug = slug, !.status = status] IN
               /\ [r EXCEPT !.status = row.status].id = r.id
               /\ [r EXCEPT !.status = row.status].kind = r.kind
               /\ [r EXCEPT !.status = row.status].scope = r.scope
               /\ [r EXCEPT !.status = row.status].slug = r.slug
  BY DEF Rows
<1>2. LET r == Patched(row, patch) IN
        /\ [r EXCEPT !.status = row.status].id = r.id
        /\ [r EXCEPT !.status = row.status].kind = r.kind
        /\ [r EXCEPT !.status = row.status].scope = r.scope
        /\ [r EXCEPT !.status = row.status].slug = r.slug
  BY <1>1 DEF Patched
<1>3. QED
  BY <1>2, PatchedType DEF SameName

LEMMA NameCheckType ==
  ASSUME TypeOK, NEW c \in Calls, NEW row \in Rows, NameCheck(c, row)
  PROVE  TypeOK'
<1>1. [at |-> "taken", row |-> row] \in Creating /\ [at |-> "insert", row |-> row] \in Creating
  BY DEF Creating
<1>2. call' \in [Calls -> {New, Done, Failed} \cup Creating \cup Changing]
  BY <1>1 DEF NameCheck, TypeOK
<1>3. QED
  BY <1>2 DEF NameCheck, TypeOK

LEMMA TypeOKStep ==
  ASSUME TypeOK, [Next]_vars
  PROVE  TypeOK'
<1>1. ASSUME NEW c \in Calls, NEW kind \in {"app", "workspace"}, NEW org \in Ids \cup {None},
             NEW name \in Names, OrgLookup(c, kind, org, name)
      PROVE  TypeOK'
  <2>1. CASE /\ \E row \in rows : row.kind = "org" /\ row.id = org
             /\ call' = [call EXCEPT ![c] = [at |-> "check", row |-> Wanted(c, kind, org, name)]]
    <3>1. org # None
      BY <2>1, TenancyAssumption DEF TypeOK, Rows
    <3>2. Wanted(c, kind, org, name) \in Rows
      BY <3>1, WantedType DEF Kinds
    <3>3. [at |-> "check", row |-> Wanted(c, kind, org, name)] \in Creating
      BY <3>2 DEF Creating
    <3>4. call' \in [Calls -> {New, Done, Failed} \cup Creating \cup Changing]
      BY <2>1, <3>3 DEF TypeOK
    <3>5. QED
      BY <1>1, <3>4 DEF OrgLookup, TypeOK
  <2>2. CASE call' = [call EXCEPT ![c] = Failed]
    BY <1>1, <2>2 DEF OrgLookup, TypeOK
  <2>3. QED
    BY <1>1, <2>1, <2>2 DEF OrgLookup
<1>2. ASSUME NEW c \in Calls, NEW kind \in {"user", "org"}, NEW name \in Names,
             FirstCheck(c, kind, name)
      PROVE  TypeOK'
  <2>1. Wanted(c, kind, None, name) \in Rows
    BY WantedType DEF Kinds
  <2>2. QED
    BY <1>2, <2>1, NameCheckType DEF FirstCheck
<1>3. ASSUME NEW c \in Calls, CheckInOrg(c) PROVE TypeOK'
  BY <1>3, CallType, NameCheckType DEF CheckInOrg
<1>4. ASSUME NEW c \in Calls, Insert(c) PROVE TypeOK'
  <2>1. call[c].row \in Rows
    BY <1>4, CallType DEF Insert
  <2>2. [at |-> "publish", row |-> call[c].row] \in Creating
    BY <2>1 DEF Creating
  <2>3. QED
    BY <1>4, <2>1, <2>2 DEF Insert, Executed, TypeOK
<1>5. ASSUME NEW c \in Calls, Announce(c) PROVE TypeOK'
  <2>1. call[c] \in Creating /\ call[c].row \in Rows
    BY <1>5, CallType DEF Announce
  <2>2. [call[c] EXCEPT !.at = "created"] \in Creating
    BY <2>1 DEF Creating
  <2>3. call[c].row.id \in Ids
    BY <2>1 DEF Rows
  <2>4. QED
    BY <1>5, <2>2, <2>3 DEF Announce, TypeOK
<1>6. ASSUME NEW c \in Calls, NEW org \in Ids \cup {None}, NEW w \in Ids, NEW patch \in Patches,
             UpdateLookup(c, org, w, patch)
      PROVE  TypeOK'
  <2>1. \A row \in rows :
          [at |-> IF patch.slug = None THEN "update" ELSE "recheck",
           base |-> row, patch |-> patch, org |-> org] \in Changing
    BY DEF Changing, TypeOK
  <2>2. QED
    BY <1>6, <2>1 DEF UpdateLookup, TypeOK
<1>7. ASSUME NEW c \in Calls, Recheck(c) PROVE TypeOK'
  <2>1. call[c] \in Changing /\ call[c].base \in Rows /\ call[c].patch \in Patches
    BY <1>7, CallType DEF Recheck
  <2>2. [call[c] EXCEPT !.at = "update"] \in Changing
    BY <2>1 DEF Changing
  <2>3. [at |-> "taken", row |-> [Patched(call[c].base, call[c].patch)
                                    EXCEPT !.status = call[c].base.status]] \in Creating
    BY <2>1, PatchedType DEF Creating
  <2>4. QED
    BY <1>7, <2>2, <2>3 DEF Recheck, TypeOK
<1>8. ASSUME NEW c \in Calls, UpdateWrite(c) PROVE TypeOK'
  <2>1. call[c].base \in Rows /\ call[c].patch \in Patches
    BY <1>8, CallType DEF UpdateWrite
  <2>2. Patched(call[c].base, call[c].patch).status \in Statuses =>
          Patched(call[c].base, call[c].patch) \in Rows
    BY <2>1, PatchedType
  <2>3. QED
    BY <1>8, <2>2 DEF UpdateWrite, Executed, TypeOK
<1>9. ASSUME NEW c \in Calls, CallFails(c) PROVE TypeOK'
  BY <1>9 DEF CallFails, TypeOK
<1>10. CASE UNCHANGED vars
  BY <1>10 DEF vars, TypeOK
<1>11. QED
  BY <1>1, <1>2, <1>3, <1>4, <1>5, <1>6, <1>7, <1>8, <1>9, <1>10 DEF Next, CallStep, Quiet

\* Every variable keeps its type.
THEOREM TypeCorrect == Spec => []TypeOK
<1>1. Init => TypeOK
  BY InitTypeOK
<1>2. TypeOK /\ [Next]_vars => TypeOK'
  BY TypeOKStep
<1>3. QED
  BY <1>1, <1>2, PTL DEF Spec

-----------------------------------------------------------------------------
(* The invariant is inductive *)

LEMMA InitIInv == Init => IInv
<1> SUFFICES ASSUME Init PROVE IInv
  OBVIOUS
<1>1. rows = Seed /\ past = Seed /\ announced = {} /\ \A c \in Calls : call[c] = New
  BY DEF Init
<1>2. \A c \in Calls : call[c].at = "new"
  BY <1>1 DEF New
<1>3. TypeOK
  BY InitTypeOK
<1>4. NoSameName /\ NoSameId /\ FoldedInv
  BY <1>1, <1>2, TenancyAssumption DEF NoSameName, NoSameId, FoldedInv
<1>5. FreshInv
  BY <1>1, <1>2, TenancyAssumption DEF FreshInv
<1>6. BaseInv /\ CreatedIsThere /\ TakenIsTrue /\ rows \subseteq past
  BY <1>1, <1>2 DEF BaseInv, CreatedIsThere, TakenIsTrue
<1>7. QED
  BY <1>3, <1>4, <1>5, <1>6 DEF IInv

\* A step that only moves a call on: what must hold of where it gets to.
LEMMA MoveOn ==
  ASSUME IInv, TypeOK', NEW c \in Calls, NEW next,
         UNCHANGED <<rows, past>>,
         \A id \in announced' : id \in announced \/ \E row \in rows : row.id = id,
         call' = [call EXCEPT ![c] = next],
         next.at \in {"check", "insert"} =>
           (next.row.kind = "workspace" => Folded[next.row.slug] = next.row.slug),
         next.at \in {"check", "insert", "publish", "created"} => next.row.id = c,
         next.at \in {"new", "check", "insert"} => \A row \in rows : row.id # c,
         next.at \in {"recheck", "update"} =>
           /\ next.base.kind = "workspace"
           /\ next.base.scope = next.org
           /\ Folded[next.base.slug] = next.base.slug
           /\ \E row \in rows : /\ row.id = next.base.id
                                /\ row.kind = "workspace"
                                /\ row.scope = next.org,
         next.at \in {"publish", "created"} =>
           \E row \in rows : /\ row.id = c
                             /\ row.kind = next.row.kind
                             /\ row.scope = next.row.scope,
         next.at = "taken" =>
           \E row \in past : SameName(row, next.row) /\ row.id # next.row.id
  PROVE  IInv'
<1>1. call'[c] = next /\ \A d \in Calls \ {c} : call'[d] = call[d]
  BY DEF IInv, TypeOK
<1>2. NoSameName' /\ NoSameId' /\ (rows \subseteq past)'
  BY DEF IInv, NoSameName, NoSameId, SameName
<1>3. FoldedInv'
  BY <1>1 DEF IInv, FoldedInv
<1>4. FreshInv'
  BY <1>1 DEF IInv, FreshInv
<1>5. BaseInv'
  BY <1>1 DEF IInv, BaseInv
<1>6. CreatedIsThere'
  BY <1>1 DEF IInv, CreatedIsThere
<1>7. TakenIsTrue'
  BY <1>1 DEF IInv, TakenIsTrue, SameName
<1>8. QED
  BY <1>2, <1>3, <1>4, <1>5, <1>6, <1>7 DEF IInv

LEMMA FailInv ==
  ASSUME IInv, TypeOK', NEW c \in Calls, UNCHANGED <<rows, announced, past>>,
         call' = [call EXCEPT ![c] = Failed] \/ call' = [call EXCEPT ![c] = Done]
  PROVE  IInv'
<1>1. Failed.at = "failed" /\ Done.at = "done"
  BY DEF Failed, Done
<1>2. CASE call' = [call EXCEPT ![c] = Failed]
  BY <1>1, <1>2, MoveOn
<1>3. CASE call' = [call EXCEPT ![c] = Done]
  BY <1>1, <1>3, MoveOn
<1>4. QED
  BY <1>2, <1>3

LEMMA WantedFields ==
  ASSUME NEW c \in Calls, NEW kind, NEW scope, NEW name \in Names
  PROVE  /\ Wanted(c, kind, scope, name).id = c
         /\ Wanted(c, kind, scope, name).kind = kind
         /\ kind = "workspace" => LET slug == Wanted(c, kind, scope, name).slug
                                  IN  Folded[slug] = slug
BY TenancyAssumption DEF Wanted

LEMMA NameCheckInv ==
  ASSUME IInv, TypeOK', NEW c \in Calls, NEW row \in Rows, NameCheck(c, row),
         row.id = c, \A other \in rows : other.id # c,
         row.kind = "workspace" => Folded[row.slug] = row.slug
  PROVE  IInv'
<1>1. CASE \E other \in rows : /\ SameName(row, other)
                               /\ call' = [call EXCEPT ![c] = [at |-> "taken", row |-> row]]
  <2>1. PICK other \in rows : SameName(row, other)
    BY <1>1
  <2>2. other \in past /\ SameName(other, row) /\ other.id # row.id
    BY <2>1 DEF IInv, SameName
  <2>3. QED
    BY <1>1, <2>2, MoveOn DEF NameCheck
<1>2. CASE call' = [call EXCEPT ![c] = [at |-> "insert", row |-> row]]
  BY <1>2, MoveOn DEF NameCheck
<1>3. QED
  BY <1>1, <1>2 DEF NameCheck

LEMMA OrgLookupInv ==
  ASSUME IInv, TypeOK', NEW c \in Calls, NEW kind \in {"app", "workspace"},
         NEW org \in Ids \cup {None}, NEW name \in Names, OrgLookup(c, kind, org, name)
  PROVE  IInv'
<1>1. CASE call' = [call EXCEPT ![c] = [at |-> "check", row |-> Wanted(c, kind, org, name)]]
  <2>1. \A row \in rows : row.id # c
    BY DEF OrgLookup, New, IInv, FreshInv
  <2> DEFINE row == Wanted(c, kind, org, name)
  <2>2. row.id = c /\ (row.kind = "workspace" => Folded[row.slug] = row.slug)
    BY WantedFields
  <2>3. /\ call' = [call EXCEPT ![c] = [at |-> "check", row |-> row]]
        /\ UNCHANGED <<rows, announced, past>>
    BY <1>1 DEF OrgLookup
  <2> HIDE DEF row
  <2>4. QED
    BY <2>1, <2>2, <2>3, MoveOn
<1>2. CASE call' = [call EXCEPT ![c] = Failed]
  BY <1>2, FailInv DEF OrgLookup
<1>3. QED
  BY <1>1, <1>2 DEF OrgLookup

LEMMA FirstCheckInv ==
  ASSUME IInv, TypeOK', NEW c \in Calls, NEW kind \in {"user", "org"},
         NEW name \in Names, FirstCheck(c, kind, name)
  PROVE  IInv'
<1>1. \A row \in rows : row.id # c
  BY DEF FirstCheck, New, IInv, FreshInv
<1>2. Wanted(c, kind, None, name) \in Rows
  BY WantedType DEF Kinds
<1>3. QED
  BY <1>1, <1>2, WantedFields, NameCheckInv DEF FirstCheck

LEMMA CheckInOrgInv ==
  ASSUME IInv, TypeOK', NEW c \in Calls, CheckInOrg(c)
  PROVE  IInv'
<1>1. call[c].row \in Rows
  BY CallType DEF CheckInOrg, IInv
<1>2. /\ call[c].row.id = c
      /\ \A row \in rows : row.id # c
      /\ call[c].row.kind = "workspace" => Folded[call[c].row.slug] = call[c].row.slug
  BY DEF CheckInOrg, IInv, FreshInv, FoldedInv
<1>3. QED
  BY <1>1, <1>2, NameCheckInv DEF CheckInOrg

LEMMA InsertInv ==
  ASSUME IInv, TypeOK', NEW c \in Calls, Insert(c)
  PROVE  IInv'
<1> DEFINE row == call[c].row
<1>1. /\ row \in Rows /\ row.id = c /\ \A other \in rows : other.id # c
      /\ row.kind = "workspace" => Folded[row.slug] = row.slug
  BY CallType DEF Insert, IInv, FreshInv, FoldedInv
<1>2. CASE \A other \in rows : ~SameName(row, other)
  <2> DEFINE next == [at |-> "publish", row |-> row]
  <2>1. /\ rows' = rows \cup {row} /\ past' = past \cup {row} /\ announced' = announced
        /\ call' = [call EXCEPT ![c] = next] \/ call' = [call EXCEPT ![c] = Failed]
    BY <1>2 DEF Insert, Executed
  <2>2. /\ \A d \in Calls \ {c} : call'[d] = call[d]
        /\ call'[c].at \in {"publish", "failed"}
        /\ call'[c].at = "publish" => call'[c].row = row
    BY <2>1 DEF IInv, TypeOK, Failed
  <2> HIDE DEF next, row
  <2>3. NoSameName'
    BY <1>2, <2>1 DEF IInv, NoSameName, SameName
  <2>4. NoSameId'
    BY <1>1, <2>1 DEF IInv, NoSameId
  <2>5. FoldedInv'
    BY <1>1, <2>1, <2>2 DEF IInv, FoldedInv
  <2>6. FreshInv'
    BY <1>1, <2>1, <2>2 DEF IInv, FreshInv
  <2>7. BaseInv'
    BY <2>1, <2>2 DEF IInv, BaseInv
  <2>8. CreatedIsThere'
    BY <1>1, <2>1, <2>2 DEF IInv, CreatedIsThere
  <2>9. TakenIsTrue' /\ (rows \subseteq past)'
    BY <2>1, <2>2 DEF IInv, TakenIsTrue, SameName
  <2>10. QED
    BY <2>3, <2>4, <2>5, <2>6, <2>7, <2>8, <2>9 DEF IInv
<1>3. CASE ~\A other \in rows : ~SameName(row, other)
  BY <1>3, FailInv DEF Insert
<1>4. QED
  BY <1>2, <1>3

LEMMA AnnounceInv ==
  ASSUME IInv, TypeOK', NEW c \in Calls, Announce(c)
  PROVE  IInv'
<1> DEFINE next == [call[c] EXCEPT !.at = "created"]
<1>1. call[c] \in Creating /\ call[c].row.id = c
  BY CallType DEF Announce, IInv, FreshInv
<1>2. next.at = "created" /\ next.row = call[c].row
  BY <1>1 DEF Creating
<1>3. \E row \in rows : /\ row.id = c /\ row.kind = call[c].row.kind
                        /\ row.scope = call[c].row.scope
  BY DEF Announce, IInv, CreatedIsThere
<1>4. /\ call' = [call EXCEPT ![c] = next] /\ UNCHANGED <<rows, past>>
      /\ announced' \subseteq announced \cup {c}
  BY <1>1 DEF Announce
<1> HIDE DEF next
<1>5. QED
  BY <1>1, <1>2, <1>3, <1>4, MoveOn

LEMMA UpdateLookupInv ==
  ASSUME IInv, TypeOK', NEW c \in Calls, NEW org \in Ids \cup {None}, NEW w \in Ids,
         NEW patch \in Patches, UpdateLookup(c, org, w, patch)
  PROVE  IInv'
<1>1. ASSUME NEW row \in rows, row.kind = "workspace", row.scope = org,
             call' = [call EXCEPT ![c] = [at |-> IF patch.slug = None THEN "update" ELSE "recheck",
                                          base |-> row, patch |-> patch, org |-> org]]
      PROVE  IInv'
  <2> DEFINE next == [at |-> IF patch.slug = None THEN "update" ELSE "recheck",
                      base |-> row, patch |-> patch, org |-> org]
  <2>1. next.at \in {"update", "recheck"} /\ next.base = row /\ next.org = org
    OBVIOUS
  <2>2. /\ Folded[row.slug] = row.slug
        /\ row.kind = "workspace" /\ row.scope = org
        /\ \E old \in rows : old.id = row.id /\ old.kind = "workspace" /\ old.scope = org
    BY <1>1 DEF IInv, FoldedInv
  <2>3. call' = [call EXCEPT ![c] = next] /\ UNCHANGED <<rows, announced, past>>
    BY <1>1 DEF UpdateLookup
  <2> HIDE DEF next
  <2>4. QED
    BY <2>1, <2>2, <2>3, MoveOn
<1>2. CASE call' = [call EXCEPT ![c] = Failed]
  BY <1>2, FailInv DEF UpdateLookup
<1>3. QED
  BY <1>1, <1>2 DEF UpdateLookup

LEMMA RecheckInv ==
  ASSUME IInv, TypeOK', NEW c \in Calls, Recheck(c)
  PROVE  IInv'
<1> DEFINE base == call[c].base
           row  == Patched(base, call[c].patch)
           same == [row EXCEPT !.status = base.status]
<1>1. call[c] \in Changing /\ base \in Rows /\ call[c].patch \in Patches
  BY CallType DEF Recheck, IInv
<1>2. row.id = base.id
  BY <1>1, PatchedType
<1>3. ASSUME NEW other \in rows, SameName(row, other), other.id # row.id,
             call' = [call EXCEPT ![c] = [at |-> "taken", row |-> same]]
      PROVE  IInv'
  <2>1. other \in Rows /\ other \in past
    BY DEF IInv, TypeOK
  <2>2. SameName(other, same) /\ other.id # same.id
    BY <1>1, <1>2, <1>3, <2>1, SameNameStatus
  <2>3. UNCHANGED <<rows, announced, past>>
    BY DEF Recheck
  <2> HIDE DEF same
  <2>4. QED
    BY <1>3, <2>1, <2>2, <2>3, MoveOn
<1>4. CASE call' = [call EXCEPT ![c].at = "update"]
  <2> DEFINE next == [call[c] EXCEPT !.at = "update"]
  <2>1. next.at = "update" /\ next.base = base /\ next.org = call[c].org
    BY <1>1 DEF Changing
  <2>2. /\ base.kind = "workspace" /\ base.scope = call[c].org
        /\ Folded[base.slug] = base.slug
        /\ \E old \in rows : /\ old.id = base.id /\ old.kind = "workspace"
                             /\ old.scope = call[c].org
    BY DEF Recheck, IInv, BaseInv
  <2>3. call' = [call EXCEPT ![c] = next] /\ UNCHANGED <<rows, announced, past>>
    BY <1>4 DEF Recheck
  <2> HIDE DEF next, base
  <2>4. QED
    BY <2>1, <2>2, <2>3, MoveOn
<1>5. QED
  BY <1>3, <1>4 DEF Recheck

\* What an executed UPDATE writes: the patched row, where the one that was read
\* is.
LEMMA UpdateWriteRow ==
  ASSUME IInv, NEW c \in Calls, call[c].at = "update"
  PROVE  LET base == call[c].base
             row  == Patched(base, call[c].patch)
         IN  /\ row.id = base.id /\ row.kind = "workspace" /\ row.scope = call[c].org
             /\ Folded[row.slug] = row.slug
             /\ call[c].patch.slug = None => row.slug = base.slug
             /\ call[c].patch.status = None => row.status = base.status
             /\ \E old \in rows : old.id = row.id
             /\ \A old \in rows : old.id = row.id => old.kind = row.kind /\ old.scope = row.scope
<1> DEFINE base == call[c].base
           row  == Patched(base, call[c].patch)
<1>1. base \in Rows /\ call[c].patch \in Patches
  BY CallType DEF IInv
<1>2. /\ row.id = base.id /\ row.kind = base.kind /\ row.scope = base.scope
      /\ row.slug = IF call[c].patch.slug = None THEN base.slug ELSE Folded[call[c].patch.slug]
      /\ row.status = IF call[c].patch.status = None THEN base.status ELSE call[c].patch.status
  BY <1>1, PatchedType
<1>3. /\ base.kind = "workspace" /\ base.scope = call[c].org
      /\ Folded[base.slug] = base.slug
      /\ \E old \in rows : /\ old.id = base.id /\ old.kind = "workspace"
                           /\ old.scope = call[c].org
  BY DEF IInv, BaseInv
<1>4. Folded[row.slug] = row.slug
  BY <1>1, <1>2, <1>3, TenancyAssumption DEF Patches
<1>5. \A old, other \in rows : old.id = other.id => old = other
  BY DEF IInv, NoSameId
<1> HIDE DEF row, base
<1>6. QED
  BY <1>2, <1>3, <1>4, <1>5 DEF row, base

LEMMA UpdateWriteInv ==
  ASSUME IInv, TypeOK', NEW c \in Calls, UpdateWrite(c)
  PROVE  IInv'
<1> DEFINE row    == Patched(call[c].base, call[c].patch)
           others == {other \in rows : other.id # row.id}
<1>1. call[c].at = "update" /\ announced' = announced
  BY DEF UpdateWrite
<1>2. /\ row.kind = "workspace" /\ Folded[row.slug] = row.slug
      /\ \E old \in rows : old.id = row.id
      /\ \A old \in rows : old.id = row.id => old.kind = row.kind /\ old.scope = row.scope
  BY <1>1, UpdateWriteRow
<1>3. CASE \A other \in others : ~SameName(row, other)
  <2>1. CASE UNCHANGED <<rows, past>> /\ call' = [call EXCEPT ![c] = Failed]
    BY <1>1, <2>1, FailInv
  <2>2. CASE /\ rows' = others \cup {row}
             /\ past' = past \cup {row}
             /\ call' = [call EXCEPT ![c] = Done] \/ call' = [call EXCEPT ![c] = Failed]
    <3>1. /\ \A d \in Calls \ {c} : call'[d] = call[d]
          /\ call'[c].at \in {"done", "failed"}
      BY <2>2 DEF IInv, TypeOK, Failed, Done
    <3> HIDE DEF row
    <3>2. \A old \in rows : \E new \in rows' :
            new.id = old.id /\ new.kind = old.kind /\ new.scope = old.scope
      BY <1>2, <2>2
    <3>3. \A new \in rows' : \E old \in rows : old.id = new.id
      BY <1>2, <2>2
    <3>4. NoSameName'
      BY <1>3, <2>2 DEF IInv, NoSameName, SameName
    <3>5. NoSameId'
      BY <2>2 DEF IInv, NoSameId
    <3>6. FoldedInv'
      BY <1>2, <2>2, <3>1 DEF IInv, FoldedInv
    <3>7. FreshInv'
      BY <3>1, <3>3 DEF IInv, FreshInv
    <3>8. BaseInv'
      BY <3>1, <3>2 DEF IInv, BaseInv
    <3>9. CreatedIsThere'
      BY <1>1, <3>1, <3>2 DEF IInv, CreatedIsThere
    <3>10. TakenIsTrue' /\ (rows \subseteq past)'
      BY <2>2, <3>1 DEF IInv, TakenIsTrue, SameName
    <3>11. QED
      BY <3>4, <3>5, <3>6, <3>7, <3>8, <3>9, <3>10 DEF IInv
  <2>3. QED
    BY <1>3, <2>1, <2>2 DEF UpdateWrite, Executed
<1>4. CASE ~\A other \in others : ~SameName(row, other)
  BY <1>4, FailInv DEF UpdateWrite
<1>5. QED
  BY <1>3, <1>4

LEMMA IInvStep ==
  ASSUME IInv, [Next]_vars
  PROVE  IInv'
<1>1. TypeOK'
  BY TypeOKStep DEF IInv
<1>2. ASSUME NEW c \in Calls, CallStep(c) PROVE IInv'
  <2>1. CASE CallFails(c)
    BY <1>1, <2>1, FailInv DEF CallFails
  <2>2. QED
    BY <1>1, <1>2, <2>1, OrgLookupInv, FirstCheckInv, CheckInOrgInv, InsertInv, AnnounceInv,
       UpdateLookupInv, RecheckInv, UpdateWriteInv DEF CallStep
<1>3. CASE UNCHANGED vars
  BY <1>1, <1>3 DEF vars, IInv, NoSameName, NoSameId, SameName, FoldedInv, FreshInv, BaseInv,
                    CreatedIsThere, TakenIsTrue
<1>4. QED
  BY <1>2, <1>3 DEF Next, Quiet

LEMMA Invariance == Spec => []IInv
<1>1. IInv /\ [Next]_vars => IInv'
  BY IInvStep
<1>2. QED
  BY <1>1, InitIInv, PTL DEF Spec

-----------------------------------------------------------------------------
(* Theorems *)

\* However calls race or fail, a name is that of one row, and workspaces whose
\* slugs differ in case only do not exist side by side.
THEOREM UniqueNamesCorrect == Spec => []UniqueNames
<1>1. IInv => UniqueNames
  BY DEF IInv, NoSameName, FoldedInv, SameName, UniqueNames
<1>2. QED
  BY <1>1, Invariance, PTL

\* A row whose creation was answered or published is there.
THEOREM CreatedIsThereCorrect == Spec => []CreatedIsThere
<1>1. IInv => CreatedIsThere
  BY DEF IInv
<1>2. QED
  BY <1>1, Invariance, PTL

\* ErrAlreadyExists is the truth.
THEOREM TakenIsTrueCorrect == Spec => []TakenIsTrue
<1>1. IInv => TakenIsTrue
  BY DEF IInv
<1>2. QED
  BY <1>1, Invariance, PTL

\* A step that changes a call which is about to write ends it: the workspace is
\* as the call writes it, or the tables are as they were.
LEMMA WriteEnds ==
  ASSUME IInv, Next, NEW c \in Calls, call[c].at = "update", call'[c] # call[c]
  PROVE  \/ rows' = rows
         \/ LET row == Patched(call[c].base, call[c].patch) IN
              rows' = {other \in rows : other.id # row.id} \cup {row}
<1>1. CASE Quiet
  BY <1>1 DEF Quiet, vars
<1>2. ASSUME NEW d \in Calls, CallStep(d), d # c PROVE call'[c] = call[c]
  BY <1>2 DEF IInv, TypeOK, CallStep, OrgLookup, FirstCheck, CheckInOrg, NameCheck, Insert, Executed,
              Announce, UpdateLookup, Recheck, UpdateWrite, CallFails
<1>3. ASSUME CallStep(c) PROVE UpdateWrite(c) \/ CallFails(c)
  BY <1>3 DEF CallStep, OrgLookup, FirstCheck, CheckInOrg, Insert,
              Announce, UpdateLookup, Recheck, New
<1>4. QED
  BY <1>1, <1>2, <1>3 DEF Next, UpdateWrite, CallFails

\* Of the rows only the one that an UPDATE writes may go.
LEMMA OnlyUpdateRemoves ==
  ASSUME IInv, Next, NEW old \in rows, old \notin rows'
  PROVE  \E c \in Calls :
           LET row == Patched(call[c].base, call[c].patch) IN
             /\ call[c].at = "update" /\ call'[c] # call[c]
             /\ row \in rows' /\ row.id = old.id
<1>1. PICK c \in Calls : CallStep(c)
  BY DEF Next, Quiet, vars
<1>2. UpdateWrite(c)
  BY <1>1 DEF CallStep, OrgLookup, FirstCheck, CheckInOrg, NameCheck, Insert, Announce,
              UpdateLookup, Recheck, CallFails
<1>3. call[c].at = "update" /\ call'[c].at \in {"done", "failed"}
  BY <1>2 DEF UpdateWrite, Executed, IInv, TypeOK, Done, Failed
<1>4. QED
  BY <1>2, <1>3 DEF UpdateWrite

\* A field that a request does not provide keeps its value, unless another call
\* wrote the workspace after the request read it.
THEOREM UntouchedUnlessRacedCorrect == Spec => UntouchedUnlessRaced
<1>1. IInv /\ [Next]_vars =>
        [\A c \in Calls : call[c].at = "update" /\ call[c].base \in rows =>
           LET base == call[c].base IN
           \A row \in rows' : row.id = base.id /\ call'[c] # call[c] =>
              /\ call[c].patch.slug = None => row.slug = base.slug
              /\ call[c].patch.status = None => row.status = base.status]_vars
  <2> SUFFICES ASSUME IInv, Next, NEW c \in Calls, call[c].at = "update",
                      call[c].base \in rows, NEW row \in rows', row.id = call[c].base.id,
                      call'[c] # call[c]
               PROVE  /\ call[c].patch.slug = None => row.slug = call[c].base.slug
                      /\ call[c].patch.status = None => row.status = call[c].base.status
    OBVIOUS
  <2> DEFINE new == Patched(call[c].base, call[c].patch)
  <2>1. /\ new.id = call[c].base.id
        /\ call[c].patch.slug = None => new.slug = call[c].base.slug
        /\ call[c].patch.status = None => new.status = call[c].base.status
    BY UpdateWriteRow
  <2>2. rows' = rows \/ rows' = {other \in rows : other.id # new.id} \cup {new}
    BY WriteEnds
  <2>3. row = call[c].base \/ row = new
    BY <2>1, <2>2 DEF IInv, NoSameId
  <2>4. QED
    BY <2>1, <2>3
<1>2. QED
  BY <1>1, Invariance, PTL DEF Spec, UntouchedUnlessRaced

\* A workspace changes only by a call of its organization, and stays there.
THEOREM OnlyByItsOrgCorrect == Spec => OnlyByItsOrg
<1>1. IInv /\ [Next]_vars =>
        [\A row \in rows : row \notin rows' =>
           \E c \in Calls, new \in rows' :
              /\ call[c].at = "update" /\ call'[c] # call[c]
              /\ new.id = row.id /\ new.scope = row.scope /\ new.scope = call[c].org]_vars
  <2> SUFFICES ASSUME IInv, Next, NEW old \in rows, old \notin rows'
               PROVE  \E c \in Calls, new \in rows' :
                        /\ call[c].at = "update" /\ call'[c] # call[c]
                        /\ new.id = old.id /\ new.scope = old.scope /\ new.scope = call[c].org
    OBVIOUS
  <2>1. PICK c \in Calls :
          LET row == Patched(call[c].base, call[c].patch) IN
            /\ call[c].at = "update" /\ call'[c] # call[c]
            /\ row \in rows' /\ row.id = old.id
    BY OnlyUpdateRemoves
  <2> DEFINE new == Patched(call[c].base, call[c].patch)
  <2>2. new.scope = call[c].org /\ new.scope = old.scope
    BY <2>1, UpdateWriteRow
  <2>3. QED
    BY <2>1, <2>2
<1>2. QED
  BY <1>1, Invariance, PTL DEF Spec, OnlyByItsOrg
=============================================================================
