------------------------------ MODULE Tenancy ------------------------------
(***************************************************************************)
(* The use cases that put names into the tables: Register, CreateOrg,      *)
(* CreateApp, CreateWorkspace and UpdateWorkspace (application/iam/usecase,*)
(* application/tenant/usecase), over users, organizations, apps and        *)
(* workspaces (postgres/iam, postgres/tenant and the migrations 00001,     *)
(* 00002, 00007, 00012).                                                   *)
(*                                                                         *)
(* Each use case looks the name up, decides and writes without a           *)
(* transaction; the unique constraints of the tables stand behind it.      *)
(* Each query and the Publish is a step, and calls interleave between      *)
(* them.  No code deletes a row, or updates one outside UpdateWorkspace:   *)
(* an organization, once there, is there and active.  The columns a call   *)
(* writes without a look at them (names, descriptions, hashes, tiers) are  *)
(* left out.  A new row's id is the call that drew it.                     *)
(***************************************************************************)
EXTENDS FiniteSets

CONSTANTS Calls,   \* API calls
          Old,     \* ids of the rows the tables start with
          Seed,    \* those rows
          Names,   \* slugs and email addresses, as clients spell them
          Folded,  \* strings.ToLower(strings.TrimSpace(name))
          None,    \* uuid.Nil, or a field that a request does not provide
          Faults   \* which failures happen

(* read: a SELECT fails; write: a write fails and is not executed; reply: it *)
(* is executed but its reply is lost; crash: the process dies.               *)
FaultKinds == {"read", "write", "reply", "crash"}

\* model.WorkspaceStatus, which the table's CHECK repeats, and a word that is
\* none: the request's status is not validated.
Statuses    == {"active", "suspended", "archived"}
StatusWords == Statuses \cup {"unknown"}

Ids   == Calls \cup Old
Kinds == {"user", "org", "app", "workspace"}

\* What a name is unique in: nothing for users and organizations, the
\* organization for apps and workspaces.
Rows ==
    {row \in [id : Ids, kind : Kinds, scope : Ids \cup {None}, slug : Names, status : Statuses] :
        (row.scope = None) <=> (row.kind \in {"user", "org"})}

SameName(row, other) ==
    row.kind = other.kind /\ row.scope = other.scope /\ row.slug = other.slug

\* What UpdateWorkspace is asked to change.
Patches == [slug : Names \cup {None}, status : StatusWords \cup {None}]

ASSUME TenancyAssumption ==
    /\ Faults \subseteq FaultKinds
    /\ Calls \cap Old = {}
    /\ None \notin Ids \cup Names \cup StatusWords
    /\ Folded \in [Names -> Names]
    /\ \A n \in Names : Folded[Folded[n]] = Folded[n]
    /\ Seed \subseteq {row \in Rows : row.id \in Old}
    /\ \A row, other \in Seed : SameName(row, other) \/ row.id = other.id => row = other
    /\ \A row \in Seed :
         /\ row.scope # None => \E org \in Seed : org.kind = "org" /\ org.id = row.scope
         /\ row.kind = "workspace" => Folded[row.slug] = row.slug

VARIABLES
    rows,       \* the four tables
    call,       \* where each API call is, with what it has read
    announced,  \* history: the ids whose creation was published
    past        \* history: the rows the tables have ever held

vars == <<rows, call, announced, past>>

New    == [at |-> "new"]
Done   == [at |-> "done"]    \* UpdateWorkspace returned the workspace
Failed == [at |-> "failed"]  \* another error than taken, or the process died

\* taken: ErrAlreadyExists.  created: the new row was returned.
Creating == [at : {"check", "insert", "publish", "created", "taken"}, row : Rows]
Changing == [at : {"recheck", "update"}, base : Rows, patch : Patches, org : Ids \cup {None}]

TypeOK ==
    /\ rows \subseteq Rows
    /\ call \in [Calls -> {New, Done, Failed} \cup Creating \cup Changing]
    /\ announced \subseteq Ids
    /\ past \subseteq Rows

Init ==
    /\ rows = Seed
    /\ call = [c \in Calls |-> New]
    /\ announced = {}
    /\ past = Seed

-----------------------------------------------------------------------------

\* Mutant: CreateWorkspace does not normalise the slug.
Wanted_NotFolded(c, kind, scope, name) ==
    [id |-> c, kind |-> kind, scope |-> scope, status |-> "active", slug |-> name]

\* The row that a Create is about to insert.
Wanted(c, kind, scope, name) ==
    [id |-> c, kind |-> kind, scope |-> scope, status |-> "active",
     slug |-> IF kind = "workspace" THEN Folded[name] ELSE name]

\* CreateApp and CreateWorkspace: GetByID of the organization, which is that of
\* the token (uuid.Nil, if it names none) for a workspace.
OrgLookup(c, kind, org, name) ==
    /\ call[c] = New
    /\ \/ /\ \E row \in rows : row.kind = "org" /\ row.id = org
          /\ call' = [call EXCEPT ![c] = [at |-> "check", row |-> Wanted(c, kind, org, name)]]
       \/ /\ (\A row \in rows : row.kind = "org" => row.id # org) \/ "read" \in Faults
          /\ call' = [call EXCEPT ![c] = Failed]
    /\ UNCHANGED <<rows, announced, past>>

\* GetBySlug or GetByEmail, whose error is taken for "none".
NameCheck(c, row) ==
    /\ \/ \E other \in rows :
            /\ SameName(row, other)
            /\ call' = [call EXCEPT ![c] = [at |-> "taken", row |-> row]]
       \/ /\ (\A other \in rows : ~SameName(row, other)) \/ "read" \in Faults
          /\ call' = [call EXCEPT ![c] = [at |-> "insert", row |-> row]]
    /\ UNCHANGED <<rows, announced, past>>

\* Register and CreateOrg start with the check.
FirstCheck(c, kind, name) ==
    /\ call[c] = New
    /\ NameCheck(c, Wanted(c, kind, None, name))

CheckInOrg(c) ==
    /\ call[c].at = "check"
    /\ NameCheck(c, call[c].row)

\* A write has been executed, and its reply reaches the use case or is lost.
Executed(c, next) ==
    \/ call' = [call EXCEPT ![c] = next]
    \/ "reply" \in Faults /\ call' = [call EXCEPT ![c] = Failed]

\* Mutant: the error of Create is ignored.
Insert_IgnoresError(c) ==
    /\ call[c].at = "insert"
    /\ LET row == call[c].row IN
         IF \A other \in rows : ~SameName(row, other)
         THEN /\ rows' = rows \cup {row}
              /\ past' = past \cup {row}
              /\ Executed(c, [at |-> "publish", row |-> row])
         ELSE /\ call' = [call EXCEPT ![c] = [at |-> "publish", row |-> row]]
              /\ UNCHANGED <<rows, past>>
    /\ UNCHANGED announced

\* The INSERT, and the unique constraint of its table.
Insert(c) ==
    /\ call[c].at = "insert"
    /\ LET row == call[c].row IN
         IF \A other \in rows : ~SameName(row, other)
         THEN /\ rows' = rows \cup {row}
              /\ past' = past \cup {row}
              /\ Executed(c, [at |-> "publish", row |-> row])
         ELSE /\ call' = [call EXCEPT ![c] = Failed]
              /\ UNCHANGED <<rows, past>>
    /\ UNCHANGED announced

\* The event is published; the bus may drop it and the result is ignored.
Announce(c) ==
    /\ call[c].at = "publish"
    /\ announced' \in {announced, announced \cup {call[c].row.id}}
    /\ call' = [call EXCEPT ![c].at = "created"]
    /\ UNCHANGED <<rows, past>>

\* Mutant: the organization of the token is not compared.
UpdateLookup_AnyOrg(c, org, w, patch) ==
    /\ call[c] = New
    /\ \/ \E row \in rows :
            /\ row.kind = "workspace" /\ row.id = w
            /\ call' = [call EXCEPT ![c] =
                          [at |-> IF patch.slug = None THEN "update" ELSE "recheck",
                           base |-> row, patch |-> patch, org |-> org]]
       \/ /\ (\A row \in rows : row.kind = "workspace" => row.id # w) \/ "read" \in Faults
          /\ call' = [call EXCEPT ![c] = Failed]
    /\ UNCHANGED <<rows, announced, past>>

\* UpdateWorkspace: GetByID, and the workspace must belong to the organization
\* of the token.
UpdateLookup(c, org, w, patch) ==
    /\ call[c] = New
    /\ \/ \E row \in rows :
            /\ row.kind = "workspace" /\ row.id = w
            /\ call' = [call EXCEPT ![c] =
                          IF row.scope # org THEN Failed
                          ELSE [at |-> IF patch.slug = None THEN "update" ELSE "recheck",
                                base |-> row, patch |-> patch, org |-> org]]
       \/ /\ (\A row \in rows : row.kind = "workspace" => row.id # w) \/ "read" \in Faults
          /\ call' = [call EXCEPT ![c] = Failed]
    /\ UNCHANGED <<rows, announced, past>>

\* Mutant: a status that is not provided means the default of Create.
Patched_DefaultStatus(row, patch) ==
    [row EXCEPT !.slug   = IF patch.slug = None THEN @ ELSE Folded[patch.slug],
                !.status = IF patch.status = None THEN "active" ELSE patch.status]

\* The row with the fields that the request provides; its status may be no
\* status at all.
Patched(row, patch) ==
    [row EXCEPT !.slug   = IF patch.slug = None THEN @ ELSE Folded[patch.slug],
                !.status = IF patch.status = None THEN @ ELSE patch.status]

\* Mutant: the workspace itself is not excluded.
Recheck_NotItself(c) ==
    /\ call[c].at = "recheck"
    /\ LET row == Patched(call[c].base, call[c].patch) IN
         \/ \E other \in rows :
              /\ SameName(row, other)
              /\ call' = [call EXCEPT ![c] = [at |-> "taken",
                                              row |-> [row EXCEPT !.status = call[c].base.status]]]
         \/ /\ (\A other \in rows : ~SameName(row, other)) \/ "read" \in Faults
            /\ call' = [call EXCEPT ![c].at = "update"]
    /\ UNCHANGED <<rows, announced, past>>

\* GetBySlug of the new slug: taken by the workspace itself is not taken.
Recheck(c) ==
    /\ call[c].at = "recheck"
    /\ LET row == Patched(call[c].base, call[c].patch) IN
         \/ \E other \in rows :
              /\ SameName(row, other) /\ other.id # row.id
              /\ call' = [call EXCEPT ![c] = [at |-> "taken",
                                              row |-> [row EXCEPT !.status = call[c].base.status]]]
         \/ /\ \/ \A other \in rows : SameName(row, other) => other.id = row.id
               \/ "read" \in Faults
            /\ call' = [call EXCEPT ![c].at = "update"]
    /\ UNCHANGED <<rows, announced, past>>

\* UPDATE of every column by id, and the table's UNIQUE and CHECK.
UpdateWrite(c) ==
    /\ call[c].at = "update"
    /\ LET row    == Patched(call[c].base, call[c].patch)
           others == {other \in rows : other.id # row.id}
       IN IF row.status \in Statuses /\ (\A other \in others : ~SameName(row, other))
          THEN /\ rows' = others \cup {row}
               /\ past' = past \cup {row}
               /\ Executed(c, Done)
          ELSE /\ call' = [call EXCEPT ![c] = Failed]
               /\ UNCHANGED <<rows, past>>
    /\ UNCHANGED announced

\* A write fails, or the process dies between two steps.
CallFails(c) ==
    /\ \/ "write" \in Faults /\ call[c].at \in {"insert", "update"}
       \/ "crash" \in Faults /\ call[c].at \in {"check", "insert", "publish", "recheck", "update"}
    /\ call' = [call EXCEPT ![c] = Failed]
    /\ UNCHANGED <<rows, announced, past>>

CallStep(c) ==
    \/ \E kind \in {"app", "workspace"}, org \in Ids \cup {None}, name \in Names :
         OrgLookup(c, kind, org, name)
    \/ \E kind \in {"user", "org"}, name \in Names : FirstCheck(c, kind, name)
    \/ CheckInOrg(c)
    \/ Insert(c)
    \/ Announce(c)
    \/ \E org \in Ids \cup {None}, w \in Ids, patch \in Patches : UpdateLookup(c, org, w, patch)
    \/ Recheck(c)
    \/ UpdateWrite(c)
    \/ CallFails(c)

Ended(c) == call[c].at \in {"created", "taken", "done", "failed"}

\* Every call has been answered.
Quiet == (\A c \in Calls : Ended(c)) /\ UNCHANGED vars

Next == (\E c \in Calls : CallStep(c)) \/ Quiet

Spec == Init /\ [][Next]_vars

-----------------------------------------------------------------------------
(* Properties *)

\* However the checks race or fail, a slug belongs to one organization, or to
\* one app or workspace of an organization, and an email address to one user;
\* workspaces whose slugs differ in case only do not exist side by side.
UniqueNames ==
    \A row, other \in rows :
        /\ SameName(row, other) => row = other
        /\ row.kind = "workspace" /\ other.kind = "workspace" /\ row.scope = other.scope
             => (Folded[row.slug] = Folded[other.slug] => row = other)

\* A row whose creation was answered or published is there, in the place that
\* was asked for: a race lost at the constraint is never taken for success.
CreatedIsThere ==
    /\ \A c \in Calls : call[c].at \in {"publish", "created"} =>
         \E row \in rows : row.id = c /\ row.kind = call[c].row.kind /\ row.scope = call[c].row.scope
    /\ \A id \in announced : \E row \in rows : row.id = id

\* ErrAlreadyExists is the truth: another row has, or had, that name.  Asking
\* again for what was done (a rename whose reply was lost) is not refused.
TakenIsTrue ==
    \A c \in Calls : call[c].at = "taken" =>
        \E row \in past : SameName(row, call[c].row) /\ row.id # call[c].row.id

\* update_workspace.go: "Update fields if provided".  A field that a request
\* does not provide keeps its value, unless another call wrote the workspace
\* after the request read it.
UntouchedUnlessRaced ==
    [][\A c \in Calls : call[c].at = "update" /\ call[c].base \in rows =>
         LET base == call[c].base IN
         \A row \in rows' : row.id = base.id /\ call'[c] # call[c] =>
            /\ call[c].patch.slug = None => row.slug = base.slug
            /\ call[c].patch.status = None => row.status = base.status]_vars

\* A workspace changes only by the call of a user of its organization, and
\* never moves to another one.
OnlyByItsOrg ==
    [][\A row \in rows : row \notin rows' =>
         \E c \in Calls, new \in rows' :
            /\ call[c].at = "update" /\ call'[c] # call[c]
            /\ new.id = row.id /\ new.scope = row.scope /\ new.scope = call[c].org]_vars
=============================================================================
