--------------------------- MODULE PermissionCache ---------------------------
(***************************************************************************)
(* The permission check of the gateway and the cache it reads:             *)
(* internal/infrastructure/auth/rbac_service.go, with the use case that    *)
(* changes what it caches, application/iam/usecase/assign_role.go, and the *)
(* two queries of postgres/iam/role_repository.go.                         *)
(*                                                                         *)
(* A check GETs the list of permissions a user has in an organization from *)
(* Redis; on a miss it reads PostgreSQL and SETs the list with a time to   *)
(* live.  Assigning a role commits it and DELs the list.  Each command and *)
(* each query is a step of its server, so the steps of checks and of       *)
(* assignments interleave between them.                                    *)
(*                                                                         *)
(* No wired code takes a role or a permission away, so the permissions of  *)
(* a role are a constant and roles are only added to users.                *)
(***************************************************************************)
EXTENDS FiniteSets

CONSTANTS Users, Orgs, Roles, Perms,
          RolePerms,  \* role_permissions: the permissions of each role
          Checks,     \* concurrent permission checks; each is reused for ever
          Assigners,  \* calls of AssignRoleUseCase.Execute
          Faults      \* which failures happen, a subset of FaultKinds

(* get, set, del: the Redis command fails unexecuted; or it is executed,    *)
(*                its reply is lost and the client, which retries by       *)
(*                default, sends it again                                  *)
(* query:         the PostgreSQL query fails                               *)
(* truncated:     the connection is lost while the rows of the query are   *)
(*                read; rows.Err() is not consulted, so the rows read so   *)
(*                far pass for the answer                                  *)
(* reply:         the INSERT is committed but its reply is lost            *)
(* crash:         the process dies                                         *)
FaultKinds == {"get", "set", "del", "query", "truncated", "reply", "crash"}

ASSUME CacheAssumption ==
    /\ RolePerms \in [Roles -> SUBSET Perms]
    /\ Faults \subseteq FaultKinds

\* A user in an organization: the arguments of GetUserPermissions.
Subjects == Users \X Orgs

\* Mutant: the organization is missing from the key.
CacheKey_UserOnly(s) == <<s[1]>>

\* fmt.Sprintf("user:%s:org:%s:permissions", userID, orgID)
CacheKey(s) == s

CacheKeys == {CacheKey(s) : s \in Subjects}

\* What the cache holds: a list of permissions, never an empty one.
Lists == (SUBSET Perms) \ {{}}

\* What a check asks for: one permission (HasPermission) or any of several
\* (HasAnyPermission).
Wants == (SUBSET Perms) \ {{}}

VARIABLES
    assigned,  \* PostgreSQL user_roles: subject, role pairs
    cache,     \* Redis: the lists stored at a key, one or none
    check,     \* where each check is, with its arguments and its list
    assigner,  \* where each assignment is, with its arguments
    granted,   \* history: the checks answered true
    announced, \* history: the RoleAssigned events published
    first      \* history: the permissions of the first role that gave any

cacheVars == <<assigned, cache, check, assigner, granted, announced, first>>

\* The checks between their GET and their answer.
Idle    == [at |-> "idle"]
Reading == [at : {"query"}, who : Subjects, want : Wants]
Filling == [at : {"set"}, who : Subjects, want : Wants, list : Lists]

\* The assignments after their INSERT.
New     == [at |-> "new"]
Ended   == [at |-> "ended"]
Working == [at : {"invalidate", "announce", "done"}, who : Subjects, role : Roles]

CacheTypeOK ==
    /\ assigned \subseteq Subjects \X Roles
    /\ cache \in [CacheKeys -> SUBSET Lists]
    /\ check \in [Checks -> {Idle} \cup Reading \cup Filling]
    /\ assigner \in [Assigners -> {New, Ended} \cup Working]
    /\ granted \subseteq Subjects \X Wants
    /\ announced \subseteq Subjects \X Roles
    /\ first \in [Subjects -> SUBSET Perms]

CacheInit ==
    /\ assigned = {}
    /\ cache = [k \in CacheKeys |-> {}]
    /\ check = [c \in Checks |-> Idle]
    /\ assigner = [a \in Assigners |-> New]
    /\ granted = {}
    /\ announced = {}
    /\ first = [s \in Subjects |-> {}]

\* RoleRepo.GetUserPermissions: the permissions of all roles of the user in
\* the organization.
StoredPerms(s) ==
    {p \in Perms : \E r \in Roles : <<s, r>> \in assigned /\ p \in RolePerms[r]}

-----------------------------------------------------------------------------
(* HasPermission and HasAnyPermission *)

\* Mutant: a user with nothing but what is asked for is let in, whatever he has.
Allows_Reversed(list, want) == list \subseteq want

\* The loop over perms: some listed permission is wanted.
Allows(list, want) == list \cap want # {}

\* The check ends with the answer that list gives.
Answer(c, s, want, list) ==
    /\ check' = [check EXCEPT ![c] = Idle]
    /\ granted' = IF Allows(list, want) THEN granted \cup {<<s, want>>} ELSE granted

\* The GET finds a list: it is the answer.
Hit(c, s, want) ==
    /\ check[c] = Idle
    /\ \E list \in cache[CacheKey(s)] : Answer(c, s, want, list)
    /\ UNCHANGED <<assigned, cache, assigner, announced, first>>

\* The GET finds nothing, or fails, which is treated alike.
Miss(c, s, want) ==
    /\ check[c] = Idle
    /\ cache[CacheKey(s)] = {} \/ "get" \in Faults
    /\ check' = [check EXCEPT ![c] = [at |-> "query", who |-> s, want |-> want]]
    /\ UNCHANGED <<assigned, cache, assigner, granted, announced, first>>

\* Mutant: an empty list is cached like any other.
Fetched_CachesEmpty(c, list) ==
    /\ check' = [check EXCEPT ![c] =
                   [at |-> "set", who |-> check[c].who, want |-> check[c].want,
                    list |-> list]]
    /\ UNCHANGED granted

\* The query has returned list: it is cached unless it is empty.
Fetched(c, list) ==
    \/ /\ list = {}
       /\ Answer(c, check[c].who, check[c].want, list)
    \/ /\ list # {}
       /\ check' = [check EXCEPT ![c] =
                      [at |-> "set", who |-> check[c].who, want |-> check[c].want,
                       list |-> list]]
       /\ UNCHANGED granted

\* The query returns what is committed, or what was read of it when the
\* connection broke.
Query(c) ==
    /\ check[c].at = "query"
    /\ LET stored == StoredPerms(check[c].who) IN
         \/ Fetched(c, stored)
         \/ "truncated" \in Faults /\ \E part \in SUBSET stored : Fetched(c, part)
    /\ UNCHANGED <<assigned, cache, assigner, announced, first>>

\* The query fails: the check ends with the error, which grants nothing.
QueryFails(c) ==
    /\ "query" \in Faults
    /\ check[c].at = "query"
    /\ check' = [check EXCEPT ![c] = Idle]
    /\ UNCHANGED <<assigned, cache, assigner, granted, announced, first>>

\* SET of the list, or its failure, which is ignored; the answer is the list's.
Fill(c) ==
    /\ check[c].at = "set"
    /\ \/ cache' = [cache EXCEPT ![CacheKey(check[c].who)] = {check[c].list}]
       \/ "set" \in Faults /\ UNCHANGED cache
    /\ Answer(c, check[c].who, check[c].want, check[c].list)
    /\ UNCHANGED <<assigned, assigner, announced, first>>

\* The SET is executed and its reply is lost: the client sends it again, with
\* whatever was stored or removed in the meantime overwritten.
FillReplyLost(c) ==
    /\ "set" \in Faults
    /\ check[c].at = "set"
    /\ cache' = [cache EXCEPT ![CacheKey(check[c].who)] = {check[c].list}]
    /\ UNCHANGED <<assigned, check, assigner, granted, announced, first>>

CheckDies(c) ==
    /\ "crash" \in Faults
    /\ check[c] # Idle
    /\ check' = [check EXCEPT ![c] = Idle]
    /\ UNCHANGED <<assigned, cache, assigner, granted, announced, first>>

-----------------------------------------------------------------------------
(* AssignRoleUseCase.Execute *)

\* The INSERT ... ON CONFLICT DO NOTHING is committed.
Commit(s, r) ==
    /\ assigned' = assigned \cup {<<s, r>>}
    /\ first' = [first EXCEPT ![s] = IF @ = {} THEN RolePerms[r] ELSE @]

Assign(a, s, r) ==
    /\ assigner[a] = New
    /\ Commit(s, r)
    /\ assigner' = [assigner EXCEPT ![a] = [at |-> "invalidate", who |-> s, role |-> r]]
    /\ UNCHANGED <<cache, check, granted, announced>>

\* AssignRoleToUser returns an error, with the row committed or not: Execute
\* returns it and neither invalidates nor publishes.
AssignFails(a, s, r) ==
    /\ assigner[a] = New
    /\ \/ "query" \in Faults /\ UNCHANGED <<assigned, first>>
       \/ "reply" \in Faults /\ Commit(s, r)
    /\ assigner' = [assigner EXCEPT ![a] = Ended]
    /\ UNCHANGED <<cache, check, granted, announced>>

\* InvalidateCache: DEL, or its failure, which is ignored.
Invalidate(a) ==
    /\ assigner[a].at = "invalidate"
    /\ \/ cache' = [cache EXCEPT ![CacheKey(assigner[a].who)] = {}]
       \/ "del" \in Faults /\ UNCHANGED cache
    /\ assigner' = [assigner EXCEPT ![a].at = "announce"]
    /\ UNCHANGED <<assigned, check, granted, announced, first>>

\* The DEL is executed and its reply is lost: the client sends it again.
InvalidateReplyLost(a) ==
    /\ "del" \in Faults
    /\ assigner[a].at = "invalidate"
    /\ cache' = [cache EXCEPT ![CacheKey(assigner[a].who)] = {}]
    /\ UNCHANGED <<assigned, check, assigner, granted, announced, first>>

\* Publish of RoleAssigned; the bus may drop it, its result is ignored.
Announce(a) ==
    /\ assigner[a].at = "announce"
    /\ announced' \in {announced, announced \cup {<<assigner[a].who, assigner[a].role>>}}
    /\ assigner' = [assigner EXCEPT ![a].at = "done"]
    /\ UNCHANGED <<assigned, cache, check, granted, first>>

AssignerDies(a) ==
    /\ "crash" \in Faults
    /\ assigner[a].at \in {"invalidate", "announce"}
    /\ assigner' = [assigner EXCEPT ![a] = Ended]
    /\ UNCHANGED <<assigned, cache, check, granted, announced, first>>

-----------------------------------------------------------------------------
(* Redis *)

\* Mutant: SET without a time to live.
Evict_NoTTL(k) ==
    /\ cache[k] # {}
    /\ UNCHANGED cacheVars

\* The time to live of an entry, permissionCacheTTL, is over.
Evict(k) ==
    /\ cache[k] # {}
    /\ cache' = [cache EXCEPT ![k] = {}]
    /\ UNCHANGED <<assigned, check, assigner, granted, announced, first>>

CheckStep(c) ==
    \/ \E s \in Subjects, want \in Wants : Hit(c, s, want) \/ Miss(c, s, want)
    \/ Query(c) \/ QueryFails(c) \/ Fill(c) \/ FillReplyLost(c) \/ CheckDies(c)

AssignStep(a) ==
    \/ \E s \in Subjects, r \in Roles : Assign(a, s, r) \/ AssignFails(a, s, r)
    \/ Invalidate(a) \/ InvalidateReplyLost(a) \/ Announce(a) \/ AssignerDies(a)

CacheNext ==
    \/ \E c \in Checks : CheckStep(c)
    \/ \E a \in Assigners : AssignStep(a)
    \/ \E k \in CacheKeys : Evict(k)

\* A check that has begun goes on, entries expire; nobody has to call.
CacheFairness ==
    /\ \A c \in Checks : WF_cacheVars(Query(c)) /\ WF_cacheVars(Fill(c))
    /\ \A k \in CacheKeys : WF_cacheVars(Evict(k))

CacheSafeSpec == CacheInit /\ [][CacheNext]_cacheVars
CacheSpec     == CacheSafeSpec /\ CacheFairness

-----------------------------------------------------------------------------
(* Properties *)

\* The cache never grants more than the database: whatever fails, and in
\* whatever order checks fill it, a list holds only permissions its user has
\* in its organization.
CacheSound ==
    \A s \in Subjects : \A list \in cache[CacheKey(s)] : list \subseteq StoredPerms(s)

\* A check that HasPermission or HasAnyPermission answered true was about a
\* permission of that user in that organization.
NoUndueGrant ==
    \A g \in granted : StoredPerms(g[1]) \cap g[2] # {}

\* Whoever had no permission sees the first role take effect at once: no check
\* and no failed invalidation leaves a list without its permissions, since
\* empty lists are not cached and lists are complete.  (A truncated read is the
\* exception.)
FirstRoleAtOnce ==
    "truncated" \notin Faults =>
        \A s \in Subjects : \A list \in cache[CacheKey(s)] : first[s] \subseteq list

\* Every committed permission is eventually served for good, even when the
\* invalidation failed or lost a race with a check: the stale list expires and
\* no check older than the commit is left to write it again.
GrantsTakeEffect ==
    \A s \in Subjects, p \in Perms :
        p \in StoredPerms(s) ~>
            [](\A list \in cache[CacheKey(s)] : p \in list)
=============================================================================
