------------------------------- MODULE Tenancy -------------------------------
(***************************************************************************)
(* Organizations: who belongs to them with which role, and how many        *)
(* dependencies their plan lets them monitor.                              *)
(*                                                                         *)
(* app/modules/organizations/service.py, repository.py, router.py,         *)
(* app/modules/dependencies/service.py, repository.py, router.py,          *)
(* app/dependencies.py, app/core/permissions.py.                           *)
(*                                                                         *)
(* A request is a READ COMMITTED transaction without locks.  Its Read...   *)
(* action authorizes the caller and runs the queries; its Commit... action *)
(* writes the columns that differ from the loaded ones.  What was read may *)
(* be stale by then.  An organization is named by its slug.  Requests that *)
(* are refused take no step; names, intervals and headers are left out.    *)
(***************************************************************************)
EXTENDS Integers, FiniteSets

CONSTANTS
  OrgWorkers,  \* requests served at a time
  Orgs,        \* slugs
  Members,     \* users
  MaxDeps,     \* bound: dependencies created in a behaviour
  Plans,
  FreePlan,    \* the plan of a new organization
  DepLimit,    \* PLAN_DEPENDENCY_LIMITS
  Nothing

Deps == 1..MaxDeps

ASSUME TenancyAssumption ==
  /\ MaxDeps \in Nat
  /\ IsFiniteSet(Members)
  /\ FreePlan \in Plans
  /\ DepLimit \in [Plans -> Nat]
  /\ Nothing \notin Orgs \cup Members \cup Plans

VARIABLES
  plan,        \* organizations.plan, Nothing while the organization does not exist
  member,      \* organization_members rows
  dependency,  \* dependencies rows
  orgTx,       \* the transaction of each worker
  demoted,     \* history: organizations one of whose owners was given a lower role
  crowded,     \* history: organizations with two membership requests open at once
  stretched    \* history: organizations with two creations open at once or a lowered plan

tenancyVars == <<plan, member, dependency, orgTx, demoted, crowded, stretched>>

----------------------------------------------------------------------------
(* Roles and rows *)

Roles == {"owner", "admin", "member", "viewer"}

get_role_level(role) ==
  CASE role = "owner" -> 40 [] role = "admin" -> 30
    [] role = "member" -> 20 [] role = "viewer" -> 10 [] OTHER -> 0

has_permission(user_role, required_role) ==
  get_role_level(user_role) >= get_role_level(required_role)

MemberRow == [role : Roles \cup {"none"}, deleted : BOOLEAN]

\* No row at all.
NoMember == [role |-> "none", deleted |-> FALSE]

DepRow == [org : Orgs \cup {Nothing}, deleted : BOOLEAN, active : BOOLEAN]

NoDep == [org |-> Nothing, deleted |-> FALSE, active |-> FALSE]

OrgKinds == {"idle", "org", "invite", "restore", "role", "remove", "create", "update", "delete"}
OrgTx == [kind : OrgKinds, org : Orgs \cup {Nothing}, user : Members \cup {Nothing},
          role : Roles \cup {"none"}, dep : 0..MaxDeps]

IdleOrg == [kind |-> "idle", org |-> Nothing, user |-> Nothing, role |-> "none", dep |-> 0]

TenancyTypeOK ==
  /\ plan \in [Orgs -> Plans \cup {Nothing}]
  /\ member \in [Orgs -> [Members -> MemberRow]]
  /\ dependency \in [Deps -> DepRow]
  /\ orgTx \in [OrgWorkers -> OrgTx]
  /\ demoted \subseteq Orgs
  /\ crowded \subseteq Orgs
  /\ stretched \subseteq Orgs

TenancyInit ==
  /\ plan = [o \in Orgs |-> Nothing]
  /\ member = [o \in Orgs |-> [u \in Members |-> NoMember]]
  /\ dependency = [d \in Deps |-> NoDep]
  /\ orgTx = [w \in OrgWorkers |-> IdleOrg]
  /\ demoted = {}
  /\ crowded = {}
  /\ stretched = {}

----------------------------------------------------------------------------
(* Queries *)

get_member(o, u) == member[o][u].role # "none" /\ ~member[o][u].deleted

list_members(o) == {u \in Members : get_member(o, u)}

Owners(o) == {u \in list_members(o) : member[o][u].role = "owner"}

\* get_current_org and require_role: a member of that rank calls, or a program with an
\* API key of the organization, which has the rank of an admin.
require_role(o, required_role) ==
  /\ plan[o] # Nothing
  /\ \/ has_permission("admin", required_role)
     \/ \E u \in list_members(o) : has_permission(member[o][u].role, required_role)

LiveDeps(o) == {d \in Deps : dependency[d].org = o /\ ~dependency[d].deleted}

count_for_org(o) == Cardinality(LiveDeps(o))

----------------------------------------------------------------------------
(* Transactions *)

MembershipKinds == {"invite", "restore", "role", "remove"}

\* Another request of one of these kinds is open on organization o.
OpenOn(o, kinds) == \E v \in OrgWorkers : orgTx[v].kind \in kinds /\ orgTx[v].org = o

BeginOrg(w, fields) ==
  /\ orgTx[w].kind = "idle"
  /\ orgTx' = [orgTx EXCEPT ![w] = fields]

BeginMembership(w, fields) ==
  /\ BeginOrg(w, fields)
  /\ crowded' = IF OpenOn(fields.org, MembershipKinds) THEN crowded \cup {fields.org}
                                                       ELSE crowded
  /\ UNCHANGED <<plan, member, dependency, demoted, stretched>>

EndOrg(w) == orgTx' = [orgTx EXCEPT ![w] = IdleOrg]

AbortOrg(w) ==
  /\ orgTx[w].kind # "idle"
  /\ EndOrg(w)
  /\ UNCHANGED <<plan, member, dependency, demoted, crowded, stretched>>

----------------------------------------------------------------------------
(* Organizations and members *)

ReadCreateOrg(w, o, u) ==
  /\ plan[o] = Nothing
  /\ BeginOrg(w, [IdleOrg EXCEPT !.kind = "org", !.org = o, !.user = u])
  /\ UNCHANGED <<plan, member, dependency, demoted, crowded, stretched>>

\* The unique index on slug decides between two creations.
CommitCreateOrg(w) ==
  LET o == orgTx[w].org IN
  /\ orgTx[w].kind = "org"
  /\ plan[o] = Nothing
  /\ plan' = [plan EXCEPT ![o] = FreePlan]
  /\ member' = [member EXCEPT ![o][orgTx[w].user] = [role |-> "owner", deleted |-> FALSE]]
  /\ EndOrg(w)
  /\ UNCHANGED <<dependency, demoted, crowded, stretched>>

\* A removed member is restored, a user who never was one is inserted.  Role "none":
\* the row already has the role, which is not written again.
ReadInvite(w, o, u, role) ==
  /\ require_role(o, "admin")
  /\ ~get_member(o, u)
  /\ BeginMembership(w,
       [IdleOrg EXCEPT !.kind = IF member[o][u].role = "none" THEN "invite" ELSE "restore",
                       !.org = o, !.user = u,
                       !.role = IF member[o][u].role = role THEN "none" ELSE role])

\* The unique index on (org_id, user_id) decides between two insertions.
add_member(w) ==
  LET o == orgTx[w].org
      u == orgTx[w].user
  IN
  /\ orgTx[w].kind = "invite"
  /\ member[o][u].role = "none"
  /\ member' = [member EXCEPT ![o][u] = [role |-> orgTx[w].role, deleted |-> FALSE]]
  /\ EndOrg(w)
  /\ UNCHANGED <<plan, dependency, demoted, crowded, stretched>>

restore_member(w) ==
  LET o == orgTx[w].org
      u == orgTx[w].user
      kept == member[o][u].role
  IN
  /\ orgTx[w].kind = "restore"
  /\ member' = [member EXCEPT ![o][u] =
       [role |-> IF orgTx[w].role = "none" THEN kept ELSE orgTx[w].role, deleted |-> FALSE]]
  /\ EndOrg(w)
  /\ UNCHANGED <<plan, dependency, demoted, crowded, stretched>>

\* Only owners may; nothing keeps the last owner from being given a lower role.
ReadChangeRole(w, o, u, role) ==
  /\ require_role(o, "owner")
  /\ get_member(o, u)
  /\ member[o][u].role # role
  /\ BeginMembership(w, [IdleOrg EXCEPT !.kind = "role", !.org = o, !.user = u,
                                        !.role = role])

CommitChangeRole(w) ==
  LET o == orgTx[w].org
      u == orgTx[w].user
  IN
  /\ orgTx[w].kind = "role"
  /\ member' = [member EXCEPT ![o][u].role = orgTx[w].role]
  /\ demoted' = IF member[o][u].role = "owner" THEN demoted \cup {o} ELSE demoted
  /\ EndOrg(w)
  /\ UNCHANGED <<plan, dependency, crowded, stretched>>

\* A count that leaves the removed owner in.
NoOwner(o, u) == member[o][u].role = "owner" /\ Cardinality(Owners(o)) < 1

\* The member list shows no other owner.
LastOwner(o, u) == member[o][u].role = "owner" /\ Cardinality(Owners(o)) <= 1

ReadRemoveMember(w, o, u) ==
  /\ require_role(o, "admin")
  /\ get_member(o, u)
  /\ ~LastOwner(o, u)
  /\ BeginMembership(w, [IdleOrg EXCEPT !.kind = "remove", !.org = o, !.user = u])

CommitRemoveMember(w) ==
  /\ orgTx[w].kind = "remove"
  /\ member' = [member EXCEPT ![orgTx[w].org][orgTx[w].user].deleted = TRUE]
  /\ EndOrg(w)
  /\ UNCHANGED <<plan, dependency, demoted, crowded, stretched>>

----------------------------------------------------------------------------
(* Dependencies *)

\* A limit that lets one more in.
RoomAtLimit(o) == count_for_org(o) <= DepLimit[plan[o]]

Room(o) == count_for_org(o) < DepLimit[plan[o]]

\* The plan and the count are read; the limit is not checked again.
ReadCreateDependency(w, o) ==
  /\ require_role(o, "admin")
  /\ Room(o)
  /\ BeginOrg(w, [IdleOrg EXCEPT !.kind = "create", !.org = o])
  /\ stretched' = IF OpenOn(o, {"create"}) THEN stretched \cup {o} ELSE stretched
  /\ UNCHANGED <<plan, member, dependency, demoted, crowded>>

CommitCreateDependency(w, d, active) ==
  /\ orgTx[w].kind = "create"
  /\ dependency[d].org = Nothing
  /\ \A e \in Deps : e < d => dependency[e].org # Nothing
  /\ dependency' = [dependency EXCEPT ![d] = [org |-> orgTx[w].org, deleted |-> FALSE,
                                              active |-> active]]
  /\ EndOrg(w)
  /\ UNCHANGED <<plan, member, demoted, crowded, stretched>>

\* An update of other columns than is_active changes nothing here.
ReadUpdateDependency(w, d) ==
  /\ d \in LiveDeps(dependency[d].org)
  /\ dependency[d].org # Nothing
  /\ require_role(dependency[d].org, "admin")
  /\ BeginOrg(w, [IdleOrg EXCEPT !.kind = "update", !.org = dependency[d].org, !.dep = d])
  /\ UNCHANGED <<plan, member, dependency, demoted, crowded, stretched>>

CommitUpdateDependency(w, active) ==
  /\ orgTx[w].kind = "update"
  /\ dependency' = [dependency EXCEPT ![orgTx[w].dep].active = active]
  /\ EndOrg(w)
  /\ UNCHANGED <<plan, member, demoted, crowded, stretched>>

ReadDeleteDependency(w, d) ==
  /\ d \in LiveDeps(dependency[d].org)
  /\ dependency[d].org # Nothing
  /\ require_role(dependency[d].org, "admin")
  /\ BeginOrg(w, [IdleOrg EXCEPT !.kind = "delete", !.org = dependency[d].org, !.dep = d])
  /\ UNCHANGED <<plan, member, dependency, demoted, crowded, stretched>>

CommitDeleteDependency(w) ==
  /\ orgTx[w].kind = "delete"
  /\ dependency' = [dependency EXCEPT ![orgTx[w].dep].deleted = TRUE,
                                      ![orgTx[w].dep].active = FALSE]
  /\ EndOrg(w)
  /\ UNCHANGED <<plan, member, demoted, crowded, stretched>>

\* Billing or an administrator changes the plan; dependencies above its limit stay.
ChangePlan(o, p) ==
  /\ plan[o] \notin {Nothing, p}
  /\ plan' = [plan EXCEPT ![o] = p]
  /\ stretched' = IF DepLimit[p] < DepLimit[plan[o]] THEN stretched \cup {o} ELSE stretched
  /\ UNCHANGED <<member, dependency, orgTx, demoted, crowded>>

----------------------------------------------------------------------------

TenancyNext ==
  \/ \E w \in OrgWorkers :
       \/ AbortOrg(w)
       \/ CommitCreateOrg(w)
       \/ add_member(w)
       \/ restore_member(w)
       \/ CommitChangeRole(w)
       \/ CommitRemoveMember(w)
       \/ CommitDeleteDependency(w)
       \/ \E o \in Orgs : ReadCreateDependency(w, o)
       \/ \E o \in Orgs, u \in Members : ReadCreateOrg(w, o, u) \/ ReadRemoveMember(w, o, u)
       \/ \E o \in Orgs, u \in Members, role \in Roles :
            ReadInvite(w, o, u, role) \/ ReadChangeRole(w, o, u, role)
       \/ \E d \in Deps : ReadUpdateDependency(w, d) \/ ReadDeleteDependency(w, d)
       \/ \E d \in Deps, a \in BOOLEAN : CommitCreateDependency(w, d, a)
       \/ \E a \in BOOLEAN : CommitUpdateDependency(w, a)
  \/ \E o \in Orgs, p \in Plans : ChangePlan(o, p)

TenancySpec == TenancyInit /\ [][TenancyNext]_tenancyVars

----------------------------------------------------------------------------
(* Properties *)

\* Removal never orphans an organization by itself: one that has no owner left had an
\* owner given a lower role, or two membership requests open at once.
OrphanNeedsDemotionOrOverlap ==
  \A o \in Orgs :
    (plan[o] # Nothing /\ Owners(o) = {}) => o \in demoted \cup crowded

\* An organization stays within the dependency limit of its plan, unless two creations
\* were open at once or its plan was lowered.
WithinLimit ==
  \A o \in Orgs :
    (plan[o] # Nothing /\ o \notin stretched) => count_for_org(o) <= DepLimit[plan[o]]
=============================================================================
