----------------------------- MODULE Permissions -----------------------------
(***************************************************************************)
(* Who sees what: the Permissions paths of the cloud models                *)
(* (src/nodeconductor/cloud/models.py), which filter_queryset_for_user     *)
(* walks to a customer, a project or a project group the user has a role   *)
(* on, together with the requests that change what those paths reach:     *)
(*   - creating a cloud, whose post_save creates its dummy flavors;        *)
(*   - connecting a project to a cloud (CloudProjectMembership), whose     *)
(*     post_save creates the "http" security group, and its backend sync;  *)
(*   - project groups: creation, adding and removing projects, deletion    *)
(*     guarded by prevent_non_empty_project_group_deletion (pre_delete);   *)
(*   - granting and revoking roles;                                        *)
(*   - deleting a project: its pre_delete receiver                         *)
(*     revoke_roles_on_project_deletion revokes its roles, then the DELETE *)
(*     removes by cascade its roles, memberships and group links, all in   *)
(*     the one transaction of Model.delete;                                *)
(*   - adding an SSH key, whose post_save propagate_new_key pushes it to   *)
(*     every IN_SYNC membership the key's user can see.                    *)
(* filter_queryset_for_user (structure/filters.py) and the role methods    *)
(* (structure/models.py) are not under src/; they are modelled from the    *)
(* spec: a user sees an object when they hold a role on one of the        *)
(* customers, projects or project groups its paths reach.                  *)
(***************************************************************************)
EXTENDS Integers, FiniteSets

CONSTANTS
    User,
    Customer,
    Project,
    ProjectGroup,
    Cloud,
    SshKey

ASSUME PermissionsAssumption ==
    /\ Customer # {}
    /\ User # {}
    /\ IsFiniteSet(User)
    \* Customers, projects and groups are rows of different tables.
    /\ Customer \cap Project = {}
    /\ Customer \cap ProjectGroup = {}
    /\ Project \cap ProjectGroup = {}

\* CloudProjectMembership rows are named by their (cloud, project) pair.
Membership == Cloud \X Project

\* SynchronizableMixin states of a membership, and "absent" before it is
\* created: "new" has no tenant_id yet, "scheduled" is waiting for a sync.
MembershipStates == {"absent", "new", "in_sync", "scheduled"}

GroupStates == {"absent", "exists", "deleting", "deleted"}

ProjectStates == {"exists", "deleting", "deleted"}

VARIABLES
    projCustomer,   \* projCustomer[p]: Project.customer
    projState,      \* projState[p]: "exists", "deleting" once pre_delete has
                    \* run and the DELETE's transaction is open, or "deleted"
    revoking,       \* revoking[p]: the users whose roles on p the open
                    \* DELETE's pre_delete receiver has revoked
    groupState,     \* groupState[g]: the ProjectGroup row; "deleting" once
                    \* pre_delete has passed and the DELETE is pending
    groupCustomer,  \* groupCustomer[g]: ProjectGroup.customer
    groupProjects,  \* groupProjects[g]: ProjectGroup.projects
    roles,          \* <<u, x>>: u holds a role on customer, project or group x
    ncUsers,        \* ncUsers[c]: usage of customer c's nc_user_count quota
    clouds,         \* the Cloud rows (each with its dummy flavors)
    cloudCustomer,  \* cloudCustomer[c]: Cloud.customer
    msState,        \* msState[<<c, p>>]: the membership of p in c
    keys,           \* the SshPublicKey rows
    keyOwner,       \* keyOwner[k]: SshPublicKey.user
    pushed          \* <<k, m>>: key k was pushed to membership m's tenant

vars == <<projCustomer, projState, revoking, groupState, groupCustomer, groupProjects,
          roles, ncUsers,
          clouds, cloudCustomer, msState, keys, keyOwner, pushed>>

projVars == <<projCustomer, projState, revoking>>
groupVars == <<groupState, groupCustomer, groupProjects>>
cloudVars == <<clouds, cloudCustomer, msState>>
keyVars == <<keys, keyOwner, pushed>>

Scope == Customer \cup Project \cup ProjectGroup

TypeOK ==
    /\ projCustomer \in [Project -> Customer]
    /\ projState \in [Project -> ProjectStates]
    /\ revoking \in [Project -> SUBSET User]
    /\ groupState \in [ProjectGroup -> GroupStates]
    /\ groupCustomer \in [ProjectGroup -> Customer]
    /\ groupProjects \in [ProjectGroup -> SUBSET Project]
    /\ roles \subseteq User \X Scope
    /\ ncUsers \in [Customer -> Int]
    /\ clouds \subseteq Cloud
    /\ cloudCustomer \in [Cloud -> Customer]
    /\ msState \in [Membership -> MembershipStates]
    /\ keys \subseteq SshKey
    /\ keyOwner \in [SshKey -> User]
    /\ pushed \subseteq SshKey \X Membership

\* Projects already exist, each of some customer; nothing else does.
Init ==
    /\ projCustomer \in [Project -> Customer]
    /\ projState = [p \in Project |-> "exists"]
    /\ revoking = [p \in Project |-> {}]
    /\ groupState = [g \in ProjectGroup |-> "absent"]
    /\ groupCustomer = [g \in ProjectGroup |-> CHOOSE c \in Customer : TRUE]
    /\ groupProjects = [g \in ProjectGroup |-> {}]
    /\ roles = {}
    /\ ncUsers = [c \in Customer |-> 0]
    /\ clouds = {}
    /\ cloudCustomer = [c \in Cloud |-> CHOOSE x \in Customer : TRUE]
    /\ msState = [m \in Membership |-> "absent"]
    /\ keys = {}
    /\ keyOwner = [k \in SshKey |-> CHOOSE u \in User : TRUE]
    /\ pushed = {}

-----------------------------------------------------------------------------
(***************************************************************************)
(* The permission paths.  A scope is the set of customers, projects and    *)
(* project groups an object's customer_path, project_path and             *)
(* project_group_path reach.                                               *)
(***************************************************************************)
Members == {m \in Membership : msState[m] # "absent"}

CloudProjects(c) == {p \in Project : <<c, p>> \in Members}

GroupsOf(p) == {g \in ProjectGroup : p \in groupProjects[g]}

CustomerProjects(x) == {p \in Project : projCustomer[p] = x}

\* Cloud: 'customer', 'projects', 'customer__projects__project_groups'.
CloudScope(c) ==
    [customer |-> {cloudCustomer[c]},
     project  |-> CloudProjects(c),
     group    |-> UNION {GroupsOf(p) : p \in CustomerProjects(cloudCustomer[c])}]

\* CloudProjectMembership: 'cloud__customer', 'project',
\* 'project__project_groups'.
MembershipScope(m) ==
    [customer |-> {cloudCustomer[m[1]]},
     project  |-> {m[2]},
     group    |-> GroupsOf(m[2])]

\* Flavor: 'cloud__projects__customer', 'cloud__projects',
\* 'cloud__projects__project_groups'.
FlavorScope(c) ==
    [customer |-> {projCustomer[p] : p \in CloudProjects(c)},
     project  |-> CloudProjects(c),
     group    |-> UNION {GroupsOf(p) : p \in CloudProjects(c)}]

\* SecurityGroup: 'cloud_project_membership__project__customer',
\* 'cloud_project_membership__project',
\* 'cloud_project_membership__project__project_groups'.
SecurityGroupScope(m) ==
    [customer |-> {projCustomer[m[2]]},
     project  |-> {m[2]},
     group    |-> GroupsOf(m[2])]

\* filter_queryset_for_user: a role on anything the paths reach.
Visible(u, scope) ==
    \E x \in scope.customer \cup scope.project \cup scope.group : <<u, x>> \in roles

-----------------------------------------------------------------------------
(***************************************************************************)
(* Project groups.                                                         *)
(***************************************************************************)
\* Saving a new group; its post_save create_project_group_roles creates the
\* MANAGER role the group's managers are later added to.
CreateProjectGroup(g, c) ==
    /\ groupState[g] = "absent"
    /\ groupState' = [groupState EXCEPT ![g] = "exists"]
    /\ groupCustomer' = [groupCustomer EXCEPT ![g] = c]
    /\ UNCHANGED projVars
    /\ UNCHANGED <<groupProjects, roles, ncUsers>>
    /\ UNCHANGED cloudVars
    /\ UNCHANGED keyVars

\* A concurrent request adding a project does not see a DELETE that has
\* passed its pre_delete check but not yet run.
AddProjectToGroup(p, g) ==
    /\ groupState[g] \in {"exists", "deleting"}
    /\ projState[p] # "deleted"
    /\ p \notin groupProjects[g]
    /\ groupProjects' = [groupProjects EXCEPT ![g] = @ \cup {p}]
    /\ UNCHANGED projVars
    /\ UNCHANGED <<groupState, groupCustomer, roles, ncUsers>>
    /\ UNCHANGED cloudVars
    /\ UNCHANGED keyVars

RemoveProjectFromGroup(p, g) ==
    /\ p \in groupProjects[g]
    /\ groupProjects' = [groupProjects EXCEPT ![g] = @ \ {p}]
    /\ UNCHANGED projVars
    /\ UNCHANGED <<groupState, groupCustomer, roles, ncUsers>>
    /\ UNCHANGED cloudVars
    /\ UNCHANGED keyVars

\* pre_delete prevent_non_empty_project_group_deletion: a group that still
\* has projects raises and is not deleted.
BeginDeleteProjectGroup(g) ==
    /\ groupState[g] = "exists"
    /\ groupProjects[g] = {}
    /\ groupState' = [groupState EXCEPT ![g] = "deleting"]
    /\ UNCHANGED projVars
    /\ UNCHANGED <<groupCustomer, groupProjects, roles, ncUsers>>
    /\ UNCHANGED cloudVars
    /\ UNCHANGED keyVars

\* The DELETE: the group's project links and roles go by cascade, with no
\* structure_role_revoked; its post_delete receiver only logs.
FinishDeleteProjectGroup(g) ==
    /\ groupState[g] = "deleting"
    /\ groupState' = [groupState EXCEPT ![g] = "deleted"]
    /\ groupProjects' = [groupProjects EXCEPT ![g] = {}]
    /\ roles' = {r \in roles : r[2] # g}
    /\ UNCHANGED projVars
    /\ UNCHANGED <<groupCustomer, ncUsers>>
    /\ UNCHANGED cloudVars
    /\ UNCHANGED keyVars

-----------------------------------------------------------------------------
(***************************************************************************)
(* Roles: customer.add_user / project.add_user / group.add_user and the    *)
(* matching remove_user.                                                   *)
(***************************************************************************)
RoleTargets ==
    Customer \cup {p \in Project : projState[p] # "deleted"}
             \cup {g \in ProjectGroup : groupState[g] = "exists"}

\* The customer a role's structure belongs to.
CustomerOf(x) ==
    CASE x \in Customer -> x
      [] x \in Project  -> projCustomer[x]
      [] OTHER          -> groupCustomer[x]

\* change_customer_nc_users_quota (structure/handlers.py, not under src/),
\* connected to structure_role_granted and structure_role_revoked for
\* Customer, Project and ProjectGroup: per the comments of the wiring it
\* increases the customer's nc_user_count usage on a grant and decreases it
\* on a revoke.
ChangeCustomerNcUsersQuota(x, d) == [ncUsers EXCEPT ![CustomerOf(x)] = @ + d]

\* add_user saves the role row and sends structure_role_granted; its
\* receivers are the quota handler and the role-granted log.
GrantRole(u, x) ==
    /\ x \in RoleTargets
    /\ <<u, x>> \notin roles
    /\ roles' = roles \cup {<<u, x>>}
    /\ ncUsers' = ChangeCustomerNcUsersQuota(x, 1)
    /\ UNCHANGED projVars
    /\ UNCHANGED groupVars
    /\ UNCHANGED cloudVars
    /\ UNCHANGED keyVars

\* remove_user deletes the role row and sends structure_role_revoked.
RevokeRole(u, x) ==
    /\ <<u, x>> \in roles
    /\ roles' = roles \ {<<u, x>>}
    /\ ncUsers' = ChangeCustomerNcUsersQuota(x, -1)
    /\ UNCHANGED projVars
    /\ UNCHANGED groupVars
    /\ UNCHANGED cloudVars
    /\ UNCHANGED keyVars

-----------------------------------------------------------------------------
(***************************************************************************)
(* Project deletion (structure/apps.py, revoke_roles_on_project_deletion   *)
(* on pre_delete of Project).  Model.delete collects the related rows,     *)
(* then in one transaction sends pre_delete and runs the DELETEs.  The    *)
(* receiver revokes every role on the project through remove_user, whose  *)
(* structure_role_revoked lowers the quota; none of it is visible to       *)
(* other requests until the transaction commits.                           *)
(***************************************************************************)
BeginDeleteProject(p) ==
    /\ projState[p] = "exists"
    /\ projState' = [projState EXCEPT ![p] = "deleting"]
    /\ revoking' = [revoking EXCEPT ![p] = {u \in User : <<u, p>> \in roles}]
    /\ UNCHANGED <<projCustomer, roles, ncUsers>>
    /\ UNCHANGED groupVars
    /\ UNCHANGED cloudVars
    /\ UNCHANGED keyVars

\* The DELETEs and the commit: the revoked roles go with their quota
\* decrements; every other role on the project, its memberships (with their
\* security groups) and its group links go by cascade, with no signal.
FinishDeleteProject(p) ==
    /\ projState[p] = "deleting"
    /\ projState' = [projState EXCEPT ![p] = "deleted"]
    /\ revoking' = [revoking EXCEPT ![p] = {}]
    /\ ncUsers' = ChangeCustomerNcUsersQuota(p, -Cardinality(revoking[p]))
    /\ roles' = {r \in roles : r[2] # p}
    /\ groupProjects' = [g \in ProjectGroup |-> groupProjects[g] \ {p}]
    /\ msState' = [m \in Membership |-> IF m[2] = p THEN "absent" ELSE msState[m]]
    /\ UNCHANGED <<projCustomer, groupState, groupCustomer, clouds, cloudCustomer>>
    /\ UNCHANGED keyVars

-----------------------------------------------------------------------------
(***************************************************************************)
(* Clouds and memberships.                                                 *)
(***************************************************************************)
\* Saving a new cloud; create_dummy_flavors adds its four flavors in the
\* same request, so a cloud's flavors exist exactly when the cloud does.
CreateCloud(c, x) ==
    /\ c \notin clouds
    /\ clouds' = clouds \cup {c}
    /\ cloudCustomer' = [cloudCustomer EXCEPT ![c] = x]
    /\ UNCHANGED <<msState>>
    /\ UNCHANGED projVars
    /\ UNCHANGED <<roles, ncUsers>>
    /\ UNCHANGED groupVars
    /\ UNCHANGED keyVars

\* unique_together ('cloud', 'tenant_id') with tenant_id blank until the
\* backend creates the tenant: a second membership of the cloud cannot be
\* inserted while one still has no tenant.
TenantConflict(c) == \E q \in Project : msState[<<c, q>>] = "new"

\* Saving a new membership; create_dummy_security_groups adds its "http"
\* group (with one rule) in the same request.
CreateMembership(c, p) ==
    /\ c \in clouds
    /\ msState[<<c, p>>] = "absent"
    /\ projState[p] # "deleted"
    /\ ~TenantConflict(c)
    /\ msState' = [msState EXCEPT ![<<c, p>>] = "new"]
    /\ UNCHANGED <<clouds, cloudCustomer>>
    /\ UNCHANGED projVars
    /\ UNCHANGED <<roles, ncUsers>>
    /\ UNCHANGED groupVars
    /\ UNCHANGED keyVars

\* The backend sync creates the tenant (setting tenant_id) and ends IN_SYNC.
SyncMembership(m) ==
    /\ msState[m] \in {"new", "scheduled"}
    /\ msState' = [msState EXCEPT ![m] = "in_sync"]
    /\ UNCHANGED <<clouds, cloudCustomer>>
    /\ UNCHANGED projVars
    /\ UNCHANGED <<roles, ncUsers>>
    /\ UNCHANGED groupVars
    /\ UNCHANGED keyVars

ScheduleSync(m) ==
    /\ msState[m] = "in_sync"
    /\ msState' = [msState EXCEPT ![m] = "scheduled"]
    /\ UNCHANGED <<clouds, cloudCustomer>>
    /\ UNCHANGED projVars
    /\ UNCHANGED <<roles, ncUsers>>
    /\ UNCHANGED groupVars
    /\ UNCHANGED keyVars

-----------------------------------------------------------------------------
(***************************************************************************)
(* SSH keys: propagate_new_key runs on post_save of a created key.         *)
(***************************************************************************)
\* filter_queryset_for_user(CloudProjectMembership.objects.filter(
\*     state=IN_SYNC), instance.user)
PropagationTargets(u) ==
    {m \in Membership : msState[m] = "in_sync" /\ Visible(u, MembershipScope(m))}

\* Mutant: the pushes are recorded as (membership, key).
KeyPushesSwapped(k, u) == PropagationTargets(u) \X {k}

\* The loop pushes key k to every target membership.
KeyPushes(k, u) == {k} \X PropagationTargets(u)

\* Every push succeeds.
AddSshKey(k, u) ==
    /\ k \notin keys
    /\ keys' = keys \cup {k}
    /\ keyOwner' = [keyOwner EXCEPT ![k] = u]
    /\ pushed' = pushed \cup KeyPushes(k, u)
    /\ UNCHANGED projVars
    /\ UNCHANGED <<roles, ncUsers>>
    /\ UNCHANGED groupVars
    /\ UNCHANGED cloudVars

\* push_ssh_public_key raises part way through the loop: the memberships
\* iterated before it have the key, the rest never get it, and the key row
\* saved before post_save stays.
AddSshKeyPushFails(k, u) ==
    /\ k \notin keys
    /\ \E done \in SUBSET PropagationTargets(u) :
          /\ done # PropagationTargets(u)
          /\ pushed' = pushed \cup ({k} \X done)
    /\ keys' = keys \cup {k}
    /\ keyOwner' = [keyOwner EXCEPT ![k] = u]
    /\ UNCHANGED projVars
    /\ UNCHANGED <<roles, ncUsers>>
    /\ UNCHANGED groupVars
    /\ UNCHANGED cloudVars

-----------------------------------------------------------------------------
Next ==
    \/ \E g \in ProjectGroup :
          \/ \E c \in Customer : CreateProjectGroup(g, c)
          \/ \E p \in Project : AddProjectToGroup(p, g) \/ RemoveProjectFromGroup(p, g)
          \/ BeginDeleteProjectGroup(g)
          \/ FinishDeleteProjectGroup(g)
    \/ \E u \in User, x \in Scope : GrantRole(u, x) \/ RevokeRole(u, x)
    \/ \E p \in Project : BeginDeleteProject(p) \/ FinishDeleteProject(p)
    \/ \E c \in Cloud :
          \/ \E x \in Customer : CreateCloud(c, x)
          \/ \E p \in Project : CreateMembership(c, p)
    \/ \E m \in Membership : SyncMembership(m) \/ ScheduleSync(m)
    \/ \E k \in SshKey, u \in User : AddSshKey(k, u) \/ AddSshKeyPushFails(k, u)

Spec == Init /\ [][Next]_vars

-----------------------------------------------------------------------------
(***************************************************************************)
(* Properties.                                                             *)
(***************************************************************************)

(***************************************************************************)
(* ChildScopeWithinParent (spec.md: Flavor and SecurityGroup are         *)
(* "resources scoped to a Cloud-Project membership"): whoever can see a    *)
(* membership can see its cloud, whoever can see a cloud's flavors can see *)
(* the cloud, and whoever can see a security group can see its membership. *)
(* The cloud models reach the customer along different paths (Flavor      *)
(* through cloud__projects, SecurityGroup through the project, the         *)
(* membership through the cloud), and nothing in CloudProjectMembership    *)
(* or cloud.projects.add keeps the cloud's customer and the project's one  *)
(* the same.                                                               *)
(***************************************************************************)
ChildScopeWithinParent ==
    \A u \in User :
        /\ \A m \in Members :
              /\ Visible(u, MembershipScope(m)) => Visible(u, CloudScope(m[1]))
              /\ Visible(u, SecurityGroupScope(m)) => Visible(u, MembershipScope(m))
        /\ \A c \in clouds :
              Visible(u, FlavorScope(c)) => Visible(u, CloudScope(c))

(***************************************************************************)
(* NcUserCountMatchesRoles: the nc_user_count usage of a customer counts   *)
(* the roles held on the customer, its projects and its project groups:    *)
(* every role is added by add_user (structure_role_granted, +1) and taken  *)
(* away by remove_user (structure_role_revoked, -1); revoke_roles_on_      *)
(* project_deletion is there so that deleting a project does the same.    *)
(* A role that goes any other way (a role granted while the project's     *)
(* DELETE is open, or the cascade of a project group's DELETE, which has  *)
(* no such receiver) leaves the usage stale.                              *)
(***************************************************************************)
\* The roles the nc_user_count of customer c is meant to count.
CustomerRoles(c) == {r \in roles : CustomerOf(r[2]) = c}

NcUserCountMatchesRoles ==
    \A c \in Customer : ncUsers[c] = Cardinality(CustomerRoles(c))

(***************************************************************************)
(* GroupDeletedOnlyEmpty: prevent_non_empty_project_group_deletion is      *)
(* there so that a project group is only deleted while it has no projects; *)
(* no DELETE removes a project from a group.                               *)
(***************************************************************************)
GroupDeletedOnlyEmpty ==
    [][\A g \in ProjectGroup :
          groupState'[g] = "deleted" /\ groupState[g] # "deleted" => groupProjects[g] = {}]_vars

=============================================================================
