------------------------- MODULE PermissionsProofs --------------------------
(***************************************************************************)
(* Proofs about Permissions, for every set of users, customers, projects,  *)
(* groups, clouds and keys that meets PermissionsAssumption.                *)
(***************************************************************************)
EXTENDS Permissions, FiniteSetTheorems, TLAPS

USE PermissionsAssumption DEF projVars, groupVars, cloudVars, keyVars

(***************************************************************************)
(* Type correctness: every request (group changes, roles and the quota     *)
(* receivers, clouds, memberships, syncs, keys and their pushes) keeps the *)
(* rows, the role table, the quota usages and the pushes in their types.   *)
(***************************************************************************)
\* The quota receiver charges a customer: the structure's own, its
\* project's or its group's.
LEMMA CustomerOfType ==
    ASSUME TypeOK, NEW x \in Scope
    PROVE  CustomerOf(x) \in Customer
  BY DEF CustomerOf, TypeOK, Scope

\* The receiver keeps the usages integers.
LEMMA QuotaChangeType ==
    ASSUME TypeOK, NEW x \in Scope, NEW d \in Int
    PROVE  ChangeCustomerNcUsersQuota(x, d) \in [Customer -> Int]
<1>1. CustomerOf(x) \in Customer
  BY CustomerOfType
<1>2. QED
  BY <1>1 DEF ChangeCustomerNcUsersQuota, TypeOK

LEMMA TypeStep == TypeOK /\ [Next]_vars => TypeOK'
<1> SUFFICES ASSUME TypeOK, [Next]_vars PROVE TypeOK'
  OBVIOUS
<1>1. ASSUME NEW g \in ProjectGroup, NEW c \in Customer, CreateProjectGroup(g, c)
      PROVE TypeOK'
  BY <1>1 DEF CreateProjectGroup, TypeOK, GroupStates
<1>2. ASSUME NEW g \in ProjectGroup, NEW p \in Project, AddProjectToGroup(p, g)
      PROVE TypeOK'
  BY <1>2 DEF AddProjectToGroup, TypeOK
<1>3. ASSUME NEW g \in ProjectGroup, NEW p \in Project, RemoveProjectFromGroup(p, g)
      PROVE TypeOK'
  BY <1>3 DEF RemoveProjectFromGroup, TypeOK
<1>4. ASSUME NEW g \in ProjectGroup, BeginDeleteProjectGroup(g) PROVE TypeOK'
  BY <1>4 DEF BeginDeleteProjectGroup, TypeOK, GroupStates
<1>5. ASSUME NEW g \in ProjectGroup, FinishDeleteProjectGroup(g) PROVE TypeOK'
  BY <1>5 DEF FinishDeleteProjectGroup, TypeOK, GroupStates
<1>6. ASSUME NEW u \in User, NEW x \in Scope, GrantRole(u, x) PROVE TypeOK'
  <2>1. ncUsers' \in [Customer -> Int]
    BY <1>6, QuotaChangeType DEF GrantRole
  <2>2. QED
    BY <1>6, <2>1 DEF GrantRole, RoleTargets, TypeOK, Scope
<1>7. ASSUME NEW u \in User, NEW x \in Scope, RevokeRole(u, x) PROVE TypeOK'
  <2>1. ncUsers' \in [Customer -> Int]
    BY <1>7, QuotaChangeType DEF RevokeRole
  <2>2. QED
    BY <1>7, <2>1 DEF RevokeRole, TypeOK
<1>8. ASSUME NEW c \in Cloud, NEW x \in Customer, CreateCloud(c, x) PROVE TypeOK'
  BY <1>8 DEF CreateCloud, TypeOK
<1>9. ASSUME NEW c \in Cloud, NEW p \in Project, CreateMembership(c, p) PROVE TypeOK'
  BY <1>9 DEF CreateMembership, TypeOK, MembershipStates, Membership
<1>10. ASSUME NEW m \in Membership, SyncMembership(m) PROVE TypeOK'
  BY <1>10 DEF SyncMembership, TypeOK, MembershipStates
<1>11. ASSUME NEW m \in Membership, ScheduleSync(m) PROVE TypeOK'
  BY <1>11 DEF ScheduleSync, TypeOK, MembershipStates
<1>12. ASSUME NEW k \in SshKey, NEW u \in User, AddSshKey(k, u) PROVE TypeOK'
  BY <1>12 DEF AddSshKey, KeyPushes, PropagationTargets, TypeOK
<1>13. ASSUME NEW k \in SshKey, NEW u \in User, AddSshKeyPushFails(k, u) PROVE TypeOK'
  BY <1>13 DEF AddSshKeyPushFails, PropagationTargets, TypeOK
<1>14. CASE UNCHANGED vars
  BY <1>14 DEF vars, TypeOK
<1>15. ASSUME NEW p \in Project, BeginDeleteProject(p) PROVE TypeOK'
  BY <1>15 DEF BeginDeleteProject, TypeOK, ProjectStates
<1>16. ASSUME NEW p \in Project, FinishDeleteProject(p) PROVE TypeOK'
  <2>1. Cardinality(revoking[p]) \in Nat
    BY FS_Subset, FS_CardinalityType DEF TypeOK
  <2>2. ncUsers' \in [Customer -> Int]
    <3>1. p \in Scope
      BY DEF Scope
    <3>2. QED
      BY <1>16, <2>1, <3>1, QuotaChangeType DEF FinishDeleteProject
  <2>3. QED
    BY <1>16, <2>2 DEF FinishDeleteProject, TypeOK, ProjectStates, Membership,
       MembershipStates
<1>17. QED
  BY <1>1, <1>2, <1>3, <1>4, <1>5, <1>6, <1>7, <1>8, <1>9, <1>10, <1>11,
     <1>12, <1>13, <1>14, <1>15, <1>16 DEF Next

THEOREM TypeCorrect == Spec => []TypeOK
<1>1. Init => TypeOK
  BY DEF Init, TypeOK, GroupStates, MembershipStates, ProjectStates
<1>2. QED
  BY <1>1, TypeStep, PTL DEF Spec

=============================================================================
