----------------------- MODULE StructureSignalsProofs -----------------------
(***************************************************************************)
(* Proofs about StructureSignals, for every value of the constants that   *)
(* meets StructureAssumption and ServiceAssumption, under autocommit and   *)
(* under ATOMIC_REQUESTS alike.                                            *)
(***************************************************************************)
EXTENDS StructureSignals, TLAPS

(***************************************************************************)
(* The strengthening the invariants rest on.                               *)
(*   PhaseInv: a project whose request is still running its receivers or  *)
(*   waiting to commit is committed (autocommit) or not yet (ATOMIC_       *)
(*   REQUESTS); a service being saved is never a deleted row, and under   *)
(*   autocommit it is already written.                                     *)
(*   SharedInv: a customer whose receivers have not run yet has no shared *)
(*   services, nor a request saving one.                                   *)
(***************************************************************************)
PhaseInv ==
    /\ \A p \in Project :
          projPhase[p] # "idle" => projState[p] = IF AtomicRequests THEN "absent" ELSE "exists"
    /\ \A s \in Service :
          svcPhase[s] # "idle" =>
             /\ svcState[s] # "deleted"
             /\ ~AtomicRequests => svcState[s] = "exists"

SharedInv ==
    /\ ownerRole \subseteq customers
    /\ custSaving \cap ownerRole = {}
    /\ \A c \in Customer \ ownerRole :
          \A s \in SharedServicesOf(c) : svcState[s] = "absent" /\ svcPhase[s] = "idle"

IInv == TypeOK /\ PhaseInv /\ SharedInv /\ LinksWithinCustomer


USE StructureAssumption, ServiceAssumption DEF custVars, projVars, svcVars

LEMMA SomeCustomerType == SomeCustomer \in Customer
BY DEF SomeCustomer

LEMMA InitServiceCustomerType == \A s \in Service : InitServiceCustomer(s) \in Customer
BY SomeCustomerType DEF InitServiceCustomer, SharedService, Service

(***************************************************************************)
(* Type correctness: every save, receiver, commit and delete keeps the     *)
(* rows, the phases of the requests and the links in their types.          *)
(***************************************************************************)
LEMMA TypeInit == Init => TypeOK
BY SomeCustomerType, InitServiceCustomerType DEF Init, TypeOK, Phase

LEMMA TypeStep == TypeOK /\ [Next]_vars => TypeOK'
<1> SUFFICES ASSUME TypeOK, [Next]_vars PROVE TypeOK'
  OBVIOUS
<1>1. ASSUME NEW c \in Customer, SaveCustomer(c) PROVE TypeOK'
  BY <1>1 DEF SaveCustomer, TypeOK
<1>2. ASSUME NEW c \in Customer, CustomerPostSave(c) PROVE TypeOK'
  BY <1>2 DEF CustomerPostSave, TypeOK, Phase
<1>3. ASSUME NEW c \in Customer, CustomerPostSaveFails(c) PROVE TypeOK'
  BY <1>3 DEF CustomerPostSaveFails, TypeOK
<1>4. ASSUME NEW p \in Project, NEW c \in Customer, SaveProject(p, c) PROVE TypeOK'
  BY <1>4 DEF SaveProject, TypeOK, Phase
<1>5. ASSUME NEW p \in Project, ProjectPostSave(p) PROVE TypeOK'
  BY <1>5 DEF ProjectPostSave, ConnectProjectToAllAvailableServices, AvailableServicesOf,
              TypeOK, Phase,
              ProjectRoleType
<1>6. ASSUME NEW p \in Project, CommitProject(p) PROVE TypeOK'
  BY <1>6 DEF CommitProject, TypeOK, Phase
<1>7. ASSUME NEW p \in Project, ProjectPostSaveFails(p) PROVE TypeOK'
  BY <1>7 DEF ProjectPostSaveFails, TypeOK, Phase
<1>8. ASSUME NEW p \in Project, DeleteProject(p) PROVE TypeOK'
  BY <1>8 DEF DeleteProject, TypeOK
<1>9. ASSUME NEW s \in Service, NEW c \in Customer, NEW avail \in BOOLEAN,
             SaveService(s, c, avail)
      PROVE TypeOK'
  BY <1>9 DEF SaveService, TypeOK, Phase
<1>10. ASSUME NEW s \in Service, ServicePostSave(s) PROVE TypeOK'
  BY <1>10 DEF ServicePostSave, ConnectServiceToAllProjects, ProjectsOf, TypeOK, Phase
<1>11. ASSUME NEW s \in Service, CommitService(s) PROVE TypeOK'
  BY <1>11 DEF CommitService, TypeOK, Phase
<1>12. ASSUME NEW s \in Service, ServicePostSaveFails(s) PROVE TypeOK'
  BY <1>12 DEF ServicePostSaveFails, TypeOK, Phase
<1>13. ASSUME NEW s \in Service, DeleteService(s) PROVE TypeOK'
  BY <1>13 DEF DeleteService, TypeOK
<1>14. CASE UNCHANGED vars
  BY <1>14 DEF vars, TypeOK
<1>15. QED
  BY <1>1, <1>2, <1>3, <1>4, <1>5, <1>6, <1>7, <1>8, <1>9, <1>10, <1>11,
     <1>12, <1>13, <1>14 DEF Next

(***************************************************************************)
(* TypeCorrect: every reachable state of the signal wiring is well typed.  *)
(***************************************************************************)
THEOREM TypeCorrect == Spec => []TypeOK
BY TypeInit, TypeStep, PTL DEF Spec


\* The services of a customer's shared settings are shared services of that
\* customer and no API service.
LEMMA SharedServicesOfFacts ==
    \A c \in Customer : \A s \in SharedServicesOf(c) :
        s \in SharedService /\ s \in Service /\ s \notin UserService /\ s[1] = c
BY DEF SharedServicesOf, SharedService, Service

LEMMA IInvInit == Init => IInv
BY TypeInit, SharedServicesOfFacts DEF Init, IInv, PhaseInv, SharedInv, LinksWithinCustomer

LEMMA IInvStep == IInv /\ [Next]_vars => IInv'
<1> SUFFICES ASSUME IInv, [Next]_vars PROVE IInv'
  OBVIOUS
<1>0. TypeOK /\ TypeOK'
  BY TypeStep DEF IInv
<1> USE <1>0 DEF IInv, TypeOK
<1>1. ASSUME NEW c \in Customer, SaveCustomer(c) PROVE IInv'
  BY <1>1 DEF SaveCustomer, PhaseInv, SharedInv, LinksWithinCustomer
<1>2. ASSUME NEW c \in Customer, CustomerPostSave(c) PROVE IInv'
  <2>1. PhaseInv'
    <3>1. \A s \in SharedServicesOf(c) : svcState'[s] = "exists"
      BY <1>2, SharedServicesOfFacts DEF CustomerPostSave
    <3>2. \A s \in Service \ SharedServicesOf(c) :
             svcState'[s] = svcState[s] /\ svcPhase'[s] = svcPhase[s]
      BY <1>2 DEF CustomerPostSave
    <3>3. QED
      BY <1>2, <3>1, <3>2 DEF CustomerPostSave, PhaseInv
  <2>2. SharedInv'
    BY <1>2, SharedServicesOfFacts DEF CustomerPostSave, SharedInv
  <2>3. LinksWithinCustomer'
    BY <1>2, SharedServicesOfFacts DEF CustomerPostSave, LinksWithinCustomer, PhaseInv
  <2>4. QED
    BY <2>1, <2>2, <2>3
<1>3. ASSUME NEW c \in Customer, CustomerPostSaveFails(c) PROVE IInv'
  BY <1>3 DEF CustomerPostSaveFails, PhaseInv, SharedInv, LinksWithinCustomer
<1>4. ASSUME NEW p \in Project, NEW c \in Customer, SaveProject(p, c) PROVE IInv'
  <2>1. PhaseInv'
    BY <1>4 DEF SaveProject, PhaseInv
  <2>2. SharedInv'
    BY <1>4 DEF SaveProject, SharedInv
  <2>3. LinksWithinCustomer'
    BY <1>4 DEF SaveProject, LinksWithinCustomer, PhaseInv
  <2>4. QED
    BY <2>1, <2>2, <2>3
<1>5. ASSUME NEW p \in Project, ProjectPostSave(p) PROVE IInv'
  <2>1. PhaseInv'
    BY <1>5 DEF ProjectPostSave, ConnectProjectToAllAvailableServices,
              AvailableServicesOf, PhaseInv
  <2>2. SharedInv'
    BY <1>5 DEF ProjectPostSave, ConnectProjectToAllAvailableServices,
              AvailableServicesOf, SharedInv
  <2>3. LinksWithinCustomer'
    BY <1>5 DEF ProjectPostSave, ConnectProjectToAllAvailableServices,
              AvailableServicesOf, LinksWithinCustomer, PhaseInv
  <2>4. QED
    BY <2>1, <2>2, <2>3
<1>6. ASSUME NEW p \in Project, CommitProject(p) PROVE IInv'
  <2>1. PhaseInv'
    BY <1>6 DEF CommitProject, PhaseInv
  <2>2. SharedInv'
    BY <1>6 DEF CommitProject, SharedInv
  <2>3. LinksWithinCustomer'
    BY <1>6 DEF CommitProject, LinksWithinCustomer, PhaseInv
  <2>4. QED
    BY <2>1, <2>2, <2>3
<1>7. ASSUME NEW p \in Project, ProjectPostSaveFails(p) PROVE IInv'
  BY <1>7 DEF ProjectPostSaveFails, PhaseInv, SharedInv, LinksWithinCustomer
<1>8. ASSUME NEW p \in Project, DeleteProject(p) PROVE IInv'
  BY <1>8 DEF DeleteProject, PhaseInv, SharedInv, LinksWithinCustomer
<1>9. ASSUME NEW s \in Service, NEW c \in Customer, NEW avail \in BOOLEAN,
             SaveService(s, c, avail)
      PROVE IInv'
  <2>1. PhaseInv'
    BY <1>9 DEF SaveService, PhaseInv
  <2>2. SharedInv'
    BY <1>9, SharedServicesOfFacts DEF SaveService, SharedInv
  <2>3. LinksWithinCustomer'
    BY <1>9 DEF SaveService, LinksWithinCustomer, PhaseInv
  <2>4. QED
    BY <2>1, <2>2, <2>3
<1>10. ASSUME NEW s \in Service, ServicePostSave(s) PROVE IInv'
  <2>1. PhaseInv'
    BY <1>10 DEF ServicePostSave, ConnectServiceToAllProjects, ProjectsOf, PhaseInv
  <2>2. SharedInv'
    BY <1>10 DEF ServicePostSave, ConnectServiceToAllProjects, ProjectsOf, SharedInv
  <2>3. LinksWithinCustomer'
    BY <1>10 DEF ServicePostSave, ConnectServiceToAllProjects, ProjectsOf, LinksWithinCustomer, PhaseInv
  <2>4. QED
    BY <2>1, <2>2, <2>3
<1>11. ASSUME NEW s \in Service, CommitService(s) PROVE IInv'
  <2>1. PhaseInv'
    BY <1>11 DEF CommitService, PhaseInv
  <2>2. SharedInv'
    BY <1>11 DEF CommitService, SharedInv
  <2>3. LinksWithinCustomer'
    BY <1>11 DEF CommitService, LinksWithinCustomer, PhaseInv
  <2>4. QED
    BY <2>1, <2>2, <2>3
<1>12. ASSUME NEW s \in Service, ServicePostSaveFails(s) PROVE IInv'
  BY <1>12 DEF ServicePostSaveFails, PhaseInv, SharedInv, LinksWithinCustomer
<1>13. ASSUME NEW s \in Service, DeleteService(s) PROVE IInv'
  BY <1>13 DEF DeleteService, PhaseInv, SharedInv, LinksWithinCustomer
<1>14. CASE UNCHANGED vars
  BY <1>14 DEF vars, PhaseInv, SharedInv, LinksWithinCustomer
<1>15. QED
  BY <1>1, <1>2, <1>3, <1>4, <1>5, <1>6, <1>7, <1>8, <1>9, <1>10, <1>11,
     <1>12, <1>13, <1>14 DEF Next

(***************************************************************************)
(* LinksWithinCustomerThm: for every value of the constants, a link only   *)
(* ever joins a project and a service of one customer, both existing or   *)
(* held by the request that inserted the link; the receivers of           *)
(* structure/apps.py never connect across customers, whichever requests    *)
(* interleave and whichever receivers raise.                               *)
(***************************************************************************)
THEOREM LinksWithinCustomerThm == Spec => []LinksWithinCustomer
<1>1. IInv => LinksWithinCustomer
  BY DEF IInv
<1>2. QED
  BY <1>1, IInvInit, IInvStep, PTL DEF Spec

-----------------------------------------------------------------------------
(***************************************************************************)
(* Refinement.  The images of the concrete state under the mapping of     *)
(* StructureSignals!Links, and what a Write step of ServiceProjectLinks   *)
(* asks of them.                                                           *)
(***************************************************************************)
AbsProjects == [p \in Project |-> VisibleProject(p)]

AbsProjectCustomer ==
    [p \in Project |-> IF VisibleProject(p) = "absent" THEN SomeCustomer ELSE projCustomer[p]]

AbsServices == [s \in Service |-> VisibleService(s)]

AbsServiceCustomer ==
    [s \in Service |->
        IF VisibleService(s) = "absent" THEN InitServiceCustomer(s) ELSE svcCustomer[s]]

ProjectsOnlyCreated ==
    \A p \in Project :
        \/ AbsProjects'[p] = AbsProjects[p] /\ AbsProjectCustomer'[p] = AbsProjectCustomer[p]
        \/ AbsProjects[p] = "absent" /\ AbsProjects'[p] = "exists"

ServicesOnlyCreated ==
    \A s \in Service :
        \/ AbsServices'[s] = AbsServices[s] /\ AbsServiceCustomer'[s] = AbsServiceCustomer[s]
        \/ AbsServices[s] = "absent" /\ AbsServices'[s] = "exists"

LinksOnlyAdded ==
    /\ links \subseteq links'
    /\ \A l \in links' \ links :
          /\ AbsProjects'[l[1]] = "exists"
          /\ AbsServices'[l[2]] = "exists"
          /\ AbsProjectCustomer'[l[1]] = AbsServiceCustomer'[l[2]]

\* A step that only creates mapped rows and adds linkable links is a Write.
LEMMA WriteStep ==
    ASSUME TypeOK', ProjectsOnlyCreated, ServicesOnlyCreated, LinksOnlyAdded
    PROVE  Links!Write
<1>1. /\ AbsProjectCustomer' \in [Project -> Customer]
      /\ AbsServiceCustomer' \in [Service -> Customer]
  BY SomeCustomerType, InitServiceCustomerType
     DEF AbsProjectCustomer, AbsServiceCustomer, TypeOK
<1>2. QED
  BY <1>1 DEF Links!Write, Links!Created, Links!Linkable, ProjectsOnlyCreated,
              ServicesOnlyCreated, LinksOnlyAdded, AbsProjects, AbsProjectCustomer,
              AbsServices, AbsServiceCustomer, TypeOK

\* A step that changes none of the mapped state is a stutter of the
\* abstract specification.
LEMMA UnchangedMapped ==
    ASSUME AbsProjects' = AbsProjects, AbsProjectCustomer' = AbsProjectCustomer,
           AbsServices' = AbsServices, AbsServiceCustomer' = AbsServiceCustomer,
           links' = links
    PROVE  UNCHANGED Links!vars
BY DEF Links!vars, AbsProjects, AbsProjectCustomer, AbsServices, AbsServiceCustomer

LEMMA RefineStep == IInv /\ [Next]_vars => [Links!Next]_(Links!vars)
<1> SUFFICES ASSUME IInv, [Next]_vars PROVE [Links!Next]_(Links!vars)
  OBVIOUS
<1>0. TypeOK /\ TypeOK'
  BY TypeStep DEF IInv
<1> USE <1>0 DEF IInv, TypeOK, AbsProjects, AbsProjectCustomer, AbsServices, AbsServiceCustomer, VisibleProject, VisibleService
<1>1. ASSUME NEW c \in Customer, SaveCustomer(c) PROVE [Links!Next]_(Links!vars)
  <2>1. /\ AbsProjects' = AbsProjects /\ AbsProjectCustomer' = AbsProjectCustomer
        /\ AbsServices' = AbsServices /\ AbsServiceCustomer' = AbsServiceCustomer
        /\ links' = links
    BY <1>1 DEF SaveCustomer, PhaseInv
  <2>2. QED
    BY <2>1, UnchangedMapped
<1>2. ASSUME NEW c \in Customer, CustomerPostSave(c) PROVE [Links!Next]_(Links!vars)
  <2>1. ProjectsOnlyCreated
    BY <1>2, SharedServicesOfFacts DEF CustomerPostSave, PhaseInv, ProjectsOnlyCreated
  <2>2. ServicesOnlyCreated
    BY <1>2, SharedServicesOfFacts DEF CustomerPostSave, PhaseInv, SharedInv, ServicesOnlyCreated
  <2>3. LinksOnlyAdded
    BY <1>2, SharedServicesOfFacts DEF CustomerPostSave, PhaseInv, LinksOnlyAdded
  <2>4. QED
    BY <2>1, <2>2, <2>3, WriteStep DEF Links!Next
<1>3. ASSUME NEW c \in Customer, CustomerPostSaveFails(c) PROVE [Links!Next]_(Links!vars)
  <2>1. /\ AbsProjects' = AbsProjects /\ AbsProjectCustomer' = AbsProjectCustomer
        /\ AbsServices' = AbsServices /\ AbsServiceCustomer' = AbsServiceCustomer
        /\ links' = links
    BY <1>3 DEF CustomerPostSaveFails, PhaseInv
  <2>2. QED
    BY <2>1, UnchangedMapped
<1>4. ASSUME NEW p \in Project, NEW c \in Customer, SaveProject(p, c) PROVE [Links!Next]_(Links!vars)
  <2>1. ProjectsOnlyCreated
    BY <1>4 DEF SaveProject, PhaseInv, ProjectsOnlyCreated
  <2>2. ServicesOnlyCreated
    BY <1>4 DEF SaveProject, PhaseInv, SharedInv, ServicesOnlyCreated
  <2>3. LinksOnlyAdded
    BY <1>4 DEF SaveProject, PhaseInv, LinksOnlyAdded
  <2>4. QED
    BY <2>1, <2>2, <2>3, WriteStep DEF Links!Next
<1>5. ASSUME NEW p \in Project, ProjectPostSave(p) PROVE [Links!Next]_(Links!vars)
  <2>1. ProjectsOnlyCreated
    BY <1>5 DEF ProjectPostSave, ConnectProjectToAllAvailableServices,
              AvailableServicesOf, PhaseInv, ProjectsOnlyCreated
  <2>2. ServicesOnlyCreated
    BY <1>5 DEF ProjectPostSave, ConnectProjectToAllAvailableServices,
              AvailableServicesOf, PhaseInv, SharedInv, ServicesOnlyCreated
  <2>3. LinksOnlyAdded
    BY <1>5 DEF ProjectPostSave, ConnectProjectToAllAvailableServices,
              AvailableServicesOf, PhaseInv, LinksOnlyAdded
  <2>4. QED
    BY <2>1, <2>2, <2>3, WriteStep DEF Links!Next
<1>6. ASSUME NEW p \in Project, CommitProject(p) PROVE [Links!Next]_(Links!vars)
  <2>1. /\ AbsProjects' = AbsProjects /\ AbsProjectCustomer' = AbsProjectCustomer
        /\ AbsServices' = AbsServices /\ AbsServiceCustomer' = AbsServiceCustomer
        /\ links' = links
    BY <1>6 DEF CommitProject, PhaseInv
  <2>2. QED
    BY <2>1, UnchangedMapped
<1>7. ASSUME NEW p \in Project, ProjectPostSaveFails(p) PROVE [Links!Next]_(Links!vars)
  <2>1. /\ AbsProjects' = AbsProjects /\ AbsProjectCustomer' = AbsProjectCustomer
        /\ AbsServices' = AbsServices /\ AbsServiceCustomer' = AbsServiceCustomer
        /\ links' = links
    BY <1>7 DEF ProjectPostSaveFails, PhaseInv
  <2>2. QED
    BY <2>1, UnchangedMapped
<1>8. ASSUME NEW p \in Project, DeleteProject(p) PROVE [Links!Next]_(Links!vars)
  <2>1. Links!DeleteProject(p)
    BY <1>8 DEF DeleteProject, Links!DeleteProject, PhaseInv
  <2>2. QED
    BY <2>1 DEF Links!Next
<1>9. ASSUME NEW s \in Service, NEW c \in Customer, NEW avail \in BOOLEAN, SaveService(s, c, avail) PROVE [Links!Next]_(Links!vars)
  <2>1. ProjectsOnlyCreated
    BY <1>9, SharedServicesOfFacts DEF SaveService, PhaseInv, ProjectsOnlyCreated
  <2>2. ServicesOnlyCreated
    BY <1>9, SharedServicesOfFacts DEF SaveService, PhaseInv, SharedInv, ServicesOnlyCreated
  <2>3. LinksOnlyAdded
    BY <1>9, SharedServicesOfFacts DEF SaveService, PhaseInv, LinksOnlyAdded
  <2>4. QED
    BY <2>1, <2>2, <2>3, WriteStep DEF Links!Next
<1>10. ASSUME NEW s \in Service, ServicePostSave(s) PROVE [Links!Next]_(Links!vars)
  <2>1. ProjectsOnlyCreated
    BY <1>10 DEF ServicePostSave, ConnectServiceToAllProjects, ProjectsOf, PhaseInv, ProjectsOnlyCreated
  <2>2. ServicesOnlyCreated
    BY <1>10 DEF ServicePostSave, ConnectServiceToAllProjects, ProjectsOf, PhaseInv, SharedInv, ServicesOnlyCreated
  <2>3. LinksOnlyAdded
    BY <1>10 DEF ServicePostSave, ConnectServiceToAllProjects, ProjectsOf, PhaseInv, LinksOnlyAdded
  <2>4. QED
    BY <2>1, <2>2, <2>3, WriteStep DEF Links!Next
<1>11. ASSUME NEW s \in Service, CommitService(s) PROVE [Links!Next]_(Links!vars)
  <2>1. /\ AbsProjects' = AbsProjects /\ AbsProjectCustomer' = AbsProjectCustomer
        /\ AbsServices' = AbsServices /\ AbsServiceCustomer' = AbsServiceCustomer
        /\ links' = links
    BY <1>11 DEF CommitService, PhaseInv
  <2>2. QED
    BY <2>1, UnchangedMapped
<1>12. ASSUME NEW s \in Service, ServicePostSaveFails(s) PROVE [Links!Next]_(Links!vars)
  <2>1. /\ AbsProjects' = AbsProjects /\ AbsProjectCustomer' = AbsProjectCustomer
        /\ AbsServices' = AbsServices /\ AbsServiceCustomer' = AbsServiceCustomer
        /\ links' = links
    BY <1>12 DEF ServicePostSaveFails, PhaseInv
  <2>2. QED
    BY <2>1, UnchangedMapped
<1>13. ASSUME NEW s \in Service, DeleteService(s) PROVE [Links!Next]_(Links!vars)
  <2>1. Links!DeleteService(s)
    BY <1>13 DEF DeleteService, Links!DeleteService, PhaseInv
  <2>2. QED
    BY <2>1 DEF Links!Next
<1>14. CASE UNCHANGED vars
  BY <1>14, UnchangedMapped DEF vars
<1>15. QED
  BY <1>1, <1>2, <1>3, <1>4, <1>5, <1>6, <1>7, <1>8, <1>9, <1>10, <1>11,
     <1>12, <1>13, <1>14 DEF Next

(***************************************************************************)
(* RefinesLinks: for every value of the constants, under autocommit and    *)
(* under ATOMIC_REQUESTS, the requests and receivers of the signal wiring *)
(* implement ServiceProjectLinks under the mapping of StructureSignals!    *)
(* Links: a row becomes visible once and keeps its customer, links are     *)
(* only written between visible rows of one customer, and they disappear  *)
(* only by the cascade of a delete.  The argument: the mapped initial      *)
(* state is an initial state, and under IInv every step maps to a Write,   *)
(* a delete or a stutter (RefineStep).                                     *)
(***************************************************************************)
THEOREM RefinesLinks == Spec => LinksSpec
<1>1. Init => Links!Init
  BY SomeCustomerType, InitServiceCustomerType
     DEF Init, Links!Init, VisibleProject, VisibleService
<1>2. QED
  BY <1>1, IInvInit, IInvStep, RefineStep, PTL DEF Spec, LinksSpec, Links!Spec

=============
