-------------------- MODULE StructureSignalsLinkedProofs --------------------
(***************************************************************************)
(* AvailableServicesLinked under autocommit with receivers that do not     *)
(* raise: whichever of a project's and a service's requests runs its       *)
(* post_save receiver last sees the other's row already written, so       *)
(* connect_project_to_all_available_services or                            *)
(* connect_service_to_all_projects_if_it_is_available_for_all inserts the *)
(* link.  Under ATOMIC_REQUESTS the property fails (run structure_atomic), *)
(* and with a raising receiver the row stays without its links.            *)
(***************************************************************************)
EXTENDS StructureSignalsProofs

(***************************************************************************)
(* The strengthening.                                                       *)
(*   AvailInv: under autocommit the saved available_for_all is the         *)
(*   committed one, so the service receiver decides on what other         *)
(*   requests' queries see.                                                *)
(*   NoHandled: under autocommit no request waits for a commit.            *)
(***************************************************************************)
AvailInv == \A s \in Service : svcAvail[s] = svcNewAvail[s]

NoHandled ==
    /\ \A p \in Project : projPhase[p] # "handled"
    /\ \A s \in Service : svcPhase[s] # "handled"

LInv == IInv /\ AvailInv /\ NoHandled /\ AvailableServicesLinked

USE StructureAssumption, ServiceAssumption DEF custVars, projVars, svcVars

LEMMA LInvInit == Init => LInv
BY IInvInit DEF Init, LInv, AvailInv, NoHandled, AvailableServicesLinked

LEMMA LInvStep ==
    ASSUME ~AtomicRequests, ~HandlerMayFail
    PROVE  LInv /\ [Next]_vars => LInv'
<1> SUFFICES ASSUME LInv, [Next]_vars PROVE LInv'
  OBVIOUS
<1>0. /\ IInv'
      /\ TypeOK /\ TypeOK'
      /\ AvailInv /\ NoHandled /\ AvailableServicesLinked
  BY IInvStep DEF LInv, IInv
<1> USE <1>0, ~AtomicRequests, ~HandlerMayFail DEF TypeOK
\* The goal that is left, for one project and one service.
<1> DEFINE Goal(p, s) ==
        /\ projPhase'[p] = "idle"
        /\ svcPhase'[s] = "idle"
        /\ projState'[p] = "exists"
        /\ s \in AvailableServicesOf(projCustomer[p])'
        => <<p, s>> \in links'
<1>a. SUFFICES AvailInv' /\ NoHandled' /\ \A p \in Project, s \in Service : Goal(p, s)
  BY DEF LInv, AvailableServicesLinked
<1>1. ASSUME NEW c \in Customer, SaveCustomer(c) PROVE <1>a!1
  BY <1>1 DEF SaveCustomer, AvailInv, NoHandled, AvailableServicesLinked,
     AvailableServicesOf
<1>2. ASSUME NEW c \in Customer, CustomerPostSave(c) PROVE <1>a!1
  <2>1. AvailInv' /\ NoHandled'
    BY <1>2 DEF CustomerPostSave, AvailInv, NoHandled
  <2>2. ASSUME NEW p \in Project, NEW s \in Service PROVE Goal(p, s)
    <3>1. CASE s \in SharedServicesOf(c)
      BY <1>2, <3>1 DEF CustomerPostSave
    <3>2. CASE s \notin SharedServicesOf(c)
      BY <1>2, <3>2 DEF CustomerPostSave, AvailableServicesLinked, AvailableServicesOf
    <3>3. QED
      BY <3>1, <3>2
  <2>3. QED
    BY <2>1, <2>2
<1>3. ASSUME NEW p0 \in Project, NEW c \in Customer, SaveProject(p0, c) PROVE <1>a!1
  BY <1>3 DEF SaveProject, AvailInv, NoHandled, AvailableServicesLinked,
     AvailableServicesOf
<1>4. ASSUME NEW p0 \in Project, ProjectPostSave(p0) PROVE <1>a!1
  <2>1. AvailInv' /\ NoHandled'
    BY <1>4 DEF ProjectPostSave, AvailInv, NoHandled
  <2>2. ASSUME NEW p \in Project, NEW s \in Service PROVE Goal(p, s)
    <3>1. CASE p = p0
      BY <1>4, <3>1 DEF ProjectPostSave, ConnectProjectToAllAvailableServices,
         AvailableServicesOf
    <3>2. CASE p # p0
      BY <1>4, <3>2 DEF ProjectPostSave, AvailableServicesLinked, AvailableServicesOf
    <3>3. QED
      BY <3>1, <3>2
  <2>3. QED
    BY <2>1, <2>2
<1>5. ASSUME NEW p0 \in Project, DeleteProject(p0) PROVE <1>a!1
  BY <1>5 DEF DeleteProject, AvailInv, NoHandled, AvailableServicesLinked,
     AvailableServicesOf
<1>6. ASSUME NEW s0 \in Service, NEW c \in Customer, NEW avail \in BOOLEAN,
             SaveService(s0, c, avail)
      PROVE <1>a!1
  <2>1. AvailInv' /\ NoHandled'
    BY <1>6 DEF SaveService, AvailInv, NoHandled
  <2>2. ASSUME NEW p \in Project, NEW s \in Service PROVE Goal(p, s)
    <3>1. CASE s = s0
      BY <1>6, <3>1 DEF SaveService
    <3>2. CASE s # s0
      BY <1>6, <3>2 DEF SaveService, AvailableServicesLinked, AvailableServicesOf
    <3>3. QED
      BY <3>1, <3>2
  <2>3. QED
    BY <2>1, <2>2
<1>7. ASSUME NEW s0 \in Service, ServicePostSave(s0) PROVE <1>a!1
  <2>1. AvailInv' /\ NoHandled'
    BY <1>7 DEF ServicePostSave, AvailInv, NoHandled
  <2>2. ASSUME NEW p \in Project, NEW s \in Service PROVE Goal(p, s)
    <3>1. CASE s = s0
      BY <1>7, <3>1 DEF ServicePostSave, ConnectServiceToAllProjects, ProjectsOf,
         AvailableServicesOf, AvailInv
    <3>2. CASE s # s0
      BY <1>7, <3>2 DEF ServicePostSave, AvailableServicesLinked, AvailableServicesOf
    <3>3. QED
      BY <3>1, <3>2
  <2>3. QED
    BY <2>1, <2>2
<1>8. ASSUME NEW s0 \in Service, DeleteService(s0) PROVE <1>a!1
  BY <1>8 DEF DeleteService, AvailInv, NoHandled, AvailableServicesLinked,
     AvailableServicesOf
\* A commit needs a request waiting for one, and a raise needs HandlerMayFail.
<1>9. ASSUME NEW c \in Customer, CustomerPostSaveFails(c) PROVE FALSE
  BY <1>9 DEF CustomerPostSaveFails
<1>10. ASSUME NEW p0 \in Project, CommitProject(p0) \/ ProjectPostSaveFails(p0)
       PROVE FALSE
  BY <1>10 DEF CommitProject, ProjectPostSaveFails, NoHandled
<1>11. ASSUME NEW s0 \in Service, CommitService(s0) \/ ServicePostSaveFails(s0)
       PROVE FALSE
  BY <1>11 DEF CommitService, ServicePostSaveFails, NoHandled
<1>12. CASE UNCHANGED vars
  BY <1>12 DEF vars, AvailInv, NoHandled, AvailableServicesLinked, AvailableServicesOf
<1>13. QED
  BY <1>1, <1>2, <1>3, <1>4, <1>5, <1>6, <1>7, <1>8, <1>9, <1>10, <1>11, <1>12
     DEF Next

(***************************************************************************)
(* Under autocommit, with post_save receivers that do not raise, every    *)
(* service that is available_for_all is linked to every project of its    *)
(* customer once neither save has receivers pending, whatever the order   *)
(* of the requests (connect_project_to_all_available_services and         *)
(* connect_service_to_all_projects_if_it_is_available_for_all).           *)
(***************************************************************************)
THEOREM AvailableServicesLinkedThm ==
    ASSUME ~AtomicRequests, ~HandlerMayFail
    PROVE  Spec => []AvailableServicesLinked
<1>1. Init => LInv
  BY LInvInit
<1>2. LInv /\ [Next]_vars => LInv'
  BY LInvStep
<1>3. LInv => AvailableServicesLinked
  BY DEF LInv
<1>4. QED
  BY <1>1, <1>2, <1>3, PTL DEF Spec

=============================================================================
