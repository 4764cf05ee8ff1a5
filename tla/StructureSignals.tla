--------------------------- MODULE StructureSignals ---------------------------
(***************************************************************************)
(* The side effects StructureConfig.ready (src/nodeconductor/structure/     *)
(* apps.py) wires to saves of customers, projects and services:            *)
(*   - Customer post_save: log_customer_save, create_customer_roles,       *)
(*     connect_customer_to_shared_service_settings (one service per shared *)
(*     ServiceSettings, available_for_all);                                 *)
(*   - Project post_save: create_project_roles (ADMINISTRATOR, MANAGER),    *)
(*     log_project_save, connect_project_to_all_available_services (the    *)
(*     customer's services that are available_for_all);                    *)
(*   - Service post_save: connect_service_to_all_projects_if_it_is_        *)
(*     available_for_all (every project of the service's customer).        *)
(* The handler bodies are in structure/handlers.py, which is not in src/;  *)
(* what they do is taken from structure/tests/unittests/test_signals.py.   *)
(* A save and its post_save receivers are two steps: Django sends          *)
(* post_save after the row is written, receivers run in connection order,  *)
(* and other requests run in between.  Under autocommit the row is visible *)
(* as soon as it is saved; with one transaction per request              *)
(* (AtomicRequests) nothing the request wrote is visible to others until   *)
(* its receivers have run and it commits.  A receiver that raises stops    *)
(* the receivers after it (Signal.send is not send_robust).                *)
(***************************************************************************)
EXTENDS FiniteSets

CONSTANTS
    Customer,        \* customer rows the model may create
    Project,         \* project rows the model may create
    UserService,     \* service rows created through the API
    SharedSettings,  \* ServiceSettings with shared=True
    AtomicRequests,  \* whether a request runs in one database transaction
    HandlerMayFail   \* whether a post_save receiver may raise

ASSUME StructureAssumption ==
    /\ Customer # {}
    /\ AtomicRequests \in BOOLEAN
    /\ HandlerMayFail \in BOOLEAN

\* The service connect_customer_to_shared_service_settings creates for
\* customer c and shared settings st is named <<c, st>>.
SharedService == Customer \X SharedSettings

Service == UserService \cup SharedService

\* API services and the services of shared settings are distinct rows.
ASSUME ServiceAssumption == UserService \cap SharedService = {}

ProjectRoleType == {"admin", "manager"}

Phase == {"idle", "saved", "handled"}

VARIABLES
    customers,     \* committed customer rows
    custSaving,    \* customers saved whose post_save receivers are pending
    ownerRole,     \* customers whose OWNER role exists
    projState,     \* projState[p]: "absent", "exists" or "deleted" (committed)
    projCustomer,  \* projCustomer[p]: Project.customer
    projPhase,     \* projPhase[p]: the request saving p: "idle", "saved"
                   \* (receivers pending) or "handled" (commit pending)
    projRoles,     \* <<p, type>>: the ProjectRole of that type exists
    svcState,      \* svcState[s]: "absent", "exists" or "deleted" (committed)
    svcCustomer,   \* svcCustomer[s]: Service.customer
    svcAvail,      \* svcAvail[s]: committed Service.available_for_all
    svcPhase,      \* svcPhase[s]: the request saving s, as projPhase
    svcNewAvail,   \* svcNewAvail[s]: available_for_all of the instance saved
    links          \* <<p, s>>: a ServiceProjectLink of project p and service s

vars == <<customers, custSaving, ownerRole, projState, projCustomer, projPhase,
          projRoles, svcState, svcCustomer, svcAvail, svcPhase, svcNewAvail, links>>

custVars == <<customers, custSaving, ownerRole>>
projVars == <<projState, projCustomer, projPhase, projRoles>>
svcVars  == <<svcState, svcCustomer, svcAvail, svcPhase, svcNewAvail>>

SomeCustomer == CHOOSE c \in Customer : TRUE

\* A shared service belongs to its customer from the start.
InitServiceCustomer(s) == IF s \in SharedService THEN s[1] ELSE SomeCustomer

TypeOK ==
    /\ customers \subseteq Customer
    /\ custSaving \subseteq Customer
    /\ ownerRole \subseteq Customer
    /\ projState \in [Project -> {"absent", "exists", "deleted"}]
    /\ projCustomer \in [Project -> Customer]
    /\ projPhase \in [Project -> Phase]
    /\ projRoles \subseteq Project \X ProjectRoleType
    /\ svcState \in [Service -> {"absent", "exists", "deleted"}]
    /\ svcCustomer \in [Service -> Customer]
    /\ svcAvail \in [Service -> BOOLEAN]
    /\ svcPhase \in [Service -> Phase]
    /\ svcNewAvail \in [Service -> BOOLEAN]
    /\ links \subseteq Project \X Service

Init ==
    /\ customers = {}
    /\ custSaving = {}
    /\ ownerRole = {}
    /\ projState = [p \in Project |-> "absent"]
    /\ projCustomer = [p \in Project |-> SomeCustomer]
    /\ projPhase = [p \in Project |-> "idle"]
    /\ projRoles = {}
    /\ svcState = [s \in Service |-> "absent"]
    /\ svcCustomer = [s \in Service |-> InitServiceCustomer(s)]
    /\ svcAvail = [s \in Service |-> FALSE]
    /\ svcPhase = [s \in Service |-> "idle"]
    /\ svcNewAvail = [s \in Service |-> FALSE]
    /\ links = {}

\* The committed projects of customer c, as another request's query sees them.
ProjectsOf(c) == {p \in Project : projState[p] = "exists" /\ projCustomer[p] = c}

\* The committed services of customer c that are available_for_all.
AvailableServicesOf(c) ==
    {s \in Service : svcState[s] = "exists" /\ svcCustomer[s] = c /\ svcAvail[s]}

-----------------------------------------------------------------------------
(***************************************************************************)
(* Customers.  Saving writes the row; the post_save receivers then create  *)
(* the OWNER role and, for each shared ServiceSettings, save a service of  *)
(* the customer with available_for_all=True, whose own post_save is then   *)
(* pending.  Under AtomicRequests the writes of the request become visible *)
(* together when its receivers are done.                                    *)
(***************************************************************************)
SaveCustomer(c) ==
    /\ c \notin customers \cup custSaving
    /\ custSaving' = custSaving \cup {c}
    /\ customers' = IF AtomicRequests THEN customers ELSE customers \cup {c}
    /\ UNCHANGED <<ownerRole>>
    /\ UNCHANGED projVars
    /\ UNCHANGED svcVars
    /\ UNCHANGED links

SharedServicesOf(c) == {c} \X SharedSettings

CustomerPostSave(c) ==
    /\ c \in custSaving
    /\ custSaving' = custSaving \ {c}
    /\ customers' = customers \cup {c}
    /\ ownerRole' = ownerRole \cup {c}
    /\ svcState' = [s \in Service |-> IF s \in SharedServicesOf(c) THEN "exists" ELSE svcState[s]]
    /\ svcAvail' = [s \in Service |-> IF s \in SharedServicesOf(c) THEN TRUE ELSE svcAvail[s]]
    /\ svcNewAvail' = [s \in Service |-> IF s \in SharedServicesOf(c) THEN TRUE ELSE svcNewAvail[s]]
    /\ svcPhase' = [s \in Service |->
                      IF s \in SharedServicesOf(c) /\ ~AtomicRequests THEN "saved"
                      ELSE svcPhase[s]]
    /\ UNCHANGED <<svcCustomer>>
    /\ UNCHANGED projVars
    /\ UNCHANGED links

\* A receiver raises: the ones after it do not run; the saved row stays
\* (autocommit) or the whole request rolls back (AtomicRequests).
CustomerPostSaveFails(c) ==
    /\ HandlerMayFail
    /\ c \in custSaving
    /\ custSaving' = custSaving \ {c}
    /\ UNCHANGED <<customers, ownerRole>>
    /\ UNCHANGED projVars
    /\ UNCHANGED svcVars
    /\ UNCHANGED links

-----------------------------------------------------------------------------
(***************************************************************************)
(* Projects.  create_project_roles and then                                 *)
(* connect_project_to_all_available_services, which links the project to  *)
(* every service of its customer that is available_for_all as the query   *)
(* sees them.                                                               *)
(***************************************************************************)
\* A link inserted by a request whose transaction is still open locks the
\* rows it references: a DELETE of either row waits for that commit.
HeldByOpenRequest(r) ==
    \E l \in links :
        \/ l[1] = r /\ svcPhase[l[2]] = "handled"
        \/ l[2] = r /\ projPhase[l[1]] = "handled"

SaveProject(p, c) ==
    /\ c \in customers
    /\ projState[p] = "absent"
    /\ projPhase[p] = "idle"
    /\ projPhase' = [projPhase EXCEPT ![p] = "saved"]
    /\ projCustomer' = [projCustomer EXCEPT ![p] = c]
    /\ projState' = IF AtomicRequests THEN projState ELSE [projState EXCEPT ![p] = "exists"]
    /\ UNCHANGED <<projRoles>>
    /\ UNCHANGED custVars
    /\ UNCHANGED svcVars
    /\ UNCHANGED links

\* Mutant: the pairs are built in the wrong order (service, project).
ConnectProjectToAllAvailableServicesSwapped(p) ==
    AvailableServicesOf(projCustomer[p]) \X {p}

ConnectProjectToAllAvailableServices(p) ==
    {p} \X AvailableServicesOf(projCustomer[p])

\* Mutant: connect_project_to_all_available_services is not connected.
ProjectPostSaveNoConnect(p) ==
    /\ projPhase[p] = "saved"
    /\ projPhase' = [projPhase EXCEPT ![p] = IF AtomicRequests THEN "handled" ELSE "idle"]
    /\ projRoles' = projRoles \cup ({p} \X ProjectRoleType)
    /\ UNCHANGED <<projState, projCustomer, links>>
    /\ UNCHANGED custVars
    /\ UNCHANGED svcVars

\* The receivers run; under AtomicRequests the request then still has to
\* commit, under autocommit it is done.
ProjectPostSave(p) ==
    /\ projPhase[p] = "saved"
    /\ projPhase' = [projPhase EXCEPT ![p] = IF AtomicRequests THEN "handled" ELSE "idle"]
    /\ projRoles' = projRoles \cup ({p} \X ProjectRoleType)
    /\ links' = links \cup ConnectProjectToAllAvailableServices(p)
    /\ UNCHANGED <<projState, projCustomer>>
    /\ UNCHANGED custVars
    /\ UNCHANGED svcVars

CommitProject(p) ==
    /\ projPhase[p] = "handled"
    /\ projPhase' = [projPhase EXCEPT ![p] = "idle"]
    /\ projState' = [projState EXCEPT ![p] = "exists"]
    /\ UNCHANGED <<projCustomer, projRoles>>
    /\ UNCHANGED custVars
    /\ UNCHANGED svcVars
    /\ UNCHANGED links

\* A receiver raises: the ones after it do not run; the saved row stays
\* (autocommit) or the request rolls back (AtomicRequests).
ProjectPostSaveFails(p) ==
    /\ HandlerMayFail
    /\ projPhase[p] = "saved"
    /\ projPhase' = [projPhase EXCEPT ![p] = "idle"]
    /\ UNCHANGED <<projState, projCustomer, projRoles>>
    /\ UNCHANGED custVars
    /\ UNCHANGED svcVars
    /\ UNCHANGED links

\* Deleting a project deletes, by cascade, its roles and its links.
DeleteProject(p) ==
    /\ projState[p] = "exists"
    /\ projPhase[p] = "idle"
    /\ ~HeldByOpenRequest(p)
    /\ projState' = [projState EXCEPT ![p] = "deleted"]
    /\ projRoles' = {r \in projRoles : r[1] # p}
    /\ links' = {l \in links : l[1] # p}
    /\ UNCHANGED <<projCustomer, projPhase>>
    /\ UNCHANGED custVars
    /\ UNCHANGED svcVars

-----------------------------------------------------------------------------
(***************************************************************************)
(* Services.  An API request creates a service of a customer or changes    *)
(* available_for_all of one; the post_save receiver then links the        *)
(* service to every project of its customer when the saved instance is     *)
(* available_for_all, and does nothing otherwise.                          *)
(***************************************************************************)
\* Mutant: an update of an existing service takes the customer of the request.
SaveServiceAnyCustomer(s, c, avail) ==
    /\ svcPhase[s] = "idle"
    /\ c \in customers
    /\ \/ /\ s \in UserService
          /\ svcState[s] = "absent"
       \/ svcState[s] = "exists"
    /\ svcCustomer' = [svcCustomer EXCEPT ![s] = c]
    /\ svcPhase' = [svcPhase EXCEPT ![s] = "saved"]
    /\ svcNewAvail' = [svcNewAvail EXCEPT ![s] = avail]
    /\ svcState' = IF AtomicRequests THEN svcState ELSE [svcState EXCEPT ![s] = "exists"]
    /\ svcAvail' = IF AtomicRequests THEN svcAvail ELSE [svcAvail EXCEPT ![s] = avail]
    /\ UNCHANGED custVars
    /\ UNCHANGED projVars
    /\ UNCHANGED links

SaveService(s, c, avail) ==
    /\ svcPhase[s] = "idle"
    /\ c \in customers
    /\ \/ /\ s \in UserService
          /\ svcState[s] = "absent"
          /\ svcCustomer' = [svcCustomer EXCEPT ![s] = c]
       \/ /\ svcState[s] = "exists"
          /\ c = svcCustomer[s]
          /\ UNCHANGED svcCustomer
    /\ svcPhase' = [svcPhase EXCEPT ![s] = "saved"]
    /\ svcNewAvail' = [svcNewAvail EXCEPT ![s] = avail]
    /\ svcState' = IF AtomicRequests THEN svcState ELSE [svcState EXCEPT ![s] = "exists"]
    /\ svcAvail' = IF AtomicRequests THEN svcAvail ELSE [svcAvail EXCEPT ![s] = avail]
    /\ UNCHANGED custVars
    /\ UNCHANGED projVars
    /\ UNCHANGED links

\* Mutant: the handler links every project, not only its customer's.
ConnectServiceToAllProjectsAnyCustomer(s) ==
    IF svcNewAvail[s] THEN {p \in Project : projState[p] = "exists"} \X {s} ELSE {}

ConnectServiceToAllProjects(s) ==
    IF svcNewAvail[s] THEN ProjectsOf(svcCustomer[s]) \X {s} ELSE {}

ServicePostSave(s) ==
    /\ svcPhase[s] = "saved"
    /\ svcPhase' = [svcPhase EXCEPT ![s] = IF AtomicRequests THEN "handled" ELSE "idle"]
    /\ links' = links \cup ConnectServiceToAllProjects(s)
    /\ UNCHANGED <<svcState, svcCustomer, svcAvail, svcNewAvail>>
    /\ UNCHANGED custVars
    /\ UNCHANGED projVars

CommitService(s) ==
    /\ svcPhase[s] = "handled"
    /\ svcPhase' = [svcPhase EXCEPT ![s] = "idle"]
    /\ svcState' = [svcState EXCEPT ![s] = "exists"]
    /\ svcAvail' = [svcAvail EXCEPT ![s] = svcNewAvail[s]]
    /\ UNCHANGED <<svcCustomer, svcNewAvail>>
    /\ UNCHANGED custVars
    /\ UNCHANGED projVars
    /\ UNCHANGED links

ServicePostSaveFails(s) ==
    /\ HandlerMayFail
    /\ svcPhase[s] = "saved"
    /\ svcPhase' = [svcPhase EXCEPT ![s] = "idle"]
    /\ UNCHANGED <<svcState, svcCustomer, svcAvail, svcNewAvail>>
    /\ UNCHANGED custVars
    /\ UNCHANGED projVars
    /\ UNCHANGED links

\* Deleting a service deletes, by cascade, its links.
DeleteService(s) ==
    /\ svcState[s] = "exists"
    /\ svcPhase[s] = "idle"
    /\ ~HeldByOpenRequest(s)
    /\ svcState' = [svcState EXCEPT ![s] = "deleted"]
    /\ links' = {l \in links : l[2] # s}
    /\ UNCHANGED <<svcCustomer, svcAvail, svcPhase, svcNewAvail>>
    /\ UNCHANGED custVars
    /\ UNCHANGED projVars

-----------------------------------------------------------------------------
Next ==
    \/ \E c \in Customer : SaveCustomer(c) \/ CustomerPostSave(c) \/ CustomerPostSaveFails(c)
    \/ \E p \in Project :
          \/ \E c \in Customer : SaveProject(p, c)
          \/ ProjectPostSave(p) \/ CommitProject(p) \/ ProjectPostSaveFails(p)
          \/ DeleteProject(p)
    \/ \E s \in Service :
          \/ \E c \in Customer, avail \in BOOLEAN : SaveService(s, c, avail)
          \/ ServicePostSave(s) \/ CommitService(s) \/ ServicePostSaveFails(s)
          \/ DeleteService(s)

\* The receivers run in the thread of the request that saved the row.
Fairness ==
    /\ \A c \in Customer : WF_vars(CustomerPostSave(c))
    /\ \A p \in Project : WF_vars(ProjectPostSave(p)) /\ WF_vars(CommitProject(p))
    /\ \A s \in Service : WF_vars(ServicePostSave(s)) /\ WF_vars(CommitService(s))

Spec == Init /\ [][Next]_vars /\ Fairness

-----------------------------------------------------------------------------
(***************************************************************************)
(* Properties.                                                              *)
(***************************************************************************)

(***************************************************************************)
(* LinksWithinCustomer: a service is only ever linked to projects of its   *)
(* own customer, and only while both exist or the request that inserted   *)
(* the link has yet to commit them (test_signals.py asserts that another   *)
(* customer's project or service is not linked).                           *)
(***************************************************************************)
LinksWithinCustomer ==
    \A l \in links :
        /\ projState[l[1]] = "exists" \/ projPhase[l[1]] = "handled"
        /\ svcState[l[2]] = "exists" \/ svcPhase[l[2]] = "handled"
        /\ projCustomer[l[1]] = svcCustomer[l[2]]

(***************************************************************************)
(* AvailableServicesLinked: once neither the project's nor the service's   *)
(* save has receivers pending, a service that is available_for_all is      *)
(* linked to every project of its customer, whichever of the two requests  *)
(* ran first or committed first (test_signals.py: a new project connects to the available     *)
(* services; a service that became available connects to all projects).   *)
(***************************************************************************)
AvailableServicesLinked ==
    \A p \in Project, s \in Service :
        /\ projPhase[p] = "idle"
        /\ svcPhase[s] = "idle"
        /\ projState[p] = "exists"
        /\ s \in AvailableServicesOf(projCustomer[p])
        => <<p, s>> \in links

-----------------------------------------------------------------------------
(***************************************************************************)
(* Refinement.  A row is visible to other requests once it is committed;  *)
(* under ATOMIC_REQUESTS the request that has run its receivers ("handled")*)
(* only has to commit, which cannot fail, so its rows count as visible    *)
(* from that step on.  A row that is not visible has the customer it has  *)
(* in Init.                                                                *)
(***************************************************************************)
VisibleProject(p) == IF projPhase[p] = "handled" THEN "exists" ELSE projState[p]

VisibleService(s) == IF svcPhase[s] = "handled" THEN "exists" ELSE svcState[s]

Links == INSTANCE ServiceProjectLinks WITH
    projects <- [p \in Project |-> VisibleProject(p)],
    projectCustomer <- [p \in Project |->
                          IF VisibleProject(p) = "absent" THEN SomeCustomer
                          ELSE projCustomer[p]],
    services <- [s \in Service |-> VisibleService(s)],
    serviceCustomer <- [s \in Service |->
                          IF VisibleService(s) = "absent" THEN InitServiceCustomer(s)
                          ELSE svcCustomer[s]],
    spl <- links

(***************************************************************************)
(* LinksSpec: the receivers, the requests and their commits implement     *)
(* ServiceProjectLinks: rows are created once and keep their customer,    *)
(* every link a receiver writes joins a visible project and service of    *)
(* one customer, and links go only with a deleted end (the cascade of     *)
(* DeleteProject and DeleteService).                                      *)
(***************************************************************************)
LinksSpec == Links!Spec

=============================================================================
