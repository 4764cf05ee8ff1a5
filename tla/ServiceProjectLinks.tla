------------------------ MODULE ServiceProjectLinks ------------------------
(***************************************************************************)
(* What the database promises about projects, services and the            *)
(* ServiceProjectLink rows that join them, whatever request or receiver   *)
(* writes them (spec.md: a Project "belongs to one Customer"; the signal   *)
(* handlers keep the "cross-entity links").  Rows are seen as another      *)
(* request sees them once the writer's transaction is visible:             *)
(*   - a row is created once, with its customer, and then only deleted;    *)
(*   - a row's customer never changes while it exists;                     *)
(*   - a link is only ever written between a project and a service of the  *)
(*     same customer that both exist;                                      *)
(*   - links disappear only with one of their ends, by cascade.            *)
(* StructureSignals.tla is shown to implement this specification, under   *)
(* autocommit and under ATOMIC_REQUESTS.                                   *)
(***************************************************************************)
CONSTANTS
    Customer,
    Project,
    Service

VARIABLES
    projects,         \* projects[p]: "absent", "exists" or "deleted"
    projectCustomer,  \* projectCustomer[p]: Project.customer
    services,         \* services[s]: "absent", "exists" or "deleted"
    serviceCustomer,  \* serviceCustomer[s]: Service.customer
    spl               \* <<p, s>>: a ServiceProjectLink of p and s

vars == <<projects, projectCustomer, services, serviceCustomer, spl>>

RowState == {"absent", "exists", "deleted"}

\* A row may go from absent to exists, or stay as it is; a row that stays
\* keeps its customer.
Created(row, row2, cust, cust2, X) ==
    /\ \A x \in X : \/ row2[x] = row[x] /\ cust2[x] = cust[x]
                    \/ row[x] = "absent" /\ row2[x] = "exists"
    /\ cust2 \in [X -> Customer]

\* The pairs a link may join in state (projects, ..., serviceCustomer).
Linkable(prj, pc, svc, sc) ==
    {l \in Project \X Service :
        prj[l[1]] = "exists" /\ svc[l[2]] = "exists" /\ pc[l[1]] = sc[l[2]]}

Init ==
    /\ projects = [p \in Project |-> "absent"]
    /\ projectCustomer \in [Project -> Customer]
    /\ services = [s \in Service |-> "absent"]
    /\ serviceCustomer \in [Service -> Customer]
    /\ spl = {}

\* One transaction becomes visible: it creates rows and adds links among
\* the rows that exist once it is visible.
Write ==
    LET prj2 == projects'
        pc2  == projectCustomer'
        svc2 == services'
        sc2  == serviceCustomer'
    IN  /\ Created(projects, prj2, projectCustomer, pc2, Project)
        /\ Created(services, svc2, serviceCustomer, sc2, Service)
        /\ spl \subseteq spl'
        /\ spl' \ spl \subseteq Linkable(prj2, pc2, svc2, sc2)

\* Deleting a project deletes its links by cascade.
DeleteProject(p) ==
    /\ projects[p] = "exists"
    /\ projects' = [projects EXCEPT ![p] = "deleted"]
    /\ spl' = {l \in spl : l[1] # p}
    /\ UNCHANGED <<projectCustomer, services, serviceCustomer>>

\* Deleting a service deletes its links by cascade.
DeleteService(s) ==
    /\ services[s] = "exists"
    /\ services' = [services EXCEPT ![s] = "deleted"]
    /\ spl' = {l \in spl : l[2] # s}
    /\ UNCHANGED <<projects, projectCustomer, serviceCustomer>>

Next ==
    \/ Write
    \/ \E p \in Project : DeleteProject(p)
    \/ \E s \in Service : DeleteService(s)

Spec == Init /\ [][Next]_vars

=============================================================================
