\* Autocommit, receivers never fail: two customers, two projects, one API
\* service and one shared ServiceSettings (three services in all).
CONSTANTS
    Customer = {c1, c2}
    Project = {p1, p2}
    UserService = {s1}
    SharedSettings = {st1}
    AtomicRequests = FALSE
    HandlerMayFail = FALSE
SPECIFICATION Spec
SYMMETRY Symmetry
INVARIANTS
    TypeOK
    LinksWithinCustomer
    AvailableServicesLinked
PROPERTY
    LinksSpec
\* Users issue the requests and may stop: once every row of the small pools
\* is created and deleted the application is idle, which is not an error.
CHECK_DEADLOCK FALSE
