\* ATOMIC_REQUESTS on and receivers that may raise: the links a request
\* writes still only join a project and a service of one customer.
CONSTANTS
    Customer = {c1, c2}
    Project = {p1, p2}
    UserService = {s1}
    SharedSettings = {st1}
    AtomicRequests = TRUE
    HandlerMayFail = TRUE
SPECIFICATION Spec
SYMMETRY Symmetry
INVARIANTS
    LinksWithinCustomer
\* Users may stop once the small pools are exhausted.
CHECK_DEADLOCK FALSE
