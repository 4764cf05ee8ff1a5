CONSTANTS
    Customer = {c1, c2}
    Project = {p1, p2}
    UserService = {s1}
    SharedSettings = {st1}
    AtomicRequests = TRUE
    HandlerMayFail = FALSE
SPECIFICATION Spec
SYMMETRY Symmetry
INVARIANTS
    AvailableServicesLinked
CHECK_DEADLOCK FALSE
