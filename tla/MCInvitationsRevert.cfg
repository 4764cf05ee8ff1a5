\* A caller passes its own selection of PENDING rows to the expiry task.
CONSTANTS
    Invitation = {i1, i2}
    Lifetime = 1
    MaxTime = 2
    MaxTasks = 2
    ExplicitCalls = TRUE
SPECIFICATION Spec
PROPERTIES
    StatesNeverRevert
