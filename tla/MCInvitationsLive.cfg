\* The periodic schedule alone: no state reverts, old rows eventually close,
\* and the model refines InvitationLifecycle; two rows, no symmetry.
CONSTANTS
    Invitation = {i1, i2}
    Lifetime = 1
    MaxTime = 3
    MaxTasks = 2
    ExplicitCalls = FALSE
SPECIFICATION Spec
PROPERTIES
    StatesNeverRevert
    OldPendingEventuallyClosed
    LifecycleSpec
