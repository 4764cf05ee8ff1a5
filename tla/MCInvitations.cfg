\* Safety for every caller: the periodic task and views calling
\* cancel_expired_invitations with a selection of their own; two rows,
\* lifetime 1, clock up to 3, at most two queued tasks.
CONSTANTS
    Invitation = {i1, i2}
    Lifetime = 1
    MaxTime = 3
    MaxTasks = 2
    ExplicitCalls = TRUE
SPECIFICATION Spec
SYMMETRY Symmetry
INVARIANTS
    TypeOK
    ExpiredOnlyWhenOld
