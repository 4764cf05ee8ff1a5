CONSTANTS
    User = {u1}
    Customer = {c1, c2}
    Project = {p1, p2}
    ProjectGroup = {g1}
    Cloud = {k1}
    SshKey = {key1}
SPECIFICATION Spec
INVARIANTS NcUserCountMatchesRoles
