\* One user (the properties speak of each user on their own), two customers,
\* two projects, one project group, one cloud and one SSH key.
CONSTANTS
    User = {u1}
    Customer = {c1, c2}
    Project = {p1, p2}
    ProjectGroup = {g1}
    Cloud = {k1}
    SshKey = {key1}
SPECIFICATION Spec
SYMMETRY Symmetry
INVARIANTS
    TypeOK
