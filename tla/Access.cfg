SPECIFICATION Spec
CONSTANTS
    User = {ana, ben}
    Project = {web, ios}
    Request = {r1, r2}
    Nobody = nobody
    InUse = {"organization_owner", "project_manager", "tester"}
    MaxServed = 2
SYMMETRY Symmetry
INVARIANT TypeOK
PROPERTIES WritesAreAllowed GrantsFollowRank
CHECK_DEADLOCK FALSE
