SPECIFICATION Spec
CONSTANTS
    Item = {i1, i2}
    Request = {r1, r2}
    Text = {t1, t2}
    Nothing = nothing
    MaxServed = 6
SYMMETRY Symmetry
INVARIANTS TypeOK VersionsTellTheRow DatesTellTheStatus KeysHaveNoHoles
PROPERTIES FollowsWorkflow
CHECK_DEADLOCK FALSE
