SPECIFICATION Spec
CONSTANTS
    Suite = {u1, u2}
    Section = {s1, s2, s3}
    Case = {c1, c2}
    Request = {r1, r2}
    Name = {n1, n2}
    Steps = {l1}
    Empty = empty
    Root = root
    Nothing = nothing
    MaxDepth = 2
    MaxServed = 3
SYMMETRY Symmetry
INVARIANTS TypeOK EverythingHasAPlace DepthIsBounded StepsAreTheLastAsked
PROPERTIES VersionNamesSteps
CHECK_DEADLOCK FALSE
