SPECIFICATION Spec
CONSTANTS
    Requirement = {q1, q2}
    Case = {c1, c2}
    Defect = {d1}
    Request = {r1, r2}
    Nothing = nothing
    MaxServed = 3
SYMMETRY Symmetry
INVARIANTS TypeOK LinksDieWithTheirEnds MatrixIsExact DashboardIsExact
CHECK_DEADLOCK FALSE
