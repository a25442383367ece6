SPECIFICATION Spec
CONSTANTS
    Run = {web, ios}
    TestCase = {login}
    Tester = {tess}
    Senior = lead
    Nobody = nobody
    NoRun = norun
    Request = {r1, r2}
    Operation = {"create", "update", "assign", "remove_case", "record", "complete", "link", "remove"}
    MaxVersion = 1
    MaxGen = 1
    MaxResult = 1
SYMMETRY Symmetry
INVARIANT ResultsBelong
PROPERTIES OnlyStragglers
CHECK_DEADLOCK FALSE
