SPECIFICATION Spec
CONSTANTS
    Run = {web}
    TestCase = {login}
    Tester = {tess}
    Senior = lead
    Nobody = nobody
    NoRun = norun
    Request = {r1, r2}
    Operation = {"create", "add_cases", "remove_case", "record", "start", "complete", "abort", "remove", "edit_case", "offer_case"}
    MaxVersion = 2
    MaxGen = 2
    MaxResult = 2
SYMMETRY Symmetry
INVARIANTS TypeOK LatestAgrees ResultsStartTheRun SnapshotNotStale
CHECK_DEADLOCK FALSE
