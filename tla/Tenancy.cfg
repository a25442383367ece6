SPECIFICATION Spec
CONSTANTS
    Organization = {acme, globex}
    Tab = {t1, t2}
    Connection = {c1, c2}
    Nobody = nobody
    MaxServed = 2
SYMMETRY Symmetry
INVARIANTS TypeOK StatementsSeeTheirOwn AuditTellsWhatCommitted ChangesLandWhereShown
CHECK_DEADLOCK FALSE
