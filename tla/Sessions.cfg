SPECIFICATION Spec
CONSTANTS
    User = {ana}
    NoUser = nobody
    Request = {r1, r2}
    MaxSession = 3
    MaxPassword = 2
SYMMETRY Symmetry
INVARIANTS TypeOK Lineage NoSilentSignOut SoleLive PasswordCutoff
CHECK_DEADLOCK FALSE
