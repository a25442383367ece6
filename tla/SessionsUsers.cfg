SPECIFICATION UpSpec
CONSTANTS
    User = {ana, ben}
    NoUser = nobody
    Request = {r1, r2}
    MaxSession = 2
    MaxPassword = 1
PROPERTIES ReuseKills
CHECK_DEADLOCK FALSE
