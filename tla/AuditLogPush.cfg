SPECIFICATION Safety
CONSTANTS
    a1 = a1
    a2 = a2
    Admins = {a1, a2}
    MaxActions = 2
    MaxFailures = 0
INVARIANT AllAreMailed
CHECK_DEADLOCK FALSE
