SPECIFICATION Spec
CONSTANTS
    u1 = u1
    u2 = u2
    Users = {u1, u2}
    Requests = {q1, q2}
    Names = {n1, n2}
    BadMailbox <- MCBadMailbox
    InitialFiles <- MCInitialFiles
    MaxFiles = 2
    MaxUploads = 1
    MaxMishaps = 1
INVARIANTS TypeOK UncutIsComplete RowsAreAccounted
PROPERTIES DumpsAreServed QueueMovesOn
CHECK_DEADLOCK FALSE
