SPECIFICATION Safety
CONSTANTS
    u1 = u1
    u2 = u2
    Users = {u1, u2}
    Requests = {q1}
    Names = {n1}
    BadMailbox <- MCBadMailbox
    InitialFiles <- MCInitialFiles
    MaxFiles = 2
    MaxUploads = 2
    MaxMishaps = 0
INVARIANT StoppedIsEmpty
CHECK_DEADLOCK FALSE
