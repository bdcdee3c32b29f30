SPECIFICATION Safety
CONSTANTS
    password_hash = password_hash
    userban = userban
    fspath = fspath
    Keys = {userban}
    Values = {v}
    None = None
    Miss = Miss
    Readers = {r1}
    Writers = {w1}
    BanKeys <- MCBanKeys
    InvalidateFirst <- MCInvalidateFirst
    LeftKeys <- MCLeftKeys
    InitialRows <- MCInitialRows
    MaxWrites = 1
    MaxAborts = 0
INVARIANT BannedIsRefused
CHECK_DEADLOCK FALSE
