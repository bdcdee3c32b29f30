SPECIFICATION Spec
CONSTANTS
    password_hash = password_hash
    userban = userban
    fspath = fspath
    Keys = {password_hash, userban, fspath}
    Values = {v}
    None = None
    Miss = Miss
    Readers = {r1, r2}
    Writers = {w1}
    BanKeys <- MCBanKeys
    InvalidateFirst <- MCInvalidateFirst
    LeftKeys <- MCLeftKeys
    InitialRows <- MCInitialRows
    MaxWrites = 2
    MaxAborts = 1
INVARIANTS TypeOK UnexpiringIsOwned StaleHasACause
PROPERTY EventuallyCoherent
CHECK_DEADLOCK FALSE
