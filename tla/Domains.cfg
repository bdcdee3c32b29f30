SPECIFICATION Spec
CONSTANTS
    d0 = d0
    d1 = d1
    u1 = u1
    f1 = f1
    f2 = f2
    f3 = f3
    s1 = s1
    s2 = s2
    s3 = s3
    q1 = q1
    q2 = q2
    Ids = {d0, d1}
    Base = d0
    Names = {"base", "wild"}
    BaseName = "base"
    HostNames <- MCHostNames
    Users = {u1}
    Stranger = "stranger"
    Files = {f1, f2, f3}
    Shortens = {s1, s2, s3}
    Quota = 1
    ByteLimit = 1
    Requests = {q1, q2}
    MaxAsked = 4
    MaxAborts = 1
INVARIANTS TypeOK SweptStaysEmpty CachedIdsExist LimitsAreKept OwnersGetTheNewDomain
PROPERTIES RemovalSucceeds
CHECK_DEADLOCK FALSE
