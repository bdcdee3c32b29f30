SPECIFICATION Spec
CONSTANTS
    h1 = h1
    h2 = h2
    u1 = u1
    addr = addr
    Handlers = {h1, h2}
    Users = {u1}
    Address = addr
    Requests = 2
    Second = 1
    Threshold = 1
    MaxTime = 4
    MaxFailures = 1
INVARIANTS TypeOK OneBanAtATime RateIsBounded
PROPERTIES EvictionIsInvisible BanIsForABurst ToldIsTrue BanLands
