SPECIFICATION Safety
CONSTANTS
    f1 = f1
    f2 = f2
    f3 = f3
    p1 = p1
    alice = alice
    bob = bob
    Files = {f1, f2, f3}
    Paths = {p1}
    Users = {alice, bob}
    PathOf <- MCPathOf
    OwnerOf <- MCOwnerOf
    Infected <- MCInfected
    Requests = {q1, q2}
    MaxAborts = 1
SYMMETRY MCSymmetry
INVARIANTS TypeOK LiveHasBlob 
CHECK_DEADLOCK FALSE
