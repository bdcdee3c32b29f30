SPECIFICATION Spec
CONSTANTS
    u1 = u1
    f1 = f1
    f2 = f2
    t1 = t1
    t2 = t2
    t3 = t3
    p1 = p1
    p2 = p2
    q1 = q1
    q2 = q2
    Users = {u1}
    Files = {f1, f2}
    Tokens = {t1, t2, t3}
    TokenLimit = 0
    Passwords = {p1, p2}
    Requests = {q1, q2}
    MaxAsked = 3
    MaxAborts = 0
PROPERTIES ExpiredLinksAreDead
CHECK_DEADLOCK FALSE
