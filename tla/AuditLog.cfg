SPECIFICATION Spec
CONSTANTS
    a1 = a1
    a2 = a2
    Admins = {a1, a2}
    MaxActions = 5
    MaxFailures = 2
INVARIANTS TypeOK QueueIsAttended AccountedFor
PROPERTIES MailedInTurn EventuallySettled
CHECK_DEADLOCK FALSE
