SPECIFICATION FairSpec
CONSTANTS
    o1 = o1  q1 = q1  q2 = q2
    None = None
    Order = {o1}
    Request = {q1}
    Routes = {"complete"}
    Commands = {"create"}
    Price = 2
    TopUp = 2
    MaxCommands = 2
    MaxPayments = 1
    MaxFaults = 1

PROPERTY
    SucceededIsAnnounced
CHECK_DEADLOCK FALSE
