SPECIFICATION FairSpec
CONSTANTS
    o1 = o1  q1 = q1  q2 = q2
    None = None
    Order = {o1}
    Request = {q1, q2}
    Routes = {"complete", "cancel", "retry"}
    Commands = {"create", "cancel", "refund"}
    Price = 1
    TopUp = 2
    MaxCommands = 1
    MaxPayments = 1
    MaxFaults = 1
INVARIANTS
    SettledMatchesLedger
    EventsBackedByLedger
PROPERTIES
    ImplementsPaymentSide
    RefundCompletes
CHECK_DEADLOCK FALSE
