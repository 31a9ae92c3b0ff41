SPECIFICATION Spec
CONSTANTS
    o1 = o1  o2 = o2  p1 = p1  p2 = p2  q1 = q1  q2 = q2
    None = None
    Order = {o1, o2}
    Product = {p1}
    Items <- OneOfEach
    Initial <- OneInStock
    Request = {q1}
    Routes = {"cancel"}
    Patches = {}
    MaxCommands = 1
    MaxEvents = 0
    MaxFaults = 0
INVARIANT
    CancelledHoldsNothing
CHECK_DEADLOCK FALSE
