SPECIFICATION Spec
CONSTANTS
    p1 = p1  p2 = p2  q1 = q1  q2 = q2
    None = None
    Product = {p1, p2}
    Price <- Prices
    Initial <- OneMore
    Ordered <- OneOrdered
    Quantities = {1, 2}
    Request = {q1}
    MaxItems = 2
    MaxFaults = 0
INVARIANT
    TotalIsSum
CHECK_DEADLOCK FALSE
