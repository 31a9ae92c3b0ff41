SPECIFICATION FairSpec
CONSTANTS
    o1 = o1  o2 = o2  p1 = p1  p2 = p2  q1 = q1  q2 = q2
    None = None
    Order = {o1, o2}
    Product = {p1, p2}
    Items <- MixedItems
    Initial <- TwoInStock
    Request = {q1, q2}
PROPERTY
    ImplementsStock
    SessionsEnd
CHECK_DEADLOCK FALSE
