SPECIFICATION Spec
CONSTANTS
    p1 = p1  p2 = p2  q1 = q1  q2 = q2
    None = None
    Product = {p1, p2}
    Price <- Prices
    Initial <- OneMore
    Ordered <- OneOrdered
    Quantities = {1, 2}
    Request = {q1, q2}
    MaxItems = 3
    MaxFaults = 1
INVARIANTS
    BooksBalance
CHECK_DEADLOCK FALSE
CONSTRAINT Unspoilt
VIEW NoMoney
SYMMETRY Symmetry
