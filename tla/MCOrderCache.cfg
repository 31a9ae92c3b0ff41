SPECIFICATION Spec
CONSTANTS
    i1 = i1  i2 = i2  i3 = i3  s1 = s1  s2 = s2  one = one  two = two  q1 = q1  q2 = q2  r1 = r1  r2 = r2
    None = None
    Item = {i1, i2, i3}
    Seller = {s1, s2}
    SellerOf <- TwoSellers
    First <- NoneOrOne
    Quantities = {one, two}
    Request = {q1, q2}
    Reader = {r1}
    MaxChanges = 2
INVARIANTS
    CachedViewStaleOnlyIfLate
SYMMETRY Symmetry
CHECK_DEADLOCK FALSE
