SPECIFICATION FairSpec
CONSTANTS
    u1 = u1  u2 = u2
    r1 = r1  r2 = r2  r3 = r3
    p1 = p1  p2 = p2  m1 = m1  m2 = m2
    None = None
    User = {u1, u2}
    Registered = {u1}
    Reference = {p1, p2}
    ManualReference = {}
    Request = {r1, r2}
    Delta <- SmallDeltas
INVARIANTS
    JournalExplainsBalance
    AppliedOnce
PROPERTY
    RefinesLedger
    RequestAnswered
