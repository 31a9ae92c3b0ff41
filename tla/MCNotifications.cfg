SPECIFICATION FairSpec
CONSTANTS
    u1 = u1  e1 = e1  e2 = e2  e3 = e3
    orders = orders  payments = payments
    c1 = c1  c2 = c2  g1 = g1
    None = None
    User = {u1}
    Event = {e1, e2, e3}
    Queue = {orders, payments}
    Reader = {g1}
    Conn = {c1}
    QueueOf <- OneOfEach
    UserOf <- ForOne
    ConnUser <- OneBrowser
    Readable = {e1, e2}
    Waiting = {e3}
    Watched = u1
    MaxFaults = 1
INVARIANTS
    DuplicateNeedsFault
    PushedInOrder
    WholeSocketMissesNothing
    CachedListStaleOnlyIfLate
CHECK_DEADLOCK FALSE
PROPERTIES
    EventsAreStored
    ClosedIsForgotten
