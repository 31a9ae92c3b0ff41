SPECIFICATION FairSpec
CONSTANTS
    e1 = e1  e2 = e2  e3 = e3  e4 = e4  e5 = e5
    orderTopic = orderTopic  paymentTopic = paymentTopic
    o1 = o1  p1 = p1  p2 = p2  g1 = g1
    None = None
    Event = {e1, e2, e3, e4, e5}
    Topic = {orderTopic, paymentTopic}
    Reader = {g1}
    Valid = {e1, e2, e3, e4}
    Body <- Bodies
    TopicOf <- Topics
    Always <- AllTime
    Windows <- SomeWindows
    Backlog <- Waiting
    Unit = 2
    MaxFaults = 1
INVARIANTS
    CommittedIsStored
    ReportsIgnoreArrival
    ReportsAgree
    CachedOverviewStaleOnlyIfLate
PROPERTY
    EventsAreStored
CHECK_DEADLOCK FALSE
