SPECIFICATION Spec
CONSTANTS
    r1 = r1  r2 = r2  r3 = r3  g1 = g1
    Link = Link  Keep = Keep  None = None
    Request = {r1, r2, r3}
    Reader = {g1}
    Patch <- Patches
    MaxStock = 1
    MaxFaults = 1
SYMMETRY Same
INVARIANTS
    ShownImageExists
    OrphanNeedsCause
    EditsKeepReservations
    CachedCardStaleOnlyIfLate
CHECK_DEADLOCK FALSE
