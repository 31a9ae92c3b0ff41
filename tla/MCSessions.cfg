SPECIFICATION Spec
CONSTANTS
    u1 = u1  u2 = u2  u3 = u3  e1 = e1  e2 = e2  f1 = f1  f2 = f2
    b1 = b1  s1 = s1
    user = user  seller = seller
    r1 = r1  r2 = r2  r3 = r3
    None = None
    User = {u1, u2, u3}
    Email = {e1, e2}
    Phone = {f1, f2}
    Role = {user, seller}
    Browser = {b1}
    Request = {r1, r2, r3}
    Seed = {s1}
    FirstUser = u1
    FirstAccount <- OneAccount
    DefaultRole = user
    FirstJar <- OneJar
    Kinds = {"register", "login", "refresh", "logout", "sweep", "role"}
SYMMETRY Symmetry
INVARIANTS
    IdentifiersUnique
    UsedOnceUnlessTogether
    SweepEndsSessions
    OldRoleOnlyInFlight
    AnsweredBrowserKeepsItsSession
CHECK_DEADLOCK FALSE
