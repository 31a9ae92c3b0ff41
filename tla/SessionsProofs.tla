--------------------------- MODULE SessionsProofs ---------------------------
(***************************************************************************)
(* What TLAPS proves of Sessions, for every set of users, browsers, tokens *)
(* and requests.                                                           *)
(***************************************************************************)
EXTENDS Sessions, TLAPS

(* What a handler knows of the rows it works on at each of its points.     *)
Registering(r) == req[r].kind = "register" /\ req[r].pc \in {"email", "insert", "commit"}
Sweeping(r) == req[r].kind \in {"sweep", "role"}

PointOfKind(r) ==
    /\ req[r].pc \in {"idle", "failed"} => req[r].kind = None
    /\ req[r].pc \in {"email", "insert"} => req[r].kind = "register"
    /\ req[r].pc = "revoke" => req[r].kind \in {"refresh", "logout"}
    /\ req[r].pc = "user" => req[r].kind = "refresh"
    /\ req[r].pc = "assign" => req[r].kind = "role"
    /\ req[r].pc \in {"sweep", "rows"} => Sweeping(r)
    /\ req[r].pc = "commit" => req[r].kind \in {"register", "login", "refresh", "logout"}
    /\ Committed(r) => req[r].kind \in Kind

Holds(r) ==
    /\ req[r].pc \notin {"user", "commit", "rows"} => req[r].held = {}
    /\ req[r].kind = "refresh" /\ req[r].pc \in {"user", "commit"} => req[r].token \in req[r].held
    /\ Sweeping(r) /\ req[r].pc = "rows" => req[r].snapshot = req[r].rows \cup req[r].held
    /\ Sweeping(r) /\ req[r].pc \in {"assign", "sweep"} => req[r].snapshot = {}
    /\ ~Sweeping(r) => req[r].snapshot = {}
    /\ \A t \in req[r].held \cup req[r].snapshot : token[t] # None

Refers(r) ==
    /\ Registering(r) => /\ req[r].user \in User /\ ~Exists(req[r].user)
                         /\ req[r].email \in Email /\ req[r].phone \in Phone
    /\ req[r].kind \in Kind \ {"register"} => req[r].user \in User /\ Exists(req[r].user)
    /\ req[r].kind \in {"refresh", "logout"} => /\ req[r].token \in Token
                                                /\ token[req[r].token] # None
    /\ req[r].kind \notin {"refresh", "logout"} => req[r].token = None
    /\ Issues(r) /\ req[r].pc = "commit" => req[r].role \in Role

Handles == \A r \in Request : PointOfKind(r) /\ Holds(r) /\ Refers(r)

Issued ==
    /\ \A t \in Token : token[t] # None =>
           /\ Exists(token[t].user)
           /\ t \in Request => Committed(t) /\ Issues(t) /\ token[t].user = req[t].user
    /\ \A r \in Request : Committed(r) /\ Issues(r) => token[r] # None

Apart ==
    \A q, r \in Request : q # r =>
        /\ Registering(q) /\ Registering(r) => req[q].user # req[r].user
        /\ Registering(q) /\ req[q].pc = "commit" /\ Registering(r) /\ req[r].pc = "commit" =>
              req[q].email # req[r].email /\ req[q].phone # req[r].phone

Free == \A r \in Request : (Registering(r) /\ req[r].pc = "commit") =>
            ~TakenEmail(req[r].email) /\ ~TakenPhone(req[r].phone)

Inv == TypeOK /\ Handles /\ Issued
Unique == IdentifiersUnique /\ Apart /\ Free

SeenCommitted == \A r \in Request : \A q \in req[r].seen : Committed(q)
Revoked ==
    \A r \in Request : Committed(r) =>
        /\ req[r].kind = "refresh" => token[req[r].token].revoked
        /\ Sweeping(r) => \A t \in req[r].snapshot : token[t].revoked
NotReused ==
    \A r \in Request : req[r].kind = "refresh" => \A q \in req[r].seen :
        /\ req[q].kind = "refresh" => req[q].token # req[r].token
        /\ Sweeping(q) => req[r].token \notin req[q].snapshot
Past == SeenCommitted /\ Revoked /\ NotReused

SweepSees ==
    \A r \in Request : (Sweeping(r) /\ (req[r].pc = "rows" \/ Committed(r))) =>
        \A t \in Seed \cup req[r].seen :
            (token[t] # None /\ token[t].user = req[r].user) => t \in req[r].snapshot
Overlapped(t, u) ==
    /\ t \in Request
    /\ \E r \in Request : /\ Committed(r) /\ req[r].kind = "role" /\ req[r].user = u
                          /\ ~After(t, r) /\ ~After(r, t)
Carries ==
    /\ \A r \in Request : (Issues(r) /\ req[r].pc = "commit") =>
          req[r].role = account[req[r].user].role \/ Overlapped(r, req[r].user)
    /\ \A t \in Token : Live(t) =>
          token[t].role = account[token[t].user].role \/ Overlapped(t, token[t].user)

(* Whose a token is: the browser that has, or had, it in its cookie.       *)
Owns(b, t) ==
    \/ t \in Request /\ req[t].pc = "answered" /\ req[t].browser = b
    \/ t \in Seed /\ FirstJar[b] = t
Rotates(r) == req[r].kind \in {"refresh", "logout"}
RevokedBy(t, r) ==
    /\ Committed(r)
    /\ \/ Rotates(r) /\ req[r].token = t
       \/ Sweeping(r) /\ t \in req[r].snapshot

OwnCookie == \A b \in Browser : jar[b] # None => Owns(b, jar[b])
OwnRequest == \A r \in Request :
    /\ req[r].kind # None => req[r].browser \in Browser
    /\ Rotates(r) => Owns(req[r].browser, req[r].token)
    /\ Rotates(r) => req[r].held \subseteq {req[r].token}
    /\ ~Rotates(r) /\ ~Sweeping(r) => req[r].held = {}
CookieReplaced == \A r \in Request :
    (req[r].pc = "answered" /\ Rotates(r)) => \A b \in Browser : jar[b] # req[r].token
RevokedForCause == \A t \in Token :
    (token[t] # None /\ token[t].revoked) => \E r \in Request : RevokedBy(t, r)
Kept == OwnCookie /\ OwnRequest /\ CookieReplaced /\ RevokedForCause
-----------------------------------------------------------------------------
Plain(r) ==
    \/ Send(r) \/ CheckEmail(r) \/ InsertUser(r) \/ Revoke(r) \/ ReadUser(r) \/ AssignRole(r)
    \/ Sweep(r) \/ SweepRow(r) \/ Deadlock(r) \/ Answer(r) \/ Lose(r) \/ Die(r)

LEMMA PlainFrame ==
    ASSUME TypeOK, NEW r \in Request, Plain(r)
    PROVE  /\ UNCHANGED <<account, token>>
           /\ \A q \in Request : q # r => req'[q] = req[q]
BY DEF Plain, Send, Register, CheckEmail, InsertUser, Login, Refresh, Revoke, ReadUser, Logout,
       LogoutAll, UpdateRole, AssignRole, Sweep, SweepRow, Deadlock, Answer, Lose, Die,
       Start, Fail, Refuse, TypeOK

Sound(r) == /\ req[r] \in Handler
            /\ PointOfKind(r) /\ Holds(r) /\ Refers(r)

(* What a request has when it begins: nothing is committed or held, and    *)
(* what it will rely on is the state of this moment.                       *)
Begun(r) ==
    /\ ~Committed(r) /\ req[r].pc # "rows" /\ req[r].held = {} /\ req[r].snapshot = {}
    /\ \A q \in req[r].seen : q # r => Committed(q)
    /\ r \notin req[r].seen
    /\ req[r].kind = "refresh" => Live(req[r].token)
    /\ Issues(r) /\ req[r].pc = "commit" => req[r].role = account[req[r].user].role
    /\ Registering(r) => /\ req[r].pc = "email"
                         /\ \A q \in Request : q # r => req[q].user # req[r].user

LEMMA StartMakes ==
    ASSUME TypeOK, NEW r \in Request, NEW kind \in Kind, NEW b \in Browser, NEW asked \in Handler,
           Start(r, kind, b, asked)
    PROVE  /\ req'[r] \in Handler
           /\ req'[r].kind = kind /\ req'[r].pc = asked.pc
           /\ req'[r].user = asked.user /\ req'[r].token = asked.token
           /\ req'[r].email = asked.email /\ req'[r].phone = asked.phone
           /\ req'[r].role = asked.role
           /\ req'[r].snapshot = asked.snapshot /\ req'[r].held = asked.held
           /\ req'[r].rows = asked.rows
           /\ req'[r].seen = {q \in Request : Committed(q)}
<1> DEFINE now == {q \in Request : Committed(q)}
<1>1. now \in SUBSET Request
  OBVIOUS
<1>2. req'[r] = [asked EXCEPT !.kind = kind, !.browser = b, !.seen = now]
  BY DEF Start, TypeOK
<1> HIDE DEF now
<1>3. /\ [asked EXCEPT !.kind = kind, !.browser = b, !.seen = now].seen = now
      /\ [asked EXCEPT !.kind = kind, !.browser = b, !.seen = now] \in Handler
  BY <1>1 DEF Handler
<1> QED BY <1>2, <1>3 DEF now, Handler

LEMMA FailMakes ==
    ASSUME NEW r \in Request, TypeOK, req' = Fail(r)
    PROVE  /\ req'[r] \in Handler
           /\ req'[r].kind = None /\ req'[r].pc = "failed" /\ req'[r].token = None
           /\ req'[r].snapshot = {} /\ req'[r].held = {} /\ req'[r].seen = {}
BY DEF Fail, TypeOK, Handler, Idle, Point, Ended

LEMMA FailSound ==
    ASSUME NEW r \in Request, TypeOK, req' = Fail(r)
    PROVE  Sound(r)' /\ Begun(r)'
BY FailMakes, SessionsAssumption
DEF Sound, Begun, PointOfKind, Holds, Refers, Registering, Sweeping, Issues, Committed, Kind

LEMMA SendSound ==
    ASSUME Inv, NEW r \in Request, Send(r)
    PROVE  Sound(r)' /\ Begun(r)'
<1> USE DEF Inv
<1>1. PICK b \in Browser : \/ Register(r, b) \/ Login(r, b) \/ Refresh(r, b)
                          \/ Logout(r, b) \/ LogoutAll(r, b) \/ UpdateRole(r, b)
  BY DEF Send
<1> SUFFICES ASSUME req' # Fail(r) PROVE Sound(r)' /\ Begun(r)'
  BY FailSound
<1>2. ASSUME NEW kind \in Kind, NEW asked \in Handler, Start(r, kind, b, asked),
             UNCHANGED <<account, token>>, asked.snapshot = {}, asked.held = {}
      PROVE  /\ req'[r] \in Handler /\ account' = account /\ token' = token
             /\ req'[r].kind = kind /\ req'[r].pc = asked.pc
             /\ req'[r].user = asked.user /\ req'[r].token = asked.token
             /\ req'[r].email = asked.email /\ req'[r].phone = asked.phone
             /\ req'[r].role = asked.role
             /\ req'[r].snapshot = {} /\ req'[r].held = {}
             /\ \A q \in Request : q # r => req'[q] = req[q]
             /\ \A q \in req'[r].seen : q # r => Committed(q)'
             /\ r \notin req'[r].seen
  <2>1. /\ \A q \in Request : q # r => req'[q] = req[q]
        /\ req[r].pc = "idle"
    BY <1>2 DEF Start, TypeOK
  <2>2. req'[r].seen = {q \in Request : Committed(q)}
    BY <1>2, StartMakes
  <2>3. \A q \in req'[r].seen : q # r => Committed(q)'
    BY <2>1, <2>2 DEF Committed
  <2>4. r \notin req'[r].seen
    BY <2>1, <2>2 DEF Committed
  <2> QED BY <1>2, <2>1, <2>3, <2>4, StartMakes
<1>3. CASE Register(r, b)
  <2>1. PICK u \in User, e \in Email, p \in Phone :
            /\ ~Exists(u) /\ \A q \in Request : req[q].user # u
            /\ IF TakenPhone(p)
               THEN Refuse(r, "register")
               ELSE Start(r, "register", b, [Idle EXCEPT !.pc = "email", !.user = u,
                                                         !.email = e, !.phone = p])
    BY <1>3 DEF Register
  <2> DEFINE asked == [Idle EXCEPT !.pc = "email", !.user = u, !.email = e, !.phone = p]
  <2>2. u \in User /\ ~Exists(u) /\ \A q \in Request : req[q].user # u
    BY <2>1
  <2>3. /\ asked \in Handler
        /\ asked.pc = "email" /\ asked.user = u /\ asked.token = None
        /\ asked.role = None /\ asked.snapshot = {} /\ asked.held = {}
        /\ asked.email = e /\ asked.phone = p
    BY <2>2, SessionsAssumption DEF Idle, Handler, Point
  <2>4. Start(r, "register", b, asked) /\ UNCHANGED <<account, token>>
    BY <1>3, <2>1 DEF Register, Refuse
  <2> HIDE DEF asked
  <2> QED BY <1>2, <2>2, <2>3, <2>4
      DEF Sound, Begun, PointOfKind, Holds, Refers, Registering, Sweeping, Issues, Committed,
          Exists, Live, Kind
<1>4. CASE Login(r, b)
  <2>1. PICK u \in User : /\ Exists(u)
                          /\ Start(r, "login", b, [Idle EXCEPT !.pc = "commit", !.user = u,
                                                               !.role = account[u].role])
    BY <1>4 DEF Login, Refuse, Owners
  <2> DEFINE asked == [Idle EXCEPT !.pc = "commit", !.user = u, !.role = account[u].role]
  <2>2. u \in User /\ Exists(u) /\ account[u].role \in Role
    BY <2>1 DEF TypeOK, Exists, Account
  <2>3. /\ asked \in Handler
        /\ asked.pc = "commit" /\ asked.user = u /\ asked.token = None
        /\ asked.role = account[u].role /\ asked.snapshot = {} /\ asked.held = {}
    BY <2>2, SessionsAssumption DEF Idle, Handler, Point
  <2>4. Start(r, "login", b, asked) /\ UNCHANGED <<account, token>>
    BY <1>4, <2>1 DEF Login
  <2> HIDE DEF asked
  <2> QED BY <1>2, <2>2, <2>3, <2>4
      DEF Sound, Begun, PointOfKind, Holds, Refers, Registering, Sweeping, Issues, Committed,
          Exists, Live, Kind
<1>5. CASE Refresh(r, b)
  <2> DEFINE asked == [Idle EXCEPT !.pc = "revoke", !.token = jar[b], !.user = token[jar[b]].user]
  <2>2. /\ jar[b] \in Token /\ token[jar[b]] # None /\ ~token[jar[b]].revoked
        /\ token[jar[b]].user \in User /\ Exists(token[jar[b]].user)
    BY <1>5 DEF Refresh, Refuse, TypeOK, Issued, Session
  <2>3. /\ asked \in Handler
        /\ asked.pc = "revoke" /\ asked.user = token[jar[b]].user /\ asked.token = jar[b]
        /\ asked.role = None /\ asked.snapshot = {} /\ asked.held = {}
    BY <2>2, SessionsAssumption DEF Idle, Handler, Point
  <2>4. Start(r, "refresh", b, asked) /\ UNCHANGED <<account, token>>
    BY <1>5 DEF Refresh, Refuse
  <2> HIDE DEF asked
  <2> QED BY <1>2, <2>2, <2>3, <2>4
      DEF Sound, Begun, PointOfKind, Holds, Refers, Registering, Sweeping, Issues, Committed,
          Exists, Live, Kind
<1>6. CASE Logout(r, b)
  <2> DEFINE asked == [Idle EXCEPT !.pc = IF token[jar[b]].revoked THEN "commit" ELSE "revoke",
                                    !.token = jar[b], !.user = token[jar[b]].user]
  <2>2. /\ jar[b] \in Token /\ token[jar[b]] # None
        /\ token[jar[b]].user \in User /\ Exists(token[jar[b]].user)
    BY <1>6 DEF Logout, TypeOK, Issued, Session
  <2>3. /\ asked \in Handler
        /\ asked.pc = (IF token[jar[b]].revoked THEN "commit" ELSE "revoke") /\ asked.user = token[jar[b]].user /\ asked.token = jar[b]
        /\ asked.role = None /\ asked.snapshot = {} /\ asked.held = {}
    BY <2>2, SessionsAssumption DEF Idle, Handler, Point
  <2>4. Start(r, "logout", b, asked) /\ UNCHANGED <<account, token>>
    BY <1>6 DEF Logout
  <2> HIDE DEF asked
  <2> QED BY <1>2, <2>2, <2>3, <2>4
      DEF Sound, Begun, PointOfKind, Holds, Refers, Registering, Sweeping, Issues, Committed,
          Exists, Live, Kind
<1>7. CASE LogoutAll(r, b)
  <2>1. PICK u \in User : /\ Exists(u)
                          /\ Start(r, "sweep", b, [Idle EXCEPT !.pc = "sweep", !.user = u])
    BY <1>7 DEF LogoutAll
  <2> DEFINE asked == [Idle EXCEPT !.pc = "sweep", !.user = u]
  <2>2. u \in User /\ Exists(u)
    BY <2>1
  <2>3. /\ asked \in Handler
        /\ asked.pc = "sweep" /\ asked.user = u /\ asked.token = None
        /\ asked.role = None /\ asked.snapshot = {} /\ asked.held = {}
    BY <2>2, SessionsAssumption DEF Idle, Handler, Point
  <2>4. Start(r, "sweep", b, asked) /\ UNCHANGED <<account, token>>
    BY <1>7, <2>1 DEF LogoutAll
  <2> HIDE DEF asked
  <2> QED BY <1>2, <2>2, <2>3, <2>4
      DEF Sound, Begun, PointOfKind, Holds, Refers, Registering, Sweeping, Issues, Committed,
          Exists, Live, Kind
<1>8. CASE UpdateRole(r, b)
  <2>1. PICK u \in User, role \in Role :
            /\ Exists(u)
            /\ Start(r, "role", b, IF role = account[u].role
                                   THEN [Idle EXCEPT !.pc = "sweep", !.user = u]
                                   ELSE [Idle EXCEPT !.pc = "assign", !.user = u, !.role = role])
    BY <1>8 DEF UpdateRole
  <2> DEFINE asked == IF role = account[u].role
                      THEN [Idle EXCEPT !.pc = "sweep", !.user = u]
                      ELSE [Idle EXCEPT !.pc = "assign", !.user = u, !.role = role]
  <2>2. u \in User /\ Exists(u) /\ role \in Role
    BY <2>1
  <2>3. /\ asked \in Handler
        /\ asked.pc \in {"sweep", "assign"} /\ asked.user = u /\ asked.token = None
        /\ asked.snapshot = {} /\ asked.held = {}
    BY <2>2, SessionsAssumption DEF Idle, Handler, Point
  <2>4. Start(r, "role", b, asked) /\ UNCHANGED <<account, token>>
    BY <1>8, <2>1 DEF UpdateRole
  <2> HIDE DEF asked
  <2> QED BY <1>2, <2>2, <2>3, <2>4
      DEF Sound, Begun, PointOfKind, Holds, Refers, Registering, Sweeping, Issues, Committed,
          Exists, Live, Kind
<1> QED BY <1>1, <1>3, <1>4, <1>5, <1>6, <1>7, <1>8

(* A step of a handler leaves alone whom the request is about, and what it *)
(* saw when it began.                                                      *)
Keeps(r) ==
    /\ UNCHANGED <<req[r].kind, req[r].user, req[r].token, req[r].email, req[r].phone, req[r].seen>>
    /\ Committed(r)' = Committed(r)
    /\ req[r].pc # "sweep" => UNCHANGED req[r].snapshot
    /\ req[r].pc # "user" => UNCHANGED req[r].role

LEMMA MovesTo ==
    ASSUME NEW r \in Request, TypeOK, NEW p \in Point, req' = [req EXCEPT ![r].pc = p]
    PROVE  /\ req'[r] \in Handler
           /\ req'[r].kind = req[r].kind /\ req'[r].user = req[r].user
           /\ req'[r].token = req[r].token /\ req'[r].seen = req[r].seen
           /\ req'[r].email = req[r].email /\ req'[r].phone = req[r].phone
           /\ req'[r].role = req[r].role /\ req'[r].snapshot = req[r].snapshot
           /\ req'[r].rows = req[r].rows /\ req'[r].held = req[r].held
           /\ req'[r].pc = p
<1>1. req[r] \in Handler /\ req'[r] = [req[r] EXCEPT !.pc = p]
  BY DEF TypeOK
<1> QED BY <1>1 DEF Handler

LEMMA StepSound ==
    ASSUME Inv, NEW r \in Request, Plain(r), ~Send(r), req' # Fail(r)
    PROVE  Sound(r)' /\ Keeps(r)
<1> USE DEF Inv
<1>0. /\ account' = account /\ token' = token
      /\ Sound(r)
  BY PlainFrame DEF Handles, Sound, TypeOK
<1>h. req[r] \in Handler
  BY <1>0 DEF Sound
<1>p. {"insert", "commit", "sweep", "rows", "user", "answered", "lost"} \subseteq Point
  BY DEF Point, Ended
<1>1. CASE CheckEmail(r)
  <2>1. /\ req'[r] \in Handler
        /\ req'[r].kind = req[r].kind /\ req'[r].user = req[r].user
        /\ req'[r].token = req[r].token /\ req'[r].seen = req[r].seen
        /\ req'[r].email = req[r].email /\ req'[r].phone = req[r].phone
        /\ req'[r].role = req[r].role /\ req'[r].snapshot = req[r].snapshot
        /\ req'[r].rows = req[r].rows /\ req'[r].held = req[r].held
        /\ req'[r].pc = "insert"
    BY <1>p, <1>1, MovesTo DEF CheckEmail
  <2> QED BY <1>0, <1>1, <2>1
      DEF CheckEmail, Keeps, Sound, PointOfKind, Holds, Refers, Registering, Sweeping, Issues,
          Committed, Exists, Kind, Ended
<1>2. CASE InsertUser(r)
  <2>1. /\ req'[r] \in Handler
        /\ req'[r].kind = req[r].kind /\ req'[r].user = req[r].user
        /\ req'[r].token = req[r].token /\ req'[r].seen = req[r].seen
        /\ req'[r].email = req[r].email /\ req'[r].phone = req[r].phone
        /\ req'[r].role = req[r].role /\ req'[r].snapshot = req[r].snapshot
        /\ req'[r].rows = req[r].rows /\ req'[r].held = req[r].held
        /\ req'[r].pc = "commit"
    BY <1>p, <1>2, MovesTo DEF InsertUser
  <2> QED BY <1>0, <1>2, <2>1
      DEF InsertUser, Keeps, Sound, PointOfKind, Holds, Refers, Registering, Sweeping, Issues,
          Committed, Exists, Kind, Ended
<1>3. CASE Revoke(r)
  <2>1. req[r].token \in Token /\ token[req[r].token] # None /\ req[r].kind \in {"refresh", "logout"}
    BY <1>0, <1>3 DEF Revoke, Sound, PointOfKind, Refers
  <2> DEFINE next == IF req[r].kind = "refresh" THEN "user" ELSE "commit"
             row == {req[r].token}
  <2>2. next \in {"user", "commit"} /\ (req[r].kind # "refresh" => next = "commit")
    OBVIOUS
  <2>3. row \subseteq Token /\ req[r].token \in row /\ \A t \in row : token[t] # None
    BY <2>1
  <2>4. req'[r] = [req[r] EXCEPT !.pc = next, !.held = row]
    BY <1>3 DEF Revoke, TypeOK
  <2> HIDE DEF next, row
  <2>a. next \in Point /\ row \in SUBSET Token
    BY <2>2, <2>3 DEF Point
  <2>5. /\ req'[r] \in Handler
        /\ req'[r].kind = req[r].kind /\ req'[r].user = req[r].user
        /\ req'[r].token = req[r].token /\ req'[r].seen = req[r].seen
        /\ req'[r].email = req[r].email /\ req'[r].phone = req[r].phone
        /\ req'[r].role = req[r].role /\ req'[r].snapshot = req[r].snapshot
        /\ req'[r].held = row /\ req'[r].pc = next
    BY <1>h, <2>a, <2>4 DEF Handler
  <2>6. req[r].pc = "revoke"
    BY <1>3 DEF Revoke
  <2>7. Keeps(r)
    BY <2>2, <2>5, <2>6 DEF Keeps, Committed
  <2>b. PointOfKind(r)'
    BY <2>1, <2>2, <2>5 DEF PointOfKind, Sweeping, Committed, Kind, Ended
  <2>c. req[r].kind = "refresh" => next = "user"
    BY DEF next
  <2>8. PointOfKind(r)' /\ Refers(r)'
    BY <1>0, <2>b, <2>c, <2>1, <2>2, <2>5
    DEF Sound, Refers, Registering, Issues, Exists, Kind
  <2>9. Holds(r)'
    BY <1>0, <2>1, <2>2, <2>3, <2>5 DEF Sound, Holds, Sweeping
  <2> QED BY <2>5, <2>7, <2>8, <2>9 DEF Sound
<1>4. CASE ReadUser(r)
  <2>1. req[r].pc = "user" /\ req[r].kind = "refresh"
    BY <1>0, <1>4 DEF ReadUser, Sound, PointOfKind
  <2> DEFINE role == account[req[r].user].role
  <2>2. role \in Role
    BY <1>0, <2>1 DEF Sound, Refers, Exists, TypeOK, Account, Kind
  <2>3. req'[r] = [req[r] EXCEPT !.pc = "commit", !.role = role]
    BY <1>4 DEF ReadUser, TypeOK
  <2>a. "commit" \in Point /\ role \in Role \cup {None}
    BY <1>p, <2>2
  <2> HIDE DEF role
  <2>b. req'[r].role = role
    BY <1>h, <2>3 DEF Handler
  <2>4. /\ req'[r] \in Handler
        /\ req'[r].kind = req[r].kind /\ req'[r].user = req[r].user
        /\ req'[r].token = req[r].token /\ req'[r].seen = req[r].seen
        /\ req'[r].email = req[r].email /\ req'[r].phone = req[r].phone
        /\ req'[r].snapshot = req[r].snapshot /\ req'[r].rows = req[r].rows
        /\ req'[r].held = req[r].held /\ req'[r].pc = "commit"
        /\ req'[r].role \in Role
    BY <1>h, <2>a, <2>b, <2>2, <2>3 DEF Handler
  <2>5. Keeps(r)
    BY <2>1, <2>4 DEF Keeps, Committed
  <2>6. PointOfKind(r)' /\ Refers(r)'
    BY <1>0, <2>1, <2>4
    DEF Sound, PointOfKind, Refers, Registering, Sweeping, Issues, Committed, Exists, Kind, Ended
  <2>7. Holds(r)'
    BY <1>0, <2>1, <2>4 DEF Sound, Holds, Sweeping
  <2> QED BY <2>4, <2>5, <2>6, <2>7 DEF Sound
<1>5. CASE AssignRole(r)
  <2>1. /\ req'[r] \in Handler
        /\ req'[r].kind = req[r].kind /\ req'[r].user = req[r].user
        /\ req'[r].token = req[r].token /\ req'[r].seen = req[r].seen
        /\ req'[r].email = req[r].email /\ req'[r].phone = req[r].phone
        /\ req'[r].role = req[r].role /\ req'[r].snapshot = req[r].snapshot
        /\ req'[r].rows = req[r].rows /\ req'[r].held = req[r].held
        /\ req'[r].pc = "sweep"
    BY <1>p, <1>5, MovesTo DEF AssignRole
  <2> QED BY <1>0, <1>5, <2>1
      DEF AssignRole, Keeps, Sound, PointOfKind, Holds, Refers, Registering, Sweeping, Issues,
          Committed, Exists, Kind, Ended
<1>6. CASE Sweep(r)
  <2>1. req[r].pc = "sweep" /\ Sweeping(r)
    BY <1>0, <1>6 DEF Sweep, Sound, PointOfKind
  <2> DEFINE found == {t \in Token : token[t] # None /\ token[t].user = req[r].user}
  <2>2. found \subseteq Token /\ \A t \in found : token[t] # None
    OBVIOUS
  <2>3. req'[r] = [req[r] EXCEPT !.pc = "rows", !.snapshot = found, !.rows = found]
    BY <1>6 DEF Sweep, TypeOK
  <2>a. "rows" \in Point /\ found \in SUBSET Token
    BY <2>2 DEF Point
  <2> HIDE DEF found
  <2>4. /\ req'[r] \in Handler
        /\ req'[r].kind = req[r].kind /\ req'[r].user = req[r].user
        /\ req'[r].token = req[r].token /\ req'[r].seen = req[r].seen
        /\ req'[r].email = req[r].email /\ req'[r].phone = req[r].phone
        /\ req'[r].role = req[r].role /\ req'[r].held = req[r].held
        /\ req'[r].rows = found /\ req'[r].snapshot = found /\ req'[r].pc = "rows"
    BY <1>h, <2>a, <2>3 DEF Handler
  <2>5. Keeps(r)
    BY <2>1, <2>4 DEF Keeps, Committed
  <2>6. PointOfKind(r)' /\ Refers(r)'
    BY <1>0, <2>1, <2>4
    DEF Sound, PointOfKind, Refers, Registering, Sweeping, Issues, Committed, Exists, Kind, Ended
  <2>7. Holds(r)'
    BY <1>0, <2>1, <2>2, <2>4 DEF Sound, Holds, Sweeping
  <2> QED BY <2>4, <2>5, <2>6, <2>7 DEF Sound
<1>7. CASE SweepRow(r)
  <2>1. PICK t \in req[r].rows :
            req' = [req EXCEPT ![r].rows = @ \ {t}, ![r].held = @ \cup {t}]
    BY <1>7 DEF SweepRow
  <2>2. req[r].pc = "rows" /\ Sweeping(r)
    BY <1>0, <1>7 DEF SweepRow, Sound, PointOfKind
  <2> DEFINE rows == req[r].rows \ {t}
             held == req[r].held \cup {t}
  <2>3. rows \subseteq Token /\ held \subseteq Token /\ rows \cup held = req[r].snapshot
    BY <1>0, <2>2 DEF Sound, Holds, Handler
  <2>4. req'[r] = [req[r] EXCEPT !.rows = rows, !.held = held]
    BY <2>1 DEF TypeOK
  <2> HIDE DEF rows, held
  <2>5. /\ req'[r] \in Handler
        /\ req'[r].kind = req[r].kind /\ req'[r].user = req[r].user
        /\ req'[r].token = req[r].token /\ req'[r].seen = req[r].seen
        /\ req'[r].email = req[r].email /\ req'[r].phone = req[r].phone
        /\ req'[r].role = req[r].role /\ req'[r].snapshot = req[r].snapshot
        /\ req'[r].pc = req[r].pc /\ req'[r].rows = rows /\ req'[r].held = held
    BY <1>h, <2>3, <2>4 DEF Handler
  <2>6. Keeps(r)
    BY <2>2, <2>5 DEF Keeps, Committed
  <2>7. PointOfKind(r)' /\ Refers(r)'
    BY <1>0, <2>2, <2>5
    DEF Sound, PointOfKind, Refers, Registering, Sweeping, Issues, Committed, Exists, Kind, Ended
  <2>8. \A q \in held \cup req[r].snapshot : token[q] # None
    BY <1>0, <2>3 DEF Sound, Holds
  <2>9. Holds(r)'
    BY <1>0, <2>2, <2>3, <2>5, <2>8 DEF Sound, Holds, Sweeping
  <2> QED BY <2>5, <2>6, <2>7, <2>9 DEF Sound
<1>8. CASE Answer(r)
  <2>1. /\ req'[r] \in Handler
        /\ req'[r].kind = req[r].kind /\ req'[r].user = req[r].user
        /\ req'[r].token = req[r].token /\ req'[r].seen = req[r].seen
        /\ req'[r].email = req[r].email /\ req'[r].phone = req[r].phone
        /\ req'[r].role = req[r].role /\ req'[r].snapshot = req[r].snapshot
        /\ req'[r].rows = req[r].rows /\ req'[r].held = req[r].held
        /\ req'[r].pc = "answered"
    BY <1>p, <1>8, MovesTo DEF Answer
  <2> QED BY <1>0, <1>8, <2>1
      DEF Answer, Keeps, Sound, PointOfKind, Holds, Refers, Registering, Sweeping, Issues,
          Committed, Exists, Kind, Ended
<1>9. CASE Lose(r)
  <2>1. /\ req'[r] \in Handler
        /\ req'[r].kind = req[r].kind /\ req'[r].user = req[r].user
        /\ req'[r].token = req[r].token /\ req'[r].seen = req[r].seen
        /\ req'[r].email = req[r].email /\ req'[r].phone = req[r].phone
        /\ req'[r].role = req[r].role /\ req'[r].snapshot = req[r].snapshot
        /\ req'[r].rows = req[r].rows /\ req'[r].held = req[r].held
        /\ req'[r].pc = "lost"
    BY <1>p, <1>9, MovesTo DEF Lose
  <2> QED BY <1>0, <1>9, <2>1
      DEF Lose, Keeps, Sound, PointOfKind, Holds, Refers, Registering, Sweeping, Issues,
          Committed, Exists, Kind, Ended
<1>10. ~Deadlock(r) /\ ~Die(r)
  BY DEF Deadlock, Die
<1> QED BY <1>1, <1>2, <1>3, <1>4, <1>5, <1>6, <1>7, <1>8, <1>9, <1>10 DEF Plain

(* What a step finds out: a sweep every row there is, a refresh the role of *)
(* its user, a register that nobody has its email or phone number.          *)
Learns(r) ==
    /\ req[r].pc = "sweep" =>
          req'[r].snapshot = {t \in Token : token[t] # None /\ token[t].user = req[r].user}
    /\ req'[r].pc = "rows" => req[r].pc \in {"sweep", "rows"}
    /\ Issues(r) /\ req'[r].pc = "commit" => req'[r].role = account[req[r].user].role
    /\ req[r].kind = "register" /\ req'[r].pc = "commit" =>
          /\ ~TakenEmail(req[r].email) /\ ~TakenPhone(req[r].phone)
          /\ \A q \in Request : q # r => ~Inserting(r, q)

LEMMA StepLearns ==
    ASSUME Inv, NEW r \in Request, Plain(r), ~Send(r), req' # Fail(r)
    PROVE  Learns(r)
<1> USE DEF Inv
<1>0. PointOfKind(r) /\ req[r] \in Handler
  BY DEF Handles, TypeOK
<1>1. CASE CheckEmail(r)
  <2>1. req[r].pc = "email" /\ req'[r].pc = "insert"
    BY <1>0, <1>1 DEF CheckEmail, TypeOK, Handler
  <2> QED BY <2>1 DEF Learns
<1>2. CASE InsertUser(r)
  <2>1. /\ req[r].pc = "insert" /\ req'[r].pc = "commit"
        /\ \A q \in Request : q # r => ~Inserting(r, q)
        /\ ~TakenEmail(req[r].email) /\ ~TakenPhone(req[r].phone)
    BY <1>0, <1>2 DEF InsertUser, TypeOK, Handler
  <2> QED BY <1>0, <2>1 DEF Learns, PointOfKind, Issues
<1>3. CASE Revoke(r)
  <2>1. /\ req[r].pc = "revoke"
        /\ req'[r].pc = IF req[r].kind = "refresh" THEN "user" ELSE "commit"
    BY <1>0, <1>3 DEF Revoke, TypeOK, Handler
  <2> QED BY <1>0, <2>1 DEF Learns, PointOfKind, Issues
<1>4. CASE ReadUser(r)
  <2>1. /\ req[r].pc = "user" /\ req'[r].pc = "commit"
        /\ req'[r].role = account[req[r].user].role
    BY <1>0, <1>4 DEF ReadUser, TypeOK, Handler
  <2> QED BY <1>0, <2>1 DEF Learns, PointOfKind
<1>5. CASE AssignRole(r)
  <2>1. req[r].pc = "assign" /\ req'[r].pc = "sweep"
    BY <1>0, <1>5 DEF AssignRole, TypeOK, Handler
  <2> QED BY <2>1 DEF Learns
<1>6. CASE Sweep(r)
  <2> DEFINE found == {t \in Token : token[t] # None /\ token[t].user = req[r].user}
  <2>1. req[r].pc = "sweep" /\ req' = [req EXCEPT ![r].pc = "rows", ![r].snapshot = found, ![r].rows = found]
    BY <1>6 DEF Sweep
  <2> HIDE DEF found
  <2>2. req'[r].pc = "rows" /\ req'[r].snapshot = found
    BY <1>0, <2>1 DEF TypeOK, Handler
  <2> QED BY <2>1, <2>2 DEF Learns, found
<1>7. CASE SweepRow(r)
  <2>1. req[r].pc = "rows" /\ req'[r].pc = "rows"
    BY <1>0, <1>7 DEF SweepRow, TypeOK, Handler
  <2> QED BY <2>1 DEF Learns
<1>8. CASE Answer(r) \/ Lose(r)
  <2>1. req[r].pc = "ok" /\ req'[r].pc \in {"answered", "lost"}
    BY <1>0, <1>8 DEF Answer, Lose, TypeOK, Handler
  <2> QED BY <2>1 DEF Learns
<1>9. ~Deadlock(r) /\ ~Die(r)
  BY DEF Deadlock, Die
<1> QED BY <1>1, <1>2, <1>3, <1>4, <1>5, <1>6, <1>7, <1>8, <1>9 DEF Plain

(* A plain step begins a request, ends one that left nothing, or goes on.   *)
LEMMA PlainStep ==
    ASSUME Inv, NEW r \in Request, Plain(r)
    PROVE  /\ UNCHANGED <<account, token>>
           /\ \A q \in Request : q # r => req'[q] = req[q]
           /\ Sound(r)'
           /\ (~Committed(r) /\ Begun(r)') \/ (Keeps(r) /\ Learns(r))
<1>1. /\ UNCHANGED <<account, token>>
      /\ \A q \in Request : q # r => req'[q] = req[q]
  BY PlainFrame DEF Inv
<1>2. CASE Send(r)
  <2>1. req[r].pc = "idle"
    BY <1>2 DEF Send, Register, Login, Refresh, Logout, LogoutAll, UpdateRole, Start, Refuse
  <2> QED BY <1>1, <1>2, <2>1, SendSound DEF Committed
<1>3. CASE ~Send(r) /\ req' = Fail(r)
  <2>1. ~Committed(r)
    <3>1. CASE CheckEmail(r) \/ InsertUser(r) \/ Revoke(r) \/ ReadUser(r) \/ AssignRole(r)
               \/ Sweep(r) \/ SweepRow(r) \/ Deadlock(r) \/ Die(r)
      BY <3>1 DEF CheckEmail, InsertUser, Revoke, ReadUser, AssignRole, Sweep, SweepRow,
                  Deadlock, Die, Committed, Ended
    <3>2. CASE Answer(r) \/ Lose(r)
      <4>1. req'[r].pc \in {"answered", "lost"}
        BY <3>2 DEF Answer, Lose, Inv, TypeOK, Handler
      <4> QED BY <1>3, <4>1, FailMakes DEF Inv
    <3> QED BY <1>3, <3>1, <3>2 DEF Plain
  <2> QED BY <1>1, <1>3, <2>1, FailSound DEF Inv
<1>4. CASE ~Send(r) /\ req' # Fail(r)
  BY <1>1, <1>4, StepSound, StepLearns
<1> QED BY <1>2, <1>3, <1>4

LEMMA OtherSound ==
    ASSUME Inv, NEW q \in Request, req'[q] = req[q], UNCHANGED <<account, token>>
    PROVE  Sound(q)'
BY DEF Inv, Handles, TypeOK, Sound, PointOfKind, Holds, Refers, Registering, Sweeping, Issues,
       Committed, Exists
-----------------------------------------------------------------------------
(* Plain steps preserve every part of the invariant.                       *)

LEMMA HeldApart ==
    ASSUME Inv, NEW r \in Request, Plain(r)
    PROVE  \A q \in Request : q # r => req'[q].held \cap req'[r].held = {}
<1> USE DEF Inv
<1> SUFFICES ASSUME NEW q \in Request, q # r PROVE req[q].held \cap req'[r].held = {}
  BY PlainStep
<1>1. req[r] \in Handler /\ req[q].held \cap req[r].held = {}
  BY DEF TypeOK
<1>2. CASE Send(r) \/ req' = Fail(r)
  BY <1>2, SendSound, FailMakes DEF Begun
<1>3. CASE Revoke(r)
  <2>1. req'[r].held = {req[r].token}
    BY <1>1, <1>3 DEF Revoke, TypeOK, Handler
  <2> QED BY <1>3, <2>1 DEF Revoke, Locked
<1>4. CASE SweepRow(r)
  <2>1. PICK t \in req[r].rows :
            /\ req' = [req EXCEPT ![r].rows = @ \ {t}, ![r].held = @ \cup {t}]
            /\ ~Locked(t, r)
    BY <1>4 DEF SweepRow
  <2>2. req'[r].held = req[r].held \cup {t}
    BY <1>1, <2>1 DEF TypeOK, Handler
  <2> QED BY <1>1, <2>1, <2>2 DEF Locked
<1>5. CASE CheckEmail(r) \/ InsertUser(r) \/ ReadUser(r) \/ AssignRole(r)
           \/ Answer(r) \/ Lose(r) \/ Deadlock(r) \/ Die(r)
  <2>1. req' = Fail(r) \/ req'[r].held = req[r].held
    BY <1>1, <1>5 DEF CheckEmail, InsertUser, ReadUser, AssignRole, Answer, Lose,
                      Deadlock, Die, TypeOK, Handler
  <2> QED BY <1>1, <1>2, <2>1
<1>6. CASE Sweep(r)
  <2> DEFINE found == {t \in Token : token[t] # None /\ token[t].user = req[r].user}
  <2>1. req' = [req EXCEPT ![r].pc = "rows", ![r].snapshot = found, ![r].rows = found]
    BY <1>6 DEF Sweep
  <2> HIDE DEF found
  <2>2. req'[r].held = req[r].held
    BY <1>1, <2>1 DEF TypeOK, Handler
  <2> QED BY <1>1, <2>2
<1> QED BY <1>2, <1>3, <1>4, <1>5, <1>6 DEF Plain

LEMMA JarHasTokens ==
    ASSUME Inv, NEW r \in Request, Plain(r)
    PROVE  jar' \in [Browser -> {t \in Token : token[t] # None} \cup {None}]
<1> USE DEF Inv
<1> DEFINE there == {t \in Token : token[t] # None} \cup {None}
<1>1. jar \in [Browser -> there]
  BY DEF TypeOK
<1>2. CASE Answer(r)
  <2>1. Issues(r) => r \in there
    BY <1>2 DEF Answer, Issued, Committed, Token
  <2>2. None \in there
    OBVIOUS
  <2> HIDE DEF there
  <2>3. \/ Issues(r) /\ jar' = [jar EXCEPT ![req[r].browser] = r]
        \/ jar' = [jar EXCEPT ![req[r].browser] = None]
        \/ jar' = jar
    BY <1>2 DEF Answer
  <2>5. jar' \in [Browser -> there]
    BY <1>1, <2>1, <2>2, <2>3
  <2> QED BY <2>5 DEF there
<1>3. CASE ~Answer(r)
  <2>1. jar' = jar
    BY <1>3 DEF Plain, Send, Register, CheckEmail, InsertUser, Login, Refresh, Revoke, ReadUser,
         Logout, LogoutAll, UpdateRole, AssignRole, Sweep, SweepRow, Deadlock, Lose, Die
  <2> QED BY <1>1, <2>1
<1> QED BY <1>2, <1>3

LEMMA PlainInv ==
    ASSUME Inv, NEW r \in Request, Plain(r)
    PROVE  Inv'
<1>1. /\ UNCHANGED <<account, token>>
      /\ \A q \in Request : q # r => req'[q] = req[q]
      /\ Sound(r)'
      /\ (~Committed(r) /\ Begun(r)') \/ (Keeps(r) /\ Learns(r))
  BY PlainStep
<1>2. \A q \in Request : Sound(q)'
  BY <1>1, OtherSound
<1>3. Handles'
  BY <1>2 DEF Handles, Sound
<1>4. req' \in [Request -> Handler]
  <2>1. req' = [q \in Request |-> req'[q]]
    BY DEF Inv, TypeOK, Plain, Send, Register, CheckEmail, InsertUser, Login, Refresh, Revoke,
       ReadUser, Logout, LogoutAll, UpdateRole, AssignRole, Sweep, SweepRow, Deadlock, Answer,
       Lose, Die, Start, Refuse, Fail
  <2> QED BY <1>2, <2>1 DEF Sound
<1>5. TypeOK'
  <2>1. \A p, q \in Request : p # q => req'[p].held \cap req'[q].held = {}
    BY <1>1, HeldApart DEF Inv, TypeOK
  <2>2. \A q \in Request : req'[q].pc \in Ended => req'[q].held = {}
    BY <1>3 DEF Handles, Holds, Ended
  <2> QED BY <1>1, <1>4, <2>1, <2>2, JarHasTokens DEF Inv, TypeOK
<1>6. Issued'
  <2>1. \A q \in Request : Committed(q) => /\ Committed(q)' /\ req'[q].kind = req[q].kind
                                          /\ req'[q].user = req[q].user
    BY <1>1 DEF Keeps, Committed
  <2>2. \A q \in Request : Committed(q)' => Committed(q) /\ req'[q].kind = req[q].kind
    BY <1>1 DEF Keeps, Begun, Committed
  <2> QED BY <1>1, <2>1, <2>2 DEF Inv, Issued, Issues, Exists
<1> QED BY <1>3, <1>5, <1>6 DEF Inv

LEMMA PlainUnique ==
    ASSUME Inv, Unique, NEW r \in Request, Plain(r)
    PROVE  Unique'
<1>1. /\ UNCHANGED <<account, token>>
      /\ \A q \in Request : q # r => req'[q] = req[q]
      /\ Sound(r)'
      /\ (~Committed(r) /\ Begun(r)') \/ (Keeps(r) /\ Learns(r))
  BY PlainStep
<1>2. ASSUME Keeps(r), Registering(r)' PROVE Registering(r)
  <2>1. req[r].kind = "register" /\ (Committed(r) <=> req'[r].pc \in {"ok", "answered", "lost"})
    BY <1>2 DEF Keeps, Registering, Committed
  <2>2. ~Committed(r)
    BY <1>2, <2>1 DEF Registering
  <2>3. PointOfKind(r) /\ req[r].pc \in Point
    BY DEF Inv, Handles, TypeOK, Handler
  <2>4. req[r].pc \in {"email", "insert", "commit"}
    BY <2>1, <2>2, <2>3, SessionsAssumption
    DEF PointOfKind, Sweeping, Point, Ended, Committed, Kind
  <2> QED BY <2>1, <2>4 DEF Registering
<1>3. IdentifiersUnique'
  BY <1>1 DEF Unique, IdentifiersUnique, Exists
<1>4. Free'
  <2> SUFFICES ASSUME NEW q \in Request, Registering(q)', req'[q].pc = "commit"
               PROVE  ~TakenEmail(req'[q].email) /\ ~TakenPhone(req'[q].phone)
    BY <1>1 DEF Free, TakenEmail, TakenPhone, Exists
  <2>1. CASE q # r
    BY <1>1, <2>1 DEF Unique, Free, Registering
  <2>2. CASE q = r
    BY <1>1, <2>2 DEF Learns, Keeps, Begun, Registering
  <2> QED BY <2>1, <2>2
<1>5. Apart'
  <2> SUFFICES ASSUME NEW q \in Request, q # r, Registering(q), Registering(r)'
               PROVE  /\ req'[r].user # req[q].user
                      /\ req[q].pc = "commit" /\ req'[r].pc = "commit" =>
                            req[q].email # req'[r].email /\ req[q].phone # req'[r].phone
    BY <1>1 DEF Unique, Apart, Registering
  <2>1. CASE Begun(r)'
    BY <1>1, <2>1 DEF Begun
  <2>2. CASE Keeps(r) /\ Learns(r)
    <3>1. Registering(r)
      BY <1>2, <2>2
    <3>2. req'[r].user # req[q].user
      BY <2>2, <3>1 DEF Unique, Apart, Keeps
    <3>3. ASSUME req[q].pc = "commit", req'[r].pc = "commit"
          PROVE  req[q].email # req'[r].email /\ req[q].phone # req'[r].phone
      BY <2>2, <3>1, <3>3 DEF Keeps, Learns, Inserting, Registering
    <3> QED BY <3>2, <3>3
  <2> QED BY <1>1, <2>1, <2>2
<1> QED BY <1>3, <1>4, <1>5 DEF Unique

LEMMA PlainPast ==
    ASSUME Inv, Past, NEW r \in Request, Plain(r)
    PROVE  Past'
<1>1. /\ UNCHANGED <<account, token>>
      /\ \A q \in Request : q # r => req'[q] = req[q]
      /\ Sound(r)'
      /\ (~Committed(r) /\ Begun(r)') \/ (Keeps(r) /\ Learns(r))
  BY PlainStep
<1>2. \A q \in Request : Committed(q) =>
          /\ Committed(q)' /\ UNCHANGED <<req[q].kind, req[q].token, req[q].snapshot>>
  BY <1>1 DEF Keeps, Committed
<1>3. \A q \in Request : Committed(q)' => Committed(q)
  BY <1>1 DEF Keeps, Begun, Committed
<1>4. SeenCommitted'
  <2> SUFFICES ASSUME NEW x \in Request, NEW q \in req'[x].seen PROVE Committed(q)'
    BY DEF SeenCommitted
  <2>1. CASE x # r \/ Keeps(r)
    <3>1. req'[x].seen = req[x].seen
      BY <1>1, <2>1 DEF Keeps
    <3>2. q \in Request /\ Committed(q)
      BY <3>1 DEF Past, SeenCommitted, Inv, TypeOK, Handler
    <3> QED BY <1>2, <3>2
  <2>2. CASE x = r /\ Begun(r)'
    BY <1>1, <2>2 DEF Begun
  <2> QED BY <1>1, <2>1, <2>2
<1>5. Revoked'
  <2> SUFFICES ASSUME NEW q \in Request, Committed(q)'
               PROVE  /\ req'[q].kind = "refresh" => token[req'[q].token].revoked
                      /\ Sweeping(q)' => \A t \in req'[q].snapshot : token[t].revoked
    BY <1>1 DEF Revoked
  <2>1. Committed(q) /\ UNCHANGED <<req[q].kind, req[q].token, req[q].snapshot>>
    BY <1>2, <1>3
  <2> QED BY <2>1 DEF Past, Revoked, Sweeping
<1>6. NotReused'
  <2> SUFFICES ASSUME NEW x \in Request, req'[x].kind = "refresh", NEW q \in req'[x].seen
               PROVE  /\ req'[q].kind = "refresh" => req'[q].token # req'[x].token
                      /\ Sweeping(q)' => req'[x].token \notin req'[q].snapshot
    BY DEF NotReused
  <2>1. q \in Request /\ Committed(q)'
    BY <1>1, <1>4, OtherSound DEF SeenCommitted, Sound, Handler, Inv, Handles
  <2>2. CASE x # r \/ Keeps(r)
    <3>1. UNCHANGED <<req[x].kind, req[x].token, req[x].seen>>
      BY <1>1, <2>2 DEF Keeps
    <3>2. q \in req[x].seen
      BY <3>1
    <3> QED BY <1>2, <1>3, <2>1, <3>1, <3>2 DEF Past, NotReused, Sweeping
  <2>3. CASE x = r /\ Begun(r)'
    <3>1. ~token[req'[x].token].revoked
      BY <1>1, <2>3 DEF Begun, Live
    <3> QED BY <1>1, <1>5, <2>1, <3>1 DEF Revoked
  <2> QED BY <1>1, <2>2, <2>3
<1> QED BY <1>4, <1>5, <1>6 DEF Past

LEMMA PlainSweepSees ==
    ASSUME Inv, Past, SweepSees, NEW r \in Request, Plain(r)
    PROVE  SweepSees'
<1>1. /\ UNCHANGED <<account, token>>
      /\ \A q \in Request : q # r => req'[q] = req[q]
      /\ (~Committed(r) /\ Begun(r)') \/ (Keeps(r) /\ Learns(r))
  BY PlainStep
<1> SUFFICES ASSUME NEW x \in Request, Sweeping(x)', req'[x].pc = "rows" \/ Committed(x)',
                    NEW t \in Seed \cup req'[x].seen,
                    token[t] # None, token[t].user = req'[x].user
             PROVE  t \in req'[x].snapshot
  BY <1>1 DEF SweepSees
<1>2. CASE x # r
  BY <1>1, <1>2 DEF SweepSees, Sweeping, Committed
<1>3. CASE x = r /\ Begun(r)'
  BY <1>3 DEF Begun
<1>4. CASE x = r /\ Keeps(r) /\ Learns(r)
  <2>1. UNCHANGED <<req[r].kind, req[r].user, req[r].seen>>
    BY <1>4 DEF Keeps
  <2>2. CASE req[r].pc = "sweep"
    <3>1. t \in Token
      BY <1>4, <2>1 DEF Inv, TypeOK, Handler, Token
    <3> QED BY <1>4, <2>1, <2>2, <3>1 DEF Learns
  <2>3. CASE req[r].pc # "sweep"
    <3>1. req[r].pc = "rows" \/ Committed(r)
      BY <1>4, <2>3 DEF Keeps, Learns
    <3>2. req'[r].snapshot = req[r].snapshot
      BY <1>4, <2>3 DEF Keeps
    <3> QED BY <1>4, <2>1, <3>1, <3>2 DEF SweepSees, Sweeping
  <2> QED BY <2>2, <2>3
<1> QED BY <1>1, <1>2, <1>3, <1>4

LEMMA PlainCarries ==
    ASSUME Inv, Past, Carries, NEW r \in Request, Plain(r)
    PROVE  Carries'
<1>1. /\ UNCHANGED <<account, token>>
      /\ \A q \in Request : q # r => req'[q] = req[q]
      /\ (~Committed(r) /\ Begun(r)') \/ (Keeps(r) /\ Learns(r))
  BY PlainStep
<1>2. ASSUME NEW t, NEW u, Overlapped(t, u), t # r \/ Keeps(r)
      PROVE  Overlapped(t, u)'
  <2>1. t \in Request /\ req'[t].seen = req[t].seen
    BY <1>1, <1>2 DEF Overlapped, Keeps
  <2>2. PICK q \in Request : /\ Committed(q) /\ req[q].kind = "role" /\ req[q].user = u
                             /\ ~After(t, q) /\ ~After(q, t)
    BY <1>2 DEF Overlapped
  <2>3. /\ Committed(q)' /\ req'[q].kind = "role" /\ req'[q].user = u
        /\ req'[q].seen = req[q].seen
    BY <1>1, <2>2 DEF Keeps, Committed
  <2> QED BY <2>1, <2>2, <2>3 DEF Overlapped, After
<1>3. ASSUME NEW q \in Request, Issues(q)', req'[q].pc = "commit", NEW u, u = req'[q].user
      PROVE  req'[q].role = account[u].role \/ Overlapped(q, u)'
  <2>1. CASE q # r
    <3>1. req[q].role = account[u].role \/ Overlapped(q, u)
      BY <1>1, <1>3, <2>1 DEF Carries, Issues, Overlapped
    <3> QED BY <1>1, <1>2, <2>1, <3>1
  <2>2. CASE q = r /\ Begun(r)'
    BY <1>1, <1>3, <2>2 DEF Begun
  <2>3. CASE q = r /\ Keeps(r) /\ Learns(r)
    BY <1>3, <2>3 DEF Keeps, Learns, Issues
  <2> QED BY <1>1, <2>1, <2>2, <2>3
<1>4. ASSUME NEW t \in Token, Live(t)', NEW u, u = token[t].user
      PROVE  token[t].role = account[u].role \/ Overlapped(t, u)'
  <2>1. Live(t)
    BY <1>1, <1>4 DEF Live
  <2>2. CASE token[t].role = account[u].role
    BY <2>2
  <2>3. CASE Overlapped(t, u)
    <3>1. Committed(t)
      BY <2>1, <2>3 DEF Overlapped, Inv, Issued, Live
    <3> QED BY <1>1, <1>2, <2>3, <3>1
  <2> QED BY <1>4, <2>1, <2>2, <2>3 DEF Carries, Overlapped
<1> QED BY <1>1, <1>3, <1>4 DEF Carries, Overlapped
-----------------------------------------------------------------------------
(* What a commit does to the rows of users and of refresh tokens.          *)

Ready(r) == req[r].pc = "commit" \/ (req[r].pc = "rows" /\ req[r].rows = {})

LEMMA CommitRequest ==
    ASSUME Inv, NEW r \in Request, Commit(r)
    PROVE  /\ Ready(r) /\ ~Committed(r) /\ req[r].kind \in Kind
           /\ req' \in [Request -> Handler]
           /\ \A q \in Request : q # r => req'[q] = req[q]
           /\ req'[r].pc = "ok"
           /\ req'[r].held = {} /\ req'[r].rows = {}
           /\ UNCHANGED <<req[r].kind, req[r].user, req[r].token, req[r].snapshot, req[r].seen,
                          req[r].browser>>
<1> DEFINE closed == [Idle EXCEPT !.pc = "ok", !.kind = req[r].kind, !.browser = req[r].browser,
                                  !.user = req[r].user, !.token = req[r].token,
                                  !.snapshot = req[r].snapshot, !.seen = req[r].seen]
<1>1. req[r] \in Handler /\ PointOfKind(r) /\ req \in [Request -> Handler]
  BY DEF Inv, TypeOK, Handles
<1>2. /\ closed \in Handler
      /\ closed.pc = "ok" /\ closed.held = {} /\ closed.rows = {}
      /\ closed.kind = req[r].kind /\ closed.user = req[r].user /\ closed.token = req[r].token
      /\ closed.snapshot = req[r].snapshot /\ closed.seen = req[r].seen
      /\ closed.browser = req[r].browser
  BY <1>1 DEF Handler, Idle, Point
<1>3. req' = [req EXCEPT ![r] = closed]
  BY DEF Commit, Close
<1>4. Ready(r)
  BY DEF Commit, Ready
<1>5. ~Committed(r) /\ req[r].kind \in Kind
  BY <1>1, <1>4 DEF Ready, PointOfKind, Sweeping, Committed, Kind
<1> HIDE DEF closed
<1> QED BY <1>1, <1>2, <1>3, <1>4, <1>5

(* A row that is there stays, of the same user and with the same role, and  *)
(* a revoked one stays revoked; the only new row is the one r issues.       *)
LEMMA CommitTokens ==
    ASSUME Inv, NEW r \in Request, Commit(r)
    PROVE  /\ token' \in [Token -> Session \cup {None}]
           /\ \A t \in Token : token[t] # None =>
                 /\ token'[t] # None
                 /\ token'[t].user = token[t].user /\ token'[t].role = token[t].role
                 /\ token[t].revoked => token'[t].revoked
           /\ \A t \in Token : token[t] = None /\ token'[t] # None => t = r /\ Issues(r)
           /\ \A t \in req[r].held : token'[t].revoked
           /\ token[r] = None
           /\ Issues(r) => token'[r] = [user |-> req[r].user, role |-> req[r].role, revoked |-> FALSE]
<1>1. /\ Ready(r) /\ ~Committed(r) /\ req[r].kind \in Kind
      /\ PointOfKind(r) /\ Holds(r) /\ Refers(r) /\ req[r] \in Handler
  BY CommitRequest DEF Inv, Handles, TypeOK
<1>2. token \in [Token -> Session \cup {None}] /\ r \in Token
  BY DEF Inv, TypeOK, Token
<1>3. token[r] = None
  BY <1>1, <1>2 DEF Inv, Issued
<1>4. \A t \in req[r].held : t \in Token /\ token[t] # None /\ t # r
  BY <1>1, <1>3 DEF Holds, Handler
<1> DEFINE new == [user |-> req[r].user, role |-> req[r].role, revoked |-> FALSE]
           off(t) == [token[t] EXCEPT !.revoked = TRUE]
<1>5. Issues(r) => new \in Session
  <2>1. Issues(r) => req[r].pc = "commit" /\ req[r].user \in User /\ req[r].role \in Role
    BY <1>1 DEF Issues, Ready, PointOfKind, Sweeping, Refers, Kind
  <2> QED BY <2>1 DEF Session
<1>6. \A t \in req[r].held : /\ off(t) \in Session /\ off(t).revoked
                            /\ off(t).user = token[t].user /\ off(t).role = token[t].role
  BY <1>2, <1>4 DEF Session
<1>7. \A x \in Session : x # None
  BY SessionsAssumption
<1>8. token' = [t \in Token |-> IF t = r /\ Issues(r) THEN new
                               ELSE IF t \in req[r].held THEN off(t) ELSE token[t]]
  BY DEF Commit
<1> HIDE DEF new, off
<1>9. token' \in [Token -> Session \cup {None}]
  BY <1>2, <1>5, <1>6, <1>8
<1>10. ASSUME NEW t \in Token, token[t] # None
       PROVE  /\ token'[t] # None
              /\ token'[t].user = token[t].user /\ token'[t].role = token[t].role
              /\ token[t].revoked => token'[t].revoked
  BY <1>3, <1>6, <1>7, <1>8, <1>10
<1>11. ASSUME NEW t \in Token, token[t] = None, token'[t] # None
       PROVE  t = r /\ Issues(r)
  BY <1>4, <1>8, <1>11
<1>12. \A t \in req[r].held : token'[t].revoked
  BY <1>4, <1>6, <1>8
<1>13. Issues(r) => token'[r] = new
  BY <1>2, <1>8
<1> QED BY <1>3, <1>9, <1>10, <1>11, <1>12, <1>13 DEF new

(* An account stays, with its email and phone number; its role is changed   *)
(* by the commit of update_user_role only.                                  *)
LEMMA CommitAccounts ==
    ASSUME Inv, NEW r \in Request, Commit(r),
           req[r].kind = "register" => ~Exists(req[r].user)
    PROVE  /\ account' \in [User -> Account \cup {None}]
           /\ \A u \in User : Exists(u) =>
                 /\ account'[u] # None
                 /\ account'[u].email = account[u].email /\ account'[u].phone = account[u].phone
                 /\ account'[u].role # account[u].role => /\ req[r].kind = "role"
                                                         /\ u = req[r].user
           /\ \A u \in User : ~Exists(u) /\ account'[u] # None =>
                 /\ req[r].kind = "register" /\ req[r].pc = "commit" /\ u = req[r].user
                 /\ account'[u].email = req[r].email /\ account'[u].phone = req[r].phone
<1>1. /\ Ready(r) /\ ~Committed(r) /\ req[r].kind \in Kind
      /\ PointOfKind(r) /\ Refers(r) /\ req[r] \in Handler
  BY CommitRequest DEF Inv, Handles, TypeOK
<1>2. account \in [User -> Account \cup {None}]
  BY DEF Inv, TypeOK
<1>3. \A x \in Account : x # None
  BY SessionsAssumption
<1>4. CASE req[r].kind = "register"
  <2> DEFINE new == [email |-> req[r].email, phone |-> req[r].phone, role |-> DefaultRole]
  <2>1. req[r].pc = "commit"
    BY <1>1, <1>4 DEF Ready, PointOfKind, Sweeping
  <2>2. /\ new \in Account /\ req[r].user \in User
        /\ new.email = req[r].email /\ new.phone = req[r].phone
    BY <1>1, <1>4, <2>1, SessionsAssumption DEF Refers, Registering, Account
  <2>3. account' = [account EXCEPT ![req[r].user] = new]
    BY <1>4 DEF Commit
  <2> HIDE DEF new
  <2> QED BY <1>2, <1>3, <1>4, <2>1, <2>2, <2>3 DEF Exists
<1>5. CASE req[r].kind = "role" /\ req[r].role # None
  <2>1. req[r].user \in User /\ Exists(req[r].user) /\ req[r].role \in Role
    BY <1>1, <1>5 DEF Refers, Handler, Kind
  <2> DEFINE new == [account[req[r].user] EXCEPT !.role = req[r].role]
  <2>2. /\ new \in Account
        /\ new.email = account[req[r].user].email /\ new.phone = account[req[r].user].phone
    BY <1>2, <2>1 DEF Exists, Account
  <2>3. account' = [account EXCEPT ![req[r].user] = new]
    BY <1>5, <2>1 DEF Commit
  <2> HIDE DEF new
  <2> QED BY <1>2, <1>3, <1>5, <2>1, <2>2, <2>3 DEF Exists
<1>6. CASE req[r].kind # "register" /\ ~(req[r].kind = "role" /\ req[r].role # None)
  <2>1. account' = account
    BY <1>6 DEF Commit
  <2> QED BY <1>2, <2>1 DEF Exists
<1> QED BY <1>4, <1>5, <1>6
-----------------------------------------------------------------------------
(* The commit preserves every part of the invariant.                       *)

LEMMA CommitFresh ==
    ASSUME Inv, Unique, NEW r \in Request, Ready(r), req[r].kind = "register"
    PROVE  /\ Registering(r) /\ req[r].pc = "commit"
           /\ req[r].user \in User /\ ~Exists(req[r].user)
           /\ ~TakenEmail(req[r].email) /\ ~TakenPhone(req[r].phone)
<1>1. PointOfKind(r) /\ Refers(r)
  BY DEF Inv, Handles
<1>2. Registering(r) /\ req[r].pc = "commit"
  BY <1>1 DEF Ready, PointOfKind, Sweeping, Registering
<1> QED BY <1>1, <1>2 DEF Refers, Unique, Free

LEMMA CommitInv ==
    ASSUME Inv, Unique, NEW r \in Request, Commit(r)
    PROVE  Inv'
<1>1. /\ Ready(r) /\ ~Committed(r) /\ req[r].kind \in Kind
      /\ req' \in [Request -> Handler]
      /\ \A q \in Request : q # r => req'[q] = req[q]
      /\ req'[r].pc = "ok" /\ req'[r].held = {} /\ req'[r].rows = {}
      /\ UNCHANGED <<req[r].kind, req[r].user, req[r].token, req[r].snapshot, req[r].seen>>
  BY CommitRequest
<1>2. req[r].kind = "register" => ~Exists(req[r].user)
  BY <1>1, CommitFresh
<1>3. /\ account' \in [User -> Account \cup {None}]
      /\ \A u \in User : Exists(u) => account'[u] # None
      /\ \A u \in User : ~Exists(u) /\ account'[u] # None =>
            req[r].kind = "register" /\ req[r].pc = "commit" /\ u = req[r].user
  BY <1>2, CommitAccounts
<1>4. /\ token' \in [Token -> Session \cup {None}]
      /\ \A t \in Token : token[t] # None =>
            token'[t] # None /\ token'[t].user = token[t].user
      /\ \A t \in Token : token[t] = None /\ token'[t] # None => t = r /\ Issues(r)
      /\ Issues(r) => token'[r] = [user |-> req[r].user, role |-> req[r].role, revoked |-> FALSE]
      /\ token[r] = None
  BY CommitTokens
<1>5. ASSUME NEW q \in Request
      PROVE  PointOfKind(q)' /\ Holds(q)' /\ Refers(q)'
  <2>1. /\ PointOfKind(q) /\ Holds(q) /\ Refers(q)
        /\ req[q].held \subseteq Token /\ req[q].snapshot \subseteq Token
    BY DEF Inv, Handles, TypeOK, Handler
  <2>2. CASE q = r
    <3>1. PointOfKind(q)'
      BY <1>1, <2>2 DEF PointOfKind, Committed
    <3>2. Holds(q)'
      BY <1>1, <1>4, <2>1, <2>2 DEF Holds, Sweeping
    <3>3. ~Registering(q)'
      BY <1>1, <2>2 DEF Registering
    <3>4. Refers(q)'
      BY <1>1, <1>3, <1>4, <2>1, <2>2, <3>3 DEF Refers, Exists, Issues
    <3> QED BY <3>1, <3>2, <3>4
  <2>3. CASE q # r
    <3>1. req'[q] = req[q]
      BY <1>1, <2>3
    <3>2. PointOfKind(q)'
      BY <2>1, <3>1 DEF PointOfKind, Committed, Sweeping
    <3>3. Holds(q)'
      BY <1>4, <2>1, <3>1 DEF Holds, Sweeping
    <3>4. Registering(q) => account'[req[q].user] = None
      <4> SUFFICES ASSUME Registering(q), account'[req[q].user] # None PROVE FALSE
        OBVIOUS
      <4>1. req[r].kind = "register" /\ req[r].pc = "commit" /\ req[q].user = req[r].user
        BY <1>3, <2>1 DEF Refers
      <4> QED BY <2>3, <4>1 DEF Unique, Apart, Registering
    <3>5. Refers(q)'
      BY <1>3, <1>4, <2>1, <3>1, <3>4 DEF Refers, Exists, Registering, Issues
    <3> QED BY <3>2, <3>3, <3>5
  <2> QED BY <2>2, <2>3
<1>6. Handles'
  BY <1>5 DEF Handles
<1>7. TypeOK'
  <2> DEFINE there == {t \in Token : token[t] # None} \cup {None}
             then == {t \in Token : token'[t] # None} \cup {None}
  <2>1. jar \in [Browser -> there] /\ jar' = jar /\ there \subseteq then
    BY <1>4 DEF Inv, TypeOK, Commit
  <2>2. jar' \in [Browser -> then]
    <3> HIDE DEF there, then
    <3> QED BY <2>1
  <2>3. \A p, q \in Request : p # q => req'[p].held \cap req'[q].held = {}
    BY <1>1 DEF Inv, TypeOK
  <2>4. \A q \in Request : req'[q].pc \in Ended => req'[q].held = {}
    BY <1>1 DEF Inv, TypeOK
  <2> QED BY <1>1, <1>3, <1>4, <2>2, <2>3, <2>4 DEF TypeOK
<1>8. Issued'
  <2>1. \A q \in Request : Committed(q) => Committed(q)' /\ req'[q] = req[q]
    BY <1>1 DEF Committed
  <2>2. ASSUME NEW t \in Token, token'[t] # None
        PROVE  /\ account'[token'[t].user] # None
               /\ t \in Request => Committed(t)' /\ Issues(t)' /\ token'[t].user = req'[t].user
    <3>1. CASE token[t] # None
      <4>1. token'[t].user = token[t].user /\ token[t].user \in User /\ Exists(token[t].user)
        BY <1>4, <3>1 DEF Inv, TypeOK, Session, Issued
      <4>2. t \in Request => Committed(t) /\ Issues(t) /\ token[t].user = req[t].user
        BY <3>1 DEF Inv, Issued
      <4> QED BY <1>3, <2>1, <4>1, <4>2 DEF Issues
    <3>2. CASE token[t] = None
      <4>1. t = r /\ Issues(r) /\ token'[r].user = req[r].user
        BY <1>4, <2>2, <3>2
      <4>2. req[r].user \in User /\ Exists(req[r].user)
        BY <1>1, <4>1 DEF Inv, Handles, Refers, Issues
      <4> QED BY <1>1, <1>3, <4>1, <4>2 DEF Issues, Committed
    <3> QED BY <3>1, <3>2
  <2>3. ASSUME NEW q \in Request, Committed(q)', Issues(q)' PROVE token'[q] # None
    <3>1. CASE q = r
      <4>1. Issues(r) /\ r \in Token
        BY <1>1, <2>3, <3>1 DEF Issues, Token
      <4>2. [user |-> req[r].user, role |-> req[r].role, revoked |-> FALSE] \in Session
        BY <1>1, <4>1 DEF Issues, Inv, Handles, Refers, Ready, PointOfKind, Sweeping, Session
      <4> QED BY <1>4, <3>1, <4>1, <4>2, SessionsAssumption
    <3>2. CASE q # r
      <4>1. Committed(q) /\ Issues(q) /\ q \in Token
        BY <1>1, <2>3, <3>2 DEF Committed, Issues, Token
      <4> QED BY <1>4, <4>1 DEF Inv, Issued
    <3> QED BY <3>1, <3>2
  <2> QED BY <2>2, <2>3 DEF Issued, Exists
<1> QED BY <1>6, <1>7, <1>8 DEF Inv

LEMMA CommitUnique ==
    ASSUME Inv, Unique, NEW r \in Request, Commit(r)
    PROVE  Unique'
<1>1. /\ Ready(r)
      /\ \A q \in Request : q # r => req'[q] = req[q]
      /\ req'[r].pc = "ok"
  BY CommitRequest
<1>2. req[r].kind = "register" =>
          /\ Registering(r) /\ req[r].pc = "commit" /\ req[r].user \in User
          /\ ~Exists(req[r].user) /\ ~TakenEmail(req[r].email) /\ ~TakenPhone(req[r].phone)
  BY <1>1, CommitFresh
<1>3. /\ \A u \in User : Exists(u) =>
            account'[u].email = account[u].email /\ account'[u].phone = account[u].phone
      /\ \A u \in User : ~Exists(u) /\ account'[u] # None =>
            /\ req[r].kind = "register" /\ u = req[r].user
            /\ account'[u].email = req[r].email /\ account'[u].phone = req[r].phone
  BY <1>2, CommitAccounts
<1>4. IdentifiersUnique'
  <2> SUFFICES ASSUME NEW u \in User, NEW v \in User, u # v, account'[u] # None, account'[v] # None
               PROVE  account'[u].email # account'[v].email /\ account'[u].phone # account'[v].phone
    BY DEF IdentifiersUnique, Exists
  <2>1. CASE Exists(u) /\ Exists(v)
    BY <1>3, <2>1 DEF Unique, IdentifiersUnique
  <2>2. CASE Exists(u) /\ ~Exists(v)
    BY <1>2, <1>3, <2>2 DEF TakenEmail, TakenPhone
  <2>3. CASE ~Exists(u) /\ Exists(v)
    BY <1>2, <1>3, <2>3 DEF TakenEmail, TakenPhone
  <2>4. CASE ~Exists(u) /\ ~Exists(v)
    BY <1>3, <2>4
  <2> QED BY <2>1, <2>2, <2>3, <2>4
<1>5. ~Registering(r)'  \/ req'[r].pc # "commit"
  BY <1>1
<1>6. \A q \in Request : Registering(q)' => q # r /\ Registering(q) /\ req'[q] = req[q]
  BY <1>1 DEF Registering
<1>7. Apart'
  BY <1>6 DEF Unique, Apart
<1>8. Free'
  <2> SUFFICES ASSUME NEW q \in Request, Registering(q)', req'[q].pc = "commit",
                      NEW u \in User, account'[u] # None
               PROVE  account'[u].email # req'[q].email /\ account'[u].phone # req'[q].phone
    BY DEF Free, TakenEmail, TakenPhone, Exists
  <2>1. q # r /\ Registering(q) /\ req'[q] = req[q] /\ req[q].pc = "commit"
    BY <1>6
  <2>2. CASE Exists(u)
    BY <1>3, <2>1, <2>2 DEF Unique, Free, TakenEmail, TakenPhone
  <2>3. CASE ~Exists(u)
    BY <1>2, <1>3, <2>1, <2>3 DEF Unique, Apart
  <2> QED BY <2>2, <2>3
<1> QED BY <1>4, <1>7, <1>8 DEF Unique

LEMMA CommitPast ==
    ASSUME Inv, Past, NEW r \in Request, Commit(r)
    PROVE  Past'
<1>1. /\ Ready(r) /\ ~Committed(r)
      /\ \A q \in Request : q # r => req'[q] = req[q]
      /\ req'[r].pc = "ok"
      /\ UNCHANGED <<req[r].kind, req[r].user, req[r].token, req[r].snapshot, req[r].seen>>
  BY CommitRequest
<1>2. /\ \A t \in Token : token[t] # None /\ token[t].revoked => token'[t].revoked
      /\ \A t \in req[r].held : token'[t].revoked
  BY CommitTokens
<1>3. /\ \A q \in Request : Committed(q) => Committed(q)'
      /\ \A q \in Request : UNCHANGED <<req[q].kind, req[q].token, req[q].snapshot, req[q].seen>>
  BY <1>1 DEF Committed
<1>4. SeenCommitted'
  <2> SUFFICES ASSUME NEW x \in Request, NEW q \in req[x].seen PROVE Committed(q)'
    BY <1>3 DEF SeenCommitted
  <2>1. q \in Request /\ Committed(q)
    BY DEF Past, SeenCommitted, Inv, TypeOK, Handler
  <2> QED BY <1>3, <2>1
<1>5. Revoked'
  <2> SUFFICES ASSUME NEW q \in Request, Committed(q)'
               PROVE  /\ req[q].kind = "refresh" => token'[req[q].token].revoked
                      /\ Sweeping(q) => \A t \in req[q].snapshot : token'[t].revoked
    BY <1>3 DEF Revoked, Sweeping
  <2>1. /\ PointOfKind(q) /\ Holds(q) /\ Refers(q) /\ req[q].snapshot \subseteq Token
    BY DEF Inv, Handles, TypeOK, Handler
  <2>2. CASE q # r
    <3>1. Committed(q)
      BY <1>1, <2>2 DEF Committed
    <3>2. /\ req[q].kind = "refresh" => token[req[q].token].revoked
          /\ Sweeping(q) => \A t \in req[q].snapshot : token[t].revoked
      BY <3>1 DEF Past, Revoked
    <3> QED BY <1>2, <2>1, <3>2 DEF Refers, Holds
  <2>3. CASE q = r
    <3>1. req[r].kind = "refresh" => req[r].token \in req[r].held
      BY <1>1, <2>1, <2>3 DEF Ready, PointOfKind, Sweeping, Holds
    <3>2. Sweeping(r) => req[r].snapshot = req[r].held
      BY <1>1, <2>1, <2>3 DEF Ready, PointOfKind, Sweeping, Holds
    <3> QED BY <1>2, <2>3, <3>1, <3>2
  <2> QED BY <2>2, <2>3
<1>6. NotReused'
  <2> SUFFICES ASSUME NEW x \in Request, req[x].kind = "refresh", NEW q \in req[x].seen
               PROVE  /\ req'[q].kind = "refresh" => req'[q].token # req[x].token
                      /\ Sweeping(q)' => req[x].token \notin req'[q].snapshot
    BY <1>3 DEF NotReused
  <2>1. q \in Request
    BY DEF Inv, TypeOK, Handler
  <2> QED BY <1>3, <2>1 DEF Past, NotReused, Sweeping
<1> QED BY <1>4, <1>5, <1>6 DEF Past

LEMMA CommitSweepSees ==
    ASSUME Inv, Past, SweepSees, NEW r \in Request, Commit(r)
    PROVE  SweepSees'
<1>1. /\ Ready(r) /\ ~Committed(r)
      /\ \A q \in Request : q # r => req'[q] = req[q]
      /\ req'[r].pc = "ok"
      /\ UNCHANGED <<req[r].kind, req[r].user, req[r].snapshot, req[r].seen>>
  BY CommitRequest
<1>2. /\ \A t \in Token : token[t] # None => token'[t].user = token[t].user
      /\ \A t \in Token : token[t] = None /\ token'[t] # None => t = r
  BY CommitTokens
<1> SUFFICES ASSUME NEW x \in Request, Sweeping(x)', req'[x].pc = "rows" \/ Committed(x)',
                    NEW t \in Seed \cup req'[x].seen,
                    token'[t] # None, token'[t].user = req'[x].user
             PROVE  t \in req'[x].snapshot
  BY DEF SweepSees
<1>3. UNCHANGED <<req[x].kind, req[x].user, req[x].snapshot, req[x].seen>>
  BY <1>1
<1>4. t \in Token /\ t # r
  BY <1>1, <1>3, SessionsAssumption
  DEF Past, SeenCommitted, Inv, TypeOK, Handler, Token
<1>5. token[t] # None /\ token[t].user = req[x].user
  BY <1>2, <1>3, <1>4
<1>6. req[x].pc = "rows" \/ Committed(x)
  <2>1. CASE x = r
    BY <1>1, <1>3, <2>1 DEF Ready, Sweeping, Inv, Handles, PointOfKind
  <2>2. CASE x # r
    BY <1>1, <2>2 DEF Committed
  <2> QED BY <2>1, <2>2
<1> QED BY <1>3, <1>5, <1>6 DEF SweepSees, Sweeping

(* The only commit that changes a role revokes every row it may be stale on *)
(* but those of requests that it overlaps.                                  *)
LEMMA CommitCarries ==
    ASSUME Inv, Unique, Past, SweepSees, Carries, NEW r \in Request, Commit(r)
    PROVE  Carries'
<1>1. /\ Ready(r) /\ ~Committed(r)
      /\ \A q \in Request : q # r => req'[q] = req[q]
      /\ req'[r].pc = "ok"
      /\ UNCHANGED <<req[r].kind, req[r].user, req[r].token, req[r].snapshot, req[r].seen>>
  BY CommitRequest
<1>2. /\ \A t \in Token : token[t] # None =>
            /\ token'[t].user = token[t].user /\ token'[t].role = token[t].role
            /\ token[t].revoked => token'[t].revoked
      /\ \A t \in Token : token[t] = None /\ token'[t] # None => t = r /\ Issues(r)
      /\ Issues(r) => token'[r] = [user |-> req[r].user, role |-> req[r].role, revoked |-> FALSE]
      /\ \A t \in req[r].held : token'[t].revoked
      /\ token[r] = None
  BY CommitTokens
<1>3. \A u \in User : Exists(u) /\ account'[u].role # account[u].role =>
          req[r].kind = "role" /\ u = req[r].user
  BY <1>1, CommitFresh, CommitAccounts
<1>4. \A q \in Request : /\ Committed(q) => Committed(q)'
                         /\ UNCHANGED <<req[q].kind, req[q].user, req[q].seen>>
  BY <1>1 DEF Committed
<1>5. ASSUME NEW t, NEW u, Overlapped(t, u) PROVE Overlapped(t, u)'
  <2>1. PICK q \in Request : /\ Committed(q) /\ req[q].kind = "role" /\ req[q].user = u
                             /\ ~After(t, q) /\ ~After(q, t)
    BY <1>5 DEF Overlapped
  <2> QED BY <1>4, <1>5, <2>1 DEF Overlapped, After
<1>6. ASSUME NEW t \in Request, NEW u, req[r].kind = "role", req[r].user = u, t \notin req[r].seen
      PROVE  Overlapped(t, u)'
  <2>1. ~After(t, r)
    BY <1>1 DEF After, Past, SeenCommitted
  <2>2. ~After(r, t)
    BY <1>6 DEF After
  <2>3. Committed(r)'
    BY <1>1 DEF Committed
  <2> QED BY <1>4, <1>6, <2>1, <2>2, <2>3 DEF Overlapped, After
<1>7. ASSUME NEW q \in Request, Issues(q)', req'[q].pc = "commit", NEW u, u = req'[q].user
      PROVE  req'[q].role = account'[u].role \/ Overlapped(q, u)'
  <2>1. q # r /\ req'[q] = req[q] /\ Issues(q) /\ ~Committed(q)
    BY <1>1, <1>7 DEF Issues, Committed
  <2>2. u \in User /\ Exists(u)
    BY <1>7, <2>1 DEF Inv, Handles, Refers, Issues, Kind
  <2>3. req[q].role = account[u].role \/ Overlapped(q, u)
    BY <1>7, <2>1 DEF Carries, Overlapped
  <2>4. q \notin req[r].seen
    BY <2>1 DEF Past, SeenCommitted
  <2> QED BY <1>3, <1>5, <1>6, <2>1, <2>2, <2>3, <2>4
<1>8. ASSUME NEW t \in Token, Live(t)', NEW u, u = token'[t].user
      PROVE  token'[t].role = account'[u].role \/ Overlapped(t, u)'
  <2>1. CASE token[t] = None
    <3>1. t = r /\ Issues(r) /\ token'[t].role = req[r].role /\ u = req[r].user
      BY <1>2, <1>8, <2>1 DEF Live
    <3>2. u \in User /\ Exists(u) /\ req[r].pc = "commit"
      BY <1>1, <3>1 DEF Inv, Handles, Refers, Issues, Ready, PointOfKind, Sweeping, Kind
    <3>3. req[r].role = account[u].role \/ Overlapped(r, u)
      BY <3>1, <3>2 DEF Carries, Overlapped
    <3> QED BY <1>3, <1>5, <3>1, <3>2, <3>3 DEF Issues
  <2>2. CASE token[t] # None
    <3>1. Live(t) /\ u = token[t].user /\ token'[t].role = token[t].role /\ t \notin req[r].held
      BY <1>2, <1>8, <2>2 DEF Live
    <3>2. u \in User /\ Exists(u)
      BY <2>2, <3>1 DEF Inv, TypeOK, Session, Issued
    <3>3. token[t].role = account[u].role \/ Overlapped(t, u)
      BY <3>1 DEF Carries, Overlapped
    <3>4. CASE account'[u].role = account[u].role \/ Overlapped(t, u)
      BY <1>5, <3>1, <3>3, <3>4
    <3>5. CASE account'[u].role # account[u].role
      <4>1. req[r].kind = "role" /\ u = req[r].user
        BY <1>3, <3>2, <3>5
      <4>2. req[r].pc = "rows" /\ req[r].rows = {} /\ req[r].snapshot = req[r].held
        BY <1>1, <4>1 DEF Ready, Inv, Handles, PointOfKind, Holds, Sweeping
      <4>3. t \notin Seed \cup req[r].seen
        BY <2>2, <3>1, <4>1, <4>2 DEF SweepSees, Sweeping
      <4> QED BY <1>6, <4>1, <4>3 DEF Token
    <3> QED BY <3>4, <3>5
  <2> QED BY <2>1, <2>2
<1> QED BY <1>7, <1>8 DEF Carries, Overlapped
-----------------------------------------------------------------------------
(* The cookie of a browser holds a token that only its own requests can     *)
(* have rotated or handed back.                                             *)

LEMMA SendCookie ==
    ASSUME Inv, NEW r \in Request, Send(r)
    PROVE  /\ jar' = jar /\ req[r].pc = "idle" /\ req'[r].pc # "answered" /\ req'[r].held = {}
           /\ req'[r].kind # None => req'[r].browser \in Browser
           /\ Rotates(r)' => /\ jar[req'[r].browser] # None
                             /\ req'[r].token = jar[req'[r].browser]
<1>1. PICK b \in Browser : \/ Register(r, b) \/ Login(r, b) \/ Refresh(r, b)
                          \/ Logout(r, b) \/ LogoutAll(r, b) \/ UpdateRole(r, b)
  BY DEF Send
<1>2. jar' = jar /\ req[r].pc = "idle"
  BY <1>1 DEF Register, Login, Refresh, Logout, LogoutAll, UpdateRole, Start, Refuse
<1>3. req'[r].pc # "answered" /\ req'[r].held = {}
  BY SendSound DEF Begun, Committed
<1>4. CASE req' = Fail(r)
  BY <1>2, <1>3, <1>4, FailMakes, SessionsAssumption DEF Inv, Rotates, Kind
<1>5. ASSUME req' # Fail(r), Register(r, b) \/ Login(r, b) \/ LogoutAll(r, b) \/ UpdateRole(r, b)
      PROVE  req'[r].browser = b /\ ~Rotates(r)'
  <2>1. \E kind \in {"register", "login", "sweep", "role"} :
            \E asked : Start(r, kind, b, asked) /\ DOMAIN asked = DOMAIN Idle
    <3>1. CASE Register(r, b)
      <4>1. PICK u \in User, e \in Email, p \in Phone :
                Start(r, "register", b, [Idle EXCEPT !.pc = "email", !.user = u, !.email = e, !.phone = p])
        BY <1>5, <3>1 DEF Register, Refuse
      <4>2. DOMAIN [Idle EXCEPT !.pc = "email", !.user = u, !.email = e, !.phone = p] = DOMAIN Idle
        OBVIOUS
      <4> QED BY <4>1, <4>2
    <3>2. CASE Login(r, b)
      <4>1. PICK u \in User :
                Start(r, "login", b, [Idle EXCEPT !.pc = "commit", !.user = u, !.role = account[u].role])
        BY <1>5, <3>2 DEF Login, Refuse, Owners
      <4>2. DOMAIN [Idle EXCEPT !.pc = "commit", !.user = u, !.role = account[u].role] = DOMAIN Idle
        OBVIOUS
      <4> QED BY <4>1, <4>2
    <3>3. CASE LogoutAll(r, b)
      <4>1. PICK u \in User : Start(r, "sweep", b, [Idle EXCEPT !.pc = "sweep", !.user = u])
        BY <3>3 DEF LogoutAll
      <4>2. DOMAIN [Idle EXCEPT !.pc = "sweep", !.user = u] = DOMAIN Idle
        OBVIOUS
      <4> QED BY <4>1, <4>2
    <3>4. CASE UpdateRole(r, b)
      <4>1. PICK u \in User, role \in Role :
                Start(r, "role", b, IF role = account[u].role
                                    THEN [Idle EXCEPT !.pc = "sweep", !.user = u]
                                    ELSE [Idle EXCEPT !.pc = "assign", !.user = u, !.role = role])
        BY <3>4 DEF UpdateRole
      <4>2. DOMAIN (IF role = account[u].role
                    THEN [Idle EXCEPT !.pc = "sweep", !.user = u]
                    ELSE [Idle EXCEPT !.pc = "assign", !.user = u, !.role = role]) = DOMAIN Idle
        OBVIOUS
      <4> QED BY <4>1, <4>2
    <3> QED BY <1>5, <3>1, <3>2, <3>3, <3>4
  <2>2. PICK kind \in {"register", "login", "sweep", "role"} :
            \E asked : Start(r, kind, b, asked) /\ DOMAIN asked = DOMAIN Idle
    BY <2>1
  <2>3. PICK asked : Start(r, kind, b, asked) /\ DOMAIN asked = DOMAIN Idle
    BY <2>2
  <2>4. \E seen : req'[r] = [asked EXCEPT !.kind = kind, !.browser = b, !.seen = seen]
    BY <2>3 DEF Start, Inv, TypeOK
  <2>5. "kind" \in DOMAIN asked /\ "browser" \in DOMAIN asked
    BY <2>3 DEF Idle
  <2>6. req'[r].browser = b /\ req'[r].kind = kind
    BY <2>4, <2>5
  <2> QED BY <2>6 DEF Rotates
<1>6. ASSUME req' # Fail(r), Refresh(r, b) \/ Logout(r, b)
      PROVE  req'[r].browser = b /\ jar[b] # None /\ req'[r].token = jar[b]
  <2>1. jar[b] # None
    BY <1>6 DEF Refresh, Logout
  <2>2. \E kind, pc, user : Start(r, kind, b, [Idle EXCEPT !.pc = pc, !.token = jar[b], !.user = user])
    BY <1>6 DEF Refresh, Logout, Refuse
  <2>3. PICK kind, pc, user :
            Start(r, kind, b, [Idle EXCEPT !.pc = pc, !.token = jar[b], !.user = user])
    BY <2>2
  <2> DEFINE asked == [Idle EXCEPT !.pc = pc, !.token = jar[b], !.user = user]
  <2>4. asked.token = jar[b] /\ DOMAIN asked = DOMAIN Idle
    BY DEF Idle
  <2>5. Start(r, kind, b, asked)
    BY <2>3
  <2> HIDE DEF asked
  <2>6. \E seen : req'[r] = [asked EXCEPT !.kind = kind, !.browser = b, !.seen = seen]
    BY <2>5 DEF Start, Inv, TypeOK
  <2>7. {"kind", "browser", "token", "seen"} \subseteq DOMAIN asked
    BY <2>4 DEF Idle
  <2> QED BY <2>1, <2>4, <2>6, <2>7
<1> QED BY <1>1, <1>2, <1>3, <1>4, <1>5, <1>6

LEMMA StepCookie ==
    ASSUME Inv, NEW r \in Request, Plain(r), ~Send(r), req' # Fail(r)
    PROVE  /\ UNCHANGED <<req[r].kind, req[r].token, req[r].browser>>
           /\ req[r].pc # "answered"
           /\ req'[r].held # req[r].held => \/ Sweeping(r)
                                            \/ req'[r].held = {req[r].token} /\ Rotates(r)
           /\ \/ Answer(r)
              \/ jar' = jar /\ req'[r].pc # "answered"
<1>1. req[r] \in Handler /\ PointOfKind(r) /\ req \in [Request -> Handler]
  BY DEF Inv, TypeOK, Handles
<1>2. UNCHANGED <<req[r].kind, req[r].token>>
  BY StepSound DEF Keeps
<1>3. CASE CheckEmail(r) \/ InsertUser(r) \/ ReadUser(r) \/ AssignRole(r) \/ Answer(r) \/ Lose(r)
  <2>1. /\ req'[r].browser = req[r].browser /\ req'[r].held = req[r].held
        /\ req[r].pc # "answered"
    BY <1>1, <1>3 DEF CheckEmail, InsertUser, ReadUser, AssignRole, Answer, Lose, Handler
  <2>2. Answer(r) \/ (jar' = jar /\ req'[r].pc # "answered")
    BY <1>1, <1>3 DEF CheckEmail, InsertUser, ReadUser, AssignRole, Lose, Handler
  <2> QED BY <1>2, <2>1, <2>2
<1>4. CASE Revoke(r)
  <2> DEFINE next == IF req[r].kind = "refresh" THEN "user" ELSE "commit"
             row == {req[r].token}
  <2>1. /\ req' = [req EXCEPT ![r].pc = next, ![r].held = row]
        /\ req[r].pc = "revoke" /\ jar' = jar /\ next # "answered"
    BY <1>4 DEF Revoke
  <2> HIDE DEF next, row
  <2>2. req'[r].browser = req[r].browser /\ req'[r].held = row /\ req'[r].pc # "answered"
    BY <1>1, <2>1 DEF Handler
  <2>3. Rotates(r)
    BY <1>1, <2>1 DEF PointOfKind, Rotates
  <2> QED BY <1>2, <2>1, <2>2, <2>3 DEF row
<1>5. CASE Sweep(r)
  <2> DEFINE found == {t \in Token : token[t] # None /\ token[t].user = req[r].user}
  <2>1. /\ req' = [req EXCEPT ![r].pc = "rows", ![r].snapshot = found, ![r].rows = found]
        /\ req[r].pc = "sweep" /\ jar' = jar
    BY <1>5 DEF Sweep
  <2> HIDE DEF found
  <2>2. req'[r].browser = req[r].browser /\ req'[r].held = req[r].held /\ req'[r].pc # "answered"
    BY <1>1, <2>1 DEF Handler
  <2> QED BY <1>2, <2>1, <2>2
<1>6. CASE SweepRow(r)
  <2>1. PICK t \in req[r].rows :
            req' = [req EXCEPT ![r].rows = @ \ {t}, ![r].held = @ \cup {t}]
    BY <1>6 DEF SweepRow
  <2>2. req[r].pc = "rows" /\ jar' = jar
    BY <1>6 DEF SweepRow
  <2>3. req'[r].browser = req[r].browser /\ req'[r].pc = req[r].pc
    BY <1>1, <2>1 DEF Handler
  <2>4. Sweeping(r)
    BY <1>1, <2>2 DEF PointOfKind
  <2> QED BY <1>2, <2>2, <2>3, <2>4
<1> QED BY <1>3, <1>4, <1>5, <1>6 DEF Plain, Deadlock, Die

LEMMA OwnsOne ==
    ASSUME TypeOK, NEW b \in Browser, NEW c \in Browser, NEW t \in Token, Owns(b, t), Owns(c, t)
    PROVE  b = c
BY SessionsAssumption DEF Owns

(* The four ways a request may take a step that commits nothing.           *)
LEMMA CookieStep ==
    ASSUME Inv, NEW r \in Request, Plain(r)
    PROVE  /\ \A q \in Request : q # r => req'[q] = req[q]
           /\ req[r].pc # "answered"
           /\ \/ Send(r) /\ jar' = jar /\ req'[r].pc # "answered"
              \/ req' = Fail(r) /\ jar' = jar /\ req'[r].pc # "answered"
              \/ /\ ~Send(r) /\ req' # Fail(r) /\ jar' = jar /\ req'[r].pc # "answered"
              \/ ~Send(r) /\ req' # Fail(r) /\ Answer(r)
<1>1. \A q \in Request : q # r => req'[q] = req[q]
  BY PlainStep
<1>2. CASE Send(r)
  BY <1>1, <1>2, SendCookie
<1>3. CASE ~Send(r) /\ req' = Fail(r)
  <2>1. req'[r].pc = "failed"
    BY <1>3, FailMakes DEF Inv
  <2>2. ~Answer(r)
    BY <2>1 DEF Answer, Inv, TypeOK, Handler
  <2>3. jar' = jar /\ req[r].pc # "answered"
    BY <1>3, <2>2
    DEF Plain, CheckEmail, InsertUser, Revoke, ReadUser, AssignRole, Sweep, SweepRow, Deadlock,
        Lose, Die, Ended
  <2> QED BY <1>1, <1>3, <2>1, <2>3
<1>4. CASE ~Send(r) /\ req' # Fail(r)
  BY <1>1, <1>4, StepCookie
<1> QED BY <1>2, <1>3, <1>4

LEMMA AnsweredStays ==
    ASSUME Inv, NEW r \in Request, Plain(r), NEW q \in Request, req[q].pc = "answered"
    PROVE  req'[q] = req[q]
BY CookieStep

LEMMA PlainOwnCookie ==
    ASSUME Inv, Kept, NEW r \in Request, Plain(r)
    PROVE  OwnCookie'
<1> SUFFICES ASSUME NEW b \in Browser, jar'[b] # None PROVE Owns(b, jar[b])'
  BY DEF OwnCookie
<1>1. CASE jar'[b] = jar[b]
  BY <1>1, AnsweredStays DEF Kept, OwnCookie, Owns
<1>2. CASE jar'[b] # jar[b]
  <2>1. ~Send(r) /\ req' # Fail(r) /\ Answer(r)
    BY <1>2, CookieStep
  <2>2. b = req[r].browser /\ jar'[b] = r
    BY <1>2, <2>1 DEF Answer, Inv, TypeOK
  <2>3. req'[r].pc = "answered" /\ req'[r].browser = req[r].browser
    <3>1. req'[r].browser = req[r].browser
      BY <2>1, StepCookie
    <3> QED BY <2>1, <3>1 DEF Answer, Inv, TypeOK, Handler
  <2> QED BY <2>2, <2>3 DEF Owns
<1> QED BY <1>1, <1>2

LEMMA PlainOwnRequest ==
    ASSUME Inv, Kept, NEW r \in Request, Plain(r)
    PROVE  OwnRequest'
<1> SUFFICES ASSUME NEW q \in Request
             PROVE  /\ req'[q].kind # None => req'[q].browser \in Browser
                    /\ Rotates(q)' => Owns(req[q].browser, req[q].token)'
                    /\ Rotates(q)' => req'[q].held \subseteq {req'[q].token}
                    /\ ~Rotates(q)' /\ ~Sweeping(q)' => req'[q].held = {}
  BY DEF OwnRequest
<1>1. /\ req[q].kind # None => req[q].browser \in Browser
      /\ Rotates(q) => Owns(req[q].browser, req[q].token)
      /\ Rotates(q) => req[q].held \subseteq {req[q].token}
      /\ ~Rotates(q) /\ ~Sweeping(q) => req[q].held = {}
  BY DEF Kept, OwnRequest
<1>2. CASE q # r
  <2>1. req'[q] = req[q]
    BY <1>2, CookieStep
  <2>2. (Rotates(q)' <=> Rotates(q)) /\ (Sweeping(q)' <=> Sweeping(q))
    BY <2>1 DEF Rotates, Sweeping
  <2>3. Rotates(q) => Owns(req[q].browser, req[q].token)'
    BY <1>1, <2>1, AnsweredStays DEF Owns
  <2> QED BY <1>1, <2>1, <2>2, <2>3
<1>3. CASE q = r /\ Send(r)
  <2>1. /\ jar' = jar /\ req'[r].held = {}
        /\ req'[r].kind # None => req'[r].browser \in Browser
        /\ Rotates(r)' => /\ jar[req'[r].browser] # None
                          /\ req'[r].token = jar[req'[r].browser]
    BY <1>3, SendCookie
  <2>2. Rotates(r)' => req'[r].kind # None
    BY SessionsAssumption DEF Rotates, Kind
  <2>3. Rotates(r)' => Owns(req'[r].browser, req'[r].token)
    BY <2>1, <2>2 DEF Kept, OwnCookie
  <2>4. Rotates(r)' => Owns(req[r].browser, req[r].token)'
    BY <2>3, AnsweredStays DEF Owns
  <2> QED BY <1>3, <2>1, <2>4
<1>4. CASE q = r /\ req' = Fail(r)
  <2>1. req'[r].kind = None /\ req'[r].held = {}
    BY <1>4, FailMakes DEF Inv
  <2>2. ~Rotates(r)'
    BY <2>1, SessionsAssumption DEF Rotates, Kind
  <2> QED BY <1>4, <2>1, <2>2
<1>5. CASE q = r /\ ~Send(r) /\ req' # Fail(r)
  <2>1. /\ UNCHANGED <<req[r].kind, req[r].token, req[r].browser>>
        /\ req'[r].held # req[r].held => \/ Sweeping(r)
                                         \/ req'[r].held = {req[r].token} /\ Rotates(r)
    BY <1>5, StepCookie
  <2>2. (Rotates(r)' <=> Rotates(r)) /\ (Sweeping(r)' <=> Sweeping(r)) /\ ~(Sweeping(r) /\ Rotates(r))
    BY <2>1 DEF Rotates, Sweeping
  <2>3. Rotates(r) => Owns(req[r].browser, req[r].token)'
    BY <1>1, <1>5, <2>1, AnsweredStays DEF Owns
  <2>4. Rotates(r) => req'[r].held \subseteq {req[r].token}
    BY <1>1, <1>5, <2>1, <2>2
  <2>5. ~Rotates(r) /\ ~Sweeping(r) => req'[r].held = {}
    BY <1>1, <1>5, <2>1
  <2> QED BY <1>1, <1>5, <2>1, <2>2, <2>3, <2>4, <2>5
<1> QED BY <1>2, <1>3, <1>4, <1>5

LEMMA PlainCookieReplaced ==
    ASSUME Inv, Kept, NEW r \in Request, Plain(r)
    PROVE  CookieReplaced'
<1> SUFFICES ASSUME NEW q \in Request, req'[q].pc = "answered", Rotates(q)', NEW b \in Browser
             PROVE  jar'[b] # req'[q].token
  BY DEF CookieReplaced
<1>1. UNCHANGED <<req[q].kind, req[q].token, req[q].browser>> /\ (q # r => req'[q] = req[q])
  <2>1. CASE q # r
    BY <2>1, CookieStep
  <2>2. CASE q = r
    BY <2>2, CookieStep, StepCookie
  <2> QED BY <2>1, <2>2
<1>2. /\ Rotates(q) /\ req[q].browser \in Browser
      /\ Owns(req[q].browser, req[q].token) /\ req[q].token \in Token
  <2>1. Rotates(q) /\ req[q].kind # None
    BY <1>1, SessionsAssumption DEF Rotates, Kind
  <2> QED BY <2>1 DEF Kept, OwnRequest, Inv, Handles, Refers, Rotates
<1>3. ASSUME Answer(r) PROVE r # req[q].token /\ req[q].token # None
  BY <1>2, <1>3, SessionsAssumption DEF Answer, Owns, Token
<1>4. CASE q # r
  <2>1. jar[b] # req[q].token
    BY <1>1, <1>2, <1>4 DEF Kept, CookieReplaced
  <2>2. jar' = jar \/ Answer(r)
    BY CookieStep
  <2>3. ASSUME Answer(r) PROVE jar'[b] \in {jar[b], r, None}
    BY <2>3 DEF Answer, Inv, TypeOK
  <2> QED BY <1>1, <1>3, <2>1, <2>2, <2>3
<1>5. CASE q = r
  <2>1. Answer(r) /\ req[r].pc = "ok"
    BY <1>5, CookieStep DEF Answer
  <2>2. CASE b = req[r].browser
    BY <1>1, <1>2, <1>3, <1>5, <2>1, <2>2 DEF Answer, Inv, TypeOK, Rotates, Issues
  <2>3. CASE b # req[r].browser
    <3>1. jar'[b] = jar[b]
      BY <2>1, <2>3 DEF Answer, Inv, TypeOK
    <3>2. ASSUME jar[b] = req[r].token PROVE FALSE
      <4>1. Owns(b, req[r].token)
        BY <1>3, <1>5, <2>1, <3>2 DEF Kept, OwnCookie
      <4> QED BY <1>2, <1>5, <2>3, <4>1, OwnsOne DEF Inv
    <3> QED BY <1>1, <1>5, <3>1, <3>2
  <2> QED BY <2>2, <2>3
<1> QED BY <1>4, <1>5

LEMMA PlainKept ==
    ASSUME Inv, Kept, NEW r \in Request, Plain(r)
    PROVE  Kept'
<1>1. RevokedForCause'
  <2> SUFFICES ASSUME NEW t \in Token, token'[t] # None, token'[t].revoked
               PROVE  \E q \in Request : RevokedBy(t, q)'
    BY DEF RevokedForCause
  <2>1. /\ UNCHANGED token
        /\ \A q \in Request : q # r => req'[q] = req[q]
        /\ (~Committed(r) /\ Begun(r)') \/ (Keeps(r) /\ Learns(r))
    BY PlainStep
  <2>2. PICK q \in Request : RevokedBy(t, q)
    BY <2>1 DEF Kept, RevokedForCause
  <2>3. CASE q # r
    BY <2>1, <2>2, <2>3 DEF RevokedBy, Committed, Rotates, Sweeping
  <2>4. CASE q = r
    <3>1. Keeps(r) /\ req[r].pc # "sweep"
      BY <2>1, <2>2, <2>4 DEF RevokedBy, Committed
    <3>2. RevokedBy(t, r)'
      BY <2>2, <2>4, <3>1 DEF Keeps, RevokedBy, Rotates, Sweeping
    <3> QED BY <3>2
  <2> QED BY <2>3, <2>4
<1> QED BY <1>1, PlainOwnCookie, PlainOwnRequest, PlainCookieReplaced DEF Kept

LEMMA CommitKept ==
    ASSUME Inv, Kept, NEW r \in Request, Commit(r)
    PROVE  Kept'
<1>1. /\ Ready(r) /\ ~Committed(r)
      /\ \A q \in Request : q # r => req'[q] = req[q]
      /\ req'[r].pc = "ok" /\ req'[r].held = {}
      /\ UNCHANGED <<req[r].kind, req[r].token, req[r].snapshot, req[r].browser>>
  BY CommitRequest
<1>2. /\ jar' = jar /\ req[r].pc # "answered"
      /\ \A q \in Request : UNCHANGED <<req[q].kind, req[q].token, req[q].snapshot, req[q].browser>>
      /\ \A q \in Request : req'[q].pc = "answered" <=> req[q].pc = "answered"
      /\ \A q \in Request : Committed(q) => Committed(q)'
      /\ \A q \in Request : req'[q].held = req[q].held \/ req'[q].held = {}
  BY <1>1 DEF Commit, Committed
<1>3. \A b, t : Owns(b, t) => Owns(b, t)'
  BY <1>2 DEF Owns
<1>4. OwnCookie'
  BY <1>2, <1>3 DEF Kept, OwnCookie
<1>5. OwnRequest'
  <2>1. \A q \in Request : (Rotates(q)' <=> Rotates(q)) /\ (Sweeping(q)' <=> Sweeping(q))
    BY <1>2 DEF Rotates, Sweeping
  <2> QED BY <1>2, <1>3, <2>1 DEF Kept, OwnRequest
<1>6. CookieReplaced'
  BY <1>2 DEF Kept, CookieReplaced, Rotates
<1>7. RevokedForCause'
  <2> SUFFICES ASSUME NEW t \in Token, token'[t] # None, token'[t].revoked
               PROVE  \E q \in Request : RevokedBy(t, q)'
    BY DEF RevokedForCause
  <2>1. \A q \in Request : RevokedBy(t, q) => RevokedBy(t, q)'
    BY <1>2 DEF RevokedBy, Rotates, Sweeping
  <2>2. CASE t \in req[r].held
    <3>1. PointOfKind(r) /\ Holds(r)
      BY DEF Inv, Handles
    <3>2. Committed(r)'
      BY <1>1 DEF Committed
    <3>3. CASE Rotates(r)
      <4>1. req[r].token = t
        BY <2>2, <3>3 DEF Kept, OwnRequest
      <4> QED BY <1>2, <3>2, <3>3, <4>1 DEF RevokedBy, Rotates
    <3>4. CASE Sweeping(r)
      <4>1. t \in req[r].snapshot
        BY <1>1, <2>2, <3>1, <3>4 DEF Ready, PointOfKind, Holds, Sweeping
      <4> QED BY <1>2, <3>2, <3>4, <4>1 DEF RevokedBy, Sweeping
    <3>5. CASE ~Rotates(r) /\ ~Sweeping(r)
      BY <2>2, <3>5 DEF Kept, OwnRequest
    <3> QED BY <3>3, <3>4, <3>5
  <2>3. CASE t \notin req[r].held
    <3>1. ~(t = r /\ Issues(r))
      <4> DEFINE new == [user |-> req[r].user, role |-> req[r].role, revoked |-> FALSE]
      <4>1. Issues(r) => token'[r] = new
        BY CommitTokens
      <4>2. ~new.revoked
        OBVIOUS
      <4> HIDE DEF new
      <4> QED BY <4>1, <4>2
    <3>2. token'[t] = token[t]
      BY <2>3, <3>1 DEF Commit
    <3> QED BY <2>1, <3>2 DEF Kept, RevokedForCause
  <2> QED BY <2>2, <2>3
<1> QED BY <1>4, <1>5, <1>6, <1>7 DEF Kept

-----------------------------------------------------------------------------
(* The invariant, and what follows from it.                                *)

IInv == Inv /\ Unique /\ Past /\ SweepSees /\ Carries /\ Kept

LEMMA InitIInv == Init => IInv
<1> SUFFICES ASSUME Init PROVE IInv
  OBVIOUS
<1> USE SessionsAssumption
<1>1. \A r \in Request :
        /\ req[r] = Idle /\ Idle \in Handler
        /\ Idle.kind = None /\ Idle.pc = "idle" /\ Idle.token = None
        /\ Idle.snapshot = {} /\ Idle.held = {} /\ Idle.seen = {}
  BY DEF Init, Idle, Handler, Point
<1>2. \A u \in User : /\ u = FirstUser => account[u] = FirstAccount
                      /\ Exists(u) => u = FirstUser
  BY DEF Init, Exists
<1>3. /\ FirstAccount.role \in Role /\ FirstAccount # None
      /\ [user |-> FirstUser, role |-> FirstAccount.role, revoked |-> FALSE] \in Session
  BY DEF Account, Session
<1>4. \A t \in Token : /\ token[t] # None => t \in Seed
                       /\ t \in Seed => /\ token[t] # None /\ ~token[t].revoked
                                        /\ token[t].user = FirstUser
                                        /\ token[t].role = account[FirstUser].role
  BY <1>2, <1>3 DEF Init
<1>5. TypeOK
  <2>1. account \in [User -> Account \cup {None}] /\ token \in [Token -> Session \cup {None}]
    BY <1>3 DEF Init
  <2>2. req \in [Request -> Handler]
    BY <1>1 DEF Init
  <2>3. jar \in [Browser -> {t \in Token : token[t] # None} \cup {None}]
    BY <1>4 DEF Init, Token
  <2> QED BY <1>1, <2>1, <2>2, <2>3 DEF TypeOK, Ended
<1>6. Handles
  BY <1>1 DEF Handles, PointOfKind, Holds, Refers, Registering, Sweeping, Issues, Committed, Kind
<1>7. Issued
  BY <1>1, <1>2, <1>3, <1>4 DEF Issued, Committed, Exists
<1>8. Unique
  BY <1>1, <1>2 DEF Unique, IdentifiersUnique, Apart, Free, Registering
<1>9. Past
  BY <1>1 DEF Past, SeenCommitted, Revoked, NotReused, Committed, Kind
<1>10. SweepSees
  BY <1>1 DEF SweepSees, Committed
<1>11. Carries
  BY <1>1, <1>4 DEF Carries, Issues, Live
<1>12. Kept
  <2>1. \A r \in Request : ~Rotates(r) /\ ~Committed(r)
    BY <1>1 DEF Rotates, Committed, Kind
  <2>2. OwnCookie
    BY DEF Init, OwnCookie, Owns
  <2>3. OwnRequest
    BY <1>1, <2>1 DEF OwnRequest
  <2> QED BY <1>4, <2>1, <2>2, <2>3 DEF Kept, CookieReplaced, RevokedForCause
<1> QED BY <1>5, <1>6, <1>7, <1>8, <1>9, <1>10, <1>11, <1>12 DEF IInv, Inv

LEMMA NextIInv == IInv /\ [Next]_vars => IInv'
<1> SUFFICES ASSUME IInv, [Next]_vars PROVE IInv'
  OBVIOUS
<1>1. CASE Next
  <2>1. PICK r \in Request : Plain(r) \/ Commit(r)
    BY <1>1 DEF Next, Step, Plain
  <2>2. CASE Plain(r)
    BY <2>2, PlainInv, PlainUnique, PlainPast, PlainSweepSees, PlainCarries, PlainKept DEF IInv
  <2>3. CASE Commit(r)
    BY <2>3, CommitInv, CommitUnique, CommitPast, CommitSweepSees, CommitCarries, CommitKept DEF IInv
  <2> QED BY <2>1, <2>2, <2>3
<1>2. CASE UNCHANGED vars
  <2>1. Kept'
    BY <1>2 DEF vars, IInv, Kept, OwnCookie, OwnRequest, CookieReplaced, RevokedForCause, Owns,
        Rotates, RevokedBy, Sweeping, Committed
  <2> QED
  BY <1>2, <2>1 DEF vars, IInv, Inv, TypeOK, Handles, PointOfKind, Holds, Refers, Registering, Sweeping,
      Issues, Committed, Issued, Unique, IdentifiersUnique, Apart, Free, TakenEmail, TakenPhone,
      Exists, Past, SeenCommitted, Revoked, NotReused, SweepSees, Carries, Overlapped, Live, After
<1> QED BY <1>1, <1>2

LEMMA Invariance == Spec => []IInv
<1> QED BY InitIInv, NextIInv, PTL DEF Spec

(* Every variable of auth-service keeps its type; a row is held by one       *)
(* transaction at a time and by none that has ended.                         *)
THEOREM SessionsTyped == Spec => []TypeOK
<1>1. IInv => TypeOK
  BY DEF IInv, Inv
<1> QED BY <1>1, Invariance, PTL

(* No two accounts share an email or a phone number, for any number of       *)
(* registrations at once.                                                    *)
THEOREM IdentifiersStayUnique == Spec => []IdentifiersUnique
<1>1. IInv => IdentifiersUnique
  BY DEF IInv, Unique
<1> QED BY <1>1, Invariance, PTL

(* Two refreshes that both succeed with one token overlapped: whoever started *)
(* when the other had committed found it revoked.                             *)
THEOREM TokensUsedOnce == Spec => []UsedOnceUnlessTogether
<1>1. IInv => UsedOnceUnlessTogether
  BY DEF IInv, Past, NotReused, UsedOnceUnlessTogether, After
<1> QED BY <1>1, Invariance, PTL

(* After a sweep every session it found is revoked for good, and none of them *)
(* is rotated into a new one by a refresh that started afterwards.            *)
THEOREM SweepsEndSessions == Spec => []SweepEndsSessions
<1>1. ASSUME IInv PROVE SweepEndsSessions
  <2> SUFFICES ASSUME NEW r \in Request, NEW t \in Token, Sweeps(r), Live(t)
               PROVE  /\ t \notin req[r].snapshot
                      /\ t \in Request /\ req[t].token \in req[r].snapshot => ~After(t, r)
    BY DEF SweepEndsSessions
  <2>1. Sweeping(r) /\ Committed(r)
    BY DEF Sweeps, Sweeping
  <2>2. t \notin req[r].snapshot
    BY <1>1, <2>1 DEF IInv, Past, Revoked, Live
  <2>3. ASSUME t \in Request, req[t].token \in req[r].snapshot, After(t, r) PROVE FALSE
    <3>1. Issues(t) /\ Refers(t) /\ req[r].snapshot \subseteq Token
      BY <1>1, <2>3 DEF IInv, Inv, Issued, Live, Handles, TypeOK, Handler
    <3>2. req[t].kind = "refresh"
      BY <2>3, <3>1, SessionsAssumption DEF Issues, Refers, Token
    <3> QED BY <1>1, <2>1, <2>3, <3>2 DEF IInv, Past, NotReused, After
  <2> QED BY <2>2, <2>3
<1> QED BY <1>1, Invariance, PTL

(* A live session carries the role its user has, unless it was issued by a    *)
(* request that overlapped the commit of a change of that role.               *)
THEOREM OldRolesOnlyInFlight == Spec => []OldRoleOnlyInFlight
<1>1. IInv => OldRoleOnlyInFlight
  BY DEF IInv, Carries, Overlapped, OldRoleOnlyInFlight
<1> QED BY <1>1, Invariance, PTL

(* A browser that has the answer of each of its committed requests holds a    *)
(* live session, however many of them ran at once, unless a sweep took it: a  *)
(* token is revoked by the request that replaces it in the cookie, or removes *)
(* it from there, in the transaction that issues the next one.                *)
THEOREM AnsweredBrowsersKeepSessions == Spec => []AnsweredBrowserKeepsItsSession
<1>1. ASSUME IInv PROVE AnsweredBrowserKeepsItsSession
  <2> SUFFICES ASSUME NEW b \in Browser, jar[b] # None,
                      \A r \in Sent(b) : Committed(r) => req[r].pc = "answered",
                      ~Live(jar[b])
               PROVE  \E r \in Request : Sweeps(r) /\ jar[b] \in req[r].snapshot
    BY DEF AnsweredBrowserKeepsItsSession
  <2>1. jar[b] \in Token /\ token[jar[b]] # None /\ token[jar[b]].revoked
    BY <1>1 DEF IInv, Inv, TypeOK, Live
  <2>2. PICK r \in Request : RevokedBy(jar[b], r)
    BY <1>1, <2>1 DEF IInv, Kept, RevokedForCause
  <2>3. CASE Sweeping(r)
    BY <2>2, <2>3 DEF RevokedBy, Rotates, Sweeps, Sweeping
  <2>4. ASSUME ~Sweeping(r) PROVE FALSE
    <3>1. Committed(r) /\ Rotates(r) /\ req[r].token = jar[b] /\ req[r].kind # None
      BY <2>2, <2>4, SessionsAssumption DEF RevokedBy, Rotates, Kind
    <3>2. req[r].browser \in Browser /\ Owns(req[r].browser, jar[b]) /\ Owns(b, jar[b])
      BY <1>1, <3>1 DEF IInv, Kept, OwnRequest, OwnCookie
    <3>3. req[r].browser = b
      BY <1>1, <2>1, <3>2, OwnsOne DEF IInv, Inv
    <3>4. req[r].pc = "answered"
      BY <3>1, <3>3 DEF Sent
    <3> QED BY <1>1, <3>1, <3>4 DEF IInv, Kept, CookieReplaced
  <2> QED BY <2>3, <2>4
<1> QED BY <1>1, Invariance, PTL
=============================================================================
