------------------------------ MODULE Sessions ------------------------------
(***************************************************************************)
(* Accounts and refresh tokens of auth-service, services/auth.py.          *)
(*                                                                         *)
(* A request is one handler in one database session.  It is started once,  *)
(* reads without locks, updates rows it then holds until it commits, and   *)
(* ends with an answer or with a rollback.  A refresh token is named after *)
(* the request that issued it (the hash is unique), Seed names the tokens  *)
(* of earlier logins.  Browsers keep the newest token in a cookie, and may *)
(* send several requests at once (tabs).                                   *)
(***************************************************************************)
EXTENDS Relation

CONSTANTS User, Email, Phone, Role, Browser, Request,
          Seed,            \* refresh tokens issued before the model starts
          FirstUser, FirstAccount,   \* whose they are
          DefaultRole,     \* UserRole.USER
          FirstJar,        \* browser -> the Seed in its cookie, or None
          Kinds,           \* the kinds of request this instance sends
          None

Account == [email : Email, phone : Phone, role : Role]
Session == [user : User, role : Role, revoked : BOOLEAN]
Kind == {"register", "login", "refresh", "logout", "sweep", "role"}

ASSUME SessionsAssumption ==
    /\ None \notin User \cup Role \cup Browser \cup Request \cup Seed \cup Kind
    /\ None \notin Account \cup Session
    /\ Seed \cap Request = {}
    /\ FirstUser \in User /\ DefaultRole \in Role
    /\ FirstAccount \in Account
    /\ FirstJar \in [Browser -> Seed \cup {None}]
    \* a refresh token is set in the cookie of one browser
    /\ \A b, c \in Browser : b # c /\ FirstJar[b] # None => FirstJar[b] # FirstJar[c]
    /\ Kinds \subseteq Kind

VARIABLES account,   \* user -> [email, phone, role], or None: the committed rows of users
          token,     \* refresh token -> [user, role, revoked], or None: the committed rows
          req,       \* request -> where its handler is
          jar        \* browser -> the refresh token in its cookie

vars == <<account, token, req, jar>>

Token == Seed \cup Request
Ended == {"answered", "lost", "failed"}

Point == {"idle", "email", "insert", "revoke", "user", "assign", "sweep", "rows", "commit",
         "ok"} \cup Ended
Handler == [kind : Kind \cup {None}, pc : Point, browser : Browser \cup {None},
            user : User \cup {None}, token : Token \cup {None},
            email : Email \cup {None}, phone : Phone \cup {None}, role : Role \cup {None},
            rows : SUBSET Token, snapshot : SUBSET Token, held : SUBSET Token,
            seen : SUBSET Request]

Idle == [kind |-> None, pc |-> "idle", browser |-> None, user |-> None, token |-> None,
         email |-> None, phone |-> None, role |-> None,
         rows |-> {}, snapshot |-> {}, held |-> {}, seen |-> {}]

TypeOK ==
    /\ account \in [User -> Account \cup {None}]
    /\ token \in [Token -> Session \cup {None}]
    /\ req \in [Request -> Handler]
    /\ jar \in [Browser -> {t \in Token : token[t] # None} \cup {None}]
    \* a row is held by one transaction at a time, and by none that has ended
    /\ \A q, r \in Request : q # r => req[q].held \cap req[r].held = {}
    /\ \A r \in Request : req[r].pc \in Ended => req[r].held = {}

Init ==
    /\ account = [u \in User |-> IF u = FirstUser THEN FirstAccount ELSE None]
    /\ token = [t \in Token |->
                  IF t \in Seed
                  THEN [user |-> FirstUser, role |-> FirstAccount.role, revoked |-> FALSE]
                  ELSE None]
    /\ req = [r \in Request |-> Idle]
    /\ jar = FirstJar

-----------------------------------------------------------------------------
(* A request's session: its transaction ends with a commit, or the session *)
(* is closed and the transaction rolled back.                              *)

Committed(r) == req[r].pc \in {"ok", "answered", "lost"}
Exists(u) == account[u] # None

Start(r, kind, b, asked) ==
    /\ kind \in Kinds /\ req[r].pc = "idle"
    /\ req' = [req EXCEPT ![r] = [asked EXCEPT !.kind = kind, !.browser = b,
                                               !.seen = {q \in Request : Committed(q)}]]

\* What a committed request leaves behind, and one that is rolled back with an
\* error answer or none.
Close(r) ==
    [req EXCEPT ![r] = [Idle EXCEPT !.pc = "ok", !.kind = req[r].kind, !.browser = req[r].browser,
                                    !.user = req[r].user, !.token = req[r].token,
                                    !.snapshot = req[r].snapshot, !.seen = req[r].seen]]
Fail(r) == [req EXCEPT ![r] = [Idle EXCEPT !.pc = "failed"]]
Refuse(r, kind) == kind \in Kinds /\ req[r].pc = "idle" /\ req' = Fail(r)

\* PostgreSQL: another open transaction has updated the row.
Locked(t, r) == \E q \in Request \ {r} : t \in req[q].held

-----------------------------------------------------------------------------
(* register                                                                *)

TakenEmail(e) == \E u \in User : Exists(u) /\ account[u].email = e
TakenPhone(p) == \E u \in User : Exists(u) /\ account[u].phone = p

\* The id of a new user is a fresh uuid.
Register(r, b) == \E u \in User, e \in Email, p \in Phone :
    /\ ~Exists(u) /\ \A q \in Request : req[q].user # u
    /\ IF TakenPhone(p)
       THEN Refuse(r, "register")
       ELSE Start(r, "register", b, [Idle EXCEPT !.pc = "email", !.user = u, !.email = e, !.phone = p])
    /\ UNCHANGED <<account, token, jar>>

CheckEmail(r) ==
    /\ req[r].pc = "email"
    /\ req' = IF TakenEmail(req[r].email) THEN Fail(r) ELSE [req EXCEPT ![r].pc = "insert"]
    /\ UNCHANGED <<account, token, jar>>

\* The insert waits for an open insert of the same email or phone number; a
\* committed one refuses it.
Inserting(r, q) == /\ req[q].kind = "register" /\ req[q].pc = "commit"
                   /\ \/ req[q].email = req[r].email
                      \/ req[q].phone = req[r].phone
InsertUserUnchecked(r) ==
    /\ req[r].pc = "insert"
    /\ req' = [req EXCEPT ![r].pc = "commit"]
    /\ UNCHANGED <<account, token, jar>>
InsertUser(r) ==
    /\ req[r].pc = "insert"
    /\ \A q \in Request \ {r} : ~Inserting(r, q)
    /\ req' = IF TakenEmail(req[r].email) \/ TakenPhone(req[r].phone)
              THEN Fail(r) ELSE [req EXCEPT ![r].pc = "commit"]
    /\ UNCHANGED <<account, token, jar>>

-----------------------------------------------------------------------------
(* login by email or phone number: the user is read, and the role that goes *)
(* into the tokens with it                                                  *)

Owners(id) == {u \in User : Exists(u) /\ id \in {account[u].email, account[u].phone}}

Login(r, b) ==
    /\ \/ Refuse(r, "login")            \* nobody has it, or the password is wrong
       \/ \E id \in Email \cup Phone : \E u \in Owners(id) :
             Start(r, "login", b, [Idle EXCEPT !.pc = "commit", !.user = u, !.role = account[u].role])
    /\ UNCHANGED <<account, token, jar>>

-----------------------------------------------------------------------------
(* refresh_tokens: the token is read, revoked under its row lock, then the  *)
(* user is read and a new token issued; one commit for all.                 *)

RefreshUnchecked(r, b) ==
    /\ jar[b] # None
    /\ Start(r, "refresh", b, [Idle EXCEPT !.pc = "revoke", !.token = jar[b], !.user = token[jar[b]].user])
    /\ UNCHANGED <<account, token, jar>>
Refresh(r, b) ==
    /\ jar[b] # None
    /\ \/ Refuse(r, "refresh")                         \* it has expired
       \/ /\ ~token[jar[b]].revoked
          /\ Start(r, "refresh", b, [Idle EXCEPT !.pc = "revoke", !.token = jar[b],
                                                !.user = token[jar[b]].user])
    /\ UNCHANGED <<account, token, jar>>

\* UPDATE ... WHERE id waits for the row; a concurrent change of is_revoked does
\* not stop it, for the row still matches.
RevokeAndCommit(r) ==
    /\ req[r].pc = "revoke" /\ ~Locked(req[r].token, r)
    /\ req' = [req EXCEPT ![r].pc = IF req[r].kind = "refresh" THEN "user" ELSE "commit"]
    /\ token' = [token EXCEPT ![req[r].token].revoked = TRUE]
    /\ UNCHANGED <<account, jar>>
Revoke(r) ==
    /\ req[r].pc = "revoke" /\ ~Locked(req[r].token, r)
    /\ req' = [req EXCEPT ![r].pc = IF req[r].kind = "refresh" THEN "user" ELSE "commit",
                          ![r].held = {req[r].token}]
    /\ UNCHANGED <<account, token, jar>>

ReadUser(r) ==
    /\ req[r].pc = "user"
    /\ req' = [req EXCEPT ![r].pc = "commit", ![r].role = account[req[r].user].role]
    /\ UNCHANGED <<account, token, jar>>

\* logout: no check of the token; nothing to update when it was read as revoked.
Logout(r, b) ==
    /\ jar[b] # None
    /\ Start(r, "logout", b, [Idle EXCEPT !.pc = IF token[jar[b]].revoked THEN "commit" ELSE "revoke",
                                         !.token = jar[b], !.user = token[jar[b]].user])
    /\ UNCHANGED <<account, token, jar>>

-----------------------------------------------------------------------------
(* logout_all, and update_user_role which ends with the same sweep          *)

LogoutAll(r, b) == \E u \in User :
    /\ Exists(u)
    /\ Start(r, "sweep", b, [Idle EXCEPT !.pc = "sweep", !.user = u])
    /\ UNCHANGED <<account, token, jar>>

\* An attribute set to the value it was loaded with is not written: role is None.
UpdateRole(r, b) == \E u \in User, role \in Role :
    /\ Exists(u)
    /\ Start(r, "role", b, IF role = account[u].role
                           THEN [Idle EXCEPT !.pc = "sweep", !.user = u]
                           ELSE [Idle EXCEPT !.pc = "assign", !.user = u, !.role = role])
    /\ UNCHANGED <<account, token, jar>>

\* The row of the user is held by an update that is not committed.
Assigning(r, q) == /\ req[q].kind = "role" /\ req[q].role # None
                   /\ req[q].user = req[r].user /\ req[q].pc \in {"sweep", "rows"}
AssignRoleAlone(r) ==
    /\ req[r].pc = "assign" /\ \A q \in Request \ {r} : ~Assigning(r, q)
    /\ req' = [req EXCEPT ![r].pc = "commit"]
    /\ UNCHANGED <<account, token, jar>>
AssignRole(r) ==
    /\ req[r].pc = "assign" /\ \A q \in Request \ {r} : ~Assigning(r, q)
    /\ req' = [req EXCEPT ![r].pc = "sweep"]
    /\ UNCHANGED <<account, token, jar>>

\* UPDATE ... WHERE user_id: the rows are those committed when the statement
\* starts, and are taken one by one.
Sweep(r) ==
    /\ req[r].pc = "sweep"
    /\ LET rows == {t \in Token : token[t] # None /\ token[t].user = req[r].user}
       IN req' = [req EXCEPT ![r].pc = "rows", ![r].snapshot = rows, ![r].rows = rows]
    /\ UNCHANGED <<account, token, jar>>

SweepRowSkipping(r) == \E t \in req[r].rows :
    /\ req[r].pc = "rows"
    /\ req' = [req EXCEPT ![r].rows = @ \ {t},
                          ![r].held = IF Locked(t, r) THEN @ ELSE @ \cup {t}]
    /\ UNCHANGED <<account, token, jar>>
SweepRow(r) == \E t \in req[r].rows :
    /\ req[r].pc = "rows" /\ ~Locked(t, r)
    /\ req' = [req EXCEPT ![r].rows = @ \ {t}, ![r].held = @ \cup {t}]
    /\ UNCHANGED <<account, token, jar>>

\* PostgreSQL ends one of the transactions that wait for one another.
WaitsFor == [q, r \in Request |->
                /\ req[q].pc = "rows" /\ \A t \in req[q].rows : Locked(t, q)
                /\ req[q].rows \cap req[r].held # {}]
Deadlock(r) ==
    /\ req[r].pc = "rows"
    /\ TransitiveClosure(WaitsFor, Request)[<<r, r>>]
    /\ req' = Fail(r)
    /\ UNCHANGED <<account, token, jar>>

-----------------------------------------------------------------------------
(* The commit, the answer with its cookie, and what may go wrong            *)

Issues(r) == req[r].kind \in {"login", "refresh"}

Commit(r) ==
    /\ req[r].pc = "commit" \/ (req[r].pc = "rows" /\ req[r].rows = {})
    /\ token' = [t \in Token |->
                   IF t = r /\ Issues(r)
                   THEN [user |-> req[r].user, role |-> req[r].role, revoked |-> FALSE]
                   ELSE IF t \in req[r].held THEN [token[t] EXCEPT !.revoked = TRUE]
                   ELSE token[t]]
    /\ account' = IF req[r].kind = "register"
                  THEN [account EXCEPT ![req[r].user] =
                          [email |-> req[r].email, phone |-> req[r].phone,
                           role |-> DefaultRole]]
                  ELSE IF req[r].kind = "role" /\ req[r].role # None
                  THEN [account EXCEPT ![req[r].user].role = req[r].role]
                  ELSE account
    /\ req' = Close(r)
    /\ UNCHANGED jar

Answer(r) ==
    /\ req[r].pc = "ok"
    /\ req' = [req EXCEPT ![r].pc = "answered"]
    /\ jar' = CASE Issues(r) -> [jar EXCEPT ![req[r].browser] = r]
                [] req[r].kind = "logout" -> [jar EXCEPT ![req[r].browser] = None]
                [] OTHER -> jar
    /\ UNCHANGED <<account, token>>

Lose(r) == /\ req[r].pc = "ok"
           /\ req' = [req EXCEPT ![r].pc = "lost"]
           /\ UNCHANGED <<account, token, jar>>

\* The handler is cancelled or its connection fails before the commit.
Die(r) == /\ req[r].pc \notin Ended \cup {"idle", "ok"}
          /\ req' = Fail(r)
          /\ UNCHANGED <<account, token, jar>>

Send(r) == \E b \in Browser : \/ Register(r, b) \/ Login(r, b) \/ Refresh(r, b)
                              \/ Logout(r, b) \/ LogoutAll(r, b) \/ UpdateRole(r, b)
Step(r) == \/ CheckEmail(r) \/ InsertUser(r) \/ Revoke(r) \/ ReadUser(r) \/ AssignRole(r)
           \/ Sweep(r) \/ SweepRow(r) \/ Deadlock(r) \/ Commit(r) \/ Answer(r)

Next == \E r \in Request : Send(r) \/ Step(r) \/ Lose(r) \/ Die(r)

Spec == Init /\ [][Next]_vars

-----------------------------------------------------------------------------
(* Properties.  "After" means: r started when q had committed.             *)

After(r, q) == q \in req[r].seen
Sweeps(r) == Committed(r) /\ req[r].kind \in {"sweep", "role"}
Live(t) == token[t] # None /\ ~token[t].revoked

\* No two accounts share an email or a phone number, although register checks
\* them long before it inserts.
IdentifiersUnique ==
    \A u, v \in {x \in User : Exists(x)} : u # v =>
        account[u].email # account[v].email /\ account[u].phone # account[v].phone

\* auth.py:178: a token is used only once, as far as the code can keep that: two
\* refreshes that both succeed with one token overlapped.
UsedOnceUnlessTogether ==
    \A q, r \in Request :
        (/\ q # r /\ Committed(q) /\ Committed(r)
         /\ req[q].kind = "refresh" /\ req[r].kind = "refresh" /\ req[q].token = req[r].token)
        => ~After(q, r) /\ ~After(r, q)

\* logout_all and a change of role end every session there was: what stays alive
\* was issued by a login, or rotated by a refresh, that did not wait for the sweep.
SweepEndsSessions ==
    \A r \in Request, t \in Token :
        (Sweeps(r) /\ Live(t)) =>
            /\ t \notin req[r].snapshot
            /\ t \in Request /\ req[t].token \in req[r].snapshot => ~After(t, r)

\* A live session whose tokens carry another role than its user has was issued by a
\* request that overlapped the change of the role.
OldRoleOnlyInFlight ==
    \A t \in Token : (Live(t) /\ token[t].role # account[token[t].user].role) =>
        /\ t \in Request
        /\ \E r \in Request : /\ Committed(r) /\ req[r].kind = "role"
                              /\ req[r].user = token[t].user
                              /\ ~After(t, r) /\ ~After(r, t)

\* A browser that has the answer of each of its requests that committed holds a live
\* session, however its requests overlapped, unless a sweep of its user took it: a
\* rotation is never half done.
Sent(b) == {r \in Request : req[r].browser = b}      \* a failed one left nothing
AnsweredBrowserKeepsItsSession ==
    \A b \in Browser :
        (/\ jar[b] # None
         /\ \A r \in Sent(b) : Committed(r) => req[r].pc = "answered")
        => \/ Live(jar[b])
           \/ \E r \in Request : Sweeps(r) /\ jar[b] \in req[r].snapshot
=============================================================================
